-------------------------- MODULE DeepSleepProofs --------------------------
(***************************************************************************)
(* Proofs about DeepSleep, for every network configuration and every table *)
(* size of at least one.  The inductive invariant WalkInv says how index,  *)
(* table_size and the limit flags go together while the lists are walked:  *)
(* below the limit index and table_size are equal, from the limit on index *)
(* stays at the last slot and table_size has grown by at most one for each *)
(* device that was left.  On top of it ExactInv says what the tables hold  *)
(* when the addresses fit: the wanted entries the walk has passed, each in *)
(* the slot that is its rank.                                              *)
(***************************************************************************)
EXTENDS DeepSleep, FiniteSetTheorems, FunctionTheorems, TLAPS

\* The devices table t has been offered so far, counted from 1.
Passed(t) == IF pc = FamilyOf(t) THEN d
             ELSE IF pc = "v4" THEN 0 ELSE Len(net.devs) + 1

IndexFollowsSize(t) ==
    /\ table_size[t] < Cap[t] => index[t] = table_size[t]
    /\ table_size[t] >= Cap[t] => index[t] = Cap[t] - 1

OverrunByDevice(t) ==
    table_size[t] >= Cap[t] =>
        \/ maxlim[t] /\ table_size[t] = Cap[t]
        \/ table_size[t] - Cap[t] + 2 =< Passed(t)

Genuine(t, i) ==
    \E j \in 0..Len(net.devs) : \E a \in Range(Addrs(FamilyOf(t), j)) :
        tbl[t][i] = EntryOf(j, a)

WalkInv ==
    Walking =>
        /\ pc = "v4" => ~maxlim["arp"]
        /\ \A t \in Kind :
            /\ IndexFollowsSize(t)
            /\ OverrunByDevice(t)
            /\ \A i \in 0..(Cap[t] - 1) : i < table_size[t] => Genuine(t, i)

IInv == TypeOK /\ InBounds /\ WalkInv

\* The wanted entries of table t that the walk has passed.
Behind(t, w) ==
    IF pc = FamilyOf(t) THEN w.dev < d \/ (w.dev = d /\ w.pos < k)
                        ELSE pc # "v4"

Seen(t) == {w \in Wanted(t) : Behind(t, w)}

ExactSoFar(t) ==
    /\ t # "arp" => ~maxlim[t]
    /\ table_size[t] = Cardinality(Seen(t))
    /\ \A w \in Seen(t) : tbl[t][SlotOf(t, w)] = w.entry

ExactInv == Walking => \A t \in Kind : Fits(t) => ExactSoFar(t)

-----------------------------------------------------------------------------
(* Typing of the helpers                                                   *)

\* Every table has at least one slot.
LEMMA CapType == \A t \in Kind : Cap[t] \in Nat /\ Cap[t] >= 1
  BY SizeAssumption DEF Cap

\* The present network configuration has its type.
LEMMA NetType ==
  ASSUME TypeOK
  PROVE  /\ net.mac \in MAC
         /\ \A f \in Family : net[f] \in Seq(Addr)
         /\ net.devs \in Seq(Dev) /\ Len(net.devs) \in Nat
<1>1. net \in Net
  BY NetAssumption DEF TypeOK
<1> QED  BY <1>1 DEF Net, Family

\* The list walked for a device holds addresses.
LEMMA AddrsType ==
  ASSUME TypeOK, NEW f \in Family, NEW j \in 0..Len(net.devs)
  PROVE  Addrs(f, j) \in Seq(Addr) /\ Len(Addrs(f, j)) \in Nat
<1>1. CASE j = 0
  BY <1>1, NetType DEF Addrs
<1>2. CASE j # 0
  <2>1. net.devs[j] \in Dev
    BY <1>2, NetType
  <2>2. net.devs[j][f] \in Seq(Addr)
    BY <2>1 DEF Dev, Family
  <2>3. Addrs(f, j) \in {net.devs[j][f], <<>>}
    BY <1>2 DEF Addrs
  <2>4. <<>> \in Seq(Addr)
    OBVIOUS
  <2>5. Addrs(f, j) \in Seq(Addr)
    BY <2>2, <2>3, <2>4
  <2> QED  BY <2>5
<1> QED  BY <1>1, <1>2

\* What is written for an address is a table entry.
LEMMA EntryType ==
  ASSUME TypeOK, NEW j \in 0..Len(net.devs), NEW a \in Addr
  PROVE  EntryOf(j, a) \in Entry
<1>1. CASE j = 0
  BY <1>1, NetType, NetAssumption DEF EntryOf, Entry, Addr
<1>2. CASE j # 0
  <2>1. net.devs[j] \in Dev
    BY <1>2, NetType
  <2> QED  BY <1>2, <2>1 DEF EntryOf, Entry, Addr, Dev
<1> QED  BY <1>1, <1>2

\* An address goes to a table of its family that the port has not filled.
LEMMA TargetType ==
  ASSUME TypeOK, NEW f \in Family, NEW a \in Addr, NEW t \in Target(f, a)
  PROVE  /\ t \in Kind
         /\ FamilyOf(t) = f
         /\ f = "v6" => ~maxlim[t]
  BY DEF Target, Kind, Family, FamilyOf

-----------------------------------------------------------------------------
(* The walk                                                                *)

\* While the lists are walked their sources stay as they are.
LEMMA SourcesStay ==
  ASSUME net' = net
  PROVE  /\ \A f, j : Addrs(f, j)' = Addrs(f, j)
         /\ \A j, a : EntryOf(j, a)' = EntryOf(j, a)
  BY DEF Addrs, EntryOf

\* Moving on without storing.
LEMMA MoveKeepsIInv ==
  ASSUME IInv, NEW f \in Family, EndOfList(f) \/ Skip(f)
  PROVE  IInv'
<1>1. /\ pc = f /\ d \in 0..Len(net.devs) /\ k \in Nat \ {0}
      /\ UNCHANGED <<stack, pm, index, maxlim, tables, fman, status>>
      /\ NextDev(f, maxlim) \/ NextAddr(f)
  <2>1. pc = f /\ (NextDev(f, maxlim) \/ NextAddr(f))
      /\ UNCHANGED <<stack, pm, index, maxlim, tables, fman, status>>
    BY DEF EndOfList, Skip
  <2> QED  BY <2>1 DEF IInv, TypeOK, Walking, Family
<1>2. Len(net.devs) \in Nat
  BY NetType DEF IInv
<1>3. \/ pc' = f /\ d' \in {d, d + 1} /\ d' =< Len(net.devs) /\ k' \in Nat \ {0}
      \/ /\ pc' = After(f) /\ d' = 0 /\ k' = 1
         /\ d = Len(net.devs) \/ (f = "v4" /\ maxlim["arp"])
  BY <1>1, <1>2 DEF NextDev, NextAddr
<1>4. TypeOK'
  BY <1>1, <1>2, <1>3
     DEF IInv, TypeOK, Walking, Family, After, stack, tables, fman
<1>5. InBounds'
  BY <1>1 DEF IInv, InBounds
<1>6. Walking /\ ~(pc = "v4" /\ maxlim["arp"])
  BY <1>1 DEF IInv, WalkInv, Walking
<1>7. net' = net /\ table_size' = table_size /\ tbl' = tbl
      /\ index' = index /\ maxlim' = maxlim
  BY <1>1 DEF stack, tables
<1>8. ASSUME NEW t \in Kind
      PROVE  Passed(t) \in Nat /\ Passed(t)' \in Nat /\ Passed(t) =< Passed(t)'
  BY <1>1, <1>2, <1>3, <1>6, <1>7
     DEF Passed, FamilyOf, Family, After
<1>9. ASSUME NEW t \in Kind
      PROVE  /\ IndexFollowsSize(t)'
             /\ OverrunByDevice(t)'
             /\ \A i \in 0..(Cap[t] - 1) : i < table_size'[t] => Genuine(t, i)'
  <2>1. /\ IndexFollowsSize(t) /\ OverrunByDevice(t)
        /\ \A i \in 0..(Cap[t] - 1) : i < table_size[t] => Genuine(t, i)
    BY <1>6 DEF IInv, WalkInv
  <2>2. IndexFollowsSize(t)'
    BY <1>7, <2>1 DEF IndexFollowsSize
  <2>3. OverrunByDevice(t)'
    BY <1>7, <1>8, <2>1, CapType DEF OverrunByDevice, IInv, TypeOK
  <2>4. \A i \in 0..(Cap[t] - 1) : i < table_size'[t] => Genuine(t, i)'
    BY <1>7, <2>1, SourcesStay DEF Genuine
  <2> QED  BY <2>2, <2>3, <2>4
<1>10. pc' = "v4" => ~maxlim'["arp"]
  BY <1>1, <1>3, <1>6, <1>7 DEF After, Family
<1> QED  BY <1>4, <1>5, <1>9, <1>10 DEF IInv, WalkInv

\* Storing an address in table t.
LEMMA StoreKeepsIInv ==
  ASSUME IInv, NEW f \in Family, Store(f)
  PROVE  IInv'
<1> DEFINE addr == Addrs(f, d)[k]
           e == EntryOf(d, addr)
<1>1. PICK t \in Target(f, addr) :
        /\ tbl' = Put(t, e)
        /\ table_size' = [table_size EXCEPT ![t] = @ + 1]
        /\ IF AtLimit(t)
           THEN Break(f, t)
           ELSE /\ index' = [index EXCEPT ![t] = @ + 1]
                /\ NextAddr(f)
                /\ UNCHANGED maxlim
  BY DEF Store
<1>2. /\ pc = f /\ Walking /\ d \in 0..Len(net.devs) /\ Len(net.devs) \in Nat
      /\ UNCHANGED <<stack, pm, fman, status>>
      /\ k =< Len(Addrs(f, d))
  <2>1. pc = f /\ k =< Len(Addrs(f, d)) /\ UNCHANGED <<stack, pm, fman, status>>
    BY DEF Store
  <2> QED  BY <2>1, NetType DEF IInv, TypeOK, Walking, Family
<1>3. addr \in Range(Addrs(f, d)) /\ addr \in Addr
  <2>1. Addrs(f, d) \in Seq(Addr) /\ Len(Addrs(f, d)) \in Nat
    BY <1>2, AddrsType DEF IInv
  <2>2. k \in Nat /\ k >= 1
    BY DEF IInv, TypeOK
  <2>3. k \in DOMAIN Addrs(f, d)
    BY <1>2, <2>1, <2>2
  <2> QED  BY <2>1, <2>3 DEF Range
<1>4. t \in Kind /\ FamilyOf(t) = f /\ (f = "v6" => ~maxlim[t])
  BY <1>3, TargetType DEF IInv
<1>5. ~maxlim[t]
  BY <1>2, <1>4 DEF IInv, WalkInv, FamilyOf, Family, Kind
<1>6. e \in Entry
  BY <1>2, <1>3, EntryType DEF IInv
<1>7. /\ Cap[t] \in Nat /\ Cap[t] >= 1 /\ table_size[t] \in Nat
      /\ index[t] \in Nat /\ index[t] < Cap[t]
      /\ IndexFollowsSize(t) /\ OverrunByDevice(t)
  BY <1>2, <1>4, CapType DEF IInv, TypeOK, InBounds, WalkInv
<1>8. tbl' = [tbl EXCEPT ![t] = [tbl[t] EXCEPT ![index[t]] = e]]
  BY <1>1, <1>7 DEF Put
<1>9. net' = net
  BY <1>2 DEF stack
<1> HIDE DEF addr, e
<1>10. /\ table_size' \in [Kind -> Nat]
       /\ table_size'[t] = table_size[t] + 1
       /\ \A s \in Kind \ {t} : table_size'[s] = table_size[s]
  BY <1>1, <1>4, <1>7 DEF IInv, TypeOK
<1>11. /\ DOMAIN tbl' = Kind
       /\ \A s \in Kind : tbl'[s] \in [0..(Cap[s] - 1) -> Entry \cup {Unused}]
       /\ tbl'[t][index[t]] = e
       /\ \A i \in 0..(Cap[t] - 1) : i # index[t] => tbl'[t][i] = tbl[t][i]
       /\ \A s \in Kind \ {t} : tbl'[s] = tbl[s]
  BY <1>4, <1>6, <1>7, <1>8 DEF IInv, TypeOK
<1>12. AtLimit(t) <=> table_size[t] + 1 >= Cap[t]
  BY DEF AtLimit
<1>13. /\ index' \in [Kind -> Nat]
       /\ index'[t] = IF AtLimit(t) THEN index[t] ELSE index[t] + 1
       /\ \A s \in Kind \ {t} : index'[s] = index[s]
  BY <1>1, <1>4, <1>7 DEF IInv, TypeOK, Break
<1>14. /\ maxlim' \in [Kind -> BOOLEAN]
       /\ maxlim'[t] <=> (AtLimit(t) /\ d = 0)
       /\ \A s \in Kind \ {t} : maxlim'[s] = maxlim[s]
  <2>1. CASE AtLimit(t)
    <3>1. maxlim' = [maxlim EXCEPT ![t] = maxlim[t] \/ d = 0]
      BY <1>1, <2>1 DEF Break
    <3>2. maxlim \in [Kind -> BOOLEAN]
      BY DEF IInv, TypeOK
    <3> QED  BY <1>4, <1>5, <2>1, <3>1, <3>2
  <2>2. CASE ~AtLimit(t)
    BY <1>1, <1>5, <2>2 DEF IInv, TypeOK
  <2> QED  BY <2>1, <2>2
<1>15. \/ ~AtLimit(t) /\ pc' = f /\ d' = d /\ k' = k + 1
       \/ /\ AtLimit(t) /\ pc' = f /\ d' = d + 1 /\ k' = 1
          /\ d # Len(net.devs) /\ ~(f = "v4" /\ maxlim'["arp"])
       \/ /\ AtLimit(t) /\ pc' = After(f) /\ d' = 0 /\ k' = 1
          /\ d = Len(net.devs) \/ (f = "v4" /\ maxlim'["arp"])
  BY <1>1 DEF Break, NextDev, NextAddr
<1>16. TypeOK'
  <2>1. /\ pc' \in {"idle", "device", "v4", "v6", "handoff"}
        /\ d' \in Nat /\ k' \in Nat \ {0} /\ d' =< Len(net.devs)
    BY <1>2, <1>15 DEF After, Family, IInv, TypeOK
  <2> QED  BY <1>2, <1>9, <1>10, <1>11, <1>13, <1>14, <2>1
           DEF IInv, TypeOK, stack, fman
<1>17. InBounds'
  <2>1. index'[t] < Cap[t]
    BY <1>7, <1>12, <1>13 DEF IndexFollowsSize
  <2> QED  BY <1>13, <2>1 DEF IInv, InBounds
<1>18. pc' = "v4" => ~maxlim'["arp"]
  <2>1. CASE t = "arp"
    BY <1>2, <1>5, <1>14, <1>15, <2>1 DEF After, Family
  <2>2. CASE t # "arp"
    BY <1>4, <1>15, <2>2 DEF FamilyOf, After
  <2> QED  BY <2>1, <2>2
<1>19. ASSUME NEW s \in Kind \ {t}
       PROVE  /\ IndexFollowsSize(s)'
              /\ OverrunByDevice(s)'
              /\ \A i \in 0..(Cap[s] - 1) : i < table_size'[s] => Genuine(s, i)'
  <2>1. /\ IndexFollowsSize(s) /\ OverrunByDevice(s)
        /\ \A i \in 0..(Cap[s] - 1) : i < table_size[s] => Genuine(s, i)
    BY <1>2 DEF IInv, WalkInv
  <2>2. IndexFollowsSize(s)'
    BY <1>10, <1>13, <2>1 DEF IndexFollowsSize
  <2>3. \A i \in 0..(Cap[s] - 1) : i < table_size'[s] => Genuine(s, i)'
    BY <1>9, <1>10, <1>11, <2>1, SourcesStay DEF Genuine
  <2>4. Passed(s) \in Nat /\ Passed(s)' \in Nat /\ Passed(s) =< Passed(s)'
    <3>1. f = "v4" => FamilyOf(s) = "v6"
      BY <1>4 DEF FamilyOf, Kind
    <3> QED  BY <1>2, <1>9, <1>15, <3>1 DEF Passed, FamilyOf, Family, After
  <2>5. OverrunByDevice(s)'
    BY <1>10, <1>14, <2>1, <2>4, CapType DEF OverrunByDevice, IInv, TypeOK
  <2> QED  BY <2>2, <2>3, <2>5
<1>20. IndexFollowsSize(t)'
  BY <1>7, <1>10, <1>12, <1>13 DEF IndexFollowsSize
<1>21. OverrunByDevice(t)'
  <2>1. CASE ~AtLimit(t)
    BY <1>7, <1>10, <1>12, <2>1 DEF OverrunByDevice
  <2>2. CASE AtLimit(t) /\ d = 0
    <3>1. Passed(t) = 0
      BY <1>2, <1>4, <2>2 DEF Passed
    <3>2. table_size[t] < Cap[t]
      BY <1>5, <1>7, <3>1 DEF OverrunByDevice
    <3>3. table_size'[t] = Cap[t]
      BY <1>7, <1>10, <1>12, <2>2, <3>2
    <3> QED  BY <1>14, <2>2, <3>3 DEF OverrunByDevice
  <2>3. CASE AtLimit(t) /\ d # 0
    <3>1. Passed(t) = d
      BY <1>2, <1>4 DEF Passed
    <3>2. table_size[t] >= Cap[t] => table_size[t] - Cap[t] + 2 =< d
      BY <1>5, <1>7, <3>1 DEF OverrunByDevice
    <3>3. table_size'[t] - Cap[t] + 2 =< d + 1
      BY <1>2, <1>7, <1>10, <2>3, <3>2
    <3>4. Passed(t)' \in Nat /\ Passed(t)' >= d + 1
      <4>1. ~(f = "v4" /\ maxlim'["arp"])
        BY <1>4, <1>14, <2>3 DEF FamilyOf, Kind
      <4> QED  BY <1>2, <1>4, <1>9, <1>15, <2>3, <4>1
               DEF Passed, After, Family, FamilyOf
    <3> QED  BY <1>2, <1>7, <1>10, <3>3, <3>4 DEF OverrunByDevice
  <2> QED  BY <2>1, <2>2, <2>3
<1>22. ASSUME NEW i \in 0..(Cap[t] - 1), i < table_size'[t]
       PROVE  Genuine(t, i)'
  <2>1. CASE i = index[t]
    <3>1. tbl'[t][i] = e
      BY <1>11, <2>1
    <3>2. \E j \in 0..Len(net.devs) : \E a \in Range(Addrs(FamilyOf(t), j)) :
                e = EntryOf(j, a)
      BY <1>2, <1>3, <1>4 DEF e
    <3> QED  BY <1>9, <3>1, <3>2, SourcesStay DEF Genuine
  <2>2. CASE i # index[t]
    <3>1. i < table_size[t]
      BY <1>7, <1>10, <1>22, <2>2 DEF IndexFollowsSize
    <3>2. Genuine(t, i)
      BY <1>2, <1>4, <3>1 DEF IInv, WalkInv
    <3>3. tbl'[t][i] = tbl[t][i]
      BY <1>11, <2>2
    <3> QED  BY <1>9, <3>2, <3>3, SourcesStay DEF Genuine
  <2> QED  BY <2>1, <2>2
<1>23. \A s \in Kind :
            /\ IndexFollowsSize(s)'
            /\ OverrunByDevice(s)'
            /\ \A i \in 0..(Cap[s] - 1) : i < table_size'[s] => Genuine(s, i)'
  BY <1>19, <1>20, <1>21, <1>22
<1> QED  BY <1>16, <1>17, <1>18, <1>23 DEF IInv, WalkInv

-----------------------------------------------------------------------------
(* The invariant                                                           *)

\* The state ar_intf_init_db leaves satisfies the invariant.
LEMMA InitIInv == Init => IInv
<1> SUFFICES ASSUME Init
             PROVE  IInv
  OBVIOUS
<1>1. index = Zero /\ table_size = Zero /\ pc = "idle"
  BY DEF Init
<1>2. InBounds
  BY <1>1, CapType DEF InBounds, Zero
<1>3. WalkInv
  BY <1>1 DEF WalkInv, Walking, Family
<1>4. TypeOK
  <2>1. maxlim \in [Kind -> BOOLEAN]
    BY DEF Init, Clear
  <2>2. /\ index \in [Kind -> Nat] /\ table_size \in [Kind -> Nat]
        /\ echo_size \in [Family -> Nat]
    BY <1>1 DEF Init, Zero
  <2>3. /\ DOMAIN tbl = Kind
        /\ \A t \in Kind : tbl[t] \in [0..(Cap[t] - 1) -> Entry \cup {Unused}]
    BY DEF Init
  <2>4. /\ listed \in BOOLEAN /\ up \in BOOLEAN
        /\ autores \in BOOLEAN /\ wakeup \in BOOLEAN
    BY DEF Init
  <2>5. ~Walking
    BY <1>1 DEF Walking, Family
  <2> QED  BY <1>1, <2>1, <2>2, <2>3, <2>4, <2>5 DEF Init, TypeOK
<1> QED  BY <1>2, <1>3, <1>4 DEF IInv

\* Steps that touch neither the walk nor the tables and do not enter it.
LEMMA OutsideKeepsIInv ==
  ASSUME IInv, TypeOK', UNCHANGED <<walk, tables>>,
         ~Walking' \/ (net' = net /\ pc' = pc)
  PROVE  IInv'
<1>1. InBounds'
  BY DEF IInv, InBounds, walk
<1>2. CASE ~Walking'
  BY <1>1, <1>2 DEF IInv, WalkInv
<1>3. CASE net' = net /\ pc' = pc
  <2>1. WalkInv'
    BY <1>3, SourcesStay
       DEF IInv, WalkInv, Walking, IndexFollowsSize, OverrunByDevice, Passed,
           Genuine, walk, tables
  <2> QED  BY <1>1, <2>1 DEF IInv
<1> QED  BY <1>2, <1>3

\* The second lookup starts the walk with empty tables, or ends the handler.
LEMMA InterfaceInfoKeepsIInv ==
  ASSUME IInv, ar_get_interface_info
  PROVE  IInv'
<1>1. /\ table_size' = Zero
      /\ UNCHANGED <<stack, pm, tbl, fman>>
  BY DEF ar_get_interface_info, SizesReset
<1>2. Len(net.devs) \in Nat
  BY NetType DEF IInv
<1>3. CASE listed
  <2>1. /\ pc' = "v4" /\ d' = 0 /\ k' = 1
        /\ index' = Zero /\ maxlim' = Clear /\ status' = status
    BY <1>3 DEF ar_get_interface_info
  <2>2. TypeOK'
    BY <1>1, <1>2, <2>1
       DEF IInv, TypeOK, Walking, Family, Zero, Clear, stack, fman
  <2>3. InBounds'
    BY <2>1, CapType DEF InBounds, Zero
  <2>4. WalkInv'
    BY <1>1, <2>1, CapType
       DEF WalkInv, IndexFollowsSize, OverrunByDevice, Zero, Clear, Kind
  <2> QED  BY <2>2, <2>3, <2>4 DEF IInv
<1>4. CASE ~listed
  <2>1. pc' = "idle" /\ status' = "AR_GET_INFO_ERROR" /\ UNCHANGED walk
    BY <1>4 DEF ar_get_interface_info, Fail
  <2>2. TypeOK'
    BY <1>1, <2>1 DEF IInv, TypeOK, Walking, Family, Zero, stack, fman, walk
  <2>3. InBounds' /\ WalkInv'
    BY <2>1 DEF IInv, InBounds, WalkInv, Walking, Family, walk
  <2> QED  BY <2>2, <2>3 DEF IInv
<1> QED  BY <1>3, <1>4

\* Every step keeps the invariant.
LEMMA NextIInv == IInv /\ [Next]_vars => IInv'
<1> SUFFICES ASSUME IInv, [Next]_vars
             PROVE  IInv'
  OBVIOUS
<1> USE DEF stack, walk, tables, fman
<1>1. CASE ar_get_interface_info
  BY <1>1, InterfaceInfoKeepsIInv
<1>2. ASSUME NEW f \in Family, EndOfList(f) \/ Skip(f) \/ Store(f)
      PROVE  IInv'
  BY <1>2, MoveKeepsIInv, StoreKeepsIInv
<1>3. CASE Handoff
  <2>0. /\ echo_size' \in [Family -> Nat]
        /\ autores' \in BOOLEAN /\ wakeup' \in BOOLEAN
    <3>1. table_size["arp"] \in Nat /\ table_size["tgt"] \in Nat
      BY DEF IInv, TypeOK, Kind
    <3>2. echo_size' \in [Family -> Nat]
      BY <1>3, <3>1 DEF Handoff
    <3>3. autores' \in BOOLEAN /\ wakeup' \in BOOLEAN
      BY <1>3 DEF Handoff, IInv, TypeOK
    <3> QED  BY <3>2, <3>3
  <2>1. TypeOK' /\ ~Walking'
    BY <1>3, <2>0 DEF Handoff, IInv, TypeOK, Walking, Family
  <2> QED  BY <1>3, <2>1, OutsideKeepsIInv DEF Handoff
<1>4. CASE ar_suspend_noirq \/ ar_handle_deep_sleep_event
  <2>1. TypeOK' /\ ~Walking'
    BY <1>4 DEF ar_suspend_noirq, ar_handle_deep_sleep_event, Event, Fail,
                IInv, TypeOK, Walking, Family
  <2>2. UNCHANGED <<walk, tables>>
    BY <1>4 DEF ar_suspend_noirq, ar_handle_deep_sleep_event, Event
  <2> QED  BY <2>1, <2>2, OutsideKeepsIInv
<1>5. CASE ar_process_resume_event
  <2>1. TypeOK' /\ ~Walking'
    BY <1>5 DEF ar_process_resume_event, IInv, TypeOK, Walking, Family
  <2> QED  BY <1>5, <2>1, OutsideKeepsIInv DEF ar_process_resume_event
<1>6. CASE Sleep
  <2>1. TypeOK' /\ ~Walking'
    BY <1>6 DEF Sleep, IInv, TypeOK, Walking, Family
  <2> QED  BY <1>6, <2>1, OutsideKeepsIInv DEF Sleep
<1>7. CASE PortChanges
  <2>0. listed' \in BOOLEAN /\ up' \in BOOLEAN
    BY <1>7 DEF PortChanges, IInv, TypeOK
  <2>1. TypeOK' /\ net' = net /\ pc' = pc
    BY <1>7, <2>0 DEF PortChanges, IInv, TypeOK, Walking
  <2> QED  BY <1>7, <2>1, OutsideKeepsIInv DEF PortChanges
<1>8. CASE Reconfigure
  <2>1. TypeOK' /\ ~Walking'
    BY <1>8 DEF Reconfigure, IInv, TypeOK, Walking, Family
  <2> QED  BY <1>8, <2>1, OutsideKeepsIInv DEF Reconfigure
<1>9. CASE UNCHANGED vars
  <2>1. TypeOK' /\ net' = net /\ pc' = pc
    BY <1>9 DEF vars, IInv, TypeOK, Walking
  <2> QED  BY <1>9, <2>1, OutsideKeepsIInv DEF vars
<1> QED  BY <1>1, <1>2, <1>3, <1>4, <1>5, <1>6, <1>7, <1>8, <1>9
         DEF Next, Handler

\* The inductive invariant of the walk holds in every state of the handler.
THEOREM Invariance == Spec => []IInv
  BY InitIInv, NextIInv, PTL DEF Spec

\* The tables, the counters and the handler's locals keep their types.
THEOREM TypeCorrect == Spec => []TypeOK
  BY Invariance, PTL DEF IInv

\* However many addresses the port and its VLANs have, no write leaves the
\* ARP or NDP tables.
THEOREM WritesInBounds == Spec => []InBounds
  BY Invariance, PTL DEF IInv

\* No entry of an earlier suspend is ever handed to FMan.
THEOREM HandoffGenuine == Spec => []NoStaleEntries
<1>1. IInv => NoStaleEntries
  BY DEF IInv, WalkInv, Walking, NoStaleEntries, Genuine
<1> QED  BY <1>1, Invariance, PTL

\* The table_size handed to FMan exceeds the table by less than the number
\* of devices in the list.
THEOREM OverrunLimited == Spec => []OverrunBounded
<1>1. IInv => OverrunBounded
  <2> SUFFICES ASSUME IInv, Walking, NEW t \in Kind, table_size[t] > Cap[t]
               PROVE  table_size[t] - Cap[t] < Len(net.devs)
    BY DEF OverrunBounded
  <2>1. /\ Cap[t] \in Nat /\ table_size[t] \in Nat /\ Len(net.devs) \in Nat
        /\ d \in Nat /\ d =< Len(net.devs)
    BY CapType, NetType DEF IInv, TypeOK
  <2>2. table_size[t] - Cap[t] + 2 =< Passed(t)
    BY <2>1 DEF IInv, WalkInv, OverrunByDevice
  <2>3. Passed(t) \in Nat /\ Passed(t) =< Len(net.devs) + 1
    BY <2>1 DEF Passed
  <2> QED  BY <2>1, <2>2, <2>3
<1> QED  BY <1>1, Invariance, PTL

-----------------------------------------------------------------------------
(* The wanted entries                                                      *)

\* Place i of the list of device j, and what is wanted from there.
IsWanted(t, j, i) ==
    /\ j \in 0..Len(net.devs)
    /\ i \in DOMAIN Addrs(FamilyOf(t), j)
    /\ Belongs(t, Addrs(FamilyOf(t), j)[i])

Item(t, j, i) ==
    [dev |-> j, pos |-> i, entry |-> EntryOf(j, Addrs(FamilyOf(t), j)[i])]

\* What is wanted are the entries the walk would make of the addresses it
\* meets.
LEMMA WantedItems ==
  ASSUME TypeOK, NEW t \in Kind
  PROVE  /\ \A j, i : IsWanted(t, j, i) => Item(t, j, i) \in Wanted(t)
         /\ \A w \in Wanted(t) : /\ IsWanted(t, w.dev, w.pos)
                                 /\ w = Item(t, w.dev, w.pos)
<1> DEFINE f == FamilyOf(t)
           Tag(j, list, m, isvlan, v) ==
             {[dev |-> j, pos |-> i,
               entry |-> [ip |-> list[i].ip, mac |-> m, is_vlan |-> isvlan, vid |-> v]] :
                 i \in {i \in DOMAIN list : Belongs(t, list[i])}}
           TagVlan(j) == Tag(j, net.devs[j][f], net.devs[j].mac, TRUE, net.devs[j].vid)
           vlans == {j \in DOMAIN net.devs : net.devs[j].vlan /\ net.devs[j].up}
<1>1. Wanted(t) = Tag(0, net[f], net.mac, FALSE, 0)
                    \cup UNION {TagVlan(j) : j \in vlans}
  BY DEF Wanted
<1>2. f \in Family /\ DOMAIN net.devs = 1..Len(net.devs) /\ Len(net.devs) \in Nat
  BY NetType DEF FamilyOf, Family
<1>3. ASSUME NEW j, NEW i, IsWanted(t, j, i)
      PROVE  Item(t, j, i) \in Wanted(t)
  <2>1. CASE j = 0
    BY <1>1, <1>3, <2>1 DEF IsWanted, Item, Addrs, EntryOf
  <2>2. CASE j # 0
    <3>1. j \in 1..Len(net.devs)
      BY <1>2, <1>3, <2>2 DEF IsWanted
    <3>2. j \in vlans
      <4>1. CASE ~(net.devs[j].vlan /\ net.devs[j].up)
        <5>1. Addrs(f, j) = <<>>
          BY <2>2, <4>1 DEF Addrs
        <5>2. i \in DOMAIN <<>>
          BY <1>3, <5>1 DEF IsWanted
        <5> QED  BY <5>2
      <4> QED  BY <1>2, <3>1, <4>1
    <3>3. Addrs(f, j) = net.devs[j][f]
      BY <2>2, <3>2 DEF Addrs
    <3>4. Item(t, j, i) \in TagVlan(j)
      BY <1>3, <2>2, <3>3 DEF IsWanted, Item, EntryOf
    <3> HIDE DEF TagVlan, vlans
    <3> QED  BY <1>1, <3>2, <3>4
  <2> QED  BY <2>1, <2>2
<1>4. ASSUME NEW w \in Wanted(t)
      PROVE  IsWanted(t, w.dev, w.pos) /\ w = Item(t, w.dev, w.pos)
  <2>1. CASE w \in Tag(0, net[f], net.mac, FALSE, 0)
    <3>1. PICK i \in DOMAIN net[f] :
            /\ Belongs(t, net[f][i])
            /\ w = [dev |-> 0, pos |-> i,
                    entry |-> [ip |-> net[f][i].ip, mac |-> net.mac,
                               is_vlan |-> FALSE, vid |-> 0]]
      BY <2>1
    <3>2. w.dev = 0 /\ w.pos = i /\ Addrs(f, 0) = net[f]
      BY <3>1 DEF Addrs
    <3>3. IsWanted(t, 0, i)
      BY <1>2, <3>1, <3>2 DEF IsWanted
    <3>4. w = Item(t, 0, i)
      BY <3>1, <3>2 DEF Item, EntryOf
    <3> QED  BY <3>2, <3>3, <3>4
  <2>2. CASE w \notin Tag(0, net[f], net.mac, FALSE, 0)
    <3>1. PICK j \in vlans : w \in TagVlan(j)
      <4> HIDE DEF TagVlan, vlans, Tag
      <4> QED  BY <1>1, <2>2
    <3>2. /\ j \in 1..Len(net.devs) /\ j # 0 /\ j \in 0..Len(net.devs)
          /\ Addrs(f, j) = net.devs[j][f]
      BY <1>2, <3>1 DEF Addrs
    <3>3. PICK i \in DOMAIN net.devs[j][f] :
            /\ Belongs(t, net.devs[j][f][i])
            /\ w = [dev |-> j, pos |-> i,
                    entry |-> [ip |-> net.devs[j][f][i].ip, mac |-> net.devs[j].mac,
                               is_vlan |-> TRUE, vid |-> net.devs[j].vid]]
      BY <3>1
    <3>4. w.dev = j /\ w.pos = i
      BY <3>3
    <3>5. IsWanted(t, j, i) /\ w = Item(t, j, i)
      BY <3>2, <3>3 DEF IsWanted, Item, EntryOf
    <3> QED  BY <3>4, <3>5
  <2> QED  BY <2>1, <2>2
<1> QED  BY <1>3, <1>4

\* They come from places of the lists.
LEMMA WantedPlaces ==
  ASSUME TypeOK, NEW t \in Kind, NEW w \in Wanted(t)
  PROVE  /\ w.dev \in Nat /\ w.dev =< Len(net.devs)
         /\ w.pos \in Nat \ {0} /\ w.pos =< Len(Addrs(FamilyOf(t), w.dev))
<1>1. IsWanted(t, w.dev, w.pos)
  BY WantedItems
<1>2. FamilyOf(t) \in Family
  BY DEF FamilyOf, Family
<1>3. w.dev \in 0..Len(net.devs) /\ Len(net.devs) \in Nat
  BY <1>1, NetType DEF IsWanted
<1>4. w.pos \in DOMAIN Addrs(FamilyOf(t), w.dev)
  BY <1>1 DEF IsWanted
<1>5. Addrs(FamilyOf(t), w.dev) \in Seq(Addr)
  BY <1>2, <1>3, AddrsType
<1> QED  BY <1>3, <1>4, <1>5

\* There are finitely many of them.
LEMMA WantedFinite ==
  ASSUME TypeOK, NEW t \in Kind
  PROVE  IsFiniteSet(Wanted(t))
<1> DEFINE f == FamilyOf(t)
           Dev0 == 0..Len(net.devs)
           Places(j) == {j} \X DOMAIN Addrs(f, j)
           all == {Places(j) : j \in Dev0}
           g == [j \in Dev0 |-> Places(j)]
           h == [w \in Wanted(t) |-> <<w.dev, w.pos>>]
<1>1. f \in Family /\ Len(net.devs) \in Nat
  BY NetType DEF FamilyOf, Family
<1>2. IsFiniteSet(Dev0)
  BY <1>1, FS_Interval
<1>3. g \in Surjection(Dev0, all)
  BY Fun_IsSurj
<1>4. IsFiniteSet(all)
  BY <1>2, <1>3, FS_Surjection
<1>5. ASSUME NEW j \in Dev0
      PROVE  IsFiniteSet(Places(j))
  <2>1. Addrs(f, j) \in Seq(Addr) /\ Len(Addrs(f, j)) \in Nat
    BY <1>1, AddrsType
  <2>2. DOMAIN Addrs(f, j) = 1..Len(Addrs(f, j))
    BY <2>1
  <2>3. IsFiniteSet(DOMAIN Addrs(f, j))
    BY <2>1, <2>2, FS_Interval
  <2>4. IsFiniteSet({j})
    BY FS_Singleton
  <2> QED  BY <2>3, <2>4, FS_Product
<1>6. IsFiniteSet(UNION all)
  BY <1>4, <1>5, FS_UNION
<1>7. h \in Injection(Wanted(t), UNION all)
  <2>1. ASSUME NEW w \in Wanted(t)
        PROVE  h[w] \in UNION all
    <3>1. w.dev \in Dev0 /\ w.pos \in DOMAIN Addrs(f, w.dev)
      BY WantedItems DEF IsWanted
    <3>2. <<w.dev, w.pos>> \in Places(w.dev)
      BY <3>1
    <3> QED  BY <3>1, <3>2
  <2>2. ASSUME NEW v \in Wanted(t), NEW w \in Wanted(t), h[v] = h[w]
        PROVE  v = w
    <3>1. v.dev = w.dev /\ v.pos = w.pos
      BY <2>2
    <3> QED  BY <3>1, WantedItems
  <2> HIDE DEF h, all
  <2>3. h \in [Wanted(t) -> UNION all]
    BY <2>1 DEF h
  <2> QED  BY <2>2, <2>3, Fun_IsInj
<1> QED  BY <1>6, <1>7, FS_Injection

\* The entries the walk has passed are finitely many.
LEMMA SeenFinite ==
  ASSUME TypeOK, NEW t \in Kind
  PROVE  /\ IsFiniteSet(Seen(t)) /\ Cardinality(Seen(t)) \in Nat
         /\ Cardinality(Wanted(t)) \in Nat
         /\ Cardinality(Seen(t)) =< Cardinality(Wanted(t))
<1>1. Seen(t) \in SUBSET Wanted(t)
  BY DEF Seen
<1>2. IsFiniteSet(Wanted(t))
  BY WantedFinite
<1>3. /\ IsFiniteSet(Seen(t))
      /\ Cardinality(Seen(t)) =< Cardinality(Wanted(t))
  BY <1>1, <1>2, FS_Subset
<1> QED  BY <1>2, <1>3, FS_CardinalityType

\* What is wanted stays so while the lists are walked.
LEMMA WantedStays ==
  ASSUME net' = net, NEW t \in Kind
  PROVE  /\ Wanted(t)' = Wanted(t)
         /\ Fits(t)' <=> Fits(t)
         /\ \A w : SlotOf(t, w)' = SlotOf(t, w)
<1>1. \A s : Wanted(s)' = Wanted(s)
  BY DEF Wanted
<1> QED  BY <1>1 DEF Fits, SlotOf

\* Each entry has its own place, and the slots go up with the places: the
\* entry the walk is at comes right after those it has passed.
LEMMA SlotsInOrder ==
  ASSUME TypeOK, NEW t \in Kind, pc = FamilyOf(t), IsWanted(t, d, k)
  PROVE  LET w == Item(t, d, k)
         IN  /\ w \in Wanted(t) /\ w \notin Seen(t)
             /\ SlotOf(t, w) = Cardinality(Seen(t))
             /\ \A v \in Seen(t) : /\ SlotOf(t, v) \in Nat
                                   /\ SlotOf(t, v) < Cardinality(Seen(t))
<1> DEFINE w == Item(t, d, k)
<1>1. w \in Wanted(t) /\ w.dev = d /\ w.pos = k
  BY WantedItems DEF Item
<1>2. d \in Nat /\ k \in Nat
  BY DEF TypeOK
<1>3. \A v \in Wanted(t) : v.dev \in Nat /\ v.pos \in Nat
  BY WantedPlaces
<1>4. w \notin Seen(t)
  BY <1>1, <1>2 DEF Seen, Behind
<1>5. {v \in Wanted(t) : Earlier(v, w)} = Seen(t)
  BY <1>1 DEF Seen, Behind, Earlier
<1>6. ASSUME NEW v \in Seen(t)
      PROVE  /\ SlotOf(t, v) \in Nat
             /\ SlotOf(t, v) < Cardinality(Seen(t))
  <2> DEFINE before == {u \in Wanted(t) : Earlier(u, v)}
  <2>1. v \in Wanted(t) /\ v.dev \in Nat /\ v.pos \in Nat
    BY <1>3, <1>6 DEF Seen
  <2>2. before \in SUBSET Seen(t)
    <3>1. ASSUME NEW u \in Wanted(t), Earlier(u, v)
          PROVE  u \in Seen(t)
      <4>1. u.dev \in Nat /\ u.pos \in Nat
        BY <1>3, <3>1
      <4> QED  BY <1>2, <1>6, <2>1, <3>1, <4>1 DEF Seen, Behind, Earlier
    <3> QED  BY <3>1
  <2>3. v \notin before
    BY <2>1 DEF Earlier
  <2>4. IsFiniteSet(Seen(t)) /\ Cardinality(Seen(t)) \in Nat
    BY SeenFinite
  <2>5. /\ IsFiniteSet(before) /\ Cardinality(before) =< Cardinality(Seen(t))
        /\ Cardinality(Seen(t)) = Cardinality(before) => Seen(t) = before
    BY <2>2, <2>4, FS_Subset
  <2>6. Cardinality(before) \in Nat
    BY <2>5, FS_CardinalityType
  <2>7. SlotOf(t, v) = Cardinality(before)
    BY DEF SlotOf
  <2> HIDE DEF before
  <2> QED  BY <1>6, <2>3, <2>4, <2>5, <2>6, <2>7
<1>7. SlotOf(t, w) = Cardinality(Seen(t))
  BY <1>5 DEF SlotOf
<1> QED  BY <1>1, <1>4, <1>6, <1>7

\* The walk of one family passes no entry of the other.
LEMMA OtherFamily ==
  ASSUME TypeOK, net' = net, NEW f \in Family, pc = f,
         NEW t \in Kind, FamilyOf(t) # f,
         pc' = f \/ (pc' = After(f) /\ d' = 0 /\ k' = 1)
  PROVE  Seen(t)' = Seen(t)
<1>1. Wanted(t)' = Wanted(t)
  BY WantedStays
<1>2. ASSUME NEW w \in Wanted(t)
      PROVE  Behind(t, w)' <=> Behind(t, w)
  <2>1. w.dev \in Nat /\ w.pos \in Nat \ {0}
    BY <1>2, WantedPlaces
  <2> QED  BY <2>1 DEF Behind, FamilyOf, Family, After
<1> QED  BY <1>1, <1>2 DEF Seen

\* The walk goes past one place of a list.
LEMMA PlacePassed ==
  ASSUME TypeOK, net' = net, NEW t \in Kind, pc = FamilyOf(t),
         pc' = pc, d' = d, k' = k + 1
  PROVE  /\ IsWanted(t, d, k) => Seen(t)' = Seen(t) \cup {Item(t, d, k)}
         /\ ~IsWanted(t, d, k) => Seen(t)' = Seen(t)
<1>1. Wanted(t)' = Wanted(t)
  BY WantedStays
<1>2. d \in Nat /\ k \in Nat
  BY DEF TypeOK
<1>3. ASSUME NEW w \in Wanted(t)
      PROVE  Behind(t, w)' <=> Behind(t, w) \/ (w.dev = d /\ w.pos = k)
  <2>1. w.dev \in Nat /\ w.pos \in Nat
    BY <1>3, WantedPlaces
  <2> QED  BY <1>2, <2>1 DEF Behind
<1>4. \A w \in Wanted(t) : w.dev = d /\ w.pos = k =>
            IsWanted(t, d, k) /\ w = Item(t, d, k)
  BY WantedItems
<1>5. IsWanted(t, d, k) => /\ Item(t, d, k) \in Wanted(t)
                           /\ Item(t, d, k).dev = d /\ Item(t, d, k).pos = k
  BY WantedItems DEF Item
<1>6. Seen(t)' = {w \in Wanted(t) : Behind(t, w) \/ (w.dev = d /\ w.pos = k)}
  BY <1>1, <1>3 DEF Seen
<1> QED  BY <1>4, <1>5, <1>6 DEF Seen

\* The walk leaves a list at its end.
LEMMA ListPassed ==
  ASSUME TypeOK, net' = net, NEW t \in Kind, pc = FamilyOf(t),
         k > Len(Addrs(FamilyOf(t), d)),
         \/ pc' = pc /\ d' = d + 1 /\ k' = 1
         \/ pc' = After(pc) /\ d = Len(net.devs)
  PROVE  Seen(t)' = Seen(t)
<1>1. Wanted(t)' = Wanted(t)
  BY WantedStays
<1>2. d \in Nat /\ k \in Nat /\ Len(net.devs) \in Nat
  BY NetType DEF TypeOK
<1>3. ASSUME NEW w \in Wanted(t)
      PROVE  Behind(t, w)' <=> Behind(t, w)
  <2>1. /\ w.dev \in Nat /\ w.dev =< Len(net.devs)
        /\ w.pos \in Nat \ {0} /\ w.pos =< Len(Addrs(FamilyOf(t), w.dev))
    BY <1>3, WantedPlaces
  <2>2. w.dev = d => w.pos < k
    <3>1. SUFFICES ASSUME w.dev = d
                   PROVE  w.pos < k
      OBVIOUS
    <3>2. d \in 0..Len(net.devs) /\ FamilyOf(t) \in Family
      BY <1>2, <2>1, <3>1 DEF FamilyOf, Family
    <3>3. Len(Addrs(FamilyOf(t), d)) \in Nat
      BY <3>2, AddrsType
    <3> QED  BY <1>2, <2>1, <3>1, <3>3
  <2>3. CASE pc' = pc /\ d' = d + 1 /\ k' = 1
    BY <1>2, <2>1, <2>2, <2>3 DEF Behind
  <2>4. CASE pc' = After(pc) /\ d = Len(net.devs)
    BY <1>2, <2>1, <2>2, <2>4 DEF Behind, After, FamilyOf
  <2> QED  BY <2>3, <2>4
<1> QED  BY <1>1, <1>3 DEF Seen

-----------------------------------------------------------------------------
(* What the tables hold                                                    *)

\* As long as the port has not filled a table, an address goes where it
\* belongs.
LEMMA TargetBelongs ==
  ASSUME TypeOK, NEW t \in Kind, NEW a \in Addr,
         t # "arp" => ~maxlim["tem"] /\ ~maxlim["tgt"]
  PROVE  t \in Target(FamilyOf(t), a) <=> Belongs(t, a)
  BY DEF Target, Belongs, FamilyOf, Kind

\* The place the walk is at.
LEMMA AtPlace ==
  ASSUME TypeOK, NEW t \in Kind, d =< Len(net.devs),
         k =< Len(Addrs(FamilyOf(t), d))
  PROVE  /\ Addrs(FamilyOf(t), d)[k] \in Addr
         /\ IsWanted(t, d, k) <=> Belongs(t, Addrs(FamilyOf(t), d)[k])
<1>1. d \in 0..Len(net.devs) /\ FamilyOf(t) \in Family /\ k \in Nat \ {0}
  BY NetType DEF TypeOK, FamilyOf, Family
<1>2. Addrs(FamilyOf(t), d) \in Seq(Addr) /\ Len(Addrs(FamilyOf(t), d)) \in Nat
  BY <1>1, AddrsType
<1>3. k \in DOMAIN Addrs(FamilyOf(t), d)
  BY <1>1, <1>2
<1> QED  BY <1>1, <1>2, <1>3 DEF IsWanted

\* If one NDP table fits, so does the other.
LEMMA FitsBoth ==
  ASSUME NEW t \in Kind, Fits(t), t # "arp"
  PROVE  /\ Fits("tem") /\ Fits("tgt")
         /\ Cardinality(Wanted(t)) < Cap[t]
  BY DEF Fits, Kind

\* Moving on without storing passes no wanted entry.
LEMMA MoveKeepsExact ==
  ASSUME IInv, ExactInv, NEW f \in Family, EndOfList(f) \/ Skip(f)
  PROVE  ExactInv'
<1>1. /\ pc = f /\ Walking /\ TypeOK
      /\ net' = net /\ tbl' = tbl /\ table_size' = table_size /\ maxlim' = maxlim
      /\ d \in Nat /\ d =< Len(net.devs) /\ k \in Nat \ {0}
  <2>1. pc = f /\ UNCHANGED <<stack, pm, index, maxlim, tables, fman, status>>
    BY DEF EndOfList, Skip
  <2> QED  BY <2>1 DEF IInv, TypeOK, Walking, stack, tables
<1>2. ~(f = "v4" /\ maxlim["arp"])
  BY <1>1 DEF IInv, WalkInv
<1>3. SUFFICES ASSUME NEW t \in Kind, Fits(t)
               PROVE  ExactSoFar(t)'
  BY <1>1, WantedStays DEF ExactInv
<1>4. ExactSoFar(t)
  BY <1>1, <1>3 DEF ExactInv
<1>5. Seen(t)' = Seen(t)
  <2>1. CASE FamilyOf(t) # f
    <3>1. pc' = f \/ (pc' = After(f) /\ d' = 0 /\ k' = 1)
      BY DEF EndOfList, Skip, NextDev, NextAddr
    <3> QED  BY <1>1, <2>1, <3>1, OtherFamily
  <2>2. CASE FamilyOf(t) = f /\ EndOfList(f)
    <3>1. /\ k > Len(Addrs(f, d))
          /\ \/ pc' = f /\ d' = d + 1 /\ k' = 1
             \/ pc' = After(f) /\ d = Len(net.devs)
      BY <1>2, <2>2 DEF EndOfList, NextDev
    <3> QED  BY <1>1, <2>2, <3>1, ListPassed
  <2>3. CASE FamilyOf(t) = f /\ Skip(f)
    <3>1. /\ k =< Len(Addrs(f, d)) /\ Target(f, Addrs(f, d)[k]) = {}
          /\ pc' = f /\ d' = d /\ k' = k + 1
      BY <2>3 DEF Skip, NextAddr
    <3>2. t # "arp" => ~maxlim["tem"] /\ ~maxlim["tgt"]
      BY <1>1, <1>3, FitsBoth DEF ExactInv, ExactSoFar, Kind
    <3>3. ~IsWanted(t, d, k)
      BY <1>1, <2>3, <3>1, <3>2, AtPlace, TargetBelongs
    <3> QED  BY <1>1, <2>3, <3>1, <3>3, PlacePassed
  <2> QED  BY <2>1, <2>2, <2>3
<1> QED  BY <1>1, <1>4, <1>5, WantedStays DEF ExactSoFar

\* What a store does to its table and to the others.
LEMMA StoreEffect ==
  ASSUME IInv, NEW f \in Family, Store(f)
  PROVE  \E s \in Target(f, Addrs(f, d)[k]) :
           /\ s \in Kind /\ FamilyOf(s) = f /\ ~maxlim[s]
           /\ tbl'[s] = [tbl[s] EXCEPT ![index[s]] = EntryOf(d, Addrs(f, d)[k])]
           /\ table_size'[s] = table_size[s] + 1
           /\ \A t \in Kind \ {s} : /\ tbl'[t] = tbl[t]
                                    /\ table_size'[t] = table_size[t]
                                    /\ maxlim'[t] = maxlim[t]
           /\ \/ ~AtLimit(s) /\ maxlim' = maxlim /\ pc' = f /\ d' = d /\ k' = k + 1
              \/ AtLimit(s) /\ \/ pc' = f /\ d' = d + 1
                               \/ pc' = After(f) /\ d' = 0 /\ k' = 1
<1>1. PICK s \in Target(f, Addrs(f, d)[k]) :
        /\ tbl' = Put(s, EntryOf(d, Addrs(f, d)[k]))
        /\ table_size' = [table_size EXCEPT ![s] = @ + 1]
        /\ IF AtLimit(s)
           THEN Break(f, s)
           ELSE /\ index' = [index EXCEPT ![s] = @ + 1]
                /\ NextAddr(f)
                /\ UNCHANGED maxlim
  BY DEF Store
<1>2. /\ pc = f /\ Walking /\ TypeOK
      /\ k =< Len(Addrs(f, d)) /\ d =< Len(net.devs)
  <2>1. pc = f /\ k =< Len(Addrs(f, d))
    BY DEF Store
  <2> QED  BY <2>1 DEF IInv, TypeOK, Walking
<1>3. Addrs(f, d)[k] \in Addr
  <2>1. PICK t \in Kind : FamilyOf(t) = f
    BY DEF FamilyOf, Family, Kind
  <2> QED  BY <1>2, <2>1, AtPlace
<1>4. s \in Kind /\ FamilyOf(s) = f /\ (f = "v6" => ~maxlim[s])
  BY <1>2, <1>3, TargetType
<1>5. ~maxlim[s]
  BY <1>2, <1>4 DEF IInv, WalkInv, FamilyOf, Family, Kind
<1>6. index[s] < Cap[s] /\ DOMAIN tbl = Kind /\ table_size \in [Kind -> Nat]
      /\ maxlim \in [Kind -> BOOLEAN]
  BY <1>2, <1>4 DEF IInv, TypeOK, InBounds
<1>7. tbl' = [tbl EXCEPT ![s] = [tbl[s] EXCEPT ![index[s]] = EntryOf(d, Addrs(f, d)[k])]]
  BY <1>1, <1>6 DEF Put
<1>8. \/ ~AtLimit(s) /\ maxlim' = maxlim /\ pc' = f /\ d' = d /\ k' = k + 1
      \/ AtLimit(s) /\ \/ pc' = f /\ d' = d + 1
                       \/ pc' = After(f) /\ d' = 0 /\ k' = 1
  BY <1>1 DEF Break, NextDev, NextAddr
<1>9. \A t \in Kind \ {s} : maxlim'[t] = maxlim[t]
  BY <1>1, <1>4, <1>6 DEF Break
<1>10. /\ tbl'[s] = [tbl[s] EXCEPT ![index[s]] = EntryOf(d, Addrs(f, d)[k])]
       /\ \A t \in Kind \ {s} : tbl'[t] = tbl[t]
  BY <1>4, <1>6, <1>7
<1>11. /\ table_size'[s] = table_size[s] + 1
       /\ \A t \in Kind \ {s} : table_size'[t] = table_size[t]
  BY <1>1, <1>4, <1>6
<1> QED  BY <1>4, <1>5, <1>8, <1>9, <1>10, <1>11

\* A table that fits has a slot for the wanted entry the walk is at, namely
\* the one at index.
LEMMA SlotAtIndex ==
  ASSUME IInv, Walking, NEW t \in Kind, Fits(t), ExactSoFar(t),
         pc = FamilyOf(t), IsWanted(t, d, k)
  PROVE  /\ Cardinality(Seen(t)) + 1 =< Cardinality(Wanted(t))
         /\ Cardinality(Wanted(t)) =< Cap[t]
         /\ t # "arp" => ~AtLimit(t)
         /\ index[t] = Cardinality(Seen(t))
         /\ Cardinality(Seen(t) \cup {Item(t, d, k)}) = Cardinality(Seen(t)) + 1
<1> DEFINE w == Item(t, d, k)
           more == Seen(t) \cup {w}
<1>1. TypeOK /\ Cap[t] \in Nat /\ IndexFollowsSize(t)
  BY CapType DEF IInv, WalkInv
<1>2. w \in Wanted(t) /\ w \notin Seen(t)
  BY <1>1, SlotsInOrder
<1>3. /\ IsFiniteSet(Seen(t)) /\ Cardinality(Seen(t)) \in Nat
      /\ Cardinality(Wanted(t)) \in Nat
  BY <1>1, SeenFinite
<1>4. Cardinality(more) = Cardinality(Seen(t)) + 1
  BY <1>2, <1>3, FS_AddElement
<1>5. more \in SUBSET Wanted(t) /\ IsFiniteSet(Wanted(t))
  BY <1>1, <1>2, WantedFinite DEF Seen
<1>6. Cardinality(more) =< Cardinality(Wanted(t))
  BY <1>5, FS_Subset
<1>7. Cardinality(Wanted(t)) =< Cap[t] /\ (t # "arp" => Cardinality(Wanted(t)) < Cap[t])
  BY <1>1, <1>3, FitsBoth DEF Fits
<1>8. table_size[t] = Cardinality(Seen(t))
  BY DEF ExactSoFar
<1> HIDE DEF w, more
<1>9. table_size[t] < Cap[t]
  BY <1>1, <1>3, <1>4, <1>6, <1>7, <1>8
<1>10. t # "arp" => ~AtLimit(t)
  BY <1>1, <1>3, <1>4, <1>6, <1>7, <1>8 DEF AtLimit
<1>11. index[t] = Cardinality(Seen(t))
  BY <1>1, <1>8, <1>9 DEF IndexFollowsSize
<1> QED  BY <1>4, <1>6, <1>7, <1>10, <1>11 DEF w, more

\* A store puts the wanted entry the walk is at in the slot of its rank.
LEMMA StoreKeepsExact ==
  ASSUME IInv, ExactInv, NEW f \in Family, Store(f)
  PROVE  ExactInv'
<1> DEFINE addr == Addrs(f, d)[k]
<1>1. PICK s \in Target(f, addr) :
           /\ s \in Kind /\ FamilyOf(s) = f /\ ~maxlim[s]
           /\ tbl'[s] = [tbl[s] EXCEPT ![index[s]] = EntryOf(d, addr)]
           /\ table_size'[s] = table_size[s] + 1
           /\ \A t \in Kind \ {s} : /\ tbl'[t] = tbl[t]
                                    /\ table_size'[t] = table_size[t]
                                    /\ maxlim'[t] = maxlim[t]
           /\ \/ ~AtLimit(s) /\ maxlim' = maxlim /\ pc' = f /\ d' = d /\ k' = k + 1
              \/ AtLimit(s) /\ \/ pc' = f /\ d' = d + 1
                               \/ pc' = After(f) /\ d' = 0 /\ k' = 1
  BY StoreEffect
<1>2. /\ pc = f /\ Walking /\ TypeOK /\ net' = net
      /\ k =< Len(Addrs(f, d)) /\ d \in Nat /\ d =< Len(net.devs)
  <2>1. pc = f /\ k =< Len(Addrs(f, d)) /\ net' = net
    BY DEF Store, stack
  <2> QED  BY <2>1 DEF IInv, TypeOK, Walking
<1>3. SUFFICES ASSUME NEW t \in Kind, Fits(t)
               PROVE  ExactSoFar(t)'
  BY <1>2, WantedStays DEF ExactInv
<1>4. ExactSoFar(t)
  BY <1>2, <1>3 DEF ExactInv
<1>5. FamilyOf(t) = f =>
        /\ t # "arp" => ~maxlim["tem"] /\ ~maxlim["tgt"]
        /\ IsWanted(t, d, k) <=> t = s
  <2> SUFFICES ASSUME FamilyOf(t) = f
               PROVE  /\ t # "arp" => ~maxlim["tem"] /\ ~maxlim["tgt"]
                      /\ IsWanted(t, d, k) <=> t = s
    OBVIOUS
  <2>1. t # "arp" => ~maxlim["tem"] /\ ~maxlim["tgt"]
    BY <1>2, <1>3, FitsBoth DEF ExactInv, ExactSoFar, Kind
  <2>2. addr \in Addr /\ (IsWanted(t, d, k) <=> Belongs(t, addr))
    BY <1>2, AtPlace
  <2>3. t \in Target(f, addr) <=> Belongs(t, addr)
    BY <1>2, <2>1, <2>2, TargetBelongs
  <2>4. t \in Target(f, addr) <=> t = s
    BY <1>1 DEF Target
  <2> QED  BY <2>1, <2>2, <2>3, <2>4
<1>6. CASE t # s
  <2>1. tbl'[t] = tbl[t] /\ table_size'[t] = table_size[t] /\ maxlim'[t] = maxlim[t]
    BY <1>1, <1>6
  <2>2. Seen(t)' = Seen(t)
    <3>1. CASE FamilyOf(t) # f
      <4>1. pc' = f \/ (pc' = After(f) /\ d' = 0 /\ k' = 1)
        BY <1>1
      <4> QED  BY <1>2, <3>1, <4>1, OtherFamily
    <3>2. CASE FamilyOf(t) = f
      <4>1. t # "arp" /\ s # "arp"
        BY <1>1, <1>6, <3>2 DEF FamilyOf
      <4>2. Fits(s) /\ ExactSoFar(s)
        BY <1>1, <1>2, <1>3, <4>1, FitsBoth DEF ExactInv, Kind
      <4>3. IsWanted(s, d, k)
        <5>1. addr \in Addr /\ (IsWanted(s, d, k) <=> Belongs(s, addr))
          BY <1>1, <1>2, AtPlace
        <5>2. s \in Target(f, addr) <=> Belongs(s, addr)
          BY <1>1, <1>2, <1>5, <3>2, <4>1, <5>1, TargetBelongs
        <5> QED  BY <5>1, <5>2
      <4>4. ~AtLimit(s)
        BY <1>1, <1>2, <4>1, <4>2, <4>3, SlotAtIndex
      <4>5. pc' = pc /\ d' = d /\ k' = k + 1
        BY <1>1, <1>2, <4>4
      <4> QED  BY <1>2, <1>5, <1>6, <3>2, <4>5, PlacePassed
    <3> QED  BY <3>1, <3>2
  <2> QED  BY <1>2, <1>4, <2>1, <2>2, WantedStays DEF ExactSoFar
<1>7. CASE t = s
  <2> DEFINE w == Item(t, d, k)
             n == Cardinality(Seen(t))
  <2>1. IsWanted(t, d, k) /\ pc = FamilyOf(t)
    BY <1>1, <1>2, <1>5, <1>7
  <2>2. /\ w \in Wanted(t) /\ w \notin Seen(t) /\ SlotOf(t, w) = n
        /\ \A v \in Seen(t) : SlotOf(t, v) \in Nat /\ SlotOf(t, v) < n
    BY <1>2, <2>1, SlotsInOrder
  <2>3. /\ n + 1 =< Cardinality(Wanted(t)) /\ Cardinality(Wanted(t)) =< Cap[t]
        /\ t # "arp" => ~AtLimit(t)
        /\ index[t] = n
        /\ Cardinality(Seen(t) \cup {w}) = n + 1
    BY <1>2, <1>3, <1>4, <2>1, SlotAtIndex
  <2>4. /\ n \in Nat /\ Cardinality(Wanted(t)) \in Nat /\ Cap[t] \in Nat
        /\ DOMAIN tbl[t] = 0..(Cap[t] - 1)
    BY <1>2, SeenFinite, CapType DEF TypeOK
  <2>5. table_size[t] = n /\ table_size'[t] = n + 1
    BY <1>1, <1>4, <1>7 DEF ExactSoFar
  <2>6. Seen(t)' = Seen(t) \cup {w}
    <3>1. CASE ~AtLimit(t)
      <4>1. pc' = pc /\ d' = d /\ k' = k + 1
        BY <1>1, <1>2, <1>7, <3>1
      <4> QED  BY <1>2, <2>1, <4>1, PlacePassed
    <3>2. CASE AtLimit(t)
      <4>1. t = "arp" /\ f = "v4"
        BY <1>1, <1>7, <2>3, <3>2 DEF FamilyOf
      <4>2. n + 1 = Cardinality(Wanted(t))
        BY <2>3, <2>4, <2>5, <3>2 DEF AtLimit
      <4>3. Seen(t) \cup {w} \in SUBSET Wanted(t) /\ IsFiniteSet(Wanted(t))
        BY <1>2, <2>2, WantedFinite DEF Seen
      <4>4. Seen(t) \cup {w} = Wanted(t)
        <5> HIDE DEF w
        <5> QED  BY <2>3, <4>2, <4>3, FS_Subset
      <4>5. Wanted(t)' = Wanted(t)
        BY <1>2, WantedStays
      <4>6. ASSUME NEW v \in Wanted(t)
            PROVE  Behind(t, v)'
        <5>1. v.dev \in Nat /\ v.dev =< d
          <6>1. v \in Seen(t) \/ v = w
            BY <4>4, <4>6
          <6>2. v.dev \in Nat /\ w.dev = d
            BY <1>2, <4>6, WantedPlaces DEF Item
          <6> QED  BY <1>2, <2>1, <6>1, <6>2 DEF Seen, Behind
        <5>2. \/ pc' = f /\ d' = d + 1
              \/ pc' = After(f)
          BY <1>1, <1>7, <3>2
        <5> QED  BY <1>2, <4>1, <5>1, <5>2 DEF Behind, FamilyOf, After
      <4> QED  BY <4>4, <4>5, <4>6 DEF Seen
    <3> QED  BY <3>1, <3>2
  <2>7. \A v \in Seen(t) \cup {w} : tbl'[t][SlotOf(t, v)] = v.entry
    <3>1. n \in 0..(Cap[t] - 1)
      BY <2>3, <2>4
    <3>2. tbl'[t][n] = EntryOf(d, addr) /\ w.entry = EntryOf(d, addr)
      BY <1>1, <1>7, <2>1, <2>3, <2>4, <3>1, <1>2 DEF Item
    <3>3. ASSUME NEW v \in Seen(t)
          PROVE  tbl'[t][SlotOf(t, v)] = v.entry
      <4>1. SlotOf(t, v) \in 0..(Cap[t] - 1) /\ SlotOf(t, v) # n
        BY <2>2, <2>4, <3>1, <3>3
      <4>2. tbl'[t][SlotOf(t, v)] = tbl[t][SlotOf(t, v)]
        BY <1>1, <1>7, <2>3, <2>4, <4>1
      <4> QED  BY <1>4, <3>3, <4>2 DEF ExactSoFar
    <3> HIDE DEF w
    <3> QED  BY <2>2, <3>2, <3>3
  <2>8. t # "arp" => ~maxlim'[t]
    BY <1>1, <1>7, <2>3
  <2> HIDE DEF w
  <2>9. table_size'[t] = Cardinality(Seen(t)')
    BY <2>3, <2>5, <2>6
  <2>10. \A v \in Seen(t)' : tbl'[t][SlotOf(t, v)'] = v.entry
    BY <1>2, <2>6, <2>7, WantedStays
  <2> QED  BY <2>8, <2>9, <2>10 DEF ExactSoFar
<1> QED  BY <1>6, <1>7

\* The walk starts with nothing passed and nothing stored.
LEMMA StartExact ==
  ASSUME IInv, ar_get_interface_info
  PROVE  ExactInv'
<1>1. CASE ~listed
  BY <1>1 DEF ar_get_interface_info, Fail, ExactInv, Walking, Family
<1>2. CASE listed
  <2>1. /\ pc' = "v4" /\ d' = 0 /\ k' = 1 /\ maxlim' = Clear
        /\ table_size' = Zero /\ net' = net /\ TypeOK
    BY <1>2 DEF ar_get_interface_info, SizesReset, stack, IInv
  <2>2. ASSUME NEW t \in Kind
        PROVE  ExactSoFar(t)'
    <3>1. Wanted(t)' = Wanted(t)
      BY <2>1, WantedStays
    <3>2. ASSUME NEW w \in Wanted(t)
          PROVE  ~Behind(t, w)'
      <4>1. w.dev \in Nat /\ w.pos \in Nat \ {0}
        BY <2>1, <3>2, WantedPlaces
      <4> QED  BY <2>1, <4>1 DEF Behind
    <3>3. Seen(t)' = {}
      BY <3>1, <3>2 DEF Seen
    <3>4. Cardinality(Seen(t)') = 0
      BY <3>3, FS_EmptySet
    <3>5. table_size'[t] = 0 /\ ~maxlim'[t]
      BY <2>1 DEF Zero, Clear
    <3> QED  BY <3>3, <3>4, <3>5 DEF ExactSoFar
  <2> QED  BY <2>2 DEF ExactInv
<1> QED  BY <1>1, <1>2

\* Steps outside the walk.
LEMMA OutsideKeepsExact ==
  ASSUME ExactInv, UNCHANGED <<walk, tables>>,
         ~Walking' \/ (net' = net /\ pc' = pc)
  PROVE  ExactInv'
<1>1. CASE ~Walking'
  BY <1>1 DEF ExactInv
<1>2. CASE net' = net /\ pc' = pc
  <2>1. SUFFICES ASSUME NEW t \in Kind, Walking, Fits(t)
                 PROVE  ExactSoFar(t)'
    BY <1>2, WantedStays DEF ExactInv, Walking
  <2>2. ExactSoFar(t)
    BY <2>1 DEF ExactInv
  <2>3. Seen(t)' = Seen(t)
    BY <1>2, WantedStays DEF Seen, Behind, walk
  <2> QED  BY <1>2, <2>2, <2>3, WantedStays DEF ExactSoFar, walk, tables
<1> QED  BY <1>1, <1>2

\* Every step keeps what the tables hold exact.
LEMMA NextExact == IInv /\ ExactInv /\ [Next]_vars => ExactInv'
<1> SUFFICES ASSUME IInv, ExactInv, [Next]_vars
             PROVE  ExactInv'
  OBVIOUS
<1> USE DEF stack, walk, tables, fman
<1>1. CASE ar_get_interface_info
  BY <1>1, StartExact
<1>2. ASSUME NEW f \in Family, EndOfList(f) \/ Skip(f) \/ Store(f)
      PROVE  ExactInv'
  BY <1>2, MoveKeepsExact, StoreKeepsExact
<1>3. CASE Handoff
  BY <1>3, OutsideKeepsExact DEF Handoff, Walking, Family
<1>4. CASE ar_suspend_noirq \/ ar_handle_deep_sleep_event
  <2>1. ~Walking' /\ UNCHANGED <<walk, tables>>
    BY <1>4 DEF ar_suspend_noirq, ar_handle_deep_sleep_event, Event, Fail,
                Walking, Family
  <2> QED  BY <2>1, OutsideKeepsExact
<1>5. CASE ar_process_resume_event \/ Sleep \/ Reconfigure
  <2>1. ~Walking' /\ UNCHANGED <<walk, tables>>
    BY <1>5 DEF ar_process_resume_event, Sleep, Reconfigure, Walking, Family
  <2> QED  BY <2>1, OutsideKeepsExact
<1>6. CASE PortChanges
  BY <1>6, OutsideKeepsExact DEF PortChanges
<1>7. CASE UNCHANGED vars
  BY <1>7, OutsideKeepsExact DEF vars
<1> QED  BY <1>1, <1>2, <1>3, <1>4, <1>5, <1>6, <1>7 DEF Next, Handler

\* When the addresses of the port and of its VLANs fit, FMan is given all of
\* them, in order, and nothing else: no early end of a list, no index carried
\* from one device to the next and no limit met on the way loses an address.
THEOREM HandoffComplete == Spec => []TablesExact
<1>1. Init => ExactInv
  BY DEF Init, ExactInv, Walking, Family
<1>2. IInv /\ ExactInv => TablesExact
  <2> SUFFICES ASSUME IInv, ExactInv, pc = "handoff", NEW t \in Kind, Fits(t)
               PROVE  /\ table_size[t] = Cardinality(Wanted(t))
                      /\ \A w \in Wanted(t) : tbl[t][SlotOf(t, w)] = w.entry
    BY DEF TablesExact
  <2>1. ExactSoFar(t)
    BY DEF ExactInv, Walking
  <2>2. Seen(t) = Wanted(t)
    BY DEF Seen, Behind, FamilyOf
  <2> QED  BY <2>1, <2>2 DEF ExactSoFar
<1> QED  BY <1>1, <1>2, InitIInv, NextIInv, NextExact, PTL DEF Spec
=============================================================================
