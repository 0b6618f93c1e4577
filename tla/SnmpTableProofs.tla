-------------------------- MODULE SnmpTableProofs --------------------------
(***************************************************************************)
(* Proofs about SnmpTable, for every set of OIDs, values and addresses and *)
(* every table size.  TypeOK and Packed are inductive together: Packed     *)
(* makes the first free slot the one at oid_table_size, and this keeps     *)
(* oid_table_size within the table.  BuffersOwned and KeysUnique need both. *)
(***************************************************************************)
EXTENDS SnmpTable, FiniteSetTheorems, WellFoundedInduction, TLAPS

\* A set of natural numbers that is not empty has its minimum in it.
LEMMA MinInSet ==
  ASSUME NEW S, S \subseteq Nat, S # {}
  PROVE  Min(S) \in S /\ \A y \in S : Min(S) =< y
<1>1. PICK x \in S : \A y \in S : ~(<<y, x>> \in OpToRel(<, Nat))
  BY NatLessThanWellFounded, WFMin
<1>2. ASSUME NEW y \in S
      PROVE  x =< y
  <2>1. y \in Nat /\ x \in Nat
    OBVIOUS
  <2>2. ~(y < x)
    BY <1>1, <2>1 DEF OpToRel
  <2> QED  BY <2>1, <2>2
<1> QED  BY <1>2 DEF Min

\* The first free slot is the one at oid_table_size.
LEMMA FreeIndex ==
  ASSUME TypeOK, Packed, ar_snmp_get_free_index # -1
  PROVE  /\ ar_snmp_get_free_index = oid_table_size
         /\ oid_table_size \in Slot
<1> DEFINE free == {i \in Slot : ar_snmp_entity[i].oidVal = NULL}
<1>1. free # {} /\ ar_snmp_get_free_index = Min(free)
  BY DEF ar_snmp_get_free_index
<1>2. ar_snmp_tblsize \in Nat /\ oid_table_size \in 0..ar_snmp_tblsize
  BY BufAssumption DEF TypeOK
<1>3. free = {i \in Slot : ~(i < oid_table_size)}
  BY DEF Packed
<1>4. Min(free) \in free /\ \A y \in free : Min(free) =< y
  <2>1. free \subseteq Nat
    BY <1>2 DEF Slot
  <2> HIDE DEF free
  <2> QED  BY <1>1, <2>1, MinInSet
<1> DEFINE m == Min(free)
<1>5. m \in Slot /\ ~(m < oid_table_size)
  BY <1>3, <1>4
<1>6. oid_table_size \in free
  BY <1>2, <1>3, <1>5 DEF Slot
<1>7. m =< oid_table_size
  BY <1>4, <1>6
<1> HIDE DEF m, free
<1>8. m = oid_table_size
  BY <1>2, <1>5, <1>7 DEF Slot
<1> QED  BY <1>1, <1>5, <1>8 DEF m

\* The search returns a slot in use or -1.
LEMMA GetIndex ==
  ASSUME TypeOK, NEW o \in Oid, NEW i \in ar_snmp_get_index(o) \ {-1}
  PROVE  i \in Slot /\ i < oid_table_size /\ MayEqual(o, i)
  BY DEF ar_snmp_get_index, Counted

IInv == TypeOK /\ Packed

-----------------------------------------------------------------------------
(* CREATE                                                                  *)

\* Put changes slot i and no other.
LEMMA PutType ==
  ASSUME TypeOK, NEW i \in Slot, NEW bo \in Buf, NEW bv \in Buf,
         Put(i, bo, bv)
  PROVE  /\ ar_snmp_entity' \in
                [Slot -> [oidVal: Buf \cup {NULL}, resVal: Buf \cup {NULL}]]
         /\ ar_snmp_entity'[i].oidVal = bo
         /\ ar_snmp_entity'[i].resVal = bv
         /\ \A j \in Slot \ {i} : ar_snmp_entity'[j] = ar_snmp_entity[j]
  BY DEF TypeOK, Put

\* The three outcomes of CREATE in ar_snmp_recv_agent_config keep the table
\* packed.
LEMMA ConfigKeepsPacked ==
  ASSUME IInv, NEW o \in Oid, NEW bo \in Buf, NEW bv \in Buf,
         Update(o, bo, bv) \/ Insert(o, bo, bv) \/ Full(o)
  PROVE  /\ Packed'
         /\ ar_snmp_entity' \in
                [Slot -> [oidVal: Buf \cup {NULL}, resVal: Buf \cup {NULL}]]
         /\ oid_table_size' \in 0..ar_snmp_tblsize
<1> USE DEF IInv
<1>0. bo # NULL /\ bv # NULL /\ ar_snmp_tblsize \in Nat
  BY BufAssumption
<1>1. CASE Update(o, bo, bv)
  <2>1. PICK i \in ar_snmp_get_index(o) \ {-1} :
            Put(i, bo, bv) /\ UNCHANGED oid_table_size
    BY <1>1 DEF Update
  <2>2. i \in Slot /\ i < oid_table_size
    BY GetIndex
  <2>3. Packed'
    BY <1>0, <2>1, <2>2, PutType DEF Packed
  <2> QED  BY <2>1, <2>2, <2>3, PutType DEF TypeOK
<1>2. CASE Insert(o, bo, bv)
  <2>1. /\ oid_table_size \in Slot
        /\ Put(oid_table_size, bo, bv)
        /\ oid_table_size' = oid_table_size + 1
    BY <1>2, FreeIndex DEF Insert
  <2>2. oid_table_size' \in 0..ar_snmp_tblsize
    BY <1>0, <2>1 DEF Slot
  <2>3. /\ ar_snmp_entity'[oid_table_size].oidVal = bo
        /\ ar_snmp_entity'[oid_table_size].resVal = bv
        /\ \A j \in Slot \ {oid_table_size} :
                ar_snmp_entity'[j] = ar_snmp_entity[j]
    BY <2>1, PutType
  <2>4. \A j \in Slot : j < oid_table_size' <=>
                            j < oid_table_size \/ j = oid_table_size
    BY <1>0, <2>1 DEF Slot
  <2>5. Packed'
    BY <1>0, <2>3, <2>4 DEF Packed
  <2> QED  BY <2>1, <2>2, <2>5, PutType
<1>3. CASE Full(o)
  BY <1>3 DEF Full, TypeOK, Packed
<1> QED  BY <1>1, <1>2, <1>3

\* A CREATE ioctl that succeeds keeps the table packed.
LEMMA CreateKeepsIInv ==
  ASSUME IInv, NEW o \in Oid, NEW v \in Val, Create(o, v)
  PROVE  IInv'
<1>0. PICK bo \in Free : \E bv \in Free \ {bo} :
        /\ heap' = [heap EXCEPT ![bo] = o, ![bv] = v]
        /\ Update(o, bo, bv) \/ Insert(o, bo, bv) \/ Full(o)
        /\ reply' = [oid |-> o, val |-> v, ret |-> "AR_SUCCESS"]
        /\ UNCHANGED deleted
  BY DEF Create
<1>1. PICK bv \in Free \ {bo} :
        /\ heap' = [heap EXCEPT ![bo] = o, ![bv] = v]
        /\ Update(o, bo, bv) \/ Insert(o, bo, bv) \/ Full(o)
        /\ reply' = [oid |-> o, val |-> v, ret |-> "AR_SUCCESS"]
        /\ UNCHANGED deleted
  BY <1>0
<1>2. bo \in Buf /\ bv \in Buf
  BY DEF Free
<1>3. /\ Packed'
      /\ ar_snmp_entity' \in
            [Slot -> [oidVal: Buf \cup {NULL}, resVal: Buf \cup {NULL}]]
      /\ oid_table_size' \in 0..ar_snmp_tblsize
  BY <1>1, <1>2, ConfigKeepsPacked
<1>4. heap' \in [Buf -> Content]
  BY <1>1, <1>2 DEF IInv, TypeOK, Content
<1> QED  BY <1>1, <1>3, <1>4 DEF IInv, TypeOK

\* A CREATE that fails changes no buffer that is in use and no slot.
LEMMA CreateFailsHeap ==
  ASSUME TypeOK, NEW o \in Oid, CreateFails(o)
  PROVE  /\ TypeOK'
         /\ \A b \in Buf : heap[b] # "freed" => heap'[b] = heap[b]
         /\ UNCHANGED <<ar_snmp_entity, oid_table_size, deleted>>
<1>1. /\ heap' \in [Buf -> Content]
      /\ \A b \in Buf : heap[b] # "freed" => heap'[b] = heap[b]
      /\ reply'.oid = NULL /\ reply'.val = NULL
  <2>1. CASE heap' = heap /\ reply'.oid = NULL /\ reply'.val = NULL
    BY <2>1 DEF TypeOK
  <2>2. ASSUME NEW bo \in Free,
               \/ heap' = [heap EXCEPT ![bo] = "zero"]
               \/ heap' = [heap EXCEPT ![bo] = o]
        PROVE  /\ heap' \in [Buf -> Content]
               /\ \A b \in Buf : heap[b] # "freed" => heap'[b] = heap[b]
    BY <2>2 DEF TypeOK, Content, Free
  <2>3. ASSUME NEW bo \in Free, NEW bv \in Free \ {bo},
               heap' = [heap EXCEPT ![bo] = o, ![bv] = "zero"]
        PROVE  /\ heap' \in [Buf -> Content]
               /\ \A b \in Buf : heap[b] # "freed" => heap'[b] = heap[b]
    BY <2>3 DEF TypeOK, Content, Free
  <2> QED  BY <2>1, <2>2, <2>3 DEF CreateFails, Answer
<1>2. UNCHANGED <<ar_snmp_entity, oid_table_size, deleted>>
  BY DEF CreateFails
<1> QED  BY <1>1, <1>2 DEF TypeOK

-----------------------------------------------------------------------------
(* DELETE                                                                  *)

\* The shift and the cleared last slot of DELETE leave no hole.
LEMMA DeleteAtKeepsPacked ==
  ASSUME IInv, NEW i \in Slot, i < oid_table_size, DeleteAt(i)
  PROVE  /\ Packed'
         /\ ar_snmp_entity' \in
                [Slot -> [oidVal: Buf \cup {NULL}, resVal: Buf \cup {NULL}]]
         /\ oid_table_size' \in 0..ar_snmp_tblsize
         /\ heap' \in [Buf -> Content]
<1> DEFINE last == oid_table_size - 1
<1>1. /\ ar_snmp_tblsize \in Nat /\ oid_table_size \in 0..ar_snmp_tblsize
      /\ i \in Nat /\ last \in Slot /\ i =< last
  BY BufAssumption DEF IInv, TypeOK, Slot
<1>2. oid_table_size' = last
  BY DEF DeleteAt
<1>3. oid_table_size' \in 0..ar_snmp_tblsize
  BY <1>1, <1>2 DEF Slot
<1>4. heap' \in [Buf -> Content]
  BY DEF DeleteAt, IInv, TypeOK, Content
<1>5. ar_snmp_entity' = [j \in Slot |->
                CASE j \in i..(last - 1) -> ar_snmp_entity[j + 1]
                  [] j = last -> Empty
                  [] OTHER -> ar_snmp_entity[j]]
  BY DEF DeleteAt
<1> HIDE DEF last
<1>6. ASSUME NEW j \in Slot
      PROVE  \/ /\ j \in i..(last - 1) /\ j + 1 \in Slot
                /\ ar_snmp_entity'[j] = ar_snmp_entity[j + 1]
             \/ j = last /\ ar_snmp_entity'[j] = Empty
             \/ /\ j \notin i..(last - 1) /\ j # last
                /\ ar_snmp_entity'[j] = ar_snmp_entity[j]
  <2>1. CASE j \in i..(last - 1)
    <3>1. j # last /\ j + 1 \in Slot
      BY <1>1, <2>1 DEF Slot
    <3> QED  BY <1>5, <2>1, <3>1
  <2>2. CASE j = last
    <3>1. j \notin i..(last - 1)
      BY <1>1, <2>2 DEF Slot
    <3> QED  BY <1>5, <2>2, <3>1
  <2>3. CASE j \notin i..(last - 1) /\ j # last
    BY <1>5, <2>3
  <2> QED  BY <2>1, <2>2, <2>3
<1>7. ar_snmp_entity' \in
            [Slot -> [oidVal: Buf \cup {NULL}, resVal: Buf \cup {NULL}]]
  <2>1. \A j \in Slot : ar_snmp_entity'[j] \in
                [oidVal: Buf \cup {NULL}, resVal: Buf \cup {NULL}]
    BY <1>6 DEF IInv, TypeOK, Empty
  <2> QED  BY <1>5, <2>1
<1>8. Packed'
  <2>1. ASSUME NEW j \in Slot
        PROVE  /\ j < last <=> ar_snmp_entity'[j].oidVal # NULL
               /\ ar_snmp_entity'[j].oidVal # NULL
                        <=> ar_snmp_entity'[j].resVal # NULL
    <3>0. j \in Nat /\ last \in Nat
      BY <1>1 DEF Slot
    <3>1. CASE /\ j \in i..(last - 1) /\ j + 1 \in Slot
               /\ ar_snmp_entity'[j] = ar_snmp_entity[j + 1]
      <4>1. j < last /\ j + 1 < oid_table_size
        BY <1>1, <3>0, <3>1 DEF last
      <4> QED  BY <3>1, <4>1 DEF IInv, Packed
    <3>2. CASE j = last /\ ar_snmp_entity'[j] = Empty
      BY <3>0, <3>2 DEF Empty
    <3>3. CASE /\ j \notin i..(last - 1) /\ j # last
               /\ ar_snmp_entity'[j] = ar_snmp_entity[j]
      <4>1. j < last <=> j < oid_table_size
        BY <1>1, <3>0, <3>3 DEF last
      <4> QED  BY <3>3, <4>1 DEF IInv, Packed
    <3> QED  BY <1>6, <3>1, <3>2, <3>3
  <2> QED  BY <1>2, <2>1 DEF Packed
<1> QED  BY <1>3, <1>4, <1>7, <1>8

-----------------------------------------------------------------------------
(* The table has no holes                                                  *)

\* The table ar_snmp_init_db allocates is empty and packed.
LEMMA InitIInv == Init => IInv
<1> SUFFICES ASSUME Init
             PROVE  IInv
  OBVIOUS
<1>1. /\ heap \in [Buf -> Content]
      /\ reply.oid \in Oid \cup {NULL} /\ reply.val \in Val \cup {NULL}
      /\ deleted \in BOOLEAN
  BY DEF Init, Content
<1>2. /\ ar_snmp_entity \in
            [Slot -> [oidVal: Buf \cup {NULL}, resVal: Buf \cup {NULL}]]
      /\ \A i \in Slot : /\ ar_snmp_entity[i].oidVal = NULL
                         /\ ar_snmp_entity[i].resVal = NULL
  BY DEF Init, Empty
<1>3. oid_table_size = 0 /\ ar_snmp_tblsize \in Nat
  BY BufAssumption DEF Init
<1>4. \A i \in Slot : ~(i < oid_table_size)
  BY <1>3 DEF Slot
<1> QED  BY <1>1, <1>2, <1>3, <1>4 DEF IInv, TypeOK, Packed

\* Every call keeps the table packed.
LEMMA NextIInv == IInv /\ [Next]_vars => IInv'
<1> SUFFICES ASSUME IInv, [Next]_vars
             PROVE  IInv'
  OBVIOUS
<1>1. ASSUME NEW o \in Oid, NEW v \in Val, Create(o, v)
      PROVE  IInv'
  BY <1>1, CreateKeepsIInv
<1>2. ASSUME NEW o \in Oid, CreateFails(o)
      PROVE  IInv'
  BY <1>2, CreateFailsHeap DEF IInv, Packed
<1>3. ASSUME NEW o \in Oid, Delete(o)
      PROVE  IInv'
  <2>0. reply'.oid = NULL /\ reply'.val = NULL
    BY <1>3 DEF Delete, Answer
  <2>1. ASSUME NEW i \in ar_snmp_get_index(o) \ {-1}, DeleteAt(i),
               deleted' = TRUE
        PROVE  IInv'
    <3>1. i \in Slot /\ i < oid_table_size
      BY GetIndex DEF IInv
    <3> QED  BY <2>0, <2>1, <3>1, DeleteAtKeepsPacked DEF IInv, TypeOK
  <2>2. CASE UNCHANGED <<heap, ar_snmp_entity, oid_table_size, deleted>>
    BY <2>0, <2>2 DEF IInv, TypeOK, Packed
  <2> QED  BY <1>3, <2>1, <2>2 DEF Delete
<1>4. CASE UNCHANGED vars
  BY <1>4 DEF vars, IInv, TypeOK, Packed
<1> QED  BY <1>1, <1>2, <1>3, <1>4 DEF Next

\* The slots, the counter and the buffers keep their types.
THEOREM TypeCorrect == Spec => []TypeOK
<1>1. Spec => []IInv
  BY InitIInv, NextIInv, PTL DEF Spec
<1> QED  BY <1>1, PTL DEF IInv

\* The entries are always exactly the first oid_table_size slots, across
\* every sequence of CREATE and DELETE.
THEOREM TablePacked == Spec => []Packed
<1>1. Spec => []IInv
  BY InitIInv, NextIInv, PTL DEF Spec
<1> QED  BY <1>1, PTL DEF IInv

-----------------------------------------------------------------------------
(* Buffers and keys, until an entry is deleted                             *)

Owned == IInv /\ BuffersOwned /\ KeysUnique

\* What the three outcomes of CREATE in ar_snmp_recv_agent_config do to the
\* slots: nothing, for a table that is full and has no entry of the OID; or
\* one slot, the OID's own if it has one, is given the new buffers.
LEMMA ConfigEffect ==
  ASSUME Owned, ~deleted, NEW o \in Oid, NEW bo \in Buf, NEW bv \in Buf,
         Update(o, bo, bv) \/ Insert(o, bo, bv) \/ Full(o)
  PROVE  \/ /\ Counted = Slot
            /\ \A j \in Counted : ~Equal(o, j)
            /\ UNCHANGED <<ar_snmp_entity, oid_table_size>>
         \/ \E i \in Slot :
                /\ Counted' = Counted \cup {i}
                /\ i \in Counted => Equal(o, i)
                /\ ar_snmp_entity'[i].oidVal = bo
                /\ ar_snmp_entity'[i].resVal = bv
                /\ \A j \in Counted \ {i} :
                    /\ ar_snmp_entity'[j] = ar_snmp_entity[j]
                    /\ ~Equal(o, j)
<1> USE DEF Owned, IInv
<1>1. \A j \in Counted : MayEqual(o, j) => Equal(o, j)
  BY BufAssumption DEF BuffersOwned, MayEqual
<1>2. -1 \in ar_snmp_get_index(o) => \A j \in Counted : ~Equal(o, j)
  <2>1. -1 \notin Counted
    BY BufAssumption DEF Counted, Slot
  <2> QED  BY <2>1 DEF ar_snmp_get_index
<1>3. CASE Update(o, bo, bv)
  <2>1. PICK i \in ar_snmp_get_index(o) \ {-1} :
            Put(i, bo, bv) /\ UNCHANGED oid_table_size
    BY <1>3 DEF Update
  <2>2. i \in Slot /\ i \in Counted /\ Equal(o, i)
    BY <1>1, GetIndex DEF Counted
  <2>3. \A j \in Counted \ {i} : ~Equal(o, j)
    BY <2>2 DEF KeysUnique, Equal
  <2>4. Counted' = Counted \cup {i}
    BY <2>1, <2>2 DEF Counted
  <2> QED  BY <2>1, <2>2, <2>3, <2>4, PutType DEF Counted
<1>4. CASE Insert(o, bo, bv)
  <2> DEFINE i == oid_table_size
  <2>1. i \in Slot /\ Put(i, bo, bv) /\ oid_table_size' = i + 1
    BY <1>4, FreeIndex DEF Insert
  <2>2. Counted' = Counted \cup {i} /\ i \notin Counted
    <3>1. \A j \in Slot : j < i + 1 <=> j < i \/ j = i
      BY BufAssumption, <2>1 DEF Slot
    <3>2. ~(i < i)
      BY BufAssumption DEF TypeOK
    <3> QED  BY <2>1, <3>1, <3>2 DEF Counted
  <2>3. \A j \in Counted : ~Equal(o, j)
    BY <1>2, <1>4 DEF Insert
  <2> QED  BY <2>1, <2>2, <2>3, PutType DEF Counted
<1>5. CASE Full(o)
  <2> DEFINE free == {i \in Slot : ar_snmp_entity[i].oidVal = NULL}
  <2>1. free \subseteq Nat
    BY BufAssumption DEF Slot
  <2>2. free # {} => Min(free) \in free
    BY <2>1, MinInSet
  <2>3. free = {}
    BY <1>5, <2>1, <2>2 DEF Full, ar_snmp_get_free_index
  <2>4. Counted = Slot
    BY <2>3 DEF Packed, Counted
  <2> QED  BY <1>2, <1>5, <2>4 DEF Full
<1> QED  BY <1>3, <1>4, <1>5

\* A CREATE ioctl writes to no buffer in use, and the slot it fills has two
\* buffers of its own with the OID and the value sent.
LEMMA CreateEffect ==
  ASSUME Owned, ~deleted, NEW o \in Oid, NEW v \in Val, Create(o, v)
  PROVE  /\ \A j \in Counted : \A b \in Buffers(j) : heap'[b] = heap[b]
         /\ \/ /\ Counted = Slot
               /\ \A j \in Counted : ~Equal(o, j)
               /\ UNCHANGED <<ar_snmp_entity, oid_table_size>>
            \/ \E i \in Slot :
                /\ Counted' = Counted \cup {i}
                /\ i \in Counted => Equal(o, i)
                /\ ar_snmp_entity'[i].oidVal # ar_snmp_entity'[i].resVal
                /\ heap'[ar_snmp_entity'[i].oidVal] = o
                /\ heap'[ar_snmp_entity'[i].resVal] = v
                /\ \A j \in Counted \ {i} :
                    /\ ar_snmp_entity'[j] = ar_snmp_entity[j]
                    /\ Buffers(i)' \cap Buffers(j) = {}
                    /\ ~Equal(o, j)
<1>0. PICK bo \in Free : \E bv \in Free \ {bo} :
        /\ heap' = [heap EXCEPT ![bo] = o, ![bv] = v]
        /\ Update(o, bo, bv) \/ Insert(o, bo, bv) \/ Full(o)
  BY DEF Create
<1>1. PICK bv \in Free \ {bo} :
        /\ heap' = [heap EXCEPT ![bo] = o, ![bv] = v]
        /\ Update(o, bo, bv) \/ Insert(o, bo, bv) \/ Full(o)
  BY <1>0
<1>2. bo \in Buf /\ bv \in Buf /\ bo # bv /\ heap \in [Buf -> Content]
  BY DEF Free, Owned, IInv, TypeOK
<1>3. /\ heap'[bo] = o /\ heap'[bv] = v
      /\ \A b \in Buf \ {bo, bv} : heap'[b] = heap[b]
  BY <1>1, <1>2
<1>4. \A j \in Counted : Buffers(j) \subseteq Buf \ {bo, bv}
  <2>1. TAKE j \in Counted
  <2>2. /\ heap[ar_snmp_entity[j].oidVal] \in Oid
        /\ heap[ar_snmp_entity[j].resVal] \in Val
    BY DEF Owned, BuffersOwned
  <2>3. heap[bo] = "freed" /\ heap[bv] = "freed"
    BY DEF Free
  <2>4. /\ ar_snmp_entity[j].oidVal \in Buf
        /\ ar_snmp_entity[j].resVal \in Buf
    BY DEF Owned, IInv, TypeOK, Packed, Counted
  <2> QED  BY <2>2, <2>3, <2>4, BufAssumption DEF Buffers
<1>5. \A j \in Counted : \A b \in Buffers(j) : heap'[b] = heap[b]
  BY <1>3, <1>4
<1>6. ASSUME NEW i \in Slot,
             ar_snmp_entity'[i].oidVal = bo,
             ar_snmp_entity'[i].resVal = bv
      PROVE  \A j \in Counted : Buffers(i)' \cap Buffers(j) = {}
  BY <1>4, <1>6 DEF Buffers
<1> DEFINE Unfilled == /\ Counted = Slot
                       /\ \A j \in Counted : ~Equal(o, j)
                       /\ UNCHANGED <<ar_snmp_entity, oid_table_size>>
           Filled(i) == /\ Counted' = Counted \cup {i}
                        /\ i \in Counted => Equal(o, i)
                        /\ ar_snmp_entity'[i].oidVal = bo
                        /\ ar_snmp_entity'[i].resVal = bv
                        /\ \A j \in Counted \ {i} :
                            /\ ar_snmp_entity'[j] = ar_snmp_entity[j]
                            /\ ~Equal(o, j)
<1>7. Unfilled \/ \E i \in Slot : Filled(i)
  BY <1>1, <1>2, ConfigEffect
<1>8. CASE Unfilled
  BY <1>5, <1>8
<1>9. ASSUME NEW i \in Slot, Filled(i)
      PROVE  /\ ar_snmp_entity'[i].oidVal # ar_snmp_entity'[i].resVal
             /\ heap'[ar_snmp_entity'[i].oidVal] = o
             /\ heap'[ar_snmp_entity'[i].resVal] = v
             /\ \A j \in Counted : Buffers(i)' \cap Buffers(j) = {}
  BY <1>2, <1>3, <1>6, <1>9
<1> QED  BY <1>5, <1>7, <1>8, <1>9

\* A CREATE gives its entry two fresh buffers and takes none from another.
LEMMA CreateKeepsOwned ==
  ASSUME Owned, ~deleted, NEW o \in Oid, NEW v \in Val, Create(o, v)
  PROVE  BuffersOwned' /\ KeysUnique'
<1>1. \A j \in Counted : /\ heap'[ar_snmp_entity[j].oidVal]
                                = heap[ar_snmp_entity[j].oidVal]
                         /\ heap'[ar_snmp_entity[j].resVal]
                                = heap[ar_snmp_entity[j].resVal]
                         /\ heap[ar_snmp_entity[j].oidVal] \in Oid
                         /\ heap[ar_snmp_entity[j].resVal] \in Val
  BY CreateEffect DEF Buffers, Owned, BuffersOwned
<1>2. CASE UNCHANGED <<ar_snmp_entity, oid_table_size>>
  <2>1. Counted' = Counted /\ \A j \in Counted : Buffers(j)' = Buffers(j)
    BY <1>2 DEF Counted, Buffers
  <2>2. BuffersOwned'
    BY <1>1, <1>2, <2>1 DEF Owned, BuffersOwned
  <2>3. KeysUnique'
    BY <1>1, <1>2, <2>1 DEF Owned, KeysUnique
  <2> QED  BY <2>2, <2>3
<1>3. ASSUME NEW i \in Slot,
             Counted' = Counted \cup {i},
             ar_snmp_entity'[i].oidVal # ar_snmp_entity'[i].resVal,
             heap'[ar_snmp_entity'[i].oidVal] = o,
             heap'[ar_snmp_entity'[i].resVal] = v,
             \A j \in Counted \ {i} :
                /\ ar_snmp_entity'[j] = ar_snmp_entity[j]
                /\ Buffers(i)' \cap Buffers(j) = {}
                /\ ~Equal(o, j)
      PROVE  BuffersOwned' /\ KeysUnique'
  <2>1. \A j \in Counted \ {i} : Buffers(j)' = Buffers(j)
    BY <1>3 DEF Buffers
  <2>2. \A j, l \in Counted' : j # l => Buffers(j)' \cap Buffers(l)' = {}
    BY <1>3, <2>1 DEF Owned, BuffersOwned
  <2>3. \A j \in Counted' : heap'[ar_snmp_entity'[j].oidVal] \in Oid
                         /\ heap'[ar_snmp_entity'[j].resVal] \in Val
                         /\ ar_snmp_entity'[j].oidVal # ar_snmp_entity'[j].resVal
    BY <1>1, <1>3 DEF Owned, BuffersOwned
  <2>4. BuffersOwned'
    BY <2>2, <2>3 DEF BuffersOwned
  <2>5. \A j \in Counted \ {i} :
            Str[heap'[ar_snmp_entity'[j].oidVal]] # Str[o]
    BY <1>1, <1>3 DEF Equal
  <2>6. KeysUnique'
    <3>1. SUFFICES ASSUME NEW j \in Counted', NEW l \in Counted',
                          Str[heap'[ar_snmp_entity'[j].oidVal]]
                            = Str[heap'[ar_snmp_entity'[l].oidVal]]
                   PROVE  j = l
      BY DEF KeysUnique
    <3>2. CASE j # i /\ l # i
      BY <1>1, <1>3, <3>1, <3>2 DEF Owned, KeysUnique
    <3>3. CASE j = i \/ l = i
      BY <1>3, <2>5, <3>1, <3>3
    <3> QED  BY <3>2, <3>3
  <2> QED  BY <2>4, <2>6
<1> QED  BY <1>2, <1>3, CreateEffect

\* A call that leaves the slots and every buffer in use alone: a CREATE that
\* fails, and a DELETE of an OID that is not there.
LEMMA NoEffect ==
  ASSUME Owned, ~deleted', NEW o \in Oid, CreateFails(o) \/ Delete(o)
  PROVE  /\ UNCHANGED <<ar_snmp_entity, oid_table_size, deleted>>
         /\ \A j \in Counted : \A b \in Buffers(j) : heap'[b] = heap[b]
         /\ reply'.oid = NULL /\ reply'.ret # "none"
<1>1. CASE CreateFails(o)
  <2>1. /\ \A b \in Buf : heap[b] # "freed" => heap'[b] = heap[b]
        /\ UNCHANGED <<ar_snmp_entity, oid_table_size, deleted>>
    BY <1>1, CreateFailsHeap DEF Owned, IInv
  <2>2. \A j \in Counted : /\ ar_snmp_entity[j].oidVal \in Buf
                           /\ ar_snmp_entity[j].resVal \in Buf
                           /\ heap[ar_snmp_entity[j].oidVal] \in Oid
                           /\ heap[ar_snmp_entity[j].resVal] \in Val
    BY <2>1 DEF Owned, IInv, TypeOK, Packed, Counted, BuffersOwned
  <2>3. \A j \in Counted : \A b \in Buffers(j) : heap'[b] = heap[b]
    BY <2>1, <2>2, BufAssumption DEF Buffers
  <2>4. reply'.oid = NULL /\ reply'.ret # "none"
    BY <1>1 DEF CreateFails, Answer
  <2> QED  BY <2>1, <2>3, <2>4
<1>2. CASE Delete(o)
  <2>1. UNCHANGED <<heap, ar_snmp_entity, oid_table_size, deleted>>
    BY <1>2 DEF Delete
  <2>2. reply'.oid = NULL /\ reply'.ret # "none"
    BY <1>2 DEF Delete, Answer
  <2> QED  BY <2>1, <2>2
<1> QED  BY <1>1, <1>2

\* Until an entry is deleted, every call keeps the entries sound.
LEMMA NextOwned == Owned /\ [Next]_vars => Owned'
<1> SUFFICES ASSUME Owned, [Next]_vars
             PROVE  Owned'
  OBVIOUS
<1>1. IInv'
  BY NextIInv DEF Owned
<1>2. CASE deleted'
  BY <1>1, <1>2 DEF Owned, BuffersOwned, KeysUnique
<1>3. CASE ~deleted'
  <2>1. ASSUME NEW o \in Oid, NEW v \in Val, Create(o, v)
        PROVE  BuffersOwned' /\ KeysUnique'
    <3>1. ~deleted
      BY <1>3, <2>1 DEF Create
    <3> QED  BY <2>1, <3>1, CreateKeepsOwned
  <2>2. ASSUME NEW o \in Oid, CreateFails(o) \/ Delete(o)
        PROVE  BuffersOwned' /\ KeysUnique'
    <3>1. /\ UNCHANGED <<ar_snmp_entity, oid_table_size, deleted>>
          /\ \A j \in Counted : \A b \in Buffers(j) : heap'[b] = heap[b]
      BY <1>3, <2>2, NoEffect
    <3>2. Counted' = Counted /\ \A j \in Counted : Buffers(j)' = Buffers(j)
      BY <3>1 DEF Counted, Buffers
    <3> QED  BY <3>1, <3>2 DEF Owned, BuffersOwned, KeysUnique, Buffers
  <2>3. CASE UNCHANGED vars
    <3>1. UNCHANGED <<heap, ar_snmp_entity, oid_table_size, deleted>>
      BY <2>3 DEF vars
    <3> QED  BY <1>1, <3>1 DEF Owned, BuffersOwned, KeysUnique, Counted, Buffers
  <2> QED  BY <1>1, <2>1, <2>2, <2>3 DEF Next, Owned
<1> QED  BY <1>2, <1>3

\* An empty table is sound.
LEMMA InitOwned == Init => Owned
<1> SUFFICES ASSUME Init
             PROVE  Owned
  OBVIOUS
<1>1. Counted = {}
  BY BufAssumption DEF Init, Counted, Slot
<1> QED  BY <1>1, InitIInv DEF Owned, BuffersOwned, KeysUnique

\* The invariant of the entries holds throughout.
THEOREM OwnedInvariance == Spec => []Owned
  BY InitOwned, NextOwned, PTL DEF Spec

\* As long as no entry is deleted, the ioctl keeps every entry's two buffers
\* allocated and its own.
THEOREM EntriesSound == Spec => []BuffersOwned
  BY OwnedInvariance, PTL DEF Owned

\* As long as no entry is deleted, the OIDs of the table are distinct under
\* strcmp: CREATE never adds a second entry for an OID.
THEOREM KeysAreUnique == Spec => []KeysUnique
  BY OwnedInvariance, PTL DEF Owned

-----------------------------------------------------------------------------
(* Entries of other OIDs                                                   *)

\* As long as no entry is deleted, a call changes the entry of the OID it
\* names and no other: neither its slot nor what its buffers hold.
THEOREM OtherEntriesKept == Spec => OthersKept
<1> DEFINE Kept(i) == \/ /\ ar_snmp_entity'[i] = ar_snmp_entity[i]
                         /\ \A b \in Buffers(i) : heap'[b] = heap[b]
                      \/ reply'.oid \in Oid /\ Equal(reply'.oid, i)
<1>1. Owned /\ [Next]_vars => [~deleted' => \A i \in Counted : Kept(i)]_vars
  <2> SUFFICES ASSUME Owned, Next, ~deleted'
               PROVE  \A i \in Counted : Kept(i)
    OBVIOUS
  <2>1. ASSUME NEW o \in Oid, NEW v \in Val, Create(o, v)
        PROVE  \A i \in Counted : Kept(i)
    <3>1. ~deleted /\ reply'.oid = o
      BY <2>1 DEF Create
    <3>2. \A j \in Counted : \A b \in Buffers(j) : heap'[b] = heap[b]
      BY <2>1, <3>1, CreateEffect
    <3>3. \A j \in Counted : ar_snmp_entity'[j] = ar_snmp_entity[j] \/ Equal(o, j)
      BY <2>1, <3>1, CreateEffect
    <3> QED  BY <3>1, <3>2, <3>3
  <2>2. ASSUME NEW o \in Oid, CreateFails(o) \/ Delete(o)
        PROVE  \A i \in Counted : Kept(i)
    BY <2>2, NoEffect
  <2> QED  BY <2>1, <2>2 DEF Next
<1>2. Spec => [][Next]_vars
  BY DEF Spec
<1> QED  BY <1>1, <1>2, OwnedInvariance, PTL DEF OthersKept

-----------------------------------------------------------------------------
(* The table implements BoundedMap                                         *)

KeyAt(i) == Str[heap[ar_snmp_entity[i].oidVal]]
PairAt(i) == <<heap[ar_snmp_entity[i].oidVal], heap[ar_snmp_entity[i].resVal]>>
Keys == {KeyAt(i) : i \in Counted}

\* The map of the refinement has the pair of slot i under the key of slot i.
LEMMA EntriesAt ==
  KeysUnique /\ ~deleted =>
      /\ Entries = [k \in Keys |-> Entries[k]]
      /\ \A i \in Counted : Entries[KeyAt(i)] = PairAt(i)
<1> SUFFICES ASSUME KeysUnique, ~deleted
             PROVE  /\ Entries = [k \in Keys |-> Entries[k]]
                    /\ \A i \in Counted : Entries[KeyAt(i)] = PairAt(i)
  OBVIOUS
<1> DEFINE At(k) == CHOOSE j \in Counted : KeyAt(j) = k
<1>1. Entries = [k \in Keys |-> PairAt(At(k))]
  BY DEF Entries, Keys, KeyAt, PairAt
<1>2. \A i \in Counted : At(KeyAt(i)) \in Counted /\ KeyAt(At(KeyAt(i))) = KeyAt(i)
  OBVIOUS
<1>3. \A i \in Counted : At(KeyAt(i)) = i
  BY <1>2 DEF KeysUnique, KeyAt
<1> HIDE DEF At
<1>4. \A i \in Counted : Entries[KeyAt(i)] = PairAt(i)
  BY <1>1, <1>3 DEF Keys
<1>5. Entries = [k \in Keys |-> Entries[k]]
  BY <1>1
<1> QED  BY <1>4, <1>5

\* There are as many keys as counted slots, so a key for every slot just
\* when the table is full.
LEMMA KeyCount ==
  ASSUME KeysUnique, ~deleted
  PROVE  /\ Counted = Slot => Cardinality(Keys) = ar_snmp_tblsize
         /\ Counted # Slot => Cardinality(Keys) < ar_snmp_tblsize
<1> DEFINE f == [i \in Counted |-> KeyAt(i)]
<1>1. IsFiniteSet(Slot) /\ Cardinality(Slot) = ar_snmp_tblsize
  BY BufAssumption, FS_Interval DEF Slot
<1>2. Counted \in SUBSET Slot
  BY DEF Counted
<1>3. /\ IsFiniteSet(Counted)
      /\ Cardinality(Counted) =< Cardinality(Slot)
      /\ Cardinality(Slot) = Cardinality(Counted) => Slot = Counted
  BY <1>1, <1>2, FS_Subset
<1>4. Cardinality(Counted) \in Nat
  BY <1>3, FS_CardinalityType
<1>5. f \in Surjection(Counted, Keys)
  BY DEF Surjection, Keys
<1>6. f \in Injection(Counted, Keys)
  BY DEF Injection, IsInjective, Keys, KeyAt, KeysUnique
<1>7. ExistsBijection(Counted, Keys)
  BY <1>5, <1>6 DEF Bijection, ExistsBijection
<1>8. Cardinality(Keys) = Cardinality(Counted)
  BY <1>3, <1>7, FS_Bijection
<1> QED  BY <1>1, <1>3, <1>4, <1>8, BufAssumption

\* BoundedMap counts keys with the Cardinality of FiniteSets.
LEMMA SameCardinality ==
  ASSUME NEW S
  PROVE  Store!Cardinality(S) = Cardinality(S)
  BY DEF Store!Cardinality, Cardinality

\* The map before a step and the map after it, slot by slot.
LEMMA EntriesBoth ==
  ASSUME KeysUnique, ~deleted, KeysUnique', ~deleted'
  PROVE  /\ Entries = [k \in Keys |-> Entries[k]]
         /\ \A i \in Counted : Entries[KeyAt(i)] = PairAt(i)
         /\ Entries' = [k \in Keys' |-> Entries'[k]]
         /\ \A i \in Counted' : Entries'[KeyAt(i)'] = PairAt(i)'
<1>1. (KeysUnique /\ ~deleted =>
          /\ Entries = [k \in Keys |-> Entries[k]]
          /\ \A i \in Counted : Entries[KeyAt(i)] = PairAt(i))'
  BY EntriesAt, PTL
<1> QED  BY <1>1, EntriesAt

\* What leaves the slots in use and their buffers alone leaves the map.
LEMMA SameEntries ==
  ASSUME KeysUnique, ~deleted, KeysUnique', ~deleted',
         UNCHANGED <<ar_snmp_entity, oid_table_size>>,
         \A j \in Counted : \A b \in Buffers(j) : heap'[b] = heap[b]
  PROVE  Entries' = Entries
<1>1. Counted' = Counted
  BY DEF Counted
<1>2. \A j \in Counted : KeyAt(j)' = KeyAt(j) /\ PairAt(j)' = PairAt(j)
  BY DEF KeyAt, PairAt, Buffers
<1>3. Keys' = Keys
  BY <1>1, <1>2 DEF Keys
<1>4. \A k \in Keys : Entries'[k] = Entries[k]
  BY <1>1, <1>2, EntriesBoth DEF Keys
<1> QED  BY <1>3, <1>4, EntriesBoth

\* A CREATE ioctl that returns 0 is one of the calls of a BoundedMap.
LEMMA CreateIsCall ==
  ASSUME Owned, Owned', ~deleted, NEW o \in Oid, NEW v \in Val, Create(o, v)
  PROVE  Store!Call("OID")
<1> DEFINE k == Str[o]
<1>1. ~deleted' /\ KeysUnique /\ KeysUnique'
  BY DEF Create, Owned
<1>2. LastCall' = [key |-> k, val |-> <<o, v>>, ret |-> "ok"]
  <2>1. reply'.oid = o /\ reply'.val = v /\ o # NULL
    BY BufAssumption DEF Create
  <2> QED  BY <2>1 DEF LastCall
<1>3. DOMAIN Entries = Keys
  BY <1>1, EntriesAt
<1>4. SUFFICES \/ /\ k \in Keys \/ Cardinality(Keys) < ar_snmp_tblsize
                  /\ Entries' = [x \in Keys \cup {k} |->
                        IF x = k THEN <<o, v>> ELSE Entries[x]]
               \/ /\ k \notin Keys
                  /\ Cardinality(Keys) = ar_snmp_tblsize
                  /\ Entries' = Entries
  <2>1. Store!Put("OID", k, <<o, v>>) \/ Store!Full("OID", k, <<o, v>>)
    BY <1>1, <1>2, <1>3, <1>4, SameCardinality
       DEF Store!Put, Store!Full, Store!Answer
  <2>2. k \in {Str[x] : x \in Oid} /\ <<o, v>> \in Oid \X Val
    OBVIOUS
  <2> HIDE DEF k
  <2> QED  BY <2>1, <2>2 DEF Store!Call
<1>5. \A j \in Counted : \A b \in Buffers(j) : heap'[b] = heap[b]
  BY CreateEffect
<1>6. \A j \in Counted : Equal(o, j) <=> KeyAt(j) = k
  BY DEF Equal, KeyAt, Owned, BuffersOwned
<1> DEFINE Unfilled == /\ Counted = Slot
                       /\ \A j \in Counted : ~Equal(o, j)
                       /\ UNCHANGED <<ar_snmp_entity, oid_table_size>>
           Filled(i) == /\ Counted' = Counted \cup {i}
                        /\ i \in Counted => Equal(o, i)
                        /\ heap'[ar_snmp_entity'[i].oidVal] = o
                        /\ heap'[ar_snmp_entity'[i].resVal] = v
                        /\ \A j \in Counted \ {i} :
                            /\ ar_snmp_entity'[j] = ar_snmp_entity[j]
                            /\ ~Equal(o, j)
<1>7. CASE Unfilled
  <2>1. Entries' = Entries
    BY <1>1, <1>5, <1>7, SameEntries
  <2>2. k \notin Keys
    BY <1>6, <1>7 DEF Keys
  <2>3. Cardinality(Keys) = ar_snmp_tblsize
    BY <1>1, <1>7, KeyCount
  <2> QED  BY <1>4, <2>1, <2>2, <2>3
<1>8. ASSUME NEW i \in Slot, Filled(i)
      PROVE  /\ k \in Keys \/ Cardinality(Keys) < ar_snmp_tblsize
             /\ Entries' = [x \in Keys \cup {k} |->
                        IF x = k THEN <<o, v>> ELSE Entries[x]]
  <2>1. KeyAt(i)' = k /\ PairAt(i)' = <<o, v>>
    BY <1>8 DEF KeyAt, PairAt
  <2>2. \A j \in Counted \ {i} : /\ KeyAt(j)' = KeyAt(j)
                                 /\ PairAt(j)' = PairAt(j)
                                 /\ KeyAt(j) # k
    BY <1>5, <1>6, <1>8 DEF KeyAt, PairAt, Buffers
  <2>3. i \in Counted => KeyAt(i) = k
    BY <1>6, <1>8
  <2>4. Keys' = Keys \cup {k}
    BY <1>8, <2>1, <2>2, <2>3 DEF Keys
  <2>5. Entries'[k] = <<o, v>>
    BY <1>1, <1>8, <2>1, EntriesBoth
  <2>6. ASSUME NEW x \in Keys, x # k
        PROVE  Entries'[x] = Entries[x]
    <3>1. PICK j \in Counted : x = KeyAt(j)
      BY DEF Keys
    <3>2. j # i
      BY <2>3, <2>6, <3>1
    <3> QED  BY <1>1, <1>8, <2>2, <3>1, <3>2, EntriesBoth
  <2>7. Entries' = [x \in Keys \cup {k} |->
                        IF x = k THEN <<o, v>> ELSE Entries[x]]
    <3>1. Entries' = [x \in Keys' |-> Entries'[x]]
      BY <1>1, EntriesBoth
    <3> HIDE DEF k
    <3> QED  BY <2>4, <2>5, <2>6, <3>1
  <2>8. k \in Keys \/ Cardinality(Keys) < ar_snmp_tblsize
    <3>1. CASE i \in Counted
      BY <2>3, <3>1 DEF Keys
    <3>2. CASE i \notin Counted
      BY <1>1, <3>2, KeyCount
    <3> QED  BY <3>1, <3>2
  <2> QED  BY <2>7, <2>8
<1>9. Unfilled \/ \E i \in Slot : Filled(i)
  BY CreateEffect
<1> HIDE DEF k, Unfilled, Filled
<1> QED  BY <1>4, <1>7, <1>8, <1>9

\* Until an entry is deleted every call is a call of a BoundedMap.
LEMMA NextImplements ==
  ASSUME Owned, Owned', Next
  PROVE  Store!Next
<1>1. SUFFICES ASSUME ~deleted'
               PROVE  ~deleted /\ Store!Call("OID")
  BY DEF Store!Next
<1>2. ASSUME NEW o \in Oid, NEW v \in Val, Create(o, v)
      PROVE  ~deleted /\ Store!Call("OID")
  <2>1. ~deleted
    BY <1>1, <1>2 DEF Create
  <2> QED  BY <1>2, <2>1, CreateIsCall
<1>3. ASSUME NEW o \in Oid, CreateFails(o) \/ Delete(o)
      PROVE  ~deleted /\ Store!Call("OID")
  <2>1. /\ UNCHANGED <<ar_snmp_entity, oid_table_size, deleted>>
        /\ \A j \in Counted : \A b \in Buffers(j) : heap'[b] = heap[b]
        /\ reply'.oid = NULL /\ reply'.ret # "none"
    BY <1>1, <1>3, NoEffect
  <2>2. ~deleted
    BY <1>1, <2>1
  <2>3. Entries' = Entries
    BY <1>1, <2>1, <2>2, SameEntries DEF Owned
  <2>4. LastCall'.ret = "failed"
    BY <2>1 DEF LastCall
  <2>5. Store!Elsewhere("OID")
    BY <1>1, <2>2, <2>3, <2>4 DEF Store!Elsewhere
  <2> QED  BY <2>2, <2>5 DEF Store!Call
<1> QED  BY <1>2, <1>3 DEF Next

\* As long as no entry is deleted, the OID table implements BoundedMap: a
\* CREATE that returns 0 has stored its pair unless the table is full, and
\* a CREATE that fails half way has no effect.
THEOREM TableStoresEntries == Spec => StoresEntries
<1> DEFINE mapped == <<[t \in {"OID"} |-> IF deleted THEN <<>> ELSE Entries],
                       [t \in {"OID"} |-> LastCall],
                       [t \in {"OID"} |-> ~deleted]>>
<1>1. Init => Store!Init
  <2> SUFFICES ASSUME Init
               PROVE  Store!Init
    OBVIOUS
  <2>1. Counted = {}
    BY BufAssumption DEF Init, Counted, Slot
  <2>2. Entries = [k \in {} |-> k]
    BY <2>1 DEF Entries
  <2>3. LastCall.ret = "other" /\ ~deleted
    BY DEF Init, LastCall
  <2> QED  BY <2>2, <2>3 DEF Store!Init
<1>2. UNCHANGED vars => UNCHANGED mapped
  BY DEF vars, Entries, LastCall, Counted
<1>3. Owned /\ Owned' /\ [Next]_vars => [Store!Next]_mapped
  BY <1>2, NextImplements
<1> QED  BY <1>1, <1>3, OwnedInvariance, PTL DEF Spec, StoresEntries, Store!Spec
=============================================================================
