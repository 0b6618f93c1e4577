------------------------------ MODULE SnmpTable ------------------------------
(***************************************************************************)
(* The SNMP OID table: ar_snmp_recv_agent_config (arctrl_snmp.c), the      *)
(* ioctl that feeds it (arctrl_snmptool.c), and the kernel memory its      *)
(* entries point to.  The OID and the value of an entry are two allocated  *)
(* buffers; the sizes stored beside the pointers go with them and are left *)
(* out.                                                                    *)
(*                                                                         *)
(* One ioctl is one step: /dev/ar_dev admits one open file and its client, *)
(* ar_snmp_tool, has one thread.                                           *)
(***************************************************************************)
EXTENDS Integers, FiniteSetsExt

CONSTANTS
    Oid,              \* the OIDs a client may send
    Str,              \* Str[o]: the bytes of o before its first zero byte
    Val,              \* the values
    Buf,              \* the addresses kzalloc may return; bound of the model
    NULL,
    ar_snmp_tblsize   \* slots FMan has for OIDs

\* What a buffer holds: freed memory, zeroes, an OID or a value.
Content == {"freed", "zero"} \cup Oid \cup Val

ASSUME BufAssumption ==
    /\ NULL \notin Buf \cup Oid
    /\ ar_snmp_tblsize \in Nat
    /\ {"freed", "zero"} \cap (Oid \cup Val) = {}

VARIABLES
    heap,            \* the buffers
    ar_snmp_entity,  \* the slots: oidVal and resVal are buffers or NULL
    oid_table_size,  \* ar_snmp_db.oid_table_size
    reply,           \* the last call: what it returned and, if it was a
                     \* CREATE that returned 0, the OID and value it sent
    deleted          \* history: a DELETE has taken an entry out

vars == <<heap, ar_snmp_entity, oid_table_size, reply, deleted>>

Slot == 0..(ar_snmp_tblsize - 1)
Empty == [oidVal |-> NULL, resVal |-> NULL]
Free == {b \in Buf : heap[b] = "freed"}

-----------------------------------------------------------------------------
(* Lookups                                                                 *)

\* Mutant: a full table yields slot 0.
FreeIndexNeverFull ==
    LET free == {i \in Slot : ar_snmp_entity[i].oidVal = NULL}
    IN  IF free = {} THEN 0 ELSE Min(free)

\* The first slot without an OID, or -1.
ar_snmp_get_free_index ==
    LET free == {i \in Slot : ar_snmp_entity[i].oidVal = NULL}
    IN  IF free = {} THEN -1 ELSE Min(free)

Counted == {i \in Slot : i < oid_table_size}

\* strcmp of an OID with the one in slot i: they are equal when they agree
\* up to their first zero byte.  Freed memory compares as it likes.
Equal(o, i) ==
    /\ heap[ar_snmp_entity[i].oidVal] \in Oid
    /\ Str[heap[ar_snmp_entity[i].oidVal]] = Str[o]
MayEqual(o, i) == Equal(o, i) \/ heap[ar_snmp_entity[i].oidVal] = "freed"

\* Mutant: the last counted slot is not compared.
GetIndexOffByOne(o) ==
    LET sure == {i \in Counted : Equal(o, i) /\ i < oid_table_size - 1}
        may == {i \in Counted : MayEqual(o, i) /\ \A j \in sure : i =< j}
    IN  IF sure = {} THEN may \cup {-1} ELSE may

\* What the search may return: a slot that may match and has no sure match
\* before it, or -1 when there is no sure match.
ar_snmp_get_index(o) ==
    LET sure == {i \in Counted : Equal(o, i)}
        may == {i \in Counted : MayEqual(o, i) /\ \A j \in sure : i =< j}
    IN  IF sure = {} THEN may \cup {-1} ELSE may

-----------------------------------------------------------------------------
(* CREATE_SNMP_ENTRY                                                       *)

Answer(r) == reply' = [oid |-> NULL, val |-> NULL, ret |-> r]

\* Mutant: the OID's buffer is stored for the value too.
PutOneBuffer(i, bo, bv) ==
    ar_snmp_entity' = [ar_snmp_entity EXCEPT ![i] = [oidVal |-> bo, resVal |-> bo]]

\* The assignments into slot i.  Pointers that were there are lost.
Put(i, bo, bv) ==
    ar_snmp_entity' = [ar_snmp_entity EXCEPT ![i] = [oidVal |-> bo, resVal |-> bv]]

\* Mutant: an old entry keeps its value.
UpdateKeepsValue(o, bo, bv) ==
    \E i \in ar_snmp_get_index(o) \ {-1} :
        Put(i, bo, ar_snmp_entity[i].resVal) /\ UNCHANGED oid_table_size

\* ar_snmp_recv_agent_config(CREATE_SNMP_ENTRY): replace the entry of the
\* OID, else take a free slot; a full table is only logged.
Update(o, bo, bv) ==
    \E i \in ar_snmp_get_index(o) \ {-1} :
        Put(i, bo, bv) /\ UNCHANGED oid_table_size

\* Mutant: the new entry is not counted.
InsertUncounted(o, bo, bv) ==
    /\ -1 \in ar_snmp_get_index(o)
    /\ ar_snmp_get_free_index # -1
    /\ Put(ar_snmp_get_free_index, bo, bv)
    /\ UNCHANGED oid_table_size

Insert(o, bo, bv) ==
    /\ -1 \in ar_snmp_get_index(o)
    /\ ar_snmp_get_free_index # -1
    /\ Put(ar_snmp_get_free_index, bo, bv)
    /\ oid_table_size' = oid_table_size + 1

Full(o) ==
    /\ -1 \in ar_snmp_get_index(o)
    /\ ar_snmp_get_free_index = -1
    /\ UNCHANGED <<ar_snmp_entity, oid_table_size>>

\* The ioctl when every copy and allocation succeeds: it returns 0.
Create(o, v) ==
    \E bo \in Free : \E bv \in Free \ {bo} :
        /\ heap' = [heap EXCEPT ![bo] = o, ![bv] = v]
        /\ Update(o, bo, bv) \/ Insert(o, bo, bv) \/ Full(o)
        /\ reply' = [oid |-> o, val |-> v, ret |-> "AR_SUCCESS"]
        /\ UNCHANGED deleted

\* The ioctl when a copy or an allocation fails, in the order of the code.
\* What was allocated before is not given back.
CreateFails(o) ==
    /\ \/ heap' = heap /\ Answer("EFAULT")
       \/ heap' = heap /\ Answer("-AR_MEMORY_UNAVALABLE_ERROR")
       \/ \E bo \in Free :
            /\ heap' = [heap EXCEPT ![bo] = "zero"]
            /\ Answer("EFAULT")
       \/ \E bo \in Free :
            /\ heap' = [heap EXCEPT ![bo] = o]
            /\ Answer("AR_MEMORY_UNAVALABLE_ERROR")
       \/ \E bo \in Free : \E bv \in Free \ {bo} :
            /\ heap' = [heap EXCEPT ![bo] = o, ![bv] = "zero"]
            /\ Answer("EFAULT")
    /\ UNCHANGED <<ar_snmp_entity, oid_table_size, deleted>>

-----------------------------------------------------------------------------
(* DELETE_SNMP_ENTRY: no ioctl reaches it, it is the function's own        *)
(* interface.                                                              *)

\* The entries after slot i move down one; the buffers that slot
\* oid_table_size - 1 still names, which its neighbour now names too unless
\* it was slot i itself, are freed.
DeleteAt(i) ==
    LET last == oid_table_size - 1
        freed == {ar_snmp_entity[last].oidVal, ar_snmp_entity[last].resVal}
    IN  /\ ar_snmp_entity' = [j \in Slot |->
                CASE j \in i..(last - 1) -> ar_snmp_entity[j + 1]
                  [] j = last -> Empty
                  [] OTHER -> ar_snmp_entity[j]]
        /\ heap' = [b \in Buf |-> IF b \in freed THEN "freed" ELSE heap[b]]
        /\ oid_table_size' = last

Delete(o) ==
    /\ \/ /\ \E i \in ar_snmp_get_index(o) \ {-1} : DeleteAt(i)
          /\ deleted' = TRUE
       \/ /\ -1 \in ar_snmp_get_index(o)
          /\ UNCHANGED <<heap, ar_snmp_entity, oid_table_size, deleted>>
    /\ Answer("AR_SUCCESS")

-----------------------------------------------------------------------------

\* The state ar_snmp_init_db leaves.
Init ==
    /\ heap = [b \in Buf |-> "freed"]
    /\ ar_snmp_entity = [i \in Slot |-> Empty]
    /\ oid_table_size = 0
    /\ reply = [oid |-> NULL, val |-> NULL, ret |-> "none"]
    /\ deleted = FALSE

Next ==
    \/ \E o \in Oid, v \in Val : Create(o, v)
    \/ \E o \in Oid : CreateFails(o) \/ Delete(o)

Spec == Init /\ [][Next]_vars

-----------------------------------------------------------------------------
(* Properties                                                              *)

\* The state has its type.
TypeOK ==
    /\ heap \in [Buf -> Content]
    /\ ar_snmp_entity \in
            [Slot -> [oidVal: Buf \cup {NULL}, resVal: Buf \cup {NULL}]]
    /\ oid_table_size \in 0..ar_snmp_tblsize
    /\ reply.oid \in Oid \cup {NULL} /\ reply.val \in Val \cup {NULL}
    /\ deleted \in BOOLEAN

\* The table has no holes: the slots in use are exactly the first
\* oid_table_size ones, whatever is created and deleted, so the search and
\* FMan never follow a null pointer and never miss an entry.
Packed ==
    \A i \in Slot :
        /\ i < oid_table_size <=> ar_snmp_entity[i].oidVal # NULL
        /\ ar_snmp_entity[i].oidVal # NULL <=> ar_snmp_entity[i].resVal # NULL

Buffers(i) == {ar_snmp_entity[i].oidVal, ar_snmp_entity[i].resVal}

\* Until an entry is deleted, every entry has two buffers of its own that
\* are allocated and hold an OID and a value.
BuffersOwned ==
    ~deleted => \A i \in Counted :
        /\ heap[ar_snmp_entity[i].oidVal] \in Oid
        /\ heap[ar_snmp_entity[i].resVal] \in Val
        /\ ar_snmp_entity[i].oidVal # ar_snmp_entity[i].resVal
        /\ \A j \in Counted \ {i} : Buffers(i) \cap Buffers(j) = {}

\* Until an entry is deleted, no two entries answer for the same OID as
\* strcmp sees it.
KeysUnique ==
    ~deleted => \A i, j \in Counted :
        Str[heap[ar_snmp_entity[i].oidVal]] = Str[heap[ar_snmp_entity[j].oidVal]]
            => i = j

\* Until an entry is deleted, a CREATE leaves the entries of other OIDs as
\* they are.
OthersKept ==
    [][~deleted' => \A i \in Counted :
        \/ /\ ar_snmp_entity'[i] = ar_snmp_entity[i]
           /\ \A b \in Buffers(i) : heap'[b] = heap[b]
        \/ reply'.oid \in Oid /\ Equal(reply'.oid, i)]_vars

\* The table as a BoundedMap from OIDs, as strcmp sees them, to the OID and
\* the value held.  It does not report that it is full.  DELETE, which
\* frees buffers still in use, ends the promise.
Entries ==
    [k \in {Str[heap[ar_snmp_entity[i].oidVal]] : i \in Counted} |->
        LET i == CHOOSE j \in Counted : Str[heap[ar_snmp_entity[j].oidVal]] = k
        IN  <<heap[ar_snmp_entity[i].oidVal], heap[ar_snmp_entity[i].resVal]>>]
LastCall ==
    IF reply.oid = NULL
    THEN [key |-> NULL, val |-> NULL,
          ret |-> IF reply.ret = "none" THEN "other" ELSE "failed"]
    ELSE [key |-> Str[reply.oid], val |-> <<reply.oid, reply.val>>, ret |-> "ok"]

Store == INSTANCE BoundedMap WITH
    Table <- {"OID"},
    Key <- [t \in {"OID"} |-> {Str[o] : o \in Oid}],
    Val <- Oid \X Val,
    Blank <- [t \in {"OID"} |-> {}],
    Cap <- [t \in {"OID"} |-> ar_snmp_tblsize],
    FullRet <- [t \in {"OID"} |-> "ok"],
    map <- [t \in {"OID"} |-> IF deleted THEN <<>> ELSE Entries],
    last <- [t \in {"OID"} |-> LastCall],
    trusted <- [t \in {"OID"} |-> ~deleted]

\* Until an entry is deleted the table behaves as a BoundedMap: a CREATE
\* that reports success has replaced the OID and the value of its key, or
\* added them, or found the table full; a CREATE that fails half way, at
\* whatever copy or allocation, has changed nothing.
StoresEntries == Store!Spec

\* "Get the entry which is to be deleted" (ar_snmp_recv_agent_config): a
\* DELETE takes out that entry and leaves the others whole.
EntriesLive == \A i \in Counted : \A b \in Buffers(i) : heap[b] # "freed"
=============================================================================
