--------------------------- MODULE SnmpToolProofs ---------------------------
(***************************************************************************)
(* What SnmpTool keeps, for every set of files, table size and content of  *)
(* unwritten memory: the encoding of a line, the life of the one entry     *)
(* over lines that fail, and what reaches the kernel's table.              *)
(***************************************************************************)
EXTENDS SnmpTool, FiniteSetTheorems, SequenceTheorems, TLAPS

(***************************************************************************)
(* The inductive invariant                                                 *)
(***************************************************************************)

Byte == 0..255

Buffers == [oid : Seq(Byte), res : Seq(Byte), resSize : Nat]

\* The types of the state, the record in the entry and the finite table
\* included.
TypeInv ==
    /\ file \in Files
    /\ pc \in {"parse", "send", "out"}
    /\ pos \in 1..(Len(file) + 1)
    /\ pc = "send" => pos \in DOMAIN file
    /\ open \in BOOLEAN
    /\ entry \in [oidVal : Pointer, resVal : Pointer, of : 0..Len(file),
                  bytes : Buffers]
    /\ errors \subseteq DOMAIN file /\ starved \subseteq DOMAIN file
    /\ IsFiniteSet(DOMAIN table) /\ Cardinality(DOMAIN table) =< Cap

\* The last line that was parsed.
Parsed == IF pc = "send" THEN pos ELSE pos - 1

\* The entry is that of the line that is being sent, or of one whose ioctl
\* failed and after which no known type was met.
EntryCurrent ==
    /\ entry.of \in DOMAIN file /\ file[entry.of].type \in Types
    /\ \/ pc = "send" /\ entry.of = pos
       \/ /\ entry.of \in errors /\ entry.of < pos
          /\ \A j \in (entry.of + 1)..Parsed : file[j].type \notin Types

\* The entry's buffers hold its line, encoded.  A freed OID goes with a value
\* that could not be allocated.
EntryInv ==
    /\ entry.oidVal # "NULL" => EntryCurrent
    /\ entry.oidVal = "freed" => entry.resVal = "NULL"
    /\ entry.oidVal = "live" =>
        /\ entry.resVal = "live"
        /\ \E junk \in Junk : entry.bytes = Encode(file[entry.of], junk)

\* Inductive.
ToolInv ==
    TypeInv /\ EntryInv /\ TableSound /\ FreedTwiceCause /\ LinesStored

(***************************************************************************)
(* Strings                                                                 *)
(***************************************************************************)

\* A file is a sequence of well-formed lines.
LEMMA FileLines ==
    ASSUME NEW f \in Files
    PROVE  /\ Len(f) \in Nat /\ DOMAIN f = 1..Len(f)
           /\ \A i \in DOMAIN f : WellFormed(f[i])
<1>1. f \in Seq({f[i] : i \in DOMAIN f})
  BY ToolAssumption
<1>2. \A i \in DOMAIN f : WellFormed(f[i])
  BY ToolAssumption
<1>3. Len(f) \in Nat /\ DOMAIN f = 1..Len(f)
  BY ONLY <1>1, LenProperties
<1> QED
  BY <1>2, <1>3

\* strlen stays within the string.
LEMMA StrlenWithin ==
    ASSUME NEW S, NEW s \in Seq(S)
    PROVE  strlen(s) \in 0..Len(s)
<1> DEFINE before == {i \in DOMAIN s : \A j \in 1..i : s[j] # 0}
<1>1. DOMAIN s = 1..Len(s) /\ Len(s) \in Nat
  BY LenProperties
<1>2. IsFiniteSet(1..Len(s)) /\ Cardinality(1..Len(s)) = Len(s)
  BY <1>1, FS_Interval
<1>3. before \subseteq 1..Len(s)
  BY <1>1
<1>4. IsFiniteSet(before) /\ Cardinality(before) =< Len(s)
  BY <1>2, <1>3, FS_Subset
<1>5. Cardinality(before) \in Nat
  BY <1>4, FS_CardinalityType
<1> QED
  BY <1>1, <1>4, <1>5 DEF strlen

\* What is cut off a string leaves a string of the same elements.
LEMMA CutType ==
    ASSUME NEW S, NEW s \in Seq(S)
    PROVE  Cut(s) \in Seq(S) /\ Len(Cut(s)) =< Len(s)
<1>1. strlen(s) \in 0..Len(s) /\ Len(s) \in Nat
  BY StrlenWithin, LenProperties
<1>2. \A i \in 1..strlen(s) : s[i] \in S
  BY <1>1, ElementOfSeq
<1>3. strlen(s) \in Int /\ 1 \in Int
  BY <1>1
<1>4. /\ SubSeq(s, 1, strlen(s)) \in Seq(S)
      /\ Len(SubSeq(s, 1, strlen(s))) = IF 1 =< strlen(s) THEN strlen(s) - 1 + 1 ELSE 0
  BY ONLY <1>2, <1>3, SubSeqProperties
<1> QED
  BY <1>1, <1>4 DEF Cut

\* A string without zeros is not cut.
LEMMA CutWhole ==
    ASSUME NEW S, NEW s \in Seq(S), \A i \in DOMAIN s : s[i] # 0
    PROVE  Cut(s) = s
<1>1. DOMAIN s = 1..Len(s) /\ Len(s) \in Nat
  BY LenProperties
<1>2. {i \in DOMAIN s : \A j \in 1..i : s[j] # 0} = 1..Len(s)
  BY <1>1
<1>3. strlen(s) = Len(s)
  <2>1. Cardinality(1..Len(s)) = Len(s) - 1 + 1
    BY <1>1, FS_Interval
  <2> QED
    BY <1>1, <1>2, <2>1 DEF strlen
<1> QED
  BY <1>1, <1>3, SubSeqFull DEF Cut

(***************************************************************************)
(* The encoding of a value                                                 *)
(***************************************************************************)

\* What a range of numbers holds, and in particular a byte.
LEMMA RangeMembers ==
    ASSUME NEW n \in Nat
    PROVE  \A x : x \in 0..n <=> x \in Nat /\ x =< n
OBVIOUS

LEMMA ByteMembers == \A x : x \in Byte <=> x \in Nat /\ x < 256
<1>1. \A x : x \in 0..255 <=> x \in Nat /\ x =< 255
  BY ONLY 255 \in Nat, RangeMembers
<1>2. \A x \in Nat : x =< 255 <=> x < 256
  OBVIOUS
<1> QED
  BY ONLY <1>1, <1>2 DEF Byte

\* ar_snmp_process_string gives bytes, no more than there are components.
LEMMA ProcessStringType ==
    ASSUME NEW S, S \subseteq Nat, NEW s \in Seq(S)
    PROVE  /\ ar_snmp_process_string(s) \in Seq(Byte)
           /\ Len(ar_snmp_process_string(s)) =< Len(s)
<1> DEFINE t == [i \in DOMAIN s |-> s[i] % 256]
<1>1. DOMAIN s = 1..Len(s) /\ Len(s) \in Nat /\ s \in [1..Len(s) -> S]
  BY LenProperties
<1>2. \A i \in 1..Len(s) : s[i] % 256 \in Byte
  <2> SUFFICES ASSUME NEW i \in 1..Len(s)
               PROVE  s[i] % 256 \in Byte
    OBVIOUS
  <2>1. s[i] \in Nat
    BY <1>1
  <2>2. s[i] % 256 \in Nat /\ s[i] % 256 < 256
    BY <2>1
  <2> QED
    BY <2>2, ByteMembers
<1>3. t \in [1..Len(s) -> Byte]
  BY <1>1, <1>2
<1>4. t \in Seq(Byte) /\ Len(t) = Len(s)
  BY <1>1, <1>3
<1> QED
  BY <1>4, CutType DEF ar_snmp_process_string

\* It keeps components that are neither 0 nor more than a byte.
LEMMA ProcessStringPlain ==
    ASSUME NEW S, NEW s \in Seq(S),
           \A i \in DOMAIN s : s[i] \in Nat /\ 0 < s[i] /\ s[i] < 256
    PROVE  ar_snmp_process_string(s) = s
<1> DEFINE t == [i \in DOMAIN s |-> s[i] % 256]
<1>1. s \in [DOMAIN s -> S]
  BY LenProperties
<1>2. \A i \in DOMAIN s : s[i] % 256 = s[i] /\ s[i] # 0
  OBVIOUS
<1>3. t = s
  BY <1>1, <1>2
<1>4. Cut(s) = s
  BY <1>2, CutWhole
<1> QED
  BY <1>3, <1>4 DEF ar_snmp_process_string

\* The size of a number is that of its highest byte that is not 0.
LEMMA SizeOfNumber ==
    ASSUME NEW v \in Nat, v \div 2^16 < 2^16
    PROVE  \/ ar_snmp_get_size(v) = 1 /\ v < 256
           \/ ar_snmp_get_size(v) = 2 /\ 256 =< v /\ v < 65536
           \/ ar_snmp_get_size(v) = 3 /\ 65536 =< v /\ v < 16777216
           \/ ar_snmp_get_size(v) = 4 /\ 16777216 =< v /\ v \div 16777216 < 256
<1> DEFINE more == {i \in {8, 16, 24} : v \div 2^i # 0}
<1>1. 2^8 = 256 /\ 2^16 = 65536 /\ 2^24 = 16777216
  OBVIOUS
<1>2. v \div 65536 < 65536
  BY <1>1
<1>3. /\ v \div 256 # 0 <=> 256 =< v
      /\ v \div 65536 # 0 <=> 65536 =< v
      /\ v \div 16777216 # 0 <=> 16777216 =< v
  OBVIOUS
<1>4. /\ 8 \in more <=> 256 =< v
      /\ 16 \in more <=> 65536 =< v
      /\ 24 \in more <=> 16777216 =< v
      /\ \A i \in more : i = 8 \/ i = 16 \/ i = 24
  BY <1>1, <1>3
<1> HIDE DEF more
<1>5. ar_snmp_get_size(v) = 1 + Cardinality(more)
  BY DEF ar_snmp_get_size, more
<1>6. CASE v < 256
  <2>1. more = {}
    BY <1>4, <1>6
  <2> QED
    BY <1>5, <1>6, <2>1, FS_EmptySet
<1>7. CASE 256 =< v /\ v < 65536
  <2>1. 8 \in more /\ 16 \notin more /\ 24 \notin more
    BY <1>4, <1>7
  <2>2. more = {8}
    BY ONLY <1>4, <2>1
  <2>3. Cardinality({8}) = 1
    BY FS_Singleton
  <2> QED
    BY <1>5, <1>7, <2>2, <2>3
<1>8. CASE 65536 =< v /\ v < 16777216
  <2>1. more = {8, 16}
    <3>1. 8 \in more /\ 16 \in more /\ 24 \notin more
      BY <1>4, <1>8
    <3> QED
      BY ONLY <1>4, <3>1
  <2>2. IsFiniteSet({8}) /\ Cardinality({8}) = 1
    BY FS_Singleton
  <2>3. Cardinality({8} \cup {16}) = 2
    BY <2>2, FS_AddElement
  <2>4. {8} \cup {16} = {8, 16}
    OBVIOUS
  <2> QED
    BY <1>5, <1>8, <2>1, <2>3, <2>4
<1>9. CASE 16777216 =< v
  <2>1. more = {8, 16, 24}
    <3>1. 8 \in more /\ 16 \in more /\ 24 \in more
      BY <1>4, <1>9
    <3> QED
      BY ONLY <1>4, <3>1
  <2>2. IsFiniteSet({8}) /\ Cardinality({8}) = 1
    BY FS_Singleton
  <2>3. IsFiniteSet({8} \cup {16}) /\ Cardinality({8} \cup {16}) = 2
    BY <2>2, FS_AddElement
  <2>4. Cardinality(({8} \cup {16}) \cup {24}) = 3
    BY <2>3, FS_AddElement
  <2>5. ({8} \cup {16}) \cup {24} = {8, 16, 24}
    OBVIOUS
  <2>6. v \div 16777216 < 256
    BY <1>2
  <2> QED
    BY <1>5, <1>9, <2>1, <2>4, <2>5, <2>6
<1> QED
  BY <1>6, <1>7, <1>8, <1>9

\* The byte of v that has i bytes below it.
Digit(v, i) == (v \div 256^i) % 256

\* The bytes ar_snmp_get_val copies: v in size bytes, highest first.
LEMMA GetValDigits ==
    ASSUME NEW v \in Nat, v \div 256^3 < 256, NEW size \in 1..4
    PROVE  /\ ar_snmp_get_val(size, v) \in Seq(Byte)
           /\ Len(ar_snmp_get_val(size, v)) = size
           /\ \A i \in 1..size : ar_snmp_get_val(size, v)[i] = Digit(v, size - i)
<1> DEFINE all == <<v \div 256^3, (v \div 256^2) % 256, (v \div 256) % 256, v % 256>>
           s == SubSeq(all, 5 - size, 4)
<1>1. 256^0 = 1 /\ 256^1 = 256 /\ 256^2 = 65536 /\ 256^3 = 16777216
  OBVIOUS
<1>2. \A i \in 1..4 : all[i] = Digit(v, 4 - i)
  <2>1. all[1] = Digit(v, 3)
    BY <1>1 DEF Digit
  <2>2. all[2] = Digit(v, 2)
    BY <1>1 DEF Digit
  <2>3. all[3] = Digit(v, 1)
    BY <1>1 DEF Digit
  <2>4. all[4] = Digit(v, 0)
    BY <1>1 DEF Digit
  <2> HIDE DEF all
  <2> QED
    BY <2>1, <2>2, <2>3, <2>4
<1>3. \A i \in 0..3 : Digit(v, i) \in Byte
  <2>1. \A x \in Nat : x % 256 \in Nat /\ x % 256 < 256
    OBVIOUS
  <2>2. /\ v \div 256^0 \in Nat /\ v \div 256^1 \in Nat
        /\ v \div 256^2 \in Nat /\ v \div 256^3 \in Nat
    BY <1>1
  <2>3. Digit(v, 0) \in Byte /\ Digit(v, 1) \in Byte
            /\ Digit(v, 2) \in Byte /\ Digit(v, 3) \in Byte
    BY ONLY <2>1, <2>2, ByteMembers DEF Digit
  <2> QED
    BY <2>3
<1> HIDE DEF all
<1>4. \A i \in (5 - size)..4 : all[i] \in Byte
  BY <1>2, <1>3
<1>5. 5 - size \in Int /\ 4 \in Int
  OBVIOUS
<1>6. /\ s \in Seq(Byte)
      /\ Len(s) = IF 5 - size =< 4 THEN 4 - (5 - size) + 1 ELSE 0
      /\ \A i \in 1..(4 - (5 - size) + 1) : s[i] = all[(5 - size) + i - 1]
  BY ONLY <1>4, <1>5, SubSeqProperties
<1>7. s = ar_snmp_get_val(size, v)
  BY DEF ar_snmp_get_val, all
<1> HIDE DEF s
<1>8. \A i \in 1..size : s[i] = Digit(v, size - i)
  <2> SUFFICES ASSUME NEW i \in 1..size
               PROVE  s[i] = Digit(v, size - i)
    OBVIOUS
  <2>1. s[i] = all[(5 - size) + i - 1]
    BY <1>6
  <2>2. (5 - size) + i - 1 \in 1..4 /\ 4 - ((5 - size) + i - 1) = size - i
    OBVIOUS
  <2> QED
    BY <1>2, <2>1, <2>2
<1> QED
  BY <1>6, <1>7, <1>8

\* A number is written in the fewest bytes that hold it.
LEMMA NumberEncoded ==
    ASSUME NEW t \in IntType, NEW v \in Seq(Nat), Len(v) = 1,
           v[1] \div 2^16 < 2^16
    PROVE  LET s == ar_snmp_get_val(ar_snmp_get_size(v[1]), v[1])
           IN  s \in Seq(Byte) /\ Len(s) =< 4 /\ Means(t, v, s)
<1> DEFINE n == v[1]
           size == ar_snmp_get_size(n)
           s == ar_snmp_get_val(size, n)
<1>1. n \in Nat
  <2>1. 1 \in 1..Len(v)
    OBVIOUS
  <2> QED
    BY ONLY <2>1, v \in Seq(Nat), ElementOfSeq
<1>2. \/ size = 1 /\ n < 256
      \/ size = 2 /\ 256 =< n /\ n < 65536
      \/ size = 3 /\ 65536 =< n /\ n < 16777216
      \/ size = 4 /\ 16777216 =< n /\ n \div 16777216 < 256
  BY <1>1, SizeOfNumber
<1> HIDE DEF n, size
<1>3. n \div 256^3 < 256 /\ size \in 1..4
  <2>1. 256^3 = 16777216
    OBVIOUS
  <2> QED
    BY <1>1, <1>2, <2>1
<1>4. /\ s \in Seq(Byte) /\ Len(s) = size
      /\ \A i \in 1..size : s[i] = Digit(n, size - i)
  BY ONLY <1>1, <1>3, GetValDigits
<1> HIDE DEF s
<1>5. DOMAIN s = 1..size
  BY <1>4, LenProperties
<1>6. 256^0 = 1 /\ 256^1 = 256 /\ 256^2 = 65536 /\ 256^3 = 16777216
  OBVIOUS
<1>7. n \div 256^(size - 1) < 256
  <2>1. CASE size = 1
    BY <1>1, <1>2, <1>6, <2>1
  <2>2. CASE size = 2
    BY <1>1, <1>2, <1>6, <2>2
  <2>3. CASE size = 3
    BY <1>1, <1>2, <1>6, <2>3
  <2>4. CASE size = 4
    BY <1>1, <1>2, <1>6, <2>4
  <2> QED
    BY <1>3, <2>1, <2>2, <2>3, <2>4
<1>8. size = 1 \/ Digit(n, size - 1) # 0
  <2>1. CASE size = 2
    BY <1>1, <1>2, <1>6, <2>1 DEF Digit
  <2>2. CASE size = 3
    BY <1>1, <1>2, <1>6, <2>2 DEF Digit
  <2>3. CASE size = 4
    BY <1>1, <1>2, <1>6, <2>3 DEF Digit
  <2> QED
    BY <1>3, <2>1, <2>2, <2>3
<1>9. size = 1 \/ s[1] # 0
  BY <1>3, <1>4, <1>8
<1>10. Means(t, v, s)
  <2>1. /\ Len(s) = 1 \/ s[1] # 0
        /\ n \div 256^(Len(s) - 1) < 256
    BY ONLY <1>4, <1>7, <1>9
  <2>2. \A i \in DOMAIN s : s[i] = (n \div 256^(Len(s) - i)) % 256
    BY ONLY <1>4, <1>5 DEF Digit
  <2>3. t # "x" /\ t # "b"
    BY DEF IntType
  <2> QED
    BY ONLY <2>1, <2>2, <2>3, t \in IntType DEF Means, n
<1> QED
  BY <1>3, <1>4, <1>10 DEF s, size, n

\* Two digits make a byte, from which both can be read.
LEMMA HexEncoded ==
    ASSUME NEW v \in Seq(0..15)
    PROVE  LET s == ar_snmp_convert_value(v)
           IN  /\ s \in Seq(Byte) /\ Len(s) = Len(v) \div 2
               /\ \A i \in DOMAIN s : /\ s[i] \div 16 = v[2 * i - 1]
                                      /\ s[i] % 16 = v[2 * i]
<1> DEFINE s == ar_snmp_convert_value(v)
           half == Len(v) \div 2
<1>1. Len(v) \in Nat /\ DOMAIN v = 1..Len(v) /\ v \in [1..Len(v) -> 0..15]
  BY ONLY v \in Seq(0..15), LenProperties
<1>2. half \in Nat /\ 2 * half =< Len(v)
  BY <1>1
<1>3. \A i \in 1..half : 2 * i - 1 \in 1..Len(v) /\ 2 * i \in 1..Len(v)
  BY <1>1, <1>2
<1>4. \A i \in 1..half : v[2 * i - 1] \in 0..15 /\ v[2 * i] \in 0..15
  BY ONLY <1>1, <1>3
<1>5. \A a, b \in 0..15 :
        /\ 16 * a + b \in Nat /\ 16 * a + b < 256
        /\ (16 * a + b) \div 16 = a /\ (16 * a + b) % 16 = b
  OBVIOUS
<1>6. s = [i \in 1..half |-> 16 * v[2 * i - 1] + v[2 * i]]
  BY DEF ar_snmp_convert_value
<1> HIDE DEF s, half
<1>7. ASSUME NEW i \in 1..half
      PROVE  s[i] \in Byte /\ s[i] \div 16 = v[2 * i - 1] /\ s[i] % 16 = v[2 * i]
  <2>1. PICK a \in 0..15, b \in 0..15 : a = v[2 * i - 1] /\ b = v[2 * i]
    BY ONLY <1>4
  <2>2. s[i] = 16 * a + b
    BY ONLY <1>6, <2>1
  <2>3. /\ s[i] \in Nat /\ s[i] < 256
        /\ s[i] \div 16 = a /\ s[i] % 16 = b
    BY ONLY <1>5, <2>2
  <2> QED
    BY ONLY <2>1, <2>3, ByteMembers
<1>8. s \in [1..half -> Byte]
  BY ONLY <1>6, <1>7
<1>9. s \in Seq(Byte) /\ Len(s) = half /\ DOMAIN s = 1..half
  BY <1>2, <1>8
<1> QED
  BY <1>7, <1>9 DEF s, half

\* The weights of the bits of a byte.
LEMMA PowersOfTwo ==
    /\ 2^0 = 1 /\ 2^1 = 2 /\ 2^2 = 4 /\ 2^3 = 8
    /\ 2^4 = 16 /\ 2^5 = 32 /\ 2^6 = 64 /\ 2^7 = 128
OBVIOUS

\* Bit j of byte k.
Bit(s, k, junk, j) ==
    IF \/ 8 * k - j \in DOMAIN s /\ s[8 * k - j] = 1
       \/ 8 * k > Len(s) + 1 /\ (junk \div 2^j) % 2 = 1
    THEN 1 ELSE 0

\* BitByte is the byte of its eight bits.
LEMMA BitByteBits ==
    ASSUME NEW s, NEW k, NEW junk
    PROVE  /\ BitByte(s, k, junk) \in Nat /\ BitByte(s, k, junk) < 256
           /\ \A j \in 0..7 : (BitByte(s, k, junk) \div 2^j) % 2 = Bit(s, k, junk, j)
<1> DEFINE n == BitByte(s, k, junk)
           b(j) == Bit(s, k, junk, j)
<1>1. /\ b(0) \in {0, 1} /\ b(1) \in {0, 1} /\ b(2) \in {0, 1} /\ b(3) \in {0, 1}
      /\ b(4) \in {0, 1} /\ b(5) \in {0, 1} /\ b(6) \in {0, 1} /\ b(7) \in {0, 1}
  BY DEF Bit
<1>2. n = 2^0 * b(0) + 2^1 * b(1) + 2^2 * b(2) + 2^3 * b(3) + 2^4 * b(4)
            + 2^5 * b(5) + 2^6 * b(6) + 2^7 * b(7)
  <2> DEFINE c(j) == IF \/ 8 * k - j \in DOMAIN s /\ s[8 * k - j] = 1
                        \/ 8 * k > Len(s) + 1 /\ (junk \div 2^j) % 2 = 1
                     THEN 2^j ELSE 0
  <2>1. n = c(0) + c(1) + c(2) + c(3) + c(4) + c(5) + c(6) + c(7)
    BY DEF BitByte
  <2>2. \A j \in 0..7 : 2^j * 1 = 2^j /\ 2^j * 0 = 0
    BY PowersOfTwo
  <2>3. \A j \in 0..7 : c(j) = 2^j * b(j)
    BY ONLY <2>2 DEF Bit
  <2> HIDE DEF n, b, c
  <2>4. /\ c(0) = 2^0 * b(0) /\ c(1) = 2^1 * b(1) /\ c(2) = 2^2 * b(2)
        /\ c(3) = 2^3 * b(3) /\ c(4) = 2^4 * b(4) /\ c(5) = 2^5 * b(5)
        /\ c(6) = 2^6 * b(6) /\ c(7) = 2^7 * b(7)
    BY <2>3
  <2> QED
    BY ONLY <2>1, <2>4
<1> HIDE DEF n, b
<1>3. n = b(0) + 2 * b(1) + 4 * b(2) + 8 * b(3) + 16 * b(4) + 32 * b(5)
            + 64 * b(6) + 128 * b(7)
  BY <1>1, <1>2, PowersOfTwo
<1>4. /\ n \in Nat /\ n < 256
      /\ n % 2 = b(0) /\ (n \div 2) % 2 = b(1) /\ (n \div 4) % 2 = b(2)
      /\ (n \div 8) % 2 = b(3) /\ (n \div 16) % 2 = b(4)
      /\ (n \div 32) % 2 = b(5) /\ (n \div 64) % 2 = b(6)
      /\ (n \div 128) % 2 = b(7)
  <2>1. PICK b0 \in {0, 1}, b1 \in {0, 1}, b2 \in {0, 1}, b3 \in {0, 1},
             b4 \in {0, 1}, b5 \in {0, 1}, b6 \in {0, 1}, b7 \in {0, 1} :
            /\ b0 = b(0) /\ b1 = b(1) /\ b2 = b(2) /\ b3 = b(3)
            /\ b4 = b(4) /\ b5 = b(5) /\ b6 = b(6) /\ b7 = b(7)
    BY ONLY <1>1
  <2>2. n = b0 + 2 * b1 + 4 * b2 + 8 * b3 + 16 * b4 + 32 * b5 + 64 * b6 + 128 * b7
    BY ONLY <1>3, <2>1
  <2>3. /\ n \in Nat /\ n < 256
        /\ n % 2 = b0 /\ (n \div 2) % 2 = b1 /\ (n \div 4) % 2 = b2
        /\ (n \div 8) % 2 = b3 /\ (n \div 16) % 2 = b4
        /\ (n \div 32) % 2 = b5 /\ (n \div 64) % 2 = b6
        /\ (n \div 128) % 2 = b7
    BY ONLY <2>2
  <2> QED
    BY ONLY <2>1, <2>3
<1>5. /\ (n \div 2^0) % 2 = b(0) /\ (n \div 2^1) % 2 = b(1)
      /\ (n \div 2^2) % 2 = b(2) /\ (n \div 2^3) % 2 = b(3)
      /\ (n \div 2^4) % 2 = b(4) /\ (n \div 2^5) % 2 = b(5)
      /\ (n \div 2^6) % 2 = b(6) /\ (n \div 2^7) % 2 = b(7)
  BY ONLY <1>4, PowersOfTwo
<1>6. \A j \in 0..7 : (n \div 2^j) % 2 = b(j)
  <2>1. \A j \in 0..7 : j = 0 \/ j = 1 \/ j = 2 \/ j = 3 \/ j = 4 \/ j = 5
                            \/ j = 6 \/ j = 7
    OBVIOUS
  <2> QED
    BY ONLY <1>5, <2>1, Zenon
<1> QED
  BY <1>4, <1>6 DEF n, b

\* Bits are packed eight to a byte.
LEMMA BitsEncoded ==
    ASSUME NEW v \in Seq({0, 1}), NEW junk
    PROVE  LET s == ar_snmp_convert_bitvalue(v, junk)
           IN  /\ s \in Seq(Byte) /\ Len(s) = (Len(v) + 7) \div 8
               /\ \A k \in 1..Len(s) : s[k] = BitByte(v, k, junk)
<1> DEFINE s == ar_snmp_convert_bitvalue(v, junk)
           m == (Len(v) + 7) \div 8
<1>1. m \in Nat
  <2>1. Len(v) \in Nat
    BY LenProperties
  <2> QED
    BY <2>1
<1>2. s = [k \in 1..m |-> BitByte(v, k, junk)]
  BY DEF ar_snmp_convert_bitvalue
<1> HIDE DEF s, m
<1>3. \A k \in 1..m : BitByte(v, k, junk) \in Byte
  BY ONLY BitByteBits, ByteMembers
<1>4. s \in [1..m -> Byte]
  BY ONLY <1>2, <1>3
<1>5. s \in Seq(Byte) /\ Len(s) = m
  BY ONLY <1>1, <1>4
<1>6. \A k \in 1..m : s[k] = BitByte(v, k, junk)
  BY ONLY <1>2
<1> QED
  BY <1>5, <1>6 DEF s, m

\* What Plain says of bits.
WholeBytes(v) ==
    /\ Len(v) % 8 \in {0, 7}
    /\ \A k \in 1..((Len(v) + 7) \div 8) :
            \E i \in DOMAIN v : i \in (8 * k - 7)..(8 * k) /\ v[i] = 1

\* Whole bytes, or bytes with one bit missing, none of them 0, are kept
\* whatever unwritten memory holds.
LEMMA BitsPlain ==
    ASSUME NEW v \in Seq({0, 1}), NEW junk, WholeBytes(v)
    PROVE  LET s == ar_snmp_convert_bitvalue(v, junk)
           IN  Cut(s) = s /\ Means("b", v, s)
<1> DEFINE s == ar_snmp_convert_bitvalue(v, junk)
           m == (Len(v) + 7) \div 8
<1>1. Len(v) \in Nat /\ DOMAIN v = 1..Len(v) /\ v \in [1..Len(v) -> {0, 1}]
  BY LenProperties
<1>2. m \in Nat /\ \A k \in 1..m : 8 * k =< Len(v) + 1
  <2>1. PICK n \in Nat : n = Len(v)
    BY <1>1
  <2>2. m = (n + 7) \div 8 /\ (n % 8 = 0 \/ n % 8 = 7)
    BY <2>1 DEF WholeBytes
  <2> HIDE DEF m
  <2>3. m \in Nat /\ 8 * m =< n + 1
    BY ONLY <2>2
  <2>4. \A k \in 1..m : 8 * k =< n + 1
    BY ONLY <2>3, n \in Nat
  <2> QED
    BY ONLY <2>1, <2>3, <2>4
<1>3. s \in Seq(Byte) /\ Len(s) = m /\ \A k \in 1..m : s[k] = BitByte(v, k, junk)
  BY BitsEncoded
<1> HIDE DEF s
<1>4. ASSUME NEW k \in 1..m, NEW j \in 0..7
      PROVE  (s[k] \div 2^j) % 2 = IF 8 * k - j \in DOMAIN v THEN v[8 * k - j] ELSE 0
  <2>1. (s[k] \div 2^j) % 2 = Bit(v, k, junk, j)
    BY ONLY <1>3, BitByteBits
  <2>2. ~(8 * k > Len(v) + 1)
    BY <1>1, <1>2
  <2>3. 8 * k - j \in DOMAIN v => v[8 * k - j] \in {0, 1}
    BY ONLY <1>1
  <2> QED
    BY ONLY <2>1, <2>2, <2>3 DEF Bit
<1>5. ASSUME NEW k \in 1..m
      PROVE  s[k] # 0
  <2>1. PICK i \in DOMAIN v : i \in (8 * k - 7)..(8 * k) /\ v[i] = 1
    BY DEF WholeBytes
  <2>2. 8 * k - i \in 0..7 /\ 8 * k - (8 * k - i) = i
    BY <1>1, <1>2, <2>1
  <2>3. (s[k] \div 2^(8 * k - i)) % 2 = 1
    BY ONLY <1>4, <2>1, <2>2
  <2>4. \A j \in 0..7 : (0 \div 2^j) % 2 = 0
    <3>1. /\ (0 \div 2^0) % 2 = 0 /\ (0 \div 2^1) % 2 = 0
          /\ (0 \div 2^2) % 2 = 0 /\ (0 \div 2^3) % 2 = 0
          /\ (0 \div 2^4) % 2 = 0 /\ (0 \div 2^5) % 2 = 0
          /\ (0 \div 2^6) % 2 = 0 /\ (0 \div 2^7) % 2 = 0
      BY PowersOfTwo
    <3>2. \A j \in 0..7 : j = 0 \/ j = 1 \/ j = 2 \/ j = 3 \/ j = 4 \/ j = 5
                              \/ j = 6 \/ j = 7
      OBVIOUS
    <3> QED
      BY ONLY <3>1, <3>2, Zenon
  <2>5. ASSUME s[k] = 0
        PROVE  FALSE
    <3>1. (0 \div 2^(8 * k - i)) % 2 = 1
      BY ONLY <2>3, <2>5, Zenon
    <3>2. (0 \div 2^(8 * k - i)) % 2 = 0
      BY ONLY <2>2, <2>4, Zenon
    <3> QED
      BY <3>1, <3>2
  <2> QED
    BY <2>5
<1>6. DOMAIN s = 1..m
  BY <1>3, LenProperties
<1>7. Cut(s) = s
  BY ONLY <1>3, <1>5, <1>6, CutWhole
<1>8. Means("b", v, s)
  <2>1. \A k \in DOMAIN s : \A j \in 0..7 :
            (s[k] \div 2^j) % 2 = IF 8 * k - j \in DOMAIN v THEN v[8 * k - j] ELSE 0
    BY ONLY <1>4, <1>6
  <2>2. "b" \notin IntType
    BY DEF IntType
  <2> QED
    BY ONLY <1>3, <2>1, <2>2 DEF Means
<1> QED
  BY <1>7, <1>8 DEF s

(***************************************************************************)
(* The encoding of a line                                                  *)
(***************************************************************************)

\* The kinds of types do not overlap.
LEMMA TypeKinds ==
    /\ \A t \in Types : t \in IntType \/ t \in PathType \/ t \in TextType
                            \/ t = "x" \/ t = "b"
    /\ \A t \in IntType : t \notin PathType \cup TextType \cup {"x", "b"}
    /\ \A t \in PathType : t \notin IntType \cup TextType \cup {"x", "b"}
    /\ \A t \in TextType : t \notin IntType \cup PathType \cup {"x", "b"}
    /\ "x" \notin IntType \cup PathType \cup TextType
    /\ "b" \notin IntType \cup PathType \cup TextType
BY DEF Types, IntType, PathType, TextType

\* Value, kind by kind.
LEMMA ValueByKind ==
    ASSUME NEW v, NEW junk
    PROVE  /\ \A t \in IntType :
                Value(t, v, junk) = ar_snmp_get_val(ar_snmp_get_size(v[1]), v[1])
           /\ \A t \in PathType : Value(t, v, junk) = ar_snmp_process_string(v)
           /\ \A t \in TextType : Value(t, v, junk) = Cut(v)
           /\ Value("x", v, junk) = Cut(ar_snmp_convert_value(v))
           /\ Value("b", v, junk) = Cut(ar_snmp_convert_bitvalue(v, junk))
<1>1. \A t \in IntType :
        Value(t, v, junk) = ar_snmp_get_val(ar_snmp_get_size(v[1]), v[1])
  BY TypeKinds DEF Value
<1>2. \A t \in PathType : Value(t, v, junk) = ar_snmp_process_string(v)
  BY TypeKinds DEF Value
<1>3. \A t \in TextType : Value(t, v, junk) = Cut(v)
  BY TypeKinds DEF Value
<1>4. Value("x", v, junk) = Cut(ar_snmp_convert_value(v))
  BY TypeKinds DEF Value
<1>5. Value("b", v, junk) = Cut(ar_snmp_convert_bitvalue(v, junk))
  BY TypeKinds DEF Value
<1> QED
  BY <1>1, <1>2, <1>3, <1>4, <1>5

\* What WellFormed says of a value, kind by kind.
LEMMA WellFormedValue ==
    ASSUME NEW l, WellFormed(l)
    PROVE  /\ Len(l.val) \in Nat /\ 0 < Len(l.val) /\ Len(l.val) =< 127
           /\ l.type \in IntType => /\ l.val \in Seq(Nat) /\ Len(l.val) = 1
                                    /\ l.val[1] \div 2^16 < 2^16
           /\ l.type \in PathType => \E S : S \subseteq Nat /\ l.val \in Seq(S)
           /\ l.type \in TextType => l.val \in Seq(Byte)
           /\ l.type = "x" => l.val \in Seq(0..15)
           /\ l.type = "b" => l.val \in Seq({0, 1})
           /\ \E S : S \subseteq Nat /\ l.oid \in Seq(S)
<1> DEFINE Component == 0..999
<1>1. \A x : x \in Component <=> x \in Nat /\ x =< 999
  BY ONLY 999 \in Nat, RangeMembers
<1>2. \A x : x \in 1..127 => x \in Nat /\ 0 < x /\ x =< 127
  <2>1. ASSUME NEW n \in Nat
        PROVE  \A x : x \in 1..n => x \in Nat /\ 0 < x /\ x =< n
    OBVIOUS
  <2> QED
    BY ONLY <2>1, 127 \in Nat
<1>3. Len(l.val) \in 1..127
  BY ONLY WellFormed(l), Zenon DEF WellFormed
<1>4. Len(l.val) \in Nat /\ 0 < Len(l.val) /\ Len(l.val) =< 127
  BY ONLY <1>2, <1>3
<1>5. /\ l.type \in IntType => /\ l.val \in Seq(Nat) /\ Len(l.val) = 1
                               /\ l.val[1] \div 2^16 < 2^16
      /\ l.type \in TextType => l.val \in Seq(Byte)
      /\ l.type = "x" => l.val \in Seq(0..15)
      /\ l.type = "b" => l.val \in Seq({0, 1})
  BY ONLY WellFormed(l), Zenon DEF WellFormed, Byte
<1>6. l.oid \in Seq(Component) /\ (l.type \in PathType => l.val \in Seq(Component))
  BY ONLY WellFormed(l), Zenon DEF WellFormed
<1> HIDE DEF Component
<1>7. Component \subseteq Nat
  BY ONLY <1>1
<1>8. /\ \E S : S \subseteq Nat /\ l.oid \in Seq(S)
      /\ l.type \in PathType => \E S : S \subseteq Nat /\ l.val \in Seq(S)
  BY ONLY <1>6, <1>7
<1> QED
  BY ONLY <1>4, <1>5, <1>8

\* A value is encoded in bytes, as many as its length byte can count.
LEMMA ValueType ==
    ASSUME NEW l, WellFormed(l), l.type \in Types, NEW junk
    PROVE  /\ Value(l.type, l.val, junk) \in Seq(Byte)
           /\ Len(Value(l.type, l.val, junk)) =< 127
<1> DEFINE s == Value(l.type, l.val, junk)
<1>1. Len(l.val) \in Nat /\ Len(l.val) =< 127
  BY ONLY WellFormed(l), WellFormedValue
<1>2. CASE l.type \in IntType
  <2>1. /\ l.val \in Seq(Nat) /\ Len(l.val) = 1
        /\ l.val[1] \div 2^16 < 2^16
    BY ONLY <1>2, WellFormed(l), WellFormedValue
  <2>2. s = ar_snmp_get_val(ar_snmp_get_size(l.val[1]), l.val[1])
    BY ONLY <1>2, ValueByKind
  <2>3. s \in Seq(Byte) /\ Len(s) =< 4
    BY ONLY <1>2, <2>1, <2>2, NumberEncoded
  <2>4. Len(s) \in Nat
    BY ONLY <2>3, LenProperties
  <2> QED
    BY ONLY <2>3, <2>4
<1>3. CASE l.type \in PathType
  <2>1. PICK S : S \subseteq Nat /\ l.val \in Seq(S)
    BY ONLY <1>3, WellFormed(l), WellFormedValue
  <2>2. s = ar_snmp_process_string(l.val)
    BY ONLY <1>3, ValueByKind
  <2>3. s \in Seq(Byte) /\ Len(s) =< Len(l.val)
    BY ONLY <2>1, <2>2, ProcessStringType
  <2>4. Len(s) \in Nat
    BY ONLY <2>3, LenProperties
  <2> QED
    BY ONLY <1>1, <2>3, <2>4
<1>4. CASE l.type \in TextType
  <2>1. l.val \in Seq(Byte)
    BY ONLY <1>4, WellFormed(l), WellFormedValue
  <2>2. s = Cut(l.val)
    BY ONLY <1>4, ValueByKind
  <2>3. s \in Seq(Byte) /\ Len(s) =< Len(l.val)
    BY ONLY <2>1, <2>2, CutType
  <2>4. Len(s) \in Nat
    BY ONLY <2>3, LenProperties
  <2> QED
    BY ONLY <1>1, <2>3, <2>4
<1>5. CASE l.type = "x"
  <2> DEFINE whole == ar_snmp_convert_value(l.val)
  <2>1. l.val \in Seq(0..15)
    BY ONLY <1>5, WellFormed(l), WellFormedValue
  <2>2. whole \in Seq(Byte) /\ Len(whole) = Len(l.val) \div 2
    BY ONLY <2>1, HexEncoded
  <2>3. s = Cut(whole)
    BY ONLY <1>5, ValueByKind
  <2> HIDE DEF s, whole
  <2>4. s \in Seq(Byte) /\ Len(s) =< Len(whole)
    BY ONLY <2>2, <2>3, CutType
  <2>5. Len(s) \in Nat
    BY ONLY <2>4, LenProperties
  <2>6. Len(s) =< 127
    <3>1. PICK n \in Nat, m \in Nat : n = Len(l.val) /\ m = Len(s)
      BY ONLY <1>1, <2>5
    <3>2. m =< n \div 2 /\ n =< 127
      BY ONLY <1>1, <2>2, <2>4, <3>1
    <3>3. m =< 127
      BY ONLY <3>2, n \in Nat, m \in Nat
    <3> QED
      BY ONLY <3>1, <3>3
  <2> QED
    BY <2>4, <2>6 DEF s
<1>6. CASE l.type = "b"
  <2> DEFINE whole == ar_snmp_convert_bitvalue(l.val, junk)
  <2>1. l.val \in Seq({0, 1})
    BY ONLY <1>6, WellFormed(l), WellFormedValue
  <2>2. whole \in Seq(Byte) /\ Len(whole) = (Len(l.val) + 7) \div 8
    BY ONLY <2>1, BitsEncoded
  <2>3. s = Cut(whole)
    BY ONLY <1>6, ValueByKind
  <2> HIDE DEF s, whole
  <2>4. s \in Seq(Byte) /\ Len(s) =< Len(whole)
    BY ONLY <2>2, <2>3, CutType
  <2>5. Len(s) \in Nat
    BY ONLY <2>4, LenProperties
  <2>6. Len(s) =< 127
    <3>1. PICK n \in Nat, m \in Nat : n = Len(l.val) /\ m = Len(s)
      BY ONLY <1>1, <2>5
    <3>2. m =< (n + 7) \div 8 /\ n =< 127
      BY ONLY <1>1, <2>2, <2>4, <3>1
    <3>3. m =< 127
      BY ONLY <3>2, n \in Nat, m \in Nat
    <3> QED
      BY ONLY <3>1, <3>3
  <2> QED
    BY <2>4, <2>6 DEF s
<1> QED
  BY <1>2, <1>3, <1>4, <1>5, <1>6, TypeKinds

\* What a component or character of a plain line is.
LEMMA PlainMembers == \A x : x \in 1..255 => x \in Nat /\ 0 < x /\ x < 256
<1>1. ASSUME NEW n \in Nat
      PROVE  \A x : x \in 1..n => x \in Nat /\ 0 < x /\ x < n + 1
  OBVIOUS
<1>2. \A x : x \in 1..255 => x \in Nat /\ 0 < x /\ x < 255 + 1
  BY ONLY <1>1, 255 \in Nat
<1>3. 255 + 1 = 256
  OBVIOUS
<1> QED
  BY ONLY <1>2, <1>3

\* The value of a plain line is encoded by bytes that mean the same.
LEMMA ValueMeans ==
    ASSUME NEW l, WellFormed(l), l.type \in Types, Plain(l), NEW junk
    PROVE  Means(l.type, l.val, Value(l.type, l.val, junk))
<1> DEFINE s == Value(l.type, l.val, junk)
<1>1. CASE l.type \in IntType
  <2>1. /\ l.val \in Seq(Nat) /\ Len(l.val) = 1
        /\ l.val[1] \div 2^16 < 2^16
    BY ONLY <1>1, WellFormed(l), WellFormedValue
  <2>2. s = ar_snmp_get_val(ar_snmp_get_size(l.val[1]), l.val[1])
    BY ONLY <1>1, ValueByKind
  <2> QED
    BY ONLY <1>1, <2>1, <2>2, NumberEncoded
<1>2. CASE l.type \in PathType \cup TextType
  <2>1. PICK S : l.val \in Seq(S)
    BY ONLY <1>2, WellFormed(l), WellFormedValue
  <2>2. \A i \in DOMAIN l.val : l.val[i] \in 1..255
    BY ONLY <1>2, Plain(l), Zenon DEF Plain
  <2>3. \A i \in DOMAIN l.val : l.val[i] \in Nat /\ 0 < l.val[i] /\ l.val[i] < 256
    BY ONLY <2>2, PlainMembers
  <2>4. s = l.val
    <3>1. CASE l.type \in PathType
      <4>1. s = ar_snmp_process_string(l.val)
        BY ONLY <3>1, ValueByKind
      <4> QED
        BY ONLY <2>1, <2>3, <4>1, ProcessStringPlain
    <3>2. CASE l.type \in TextType
      <4>1. s = Cut(l.val)
        BY ONLY <3>2, ValueByKind
      <4>2. \A i \in DOMAIN l.val : l.val[i] # 0
        BY ONLY <2>3
      <4> QED
        BY ONLY <2>1, <4>1, <4>2, CutWhole
    <3> QED
      BY <1>2, <3>1, <3>2
  <2> QED
    BY ONLY <1>2, <2>4, TypeKinds DEF Means
<1>3. CASE l.type = "x"
  <2> DEFINE whole == ar_snmp_convert_value(l.val)
             half == Len(l.val) \div 2
  <2>1. l.val \in Seq(0..15) /\ Len(l.val) \in Nat
    BY ONLY <1>3, WellFormed(l), WellFormedValue
  <2>2. /\ Len(l.val) % 2 = 0
        /\ \A i \in 1..half : l.val[2 * i - 1] # 0 \/ l.val[2 * i] # 0
    BY ONLY <1>3, Plain(l) DEF Plain
  <2>3. /\ whole \in Seq(Byte) /\ Len(whole) = half
        /\ \A i \in DOMAIN whole : /\ whole[i] \div 16 = l.val[2 * i - 1]
                                   /\ whole[i] % 16 = l.val[2 * i]
    BY ONLY <2>1, HexEncoded
  <2>4. s = Cut(whole)
    BY ONLY <1>3, ValueByKind
  <2>5. Len(l.val) = 2 * half
    <3>1. \A n \in Nat : n % 2 = 0 => n = 2 * (n \div 2)
      OBVIOUS
    <3> QED
      BY ONLY <2>1, <2>2, <3>1, Zenon
  <2> HIDE DEF s, whole, half
  <2>6. DOMAIN whole = 1..half
    BY ONLY <2>3, LenProperties
  <2>7. 0 \div 16 = 0 /\ 0 % 16 = 0
    OBVIOUS
  <2>8. \A i \in DOMAIN whole : whole[i] # 0
    BY ONLY <2>2, <2>3, <2>6, <2>7, Zenon
  <2>9. s = whole
    BY ONLY <2>3, <2>4, <2>8, CutWhole
  <2>10. Means("x", l.val, whole)
    BY ONLY <2>3, <2>5, TypeKinds DEF Means
  <2> QED
    BY ONLY <1>3, <2>9, <2>10 DEF s
<1>4. CASE l.type = "b"
  <2>1. l.val \in Seq({0, 1})
    BY ONLY <1>4, WellFormed(l), WellFormedValue
  <2>2. WholeBytes(l.val)
    BY ONLY <1>4, Plain(l), Zenon DEF Plain, WholeBytes
  <2>3. s = Cut(ar_snmp_convert_bitvalue(l.val, junk))
    BY ONLY <1>4, ValueByKind
  <2> DEFINE whole == ar_snmp_convert_bitvalue(l.val, junk)
  <2>4. Cut(whole) = whole /\ Means("b", l.val, whole)
    BY ONLY <2>1, <2>2, BitsPlain
  <2> QED
    BY ONLY <1>4, <2>3, <2>4, Zenon
<1> QED
  BY <1>1, <1>2, <1>3, <1>4, TypeKinds

\* The tag of a known type is a byte.
LEMMA TagType == \A t \in Types : ar_snmp_get_type(t) \in Byte
<1>1. \A t \in Types : ar_snmp_get_type(t) \in {2, 66, 67, 64, 4, 3, 6}
  BY DEF Types, IntType, PathType, TextType, ar_snmp_get_type
<1>2. \A x \in {2, 66, 67, 64, 4, 3, 6} : x \in Nat /\ x < 256
  OBVIOUS
<1> QED
  BY ONLY <1>1, <1>2, ByteMembers

\* A tag, a length and a value: what they are, and how to read the value.
LEMMA TagLengthValue ==
    ASSUME NEW tag \in Byte, NEW v \in Seq(Byte), Len(v) =< 127
    PROVE  LET res == <<tag, Len(v)>> \o v
           IN  /\ res \in Seq(Byte) /\ Len(res) = Len(v) + 2
               /\ SubSeq(res, 3, Len(res)) = v
<1> DEFINE n == Len(v)
           front == <<tag, n>>
           res == front \o v
<1>1. n \in Nat /\ DOMAIN v = 1..n /\ v \in [1..n -> Byte]
  BY ONLY v \in Seq(Byte), LenProperties
<1>2. n \in Byte
  <2>1. n < 256
    BY <1>1
  <2> QED
    BY ONLY <1>1, <2>1, ByteMembers
<1>3. front \in Seq(Byte) /\ Len(front) = 2
  BY <1>2
<1> HIDE DEF front
<1>4. /\ res \in Seq(Byte) /\ Len(res) = 2 + n
      /\ \A i \in 1..(2 + n) : res[i] = IF i =< 2 THEN front[i] ELSE v[i - 2]
  <2>1. /\ res \in Seq(Byte) /\ Len(res) = Len(front) + Len(v)
        /\ \A i \in 1..(Len(front) + Len(v)) :
                res[i] = IF i =< Len(front) THEN front[i] ELSE v[i - Len(front)]
    BY ONLY <1>3, v \in Seq(Byte), ConcatProperties
  <2> QED
    BY ONLY <1>3, <2>1
<1> HIDE DEF res
<1> DEFINE s == SubSeq(res, 3, n + 2)
<1>5. \A i \in 3..(n + 2) : res[i] \in Byte
  <2>1. \A i \in 3..(n + 2) : i \in 1..Len(res)
    BY <1>1, <1>4
  <2> QED
    BY ONLY <1>4, <2>1, ElementOfSeq
<1>6. 3 \in Int /\ n + 2 \in Int
  BY <1>1
<1>7. /\ s \in Seq(Byte)
      /\ Len(s) = IF 3 =< n + 2 THEN (n + 2) - 3 + 1 ELSE 0
      /\ \A i \in 1..((n + 2) - 3 + 1) : s[i] = res[3 + i - 1]
  BY ONLY <1>5, <1>6, SubSeqProperties
<1> HIDE DEF s
<1>8. Len(s) = n
  BY ONLY <1>1, <1>7
<1>9. \A i \in 1..n : s[i] = v[i]
  <2> SUFFICES ASSUME NEW i \in 1..n
               PROVE  s[i] = v[i]
    OBVIOUS
  <2>1. /\ i \in 1..((n + 2) - 3 + 1) /\ 3 + i - 1 \in 1..(2 + n)
        /\ ~(3 + i - 1 =< 2) /\ 3 + i - 1 - 2 = i
    BY <1>1
  <2> QED
    BY ONLY <1>4, <1>7, <2>1
<1>10. s \in [1..n -> Byte]
  BY ONLY <1>7, <1>8, LenProperties
<1>11. s = v
  BY ONLY <1>1, <1>9, <1>10
<1>12. Len(res) = n + 2
  BY ONLY <1>1, <1>4
<1> QED
  BY ONLY <1>4, <1>11, <1>12 DEF res, s, front

\* Encode fills the two buffers with bytes.
LEMMA EncodeType ==
    ASSUME NEW l, WellFormed(l), l.type \in Types, NEW junk
    PROVE  Encode(l, junk) \in Buffers
<1> DEFINE v == Value(l.type, l.val, junk)
           res == <<ar_snmp_get_type(l.type), Len(v)>> \o v
<1>1. v \in Seq(Byte) /\ Len(v) =< 127
  BY ONLY WellFormed(l), l.type \in Types, ValueType
<1>2. Len(v) \in Nat
  BY ONLY <1>1, LenProperties
<1>3. ar_snmp_get_type(l.type) \in Byte
  BY ONLY l.type \in Types, TagType
<1> HIDE DEF v
<1>4. res \in Seq(Byte)
  BY ONLY <1>1, <1>3, TagLengthValue
<1>5. PICK S : S \subseteq Nat /\ l.oid \in Seq(S)
  BY ONLY WellFormed(l), WellFormedValue
<1>6. ar_snmp_process_string(l.oid) \in Seq(Byte)
  BY ONLY <1>5, ProcessStringType
<1>7. ResSize(l.type, v, junk) \in Nat
  BY ONLY <1>2 DEF ResSize
<1>8. Encode(l, junk) = [oid |-> ar_snmp_process_string(l.oid), res |-> res,
                         resSize |-> ResSize(l.type, v, junk)]
  BY DEF Encode, v
<1> HIDE DEF res
<1> QED
  BY ONLY <1>4, <1>6, <1>7, <1>8 DEF Buffers

\* What EntryExact asks of the bytes for line l.
Says(l, bytes) ==
    LET res == bytes.res
        s == SubSeq(res, 3, Len(res))
    IN  /\ bytes.oid = l.oid
        /\ res = <<ar_snmp_get_type(l.type), Len(s)>> \o s
        /\ Means(l.type, l.val, s)
        /\ IF l.type = "a" THEN bytes.resSize >= Len(res)
                           ELSE bytes.resSize = Len(res)

\* The encoding of a plain line says what the line says.
LEMMA EncodeSays ==
    ASSUME NEW l, WellFormed(l), l.type \in Types, Plain(l), NEW junk
    PROVE  Says(l, Encode(l, junk))
<1> DEFINE v == Value(l.type, l.val, junk)
           res == <<ar_snmp_get_type(l.type), Len(v)>> \o v
<1>1. v \in Seq(Byte) /\ Len(v) =< 127
  BY ONLY WellFormed(l), l.type \in Types, ValueType
<1>2. Len(v) \in Nat
  BY ONLY <1>1, LenProperties
<1>3. ar_snmp_get_type(l.type) \in Byte
  BY ONLY l.type \in Types, TagType
<1>4. Means(l.type, l.val, v)
  BY ONLY WellFormed(l), l.type \in Types, Plain(l), ValueMeans
<1>5. /\ Encode(l, junk).oid = ar_snmp_process_string(l.oid)
      /\ Encode(l, junk).res = res
      /\ Encode(l, junk).resSize = ResSize(l.type, v, junk)
  BY DEF Encode
<1> HIDE DEF v
<1>6. Len(res) = Len(v) + 2 /\ SubSeq(res, 3, Len(res)) = v
  BY ONLY <1>1, <1>3, TagLengthValue
<1>7. ar_snmp_process_string(l.oid) = l.oid
  <2>1. PICK S : l.oid \in Seq(S)
    BY ONLY WellFormed(l), WellFormedValue
  <2>2. \A i \in DOMAIN l.oid : l.oid[i] \in 1..255
    BY ONLY Plain(l), Zenon DEF Plain
  <2>3. \A i \in DOMAIN l.oid : l.oid[i] \in Nat /\ 0 < l.oid[i] /\ l.oid[i] < 256
    BY ONLY <2>2, PlainMembers
  <2> QED
    BY ONLY <2>1, <2>3, ProcessStringPlain
<1>8. IF l.type = "a" THEN ResSize(l.type, v, junk) >= Len(v) + 2
                      ELSE ResSize(l.type, v, junk) = Len(v) + 2
  <2>1. CASE l.type = "a"
    <3>1. "a" \in PathType
      BY DEF PathType
    <3>2. v = l.val
      BY ONLY <1>4, <2>1, <3>1, TypeKinds DEF Means
    <3>3. 0 < Len(v)
      BY ONLY <3>2, WellFormed(l), WellFormedValue
    <3>4. v # <<>>
      BY ONLY <3>3
    <3> QED
      BY ONLY <1>2, <2>1, <3>4 DEF ResSize
  <2>2. CASE l.type # "a"
    BY ONLY <1>2, <2>2 DEF ResSize
  <2> QED
    BY <2>1, <2>2
<1> HIDE DEF res
<1> QED
  BY ONLY <1>4, <1>5, <1>6, <1>7, <1>8 DEF Says, res

(***************************************************************************)
(* The steps                                                               *)
(***************************************************************************)

Entries == [oidVal : Pointer, resVal : Pointer, of : 0..Len(file),
            bytes : Buffers]

\* The entry with no buffers.
LEMMA NoEntryType ==
    ASSUME Len(file) \in Nat
    PROVE  NoEntry \in Entries
<1>1. <<>> \in Seq(Byte)
  BY EmptySeq
<1>2. [oid |-> <<>>, res |-> <<>>, resSize |-> 0] \in Buffers
  BY ONLY <1>1 DEF Buffers
<1> QED
  BY <1>2 DEF NoEntry, Entries, Pointer

\* What every step needs of the types.
LEMMA StateTypes ==
    ASSUME TypeInv
    PROVE  /\ Len(file) \in Nat /\ DOMAIN file = 1..Len(file)
           /\ \A i \in DOMAIN file : WellFormed(file[i])
           /\ entry \in Entries
           /\ pos \in Nat /\ 1 =< pos /\ pos =< Len(file) + 1
           /\ Cap \in Nat /\ Cardinality(DOMAIN table) \in Nat
<1>1. /\ Len(file) \in Nat /\ DOMAIN file = 1..Len(file)
      /\ \A i \in DOMAIN file : WellFormed(file[i])
  BY ONLY TypeInv, FileLines DEF TypeInv
<1>2. entry \in Entries
  BY ONLY TypeInv DEF TypeInv, Entries
<1>3. pos \in Nat /\ 1 =< pos /\ pos =< Len(file) + 1
  BY <1>1 DEF TypeInv
<1>4. Cap \in Nat
  BY ToolAssumption
<1>5. Cardinality(DOMAIN table) \in Nat
  BY ONLY TypeInv, FS_CardinalityType DEF TypeInv
<1> QED
  BY ONLY <1>1, <1>2, <1>3, <1>4, <1>5

\* The program starts with no entry and an empty table.
LEMMA InitInv == Init => ToolInv
<1> SUFFICES ASSUME Init
             PROVE  ToolInv
  OBVIOUS
<1>1. Len(file) \in Nat /\ DOMAIN file = 1..Len(file)
  BY ONLY Init, FileLines DEF Init
<1>2. DOMAIN table = {}
  BY DEF Init
<1>3. IsFiniteSet(DOMAIN table) /\ Cardinality(DOMAIN table) = 0
  BY ONLY <1>2, FS_EmptySet
<1>4. Cap \in Nat
  BY ToolAssumption
<1>5. entry \in Entries
  BY ONLY <1>1, Init, NoEntryType DEF Init
<1>6. TypeInv
  BY ONLY <1>1, <1>3, <1>4, <1>5, Init DEF Init, TypeInv, Entries
<1>7. EntryInv
  BY DEF Init, EntryInv, NoEntry
<1>8. TableSound
  BY <1>2 DEF TableSound
<1>9. FreedTwiceCause
  BY DEF Init, FreedTwiceCause
<1>10. LinesStored
  BY DEF Init, LinesStored
<1> QED
  BY <1>6, <1>7, <1>8, <1>9, <1>10 DEF ToolInv

\* The table and the lines that were sent are as they were.
LEMMA NothingSent ==
    ASSUME ToolInv, UNCHANGED <<file, pos, errors, table, starved, harm>>
    PROVE  TableSound' /\ FreedTwiceCause' /\ LinesStored'
BY DEF ToolInv, TableSound, FreedTwiceCause, SentFor, LinesStored

\* Parsing a line puts its encoding in the entry, or leaves the entry
\* without one, or, for an unknown type, leaves the entry as it was.
LEMMA ParseKeeps ==
    ASSUME ToolInv, Parse
    PROVE  ToolInv'
<1> USE DEF Parse
<1>1. /\ Len(file) \in Nat /\ DOMAIN file = 1..Len(file)
      /\ \A i \in DOMAIN file : WellFormed(file[i])
      /\ entry \in Entries /\ pos \in Nat /\ 1 =< pos
  BY ONLY ToolInv, StateTypes DEF ToolInv
<1>2. pos \in DOMAIN file
  BY <1>1
<1>3. CASE line.type \notin Types /\ UNCHANGED entry
  <2>1. TypeInv'
    BY <1>2, <1>3 DEF ToolInv, TypeInv
  <2>2. EntryInv'
    <3>1. EntryInv /\ Parsed = pos - 1 /\ Parsed' = pos
      BY DEF ToolInv, Parsed
    <3>2. ASSUME entry.of \in DOMAIN file,
                 entry.of \in errors /\ entry.of < pos,
                 \A j \in (entry.of + 1)..Parsed : file[j].type \notin Types
          PROVE  \A j \in (entry.of + 1)..pos : file[j].type \notin Types
      BY <1>1, <1>3, <3>1, <3>2 DEF line
    <3> QED
      BY <1>3, <3>1, <3>2 DEF EntryInv, EntryCurrent
  <2> QED
    BY <2>1, <2>2, NothingSent DEF ToolInv
<1>4. CASE entry' = [entry EXCEPT !.oidVal = "NULL"]
  <2>1. entry' \in Entries /\ entry'.oidVal = "NULL"
    BY ONLY <1>1, <1>4 DEF Entries, Pointer
  <2>2. TypeInv'
    BY <1>2, <2>1 DEF ToolInv, TypeInv, Entries
  <2>3. EntryInv'
    BY ONLY <2>1 DEF EntryInv
  <2> QED
    BY <2>2, <2>3, NothingSent DEF ToolInv
<1>5. CASE /\ line.type \in Types
           /\ entry' = [entry EXCEPT !.oidVal = "freed", !.resVal = "NULL", !.of = pos]
  <2>1. /\ entry' \in Entries /\ entry'.oidVal = "freed" /\ entry'.resVal = "NULL"
        /\ entry'.of = pos
    <3>1. pos \in 0..Len(file)
      BY <1>1, <1>2
    <3> QED
      BY ONLY <1>1, <1>5, <3>1 DEF Entries, Pointer
  <2>2. TypeInv'
    BY <1>2, <2>1 DEF ToolInv, TypeInv, Entries
  <2>3. EntryInv'
    BY <1>2, <1>5, <2>1 DEF EntryInv, EntryCurrent, line
  <2> QED
    BY <2>2, <2>3, NothingSent DEF ToolInv
<1>6. ASSUME line.type \in Types, NEW junk \in Junk,
             entry' = [oidVal |-> "live", resVal |-> "live", of |-> pos,
                       bytes |-> Encode(line, junk)]
      PROVE  ToolInv'
  <2>1. Encode(line, junk) \in Buffers
    BY ONLY <1>1, <1>2, <1>6, EncodeType DEF line
  <2>2. pos \in 0..Len(file)
    BY <1>1, <1>2
  <2>3. entry' \in Entries
    BY ONLY <1>6, <2>1, <2>2 DEF Entries, Pointer
  <2>4. TypeInv'
    BY <1>2, <2>3 DEF ToolInv, TypeInv, Entries
  <2>5. EntryInv'
    BY <1>2, <1>6 DEF EntryInv, EntryCurrent, line
  <2> QED
    BY <2>4, <2>5, NothingSent DEF ToolInv
<1> QED
  BY <1>3, <1>4, <1>5, <1>6 DEF ar_snmp_set_param

\* The end of the file changes nothing but the program's place.
LEMMA CloseKeeps ==
    ASSUME ToolInv, Close
    PROVE  ToolInv'
<1> USE DEF Close
<1>1. TypeInv'
  BY DEF ToolInv, TypeInv
<1>2. EntryInv'
  BY DEF ToolInv, EntryInv, EntryCurrent, Parsed
<1> QED
  BY <1>1, <1>2, NothingSent DEF ToolInv

\* A failed ioctl keeps the entry, whose line now has an error.
LEMMA SendFailsKeeps ==
    ASSUME ToolInv, SendFails
    PROVE  ToolInv'
<1> USE DEF SendFails, Advance
<1>1. /\ Len(file) \in Nat /\ DOMAIN file = 1..Len(file)
      /\ entry \in Entries /\ pos \in Nat /\ 1 =< pos
  BY ONLY ToolInv, StateTypes DEF ToolInv
<1>2. pos \in DOMAIN file
  BY DEF ToolInv, TypeInv
<1>3. TypeInv'
  BY <1>1, <1>2 DEF ToolInv, TypeInv
<1>4. EntryInv'
  <2>1. EntryInv /\ Parsed = pos /\ Parsed' = pos
    BY <1>1 DEF ToolInv, Parsed
  <2>2. entry.of \in Nat
    BY <1>1 DEF Entries
  <2>3. \A j \in (pos + 1)..pos : FALSE
    BY <1>1
  <2> QED
    BY <1>1, <2>1, <2>2, <2>3 DEF EntryInv, EntryCurrent
<1>5. TableSound'
  BY DEF ToolInv, TableSound, SentFor
<1>6. FreedTwiceCause'
  BY DEF ToolInv, FreedTwiceCause, SentFor
<1>7. LinesStored'
  <2>1. \A i \in 1..(pos' - 1) : i = pos \/ i \in 1..(pos - 1)
    BY <1>1
  <2> QED
    BY <2>1 DEF ToolInv, LinesStored
<1> QED
  BY <1>3, <1>4, <1>5, <1>6, <1>7 DEF ToolInv

\* A kernel short of memory has the entry freed and the line forgotten.
LEMMA SendStarvedKeeps ==
    ASSUME ToolInv, SendStarved
    PROVE  ToolInv'
<1> USE DEF SendStarved, Advance, FreeEntry
<1>1. /\ Len(file) \in Nat /\ DOMAIN file = 1..Len(file)
      /\ pos \in Nat /\ 1 =< pos
  BY ONLY ToolInv, StateTypes DEF ToolInv
<1>2. pos \in DOMAIN file
  BY DEF ToolInv, TypeInv
<1>3. NoEntry \in Entries
  BY ONLY <1>1, NoEntryType
<1>4. TypeInv'
  BY <1>1, <1>2, <1>3 DEF ToolInv, TypeInv, Entries
<1>5. EntryInv'
  BY DEF EntryInv, NoEntry
<1>6. TableSound'
  BY DEF ToolInv, TableSound, SentFor
<1>7. FreedTwiceCause'
  <2>1. ASSUME entry.oidVal = "freed"
        PROVE  /\ file[entry.of].type \in Types
               /\ SentFor(entry.of, pos)
    BY <1>1, <2>1 DEF ToolInv, EntryInv, EntryCurrent, Parsed, SentFor
  <2>2. harm' = harm \/ (/\ entry.oidVal = "freed"
                         /\ harm' = harm \cup {[of |-> entry.of, by |-> pos]})
    BY DEF FreedAgain
  <2>3. pos \in starved' /\ starved \subseteq starved'
    OBVIOUS
  <2> QED
    BY <2>1, <2>2, <2>3 DEF ToolInv, FreedTwiceCause, SentFor
<1>8. LinesStored'
  <2>1. \A i \in 1..(pos' - 1) : i = pos \/ i \in 1..(pos - 1)
    BY <1>1
  <2> QED
    BY <2>1 DEF ToolInv, LinesStored
<1> QED
  BY <1>4, <1>5, <1>6, <1>7, <1>8 DEF ToolInv

\* What an ioctl with all its copies does to the table, for the key of the
\* entry and for the others.
LEMMA SendEffect ==
    ASSUME ToolInv, Send
    PROVE  LET k == entry.bytes.oid
           IN  /\ entry.oidVal = "live" /\ entry.resVal = "live"
               /\ \/ /\ DOMAIN table' = DOMAIN table \cup {k}
                     /\ table'[k] = Stored
                     /\ \A x \in DOMAIN table \ {k} : table'[x] = table[x]
                  \/ /\ table' = table /\ k \notin DOMAIN table
                     /\ Cardinality(DOMAIN table) = Cap
               /\ IsFiniteSet(DOMAIN table') /\ Cardinality(DOMAIN table') =< Cap
<1> DEFINE k == entry.bytes.oid
           D == DOMAIN table
<1>1. /\ entry \in Entries /\ Cap \in Nat /\ Cardinality(D) \in Nat
  BY ONLY ToolInv, StateTypes DEF ToolInv
<1>2. IsFiniteSet(D) /\ Cardinality(D) =< Cap
  BY DEF ToolInv, TypeInv
<1>3. entry.oidVal = "live" /\ entry.resVal = "live"
  BY <1>1 DEF ToolInv, EntryInv, Entries, Pointer, Send
<1>4. CASE k \in D \/ Cardinality(D) < Cap
  <2>1. table' = [x \in D \cup {k} |-> IF x = k THEN Stored ELSE table[x]]
    BY <1>4 DEF Send
  <2> HIDE DEF k
  <2>2. DOMAIN table' = D \cup {k}
    BY ONLY <2>1
  <2>3. table'[k] = Stored /\ \A x \in D \ {k} : table'[x] = table[x]
    BY ONLY <2>1
  <2>4. /\ IsFiniteSet(D \cup {k})
        /\ Cardinality(D \cup {k}) = IF k \in D THEN Cardinality(D) ELSE Cardinality(D) + 1
    BY ONLY <1>2, FS_AddElement
  <2>5. Cardinality(D \cup {k}) =< Cap
    BY ONLY <1>1, <1>2, <1>4, <2>4
  <2> QED
    BY ONLY <1>3, <2>2, <2>3, <2>4, <2>5 DEF k
<1>5. CASE ~(k \in D \/ Cardinality(D) < Cap)
  <2>1. table' = table /\ k \notin D
    BY <1>5 DEF Send
  <2>2. Cardinality(D) = Cap
    BY <1>1, <1>2, <1>5
  <2> QED
    BY <1>2, <1>3, <2>1, <2>2
<1> QED
  BY <1>4, <1>5

\* An ioctl with all its copies: the table has the entry of the line, or of
\* the line before the unknown types, unless the table is full.
LEMMA SendKeeps ==
    ASSUME ToolInv, Send
    PROVE  ToolInv'
<1> DEFINE k == entry.bytes.oid
<1>1. /\ Len(file) \in Nat /\ DOMAIN file = 1..Len(file)
      /\ pos \in Nat /\ 1 =< pos
      /\ Cap \in Nat /\ Cardinality(DOMAIN table) \in Nat
  BY ONLY ToolInv, StateTypes DEF ToolInv
<1>2. pos \in DOMAIN file
  BY DEF ToolInv, TypeInv, Send
<1>3. /\ entry.oidVal = "live" /\ entry.resVal = "live"
      /\ \/ /\ DOMAIN table' = DOMAIN table \cup {k}
            /\ table'[k] = Stored
            /\ \A x \in DOMAIN table \ {k} : table'[x] = table[x]
         \/ /\ table' = table /\ k \notin DOMAIN table
            /\ Cardinality(DOMAIN table) = Cap
      /\ IsFiniteSet(DOMAIN table') /\ Cardinality(DOMAIN table') =< Cap
  BY ONLY ToolInv, Send, SendEffect
<1>4. /\ file' = file /\ errors' = errors /\ starved' = starved
      /\ open' = open /\ pos' = pos + 1 /\ pc = "send" /\ pc' = "parse"
      /\ entry' = NoEntry
  BY DEF Send, Advance, FreeEntry
<1>5. harm' = harm
  BY ONLY <1>3, Send DEF Send, FreeEntry, FreedAgain
<1>6. /\ entry.of \in DOMAIN file /\ file[entry.of].type \in Types
      /\ \E junk \in Junk : entry.bytes = Encode(file[entry.of], junk)
      /\ \/ entry.of = pos
         \/ /\ entry.of \in errors /\ entry.of < pos
            /\ \A j \in (entry.of + 1)..pos : file[j].type \notin Types
  BY <1>3, <1>4 DEF ToolInv, EntryInv, EntryCurrent, Parsed
<1>7. NoEntry \in Entries
  BY ONLY <1>1, NoEntryType
<1>8. TypeInv'
  BY <1>1, <1>2, <1>3, <1>4, <1>7 DEF ToolInv, TypeInv, Entries
<1>9. EntryInv'
  BY ONLY <1>4 DEF EntryInv, NoEntry
<1>10. TableSound'
  <2>1. Stored = [bytes |-> entry.bytes, of |-> entry.of, by |-> pos, ptr |-> "live"]
    BY <1>3 DEF Stored
  <2>2. \A x \in DOMAIN table' : \/ x \in DOMAIN table /\ table'[x] = table[x]
                                 \/ x = k /\ table'[x] = Stored
    BY <1>3
  <2>3. TableSound
    BY DEF ToolInv
  <2> SUFFICES ASSUME NEW x \in DOMAIN table'
               PROVE  LET e == table'[x]
                      IN  /\ e.ptr = "live"
                          /\ e.bytes.oid = x
                          /\ file[e.of].type \in Types
                          /\ SentFor(e.of, e.by)
    BY <1>4 DEF TableSound, SentFor
  <2>4. CASE x \in DOMAIN table /\ table'[x] = table[x]
    BY <2>3, <2>4 DEF TableSound
  <2>5. CASE x = k /\ table'[x] = Stored
    BY <1>6, <2>1, <2>5 DEF SentFor
  <2> QED
    BY <2>2, <2>4, <2>5
<1>11. FreedTwiceCause'
  BY <1>4, <1>5 DEF ToolInv, FreedTwiceCause, SentFor
<1>12. LinesStored'
  <2> SUFFICES ASSUME NEW i \in 1..pos,
                      file[i].type \in Types, i \notin errors \cup starved
               PROVE  LET q == ar_snmp_process_string(file[i].oid)
                      IN  IF q \in DOMAIN table' THEN table'[q].of >= i
                          ELSE Cardinality(DOMAIN table') = Cap
    BY <1>1, <1>4 DEF LinesStored
  <2> DEFINE q == ar_snmp_process_string(file[i].oid)
  <2>1. entry.of \in Nat /\ entry.of >= i
    BY <1>1, <1>6
  <2>2. Stored.of = entry.of
    BY DEF Stored
  <2>3. CASE i \in 1..(pos - 1)
    <3>1. IF q \in DOMAIN table THEN table[q].of >= i
                                ELSE Cardinality(DOMAIN table) = Cap
      BY <2>3 DEF ToolInv, LinesStored
    <3> SUFFICES IF q \in DOMAIN table' THEN table'[q].of >= i
                                        ELSE Cardinality(DOMAIN table') = Cap
      OBVIOUS
    <3> HIDE DEF k, q
    <3>2. CASE q \in DOMAIN table
      BY <1>3, <2>1, <2>2, <3>1, <3>2
    <3>3. CASE q \notin DOMAIN table /\ q \in DOMAIN table'
      BY <1>3, <2>1, <2>2, <3>3
    <3>4. CASE q \notin DOMAIN table /\ q \notin DOMAIN table'
      <4>1. Cardinality(DOMAIN table) = Cap
        BY <3>1, <3>4
      <4>2. IsFiniteSet(DOMAIN table')
        BY <1>3
      <4>3. DOMAIN table \subseteq DOMAIN table'
        BY <1>3
      <4>4. Cardinality(DOMAIN table) =< Cardinality(DOMAIN table')
        BY ONLY <4>2, <4>3, FS_Subset
      <4>5. Cardinality(DOMAIN table') \in Nat
        BY ONLY <4>2, FS_CardinalityType
      <4>6. Cardinality(DOMAIN table') = Cap
        BY <1>1, <1>3, <4>1, <4>4, <4>5
      <4> QED
        BY <3>4, <4>6
    <3> QED
      BY <3>2, <3>3, <3>4
  <2>4. CASE i = pos
    <3>1. entry.of = pos
      BY <1>1, <1>6, <2>4
    <3>2. k = q
      BY <1>6, <2>4, <3>1 DEF Encode
    <3> HIDE DEF k, q
    <3>3. IF q \in DOMAIN table' THEN table'[q].of >= i
                                 ELSE Cardinality(DOMAIN table') = Cap
      BY <1>3, <2>1, <2>2, <3>2
    <3> QED
      BY <3>3 DEF q
  <2> QED
    BY <1>1, <2>3, <2>4
<1> QED
  BY <1>8, <1>9, <1>10, <1>11, <1>12 DEF ToolInv

\* ToolInv holds in every state.
THEOREM ToolInvariant == Spec => []ToolInv
<1>1. ToolInv /\ [Next]_vars => ToolInv'
  <2> SUFFICES ASSUME ToolInv, [Next]_vars
               PROVE  ToolInv'
    OBVIOUS
  <2>1. CASE Parse
    BY <2>1, ParseKeeps
  <2>2. CASE SendFails
    BY <2>2, SendFailsKeeps
  <2>3. CASE SendStarved
    BY <2>3, SendStarvedKeeps
  <2>4. CASE Send
    BY <2>4, SendKeeps
  <2>5. CASE Close
    BY <2>5, CloseKeeps
  <2>6. CASE UNCHANGED vars
    <3> USE <2>6 DEF vars
    <3>1. TypeInv'
      BY DEF ToolInv, TypeInv
    <3>2. EntryInv'
      BY DEF ToolInv, EntryInv, EntryCurrent, Parsed
    <3> QED
      BY <3>1, <3>2, NothingSent DEF ToolInv
  <2> QED
    BY <2>1, <2>2, <2>3, <2>4, <2>5, <2>6 DEF Next
<1> QED
  BY <1>1, InitInv, PTL DEF Spec

(***************************************************************************)
(* The properties of the runs                                              *)
(***************************************************************************)

\* The state of the program has its type: among others, what is in the
\* buffer for the value are bytes, whatever the line.
THEOREM TypeCorrect == Spec => []TypeOK
<1>1. ToolInv => TypeOK
  <2> SUFFICES ASSUME ToolInv
               PROVE  TypeOK
    OBVIOUS
  <2>1. entry \in Entries
    BY ONLY ToolInv, StateTypes DEF ToolInv
  <2>2. /\ entry.oidVal \in Pointer /\ entry.resVal \in Pointer
        /\ entry.of \in 0..Len(file) /\ entry.bytes.res \in Seq(0..255)
    BY ONLY <2>1, Zenon DEF Entries, Buffers, Byte
  <2> QED
    BY <2>2 DEF ToolInv, TypeInv, TypeOK
<1> QED
  BY <1>1, ToolInvariant, PTL

\* ar_snmp_set_param encodes every plain line exactly: the OID, and the
\* type, length and bytes of the value, a number in the fewest bytes, and
\* the bytes of memory never written to are not in it.
THEOREM EntriesExact == Spec => []EntryExact
<1>1. ToolInv => EntryExact
  <2> SUFFICES ASSUME ToolInv, entry.oidVal = "live", Plain(file[entry.of])
               PROVE  Says(file[entry.of], entry.bytes)
    BY DEF EntryExact, Says
  <2>1. /\ entry.of \in DOMAIN file /\ file[entry.of].type \in Types
        /\ \E junk \in Junk : entry.bytes = Encode(file[entry.of], junk)
    BY DEF ToolInv, EntryInv, EntryCurrent
  <2>2. WellFormed(file[entry.of])
    BY ONLY <2>1, ToolInv, StateTypes DEF ToolInv
  <2> QED
    BY ONLY <2>1, <2>2, Plain(file[entry.of]), EncodeSays
<1> QED
  BY <1>1, ToolInvariant, PTL

\* The kernel's table holds entries read from allocated memory only, each of
\* one line, sent for that line or again for a line of unknown type after
\* the line's own ioctl had failed.
THEOREM TablesSound == Spec => []TableSound
<1>1. ToolInv => TableSound
  BY DEF ToolInv
<1> QED
  BY <1>1, ToolInvariant, PTL

\* Memory is freed twice only if the program found no memory for the value
\* of a line and the kernel none for the value that is sent, for that line or,
\* its own ioctl having failed, for a line of unknown type right after it.
THEOREM FreedTwiceExplained == Spec => []FreedTwiceCause
<1>1. ToolInv => FreedTwiceCause
  BY DEF ToolInv
<1> QED
  BY <1>1, ToolInvariant, PTL

\* A line of known type without an error message is in the table, or a later
\* one of its OID is, or the table is full, or the kernel had no memory.
THEOREM AllLinesStored == Spec => []LinesStored
<1>1. ToolInv => LinesStored
  BY DEF ToolInv
<1> QED
  BY <1>1, ToolInvariant, PTL
=============================================================================
