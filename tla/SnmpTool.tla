------------------------------ MODULE SnmpTool ------------------------------
(***************************************************************************)
(* ar_snmp_tool.c, the program that reads a file of SNMP objects, encodes  *)
(* each as an OID and a type-length-value string, and sends it to the OID  *)
(* table of the kernel module.                                             *)
(*                                                                         *)
(* The table is the BoundedMap that SnmpTable implements.  The program has *)
(* one entry, two pointers to allocated buffers that outlive a line when   *)
(* its ioctl fails.  Bytes are numbers; the processor is big-endian, as    *)
(* the PowerPC ones with a frame manager are.                              *)
(***************************************************************************)
EXTENDS Integers, Sequences, FiniteSets

CONSTANTS
    Files,   \* the files, sequences of lines
    Cap,     \* slots of the OID table
    Junk     \* bytes that memory never written to may hold

\* Comment lines are passed over and are not in a file here.
\* A line: the components of the OID, the letter of the type, and the value
\* as the type takes it (<<v>> for a number, which is a uint32_t, else
\* components, characters, hexadecimal digits or bits).  The value fits in
\* value[128] with its terminator.
IntType == {"i", "u", "t", "g"}
PathType == {"a", "o"}
TextType == {"s", "d"}
Types == IntType \cup PathType \cup TextType \cup {"x", "b"}

WellFormed(l) ==
    /\ l.oid \in Seq(0..999)
    /\ Len(l.val) \in 1..127
    /\ l.type \in IntType =>
        /\ l.val \in Seq(Nat) /\ Len(l.val) = 1
        /\ l.val[1] \div 2^16 < 2^16
    /\ l.type \in PathType => l.val \in Seq(0..999)
    /\ l.type \in TextType => l.val \in Seq(0..255)
    /\ l.type = "x" => l.val \in Seq(0..15)
    /\ l.type = "b" => l.val \in Seq({0, 1})

ASSUME ToolAssumption ==
    /\ \A f \in Files : /\ f \in Seq({f[i] : i \in DOMAIN f})
                        /\ \A i \in DOMAIN f : WellFormed(f[i])
    /\ Cap \in Nat
    /\ 0 \in Junk /\ Junk \subseteq 0..255

VARIABLES
    file,
    pc,       \* "parse" or "send" the line at pos, "out" after the last
    pos,
    open,     \* the device could be opened
    entry,    \* ar_snmp_entry: its pointers, and the line and bytes there
    errors,   \* the lines for which an error was printed
    table,    \* the OID table: what is held under each key
    starved,  \* history: the lines that a kernel short of memory took
    harm      \* history: where freed memory was freed again: the line it was
              \* allocated for and the line that was being sent

vars == <<file, pc, pos, open, entry, errors, table, starved, harm>>

line == file[pos]

-----------------------------------------------------------------------------
(* The encoding                                                            *)

\* A string ends at its first zero byte.
strlen(s) == Cardinality({i \in DOMAIN s : \A j \in 1..i : s[j] # 0})
Cut(s) == SubSeq(s, 1, strlen(s))

ar_snmp_get_type(t) ==
    CASE t = "i" -> 2
      [] t \in {"u", "g"} -> 66
      [] t = "t" -> 67
      [] t = "a" -> 64
      [] t \in {"s", "x", "d"} -> 4
      [] t = "b" -> 3
      [] t = "o" -> 6

\* Mutant: the eighth bit starts a new byte.
GetSizeEarly(v) == 1 + Cardinality({i \in {7, 15, 23} : v \div 2^i # 0})

\* The number is shifted out bit by bit, and a shift of which bit_count is
\* more than 8 counts a byte: the ninth, the 17th and the 25th, each of them
\* done if the number is not yet 0 after the 8, 16 or 24 before it.
ar_snmp_get_size(v) == 1 + Cardinality({i \in {8, 16, 24} : v \div 2^i # 0})

\* The last size bytes of a number in memory.
ar_snmp_get_val(size, v) ==
    SubSeq(<<v \div 256^3, (v \div 256^2) % 256, (v \div 256) % 256, v % 256>>,
           5 - size, 4)

\* Mutant: a component is kept whole.
ProcessStringUncut(s) == Cut(s)

\* Components between dots, each cut to a byte.
ar_snmp_process_string(s) == Cut([i \in DOMAIN s |-> s[i] % 256])

\* Pairs of digits; an odd one at the end is dropped.
ar_snmp_convert_value(s) ==
    [i \in 1..(Len(s) \div 2) |-> 16 * s[2 * i - 1] + s[2 * i]]

\* Byte k of the bits in s.  The loop takes eight bits even if fewer are
\* left: the first that is missing is the terminator, and those after it,
\* the last of them unshifted, are what the buffer happened to hold.
BitByte(s, k, junk) ==
    LET bit(j) == IF \/ 8 * k - j \in DOMAIN s /\ s[8 * k - j] = 1
                     \/ 8 * k > Len(s) + 1 /\ (junk \div 2^j) % 2 = 1
                  THEN 2^j ELSE 0
    IN  bit(0) + bit(1) + bit(2) + bit(3) + bit(4) + bit(5) + bit(6) + bit(7)

ar_snmp_convert_bitvalue(s, junk) ==
    [k \in 1..((Len(s) + 7) \div 8) |-> BitByte(s, k, junk)]

\* The bytes of a value of type t, after the type and the length.
Value(t, v, junk) ==
    CASE t \in IntType -> ar_snmp_get_val(ar_snmp_get_size(v[1]), v[1])
      [] t \in PathType -> ar_snmp_process_string(v)
      [] t \in TextType -> Cut(v)
      [] t = "x" -> Cut(ar_snmp_convert_value(v))
      [] t = "b" -> Cut(ar_snmp_convert_bitvalue(v, junk))

\* resSize.  Of an address it is the strlen of a buffer without terminator,
\* which goes on as long as the memory after the value is not zero.
ResSize(t, v, junk) ==
    CASE t = "a" /\ v = <<>> -> 1
      [] t = "a" /\ v # <<>> /\ junk # 0 -> Len(v) + 3
      [] OTHER -> Len(v) + 2

\* What ar_snmp_set_param puts in the two buffers.
Encode(l, junk) ==
    LET v == Value(l.type, l.val, junk)
    IN  [oid |-> ar_snmp_process_string(l.oid),
         res |-> <<ar_snmp_get_type(l.type), Len(v)>> \o v,
         resSize |-> ResSize(l.type, v, junk)]

-----------------------------------------------------------------------------
(* A line                                                                  *)

NoEntry == [oidVal |-> "NULL", resVal |-> "NULL", of |-> 0,
            bytes |-> [oid |-> <<>>, res |-> <<>>, resSize |-> 0]]

\* Mutant: the first allocation is tested before it is put in the entry.
SetParamTestsFirst ==
    \/ UNCHANGED entry
    \/ /\ line.type \in Types
       /\ entry' = [entry EXCEPT !.oidVal = "freed", !.resVal = "NULL", !.of = pos]
    \/ /\ line.type \in Types
       /\ \E junk \in Junk :
            entry' = [oidVal |-> "live", resVal |-> "live", of |-> pos,
                      bytes |-> Encode(line, junk)]

\* The allocations of ar_snmp_set_param, which is left at once when one
\* fails.  A type that is not known leaves the entry as it is.
ar_snmp_set_param ==
    \/ /\ line.type \notin Types
       /\ UNCHANGED entry
    \/ /\ line.type \in Types
       /\ entry' = [entry EXCEPT !.oidVal = "NULL"]
    \/ /\ line.type \in Types
       /\ entry' = [entry EXCEPT !.oidVal = "freed", !.resVal = "NULL", !.of = pos]
    \/ /\ line.type \in Types
       /\ \E junk \in Junk :
            entry' = [oidVal |-> "live", resVal |-> "live", of |-> pos,
                      bytes |-> Encode(line, junk)]

Parse ==
    /\ pc = "parse" /\ pos =< Len(file)
    /\ ar_snmp_set_param
    /\ pc' = "send"
    /\ UNCHANGED <<file, pos, open, errors, table, starved, harm>>

Advance == pc' = "parse" /\ pos' = pos + 1

\* Mutant: the result is kept in an unsigned int, as it is in the library.
SendFailsUnnoticed ==
    /\ pc = "send"
    /\ Advance
    /\ UNCHANGED <<file, open, entry, errors, table, starved, harm>>

\* The ioctl is below 0: the file is not open, the kernel is short of memory
\* at its first allocation, or a pointer cannot be read.
SendFails ==
    /\ pc = "send"
    /\ errors' = errors \cup {pos}
    /\ Advance
    /\ UNCHANGED <<file, open, entry, table, starved, harm>>

FreedAgain ==
    harm' = IF entry.oidVal = "freed"
            THEN harm \cup {[of |-> entry.of, by |-> pos]} ELSE harm

\* Mutant: the pointers are kept.
FreeEntryKept ==
    /\ FreedAgain
    /\ entry' = [entry EXCEPT !.oidVal = "freed", !.resVal = "freed"]

\* The two calls of free, and the pointers cleared.
FreeEntry ==
    /\ FreedAgain
    /\ entry' = NoEntry

\* The kernel has read the OID and finds no memory for the value: the ioctl
\* returns a positive number, which the program takes for success.
SendStarved ==
    /\ pc = "send" /\ open /\ entry.oidVal # "NULL"
    /\ starved' = starved \cup {pos}
    /\ FreeEntry
    /\ Advance
    /\ UNCHANGED <<file, open, errors, table>>

\* CREATE_SNMP_ENTRY with all its copies: see Put and Full of BoundedMap.
Stored == [bytes |-> entry.bytes, of |-> entry.of, by |-> pos,
           ptr |-> entry.oidVal]

Send ==
    LET k == entry.bytes.oid
    IN  /\ pc = "send" /\ open
        /\ entry.oidVal # "NULL" /\ entry.resVal # "NULL"
        /\ table' = IF k \in DOMAIN table \/ Cardinality(DOMAIN table) < Cap
                    THEN [x \in DOMAIN table \cup {k} |->
                            IF x = k THEN Stored ELSE table[x]]
                    ELSE table
        /\ FreeEntry
        /\ Advance
        /\ UNCHANGED <<file, open, errors, starved>>

\* The end of the file.
Close ==
    /\ pc = "parse" /\ pos > Len(file)
    /\ pc' = "out"
    /\ UNCHANGED <<file, pos, open, entry, errors, table, starved, harm>>

\* main.  Whether the device could be opened is kept in an unsigned int and
\* not noticed; a file that cannot be opened ends the program at fgets.
Init ==
    /\ file \in Files
    /\ pc = "parse" /\ pos = 1
    /\ open \in BOOLEAN
    /\ entry = NoEntry
    /\ errors = {} /\ starved = {} /\ harm = {}
    /\ table = [k \in {} |-> k]

Next ==
    \/ Parse
    \/ SendFails
    \/ SendStarved
    \/ Send
    \/ Close
    \/ pc = "out" /\ UNCHANGED vars

Spec == Init /\ [][Next]_vars

-----------------------------------------------------------------------------
(* Properties                                                              *)

Pointer == {"NULL", "live", "freed"}

\* The state has its type.
TypeOK ==
    /\ pc \in {"parse", "send", "out"}
    /\ pos \in 1..(Len(file) + 1)
    /\ entry.oidVal \in Pointer /\ entry.resVal \in Pointer
    /\ entry.of \in 0..Len(file)
    /\ entry.bytes.res \in Seq(0..255)
    /\ errors \subseteq DOMAIN file /\ starved \subseteq DOMAIN file
    /\ Cardinality(DOMAIN table) =< Cap

\* The bytes in s say what a value v of type t says: a number in the fewest
\* bytes, highest first; digits two to a byte; bits eight to a byte, highest
\* first; characters and components one to a byte.
Means(t, v, s) ==
    CASE t \in IntType ->
            /\ Len(s) = 1 \/ s[1] # 0
            /\ v[1] \div 256^(Len(s) - 1) < 256
            /\ \A i \in DOMAIN s : s[i] = (v[1] \div 256^(Len(s) - i)) % 256
      [] t = "x" ->
            /\ Len(v) = 2 * Len(s)
            /\ \A i \in DOMAIN s : /\ s[i] \div 16 = v[2 * i - 1]
                                   /\ s[i] % 16 = v[2 * i]
      [] t = "b" ->
            /\ Len(s) = (Len(v) + 7) \div 8
            /\ \A k \in DOMAIN s : \A j \in 0..7 :
                    (s[k] \div 2^j) % 2 = IF 8 * k - j \in DOMAIN v
                                          THEN v[8 * k - j] ELSE 0
      [] OTHER -> s = v

\* No component or character is 0 or more than 255, hexadecimal digits and
\* bits come in whole bytes, of which one bit may be missing, and none of
\* these bytes is 0.
Plain(l) ==
    /\ \A i \in DOMAIN l.oid : l.oid[i] \in 1..255
    /\ l.type \in PathType \cup TextType =>
            \A i \in DOMAIN l.val : l.val[i] \in 1..255
    /\ l.type = "x" =>
            /\ Len(l.val) % 2 = 0
            /\ \A i \in 1..(Len(l.val) \div 2) :
                    l.val[2 * i - 1] # 0 \/ l.val[2 * i] # 0
    /\ l.type = "b" =>
            /\ Len(l.val) % 8 \in {0, 7}
            /\ \A k \in 1..((Len(l.val) + 7) \div 8) :
                    \E i \in DOMAIN l.val : i \in (8 * k - 7)..(8 * k) /\ l.val[i] = 1

\* The entry of a plain line is its OID and the type, length and bytes of
\* its value, the fewest bytes for a number, whatever unwritten memory
\* holds; only the size announced for an address may be too large.
EntryExact ==
    entry.oidVal = "live" /\ Plain(file[entry.of]) =>
        LET l == file[entry.of]
            res == entry.bytes.res
            s == SubSeq(res, 3, Len(res))
        IN  /\ entry.bytes.oid = l.oid
            /\ res = <<ar_snmp_get_type(l.type), Len(s)>> \o s
            /\ Means(l.type, l.val, s)
            /\ IF l.type = "a" THEN entry.bytes.resSize >= Len(res)
                               ELSE entry.bytes.resSize = Len(res)

\* What is made of line i is sent for line j: for i itself, or, after the ioctl
\* of i had failed, for one of the lines of unknown type right after it.
SentFor(i, j) ==
    \/ j = i
    \/ /\ i < j /\ i \in errors
       /\ \A m \in (i + 1)..j : file[m].type \notin Types

\* Every entry in the kernel's table was read from allocated memory and is
\* that of one line, OID and value, sent for that line; or it was sent again
\* for a line of unknown type, right after the line's own ioctl had failed.
TableSound ==
    \A k \in DOMAIN table :
        LET e == table[k]
        IN  /\ e.ptr = "live"
            /\ e.bytes.oid = k
            /\ file[e.of].type \in Types
            /\ SentFor(e.of, e.by)

\* The program frees memory twice only if two allocations failed: its own for
\* the value of a line, after which it has freed the OID and kept the pointer,
\* and the kernel's for the value that is sent, either for that same line or,
\* the line's own ioctl having failed, for one of the lines of unknown type
\* right after it.  An ioctl that gets all its memory never leads to it, and a
\* later line of known type does away with the pointer.
FreedTwiceCause ==
    \A h \in harm : /\ file[h.of].type \in Types
                    /\ h.by \in starved
                    /\ SentFor(h.of, h.by)

\* A line read without an error is in the table, or a later one for the same
\* OID is, or the table is full, or the kernel ran out of memory.
LinesStored ==
    \A i \in 1..(pos - 1) :
        file[i].type \in Types /\ i \notin errors \cup starved =>
            LET k == ar_snmp_process_string(file[i].oid)
            IN  IF k \in DOMAIN table THEN table[k].of >= i
                                      ELSE Cardinality(DOMAIN table) = Cap
=============================================================================
