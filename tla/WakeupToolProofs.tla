-------------------------- MODULE WakeupToolProofs --------------------------
(***************************************************************************)
(* Proofs about WakeupTool, for every set of rule files and every number   *)
(* of runs, on top of those about the database it drives.                  *)
(*                                                                         *)
(* What the database keeps (IInv) is kept because each line is one of its  *)
(* ioctls or none.  To that come what the program knows, the section it is *)
(* in (InSection), and what its lines have led to: tables that count       *)
(* exactly what they hold as long as no line looks like a free slot        *)
(* (ToolCount), and lines that are stored or found their table full        *)
(* (Sent).  The last is why a second run changes nothing.                  *)
(***************************************************************************)
EXTENDS WakeupTool, WakeupRulesProofs

\* What ToolTypeOK says of the program.
ToolTyped ==
    /\ file \in Files
    /\ pc \in {"out", "lines"}
    /\ pos \in 1..(Len(file) + 1)
    /\ RuleToConfig \in Prot \cup {"CONFIG_WAKEUP_NULL"}
    /\ errors \subseteq DOMAIN file
    /\ runs \in 0..MaxRuns
    /\ pc = "lines" => runs < MaxRuns

\* The program knows the section of the line it reads next.
InSection ==
    pc = "lines" =>
        RuleToConfig = IF SectionOf(pos) = "none" THEN "CONFIG_WAKEUP_NULL"
                                                  ELSE SectionOf(pos)

\* The counter of a table is exact if the file's lines for it are definite.
ToolCount ==
    \A p \in Prot : Definite(p) =>
        /\ table_size[p] =< TblSize[p]
        /\ Occupied(p) = 0..(table_size[p] - 1)

\* Line i's rule is in one of the slots of table p that FMan is given.
LineStored(p, i) ==
    \E k \in Slot(p) : k < table_size[p] /\ tbl[p][k] \in Entries(p, i)

\* A definite line that was sent, in this run or an earlier one, is stored
\* or its table is full.
Sent ==
    \A p \in Prot : Definite(p) /\ ~lost =>
        \A i \in LinesOf(p) : runs > 0 \/ i < pos =>
            LineStored(p, i) \/ Occupied(p) = Slot(p)

ToolInv ==
    /\ IInv
    /\ ToolTyped
    /\ InSection
    /\ TableFromFile
    /\ ToolCount
    /\ PortLinesReported
    /\ Sent

-----------------------------------------------------------------------------
(* The file                                                                *)

\* A file is a sequence of lines.
LEMMA FileLines ==
  ASSUME file \in Files
  PROVE  /\ Len(file) \in Nat /\ DOMAIN file = 1..Len(file)
         /\ \A i \in DOMAIN file :
              /\ file[i].kind \in Prot \cup {"comment", "text"}
              /\ file[i].kind = "text" => /\ file[i].name \in ProtName
                                          /\ file[i].reads \subseteq UdpRule \cap TcpRule
<1>1. file \in Seq({file[i] : i \in DOMAIN file})
  BY ToolAssumption
<1>2. Len(file) \in Nat /\ DOMAIN file = 1..Len(file)
  BY <1>1
<1>3. \A i \in DOMAIN file :
        /\ file[i].kind \in Prot \cup {"comment", "text"}
        /\ file[i].kind = "text" => /\ file[i].name \in ProtName
                                    /\ file[i].reads \subseteq UdpRule \cap TcpRule
  BY ToolAssumption
<1> QED
  BY <1>2, <1>3

\* No section before the first line.
LEMMA FirstSection == SectionOf(1) = "none"
  BY DEF SectionOf

\* A section head begins a section, any other line stays in the one before.
LEMMA NextSection ==
  ASSUME NEW i \in Nat \ {0}
  PROVE  SectionOf(i + 1) = IF file[i].kind \in Prot THEN file[i].kind
                                                     ELSE SectionOf(i)
<1> DEFINE Heads(n) == {j \in 1..(n - 1) : file[j].kind \in Prot}
<1>1. \A n : SectionOf(n) = IF Heads(n) = {} THEN "none" ELSE file[Max(Heads(n))].kind
  BY DEF SectionOf
<1>2. CASE file[i].kind \in Prot
  <2>1. i \in Heads(i + 1) /\ \A j \in Heads(i + 1) : j \in Nat /\ j =< i
    BY <1>2
  <2>2. Max(Heads(i + 1)) = i
    <3> HIDE DEF Heads
    <3> DEFINE IsMax(x) == x \in Heads(i + 1) /\ \A y \in Heads(i + 1) : x >= y
    <3>1. IsMax(i)
      BY <2>1
    <3>2. \A x : IsMax(x) => x = i
      BY <2>1
    <3>3. Max(Heads(i + 1)) = CHOOSE x \in Heads(i + 1) : \A y \in Heads(i + 1) : x >= y
      BY DEF Max
    <3> QED
      BY <3>1, <3>2, <3>3
  <2> QED
    BY <1>1, <1>2, <2>1, <2>2
<1>3. CASE file[i].kind \notin Prot
  <2>1. Heads(i + 1) = Heads(i)
    BY <1>3
  <2> QED
    BY <1>1, <1>3, <2>1
<1> QED
  BY <1>2, <1>3

\* The file does not change, so neither does what its lines say.
LEMMA SameFile ==
  ASSUME file' = file
  PROVE  /\ \A i : SectionOf(i)' = SectionOf(i)
         /\ \A p : LinesOf(p)' = LinesOf(p)
         /\ \A p, i : Entries(p, i)' = Entries(p, i)
         /\ \A p : Definite(p)' <=> Definite(p)
<1>1. \A i : SectionOf(i)' = SectionOf(i)
  BY DEF SectionOf, Max
<1>2. \A p : LinesOf(p)' = LinesOf(p)
  BY <1>1 DEF LinesOf
<1>3. \A p, i : Entries(p, i)' = Entries(p, i)
  BY DEF Entries, ar_wakeup_get_prot_code, Min
<1>4. \A p : Definite(p)' <=> Definite(p)
  BY <1>2, <1>3 DEF Definite, IsFree
<1> QED
  BY <1>1, <1>2, <1>3, <1>4

-----------------------------------------------------------------------------
(* The ioctls of the database, as the program sees them                    *)

\* An ioctl finds the rule counted, finds every slot of the table used, or
\* adds the rule: the answer says which, but for IP protocols.
LEMMA ConfigEffect ==
  ASSUME IInv, NEW p \in Prot, NEW e \in Sendable(p), Config(p, e)
  PROVE  \/ /\ SameTables
            /\ \/ \E k \in Slot(p) : k < table_size[p] /\ tbl[p][k] = e
               \/ ~ table_size[p] =< TblSize[p]
         \/ /\ SameTables
            /\ Occupied(p) = Slot(p)
            /\ reply'.ret = FullAnswer(p)
         \/ /\ AddRule(p, e)
            /\ \A k \in Slot(p) : k < table_size[p] => tbl[p][k] # e
            /\ Occupied(p) # Slot(p)
<1>1. TypeOK /\ RulesAnnounced /\ e \in Entry(p)
      /\ FullAnswer(p) \in {"-1", "AR_SUCCESS"}
  BY SendableType DEF IInv, FullAnswer
<1>2. CASE Rewrite(p, e)
  <2>1. SameTables
    BY <1>1, <1>2, RewriteKeepsTables
  <2>2. PICK i \in ar_wakeup_get_index(p, e) \ {-1} : TRUE
    BY <1>2 DEF Rewrite
  <2>3. \/ i \in Slot(p) /\ i < table_size[p] /\ tbl[p][i] = e
        \/ ~ table_size[p] =< TblSize[p]
    BY <1>1, <2>2, SearchIndex
  <2> QED
    BY <2>1, <2>3
<1>3. CASE NoSpace(p, e, FullAnswer(p))
  <2>1. SameTables
    BY <1>1, <1>3, NoSpaceKeepsTables
  <2>2. Occupied(p) = Slot(p)
    BY <1>3, NoFreeIndex DEF NoSpace
  <2>3. reply'.ret = FullAnswer(p)
    BY <1>3 DEF NoSpace, Reply
  <2> QED
    BY <2>1, <2>2, <2>3
<1>4. CASE AddRule(p, e)
  <2>1. \A k \in Slot(p) : k < table_size[p] => tbl[p][k] # e
    BY <1>1, <1>4, SearchIndex DEF AddRule
  <2>2. Occupied(p) # Slot(p)
    BY <1>1, <1>4, FreeIndex DEF AddRule
  <2> QED
    BY <1>4, <2>1, <2>2
<1> QED
  BY <1>2, <1>3, <1>4 DEF Config

\* No step of the database takes a rule out of a table.
Grow ==
    \A q \in Prot :
        /\ Occupied(q) \subseteq Occupied(q)'
        /\ \A k \in Occupied(q) : tbl'[q][k] = tbl[q][k]
        /\ table_size[q] =< table_size'[q]

LEMMA SameTablesGrow ==
  ASSUME TypeOK, SameTables
  PROVE  Grow /\ \A q \in Prot : Occupied(q)' = Occupied(q)
  BY DEF SameTables, Grow, Occupied, TypeOK

LEMMA AddRuleGrows ==
  ASSUME IInv, NEW p \in Prot, NEW e \in Sendable(p), AddRule(p, e)
  PROVE  Grow
<1>1. PICK i \in Slot(p) :
        /\ i \notin Occupied(p)
        /\ \A j \in Slot(p) \ {i} : tbl'[p][j] = tbl[p][j]
        /\ Occupied(p)' = IF IsFree(p, e) THEN Occupied(p)
                                          ELSE Occupied(p) \cup {i}
        /\ table_size'[p] = table_size[p] + 1
        /\ \A q \in Prot \ {p} : /\ tbl'[q] = tbl[q]
                                 /\ table_size'[q] = table_size[q]
  BY AddRuleEffect
<1>2. \A q \in Prot : table_size[q] \in Nat
  BY DEF IInv, TypeOK
<1>3. \A k \in Occupied(p) : k \in Slot(p) \ {i}
  BY <1>1 DEF Occupied
<1>4. \A q \in Prot \ {p} : Occupied(q)' = Occupied(q)
  BY <1>1 DEF Occupied
<1> QED
  BY <1>1, <1>2, <1>3, <1>4 DEF Grow

\* A definite line that is stored stays so, and a full table stays full.
LEMMA GrowKeeps ==
  ASSUME IInv, IInv', Grow, file' = file, NEW p \in Prot, Definite(p),
         NEW i \in LinesOf(p)
  PROVE  /\ LineStored(p, i) => LineStored(p, i)'
         /\ Occupied(p) = Slot(p) => Occupied(p)' = Slot(p)
<1>1. ASSUME LineStored(p, i) PROVE LineStored(p, i)'
  <2>1. PICK k \in Slot(p) : k < table_size[p] /\ tbl[p][k] \in Entries(p, i)
    BY <1>1 DEF LineStored
  <2>2. ~ IsFree(p, tbl[p][k])
    BY <2>1 DEF Definite
  <2>3. k \in Occupied(p)
    BY <2>1, <2>2 DEF Occupied
  <2>4. tbl'[p][k] = tbl[p][k] /\ table_size[p] =< table_size'[p]
    BY <2>3 DEF Grow
  <2>5. Entries(p, i)' = Entries(p, i)
    BY SameFile
  <2>6. table_size[p] \in Nat /\ table_size'[p] \in Nat /\ k \in Int
    BY <2>1 DEF IInv, TypeOK, Slot
  <2>7. k < table_size'[p]
    BY <2>1, <2>4, <2>6
  <2> QED
    BY <2>1, <2>4, <2>5, <2>7 DEF LineStored
<1>2. Occupied(p) = Slot(p) => Occupied(p)' = Slot(p)
  BY DEF Grow, Occupied
<1> QED
  BY <1>1, <1>2

-----------------------------------------------------------------------------
(* The steps of the program                                                *)

\* A line that becomes an ioctl asks for an entry of its own, in the table
\* of its section.
LineSent(p, e) ==
    /\ pc = "lines" /\ RuleToConfig = p /\ pos \in LinesOf(p)
    /\ e \in Entries(p, pos)
    /\ Config(p, e)
    /\ Report /\ Advance
    /\ UNCHANGED <<RuleToConfig, lost>>

LEMMA SendsLine ==
  ASSUME ToolTyped, InSection, PortLine \/ ar_wakeup_process_ip_prot
  PROVE  Next /\ \E p \in Prot : \E e \in Sendable(p) : LineSent(p, e)
<1>1. pc = "lines" /\ pos =< Len(file) /\ file[pos].kind = "text"
      /\ RuleToConfig \in Prot
  BY DEF PortLine, ar_wakeup_process_ip_prot, Reading, line, Prot, PortProt
<1>2. pos \in DOMAIN file
  BY <1>1, FileLines DEF ToolTyped
<1>3. pos \in LinesOf(RuleToConfig)
  <2>1. SectionOf(pos) = RuleToConfig
    BY <1>1 DEF InSection, Prot, PortProt
  <2> QED
    BY <1>1, <1>2, <2>1 DEF LinesOf
<1>4. /\ file[pos].name \in ProtName
      /\ file[pos].reads \subseteq UdpRule \cap TcpRule
  BY <1>1, <1>2, FileLines DEF ToolTyped
<1>5. Report /\ Advance /\ UNCHANGED <<RuleToConfig, lost>>
  BY DEF PortLine, ar_wakeup_process_ip_prot
<1>6. CASE PortLine
  <2>1. PICK p \in PortProt : RuleToConfig = p
    BY <1>6 DEF PortLine
  <2>2. PICK e \in file[pos].reads : PortRule(p, e)
    BY <1>6, <2>1 DEF PortLine, ScannedTable, line
  <2>3. e \in UdpRule /\ e \in TcpRule
    BY <1>4, <2>2
  <2>4. p \in Prot /\ e \in Sendable(p) /\ e \in Entries(p, pos)
    BY <2>1, <2>2, <2>3 DEF Prot, PortProt, Sendable, Entries
  <2>5. Config(p, e)
    BY <2>1, <2>2 DEF PortRule, Config, FullAnswer, PortProt
  <2>6. LineSent(p, e)
    BY <1>1, <1>3, <1>5, <2>1, <2>4, <2>5 DEF LineSent
  <2>7. Next
    BY <2>1, <2>2, <2>3 DEF Next, PortProt
  <2> QED
    BY <2>4, <2>6, <2>7
<1>7. CASE ar_wakeup_process_ip_prot
  <2> DEFINE p == "IP_PROT"
             e == ar_wakeup_get_prot_code(file[pos].name)
  <2>1. RuleToConfig = p /\ IpProto(file[pos].name)
    BY <1>7 DEF ar_wakeup_process_ip_prot, line
  <2>2. p \in Prot /\ e \in Sendable(p) /\ e \in Entries(p, pos)
    BY <1>4 DEF Prot, Sendable, Entries
  <2>3. Config(p, e)
    BY <2>1 DEF IpProto, Config, FullAnswer
  <2>4. LineSent(p, e)
    BY <1>1, <1>3, <1>5, <2>1, <2>2, <2>3 DEF LineSent
  <2>5. Next
    BY <1>4, <2>1 DEF Next
  <2> QED
    BY <2>2, <2>4, <2>5
<1> QED
  BY <1>6, <1>7

\* What was true of the lines before a step is true after it if the step is
\* so of the lines it adds.
LEMMA ReportedKept ==
  ASSUME ToolInv, IInv', Grow, file' = file,
         \A p \in PortProt : Definite(p) =>
            \A i \in LinesOf(p) \ errors' : i < pos' =>
                (i < pos /\ i \notin errors) \/ LineStored(p, i)'
  PROVE  PortLinesReported'
<1>1. ASSUME NEW p \in PortProt, Definite(p), NEW i \in LinesOf(p) \ errors', i < pos'
      PROVE  LineStored(p, i)'
  <2>1. p \in Prot
    BY DEF Prot
  <2>2. i < pos /\ i \notin errors => LineStored(p, i)
    BY <1>1 DEF ToolInv, PortLinesReported, LineStored
  <2>3. LineStored(p, i) => LineStored(p, i)'
    BY <1>1, <2>1, GrowKeeps DEF ToolInv
  <2> QED
    BY <1>1, <2>2, <2>3
<1>2. \A p \in PortProt : /\ Definite(p)' <=> Definite(p)
                          /\ LinesOf(p)' = LinesOf(p)
  BY SameFile
<1> QED
  BY <1>1, <1>2 DEF PortLinesReported, LineStored

LEMMA SentKept ==
  ASSUME ToolInv, IInv', Grow, file' = file,
         \A p \in Prot : Definite(p) /\ ~lost' =>
            /\ ~lost
            /\ \A i \in LinesOf(p) : runs' > 0 \/ i < pos' =>
                  runs > 0 \/ i < pos \/ LineStored(p, i)' \/ Occupied(p)' = Slot(p)
  PROVE  Sent'
<1>1. ASSUME NEW p \in Prot, Definite(p), ~lost', NEW i \in LinesOf(p),
             runs' > 0 \/ i < pos'
      PROVE  LineStored(p, i)' \/ Occupied(p)' = Slot(p)
  <2>1. runs > 0 \/ i < pos => LineStored(p, i) \/ Occupied(p) = Slot(p)
    BY <1>1 DEF ToolInv, Sent
  <2>2. /\ LineStored(p, i) => LineStored(p, i)'
        /\ Occupied(p) = Slot(p) => Occupied(p)' = Slot(p)
    BY <1>1, GrowKeeps DEF ToolInv
  <2> QED
    BY <1>1, <2>1, <2>2
<1>2. \A p \in Prot : /\ Definite(p)' <=> Definite(p)
                      /\ LinesOf(p)' = LinesOf(p)
  BY SameFile
<1>3. \A p : Slot(p)' = Slot(p)
  BY DEF Slot, TblSize
<1> QED
  BY <1>1, <1>2, <1>3 DEF Sent

\* A step that leaves the tables alone leaves their rules those of the file.
LEMMA SameTablesTool ==
  ASSUME ToolInv, SameTables, file' = file
  PROVE  TableFromFile' /\ ToolCount' /\ Grow
<1>1. Grow /\ \A q \in Prot : Occupied(q)' = Occupied(q)
  BY SameTablesGrow DEF ToolInv, IInv
<1>2. TableFromFile'
  <2>1. ASSUME NEW p \in Prot, NEW k \in Occupied(p)
        PROVE  \E i \in LinesOf(p)' : tbl'[p][k] \in Entries(p, i)'
    BY SameFile DEF ToolInv, TableFromFile, SameTables
  <2> QED
    BY <1>1, <2>1 DEF TableFromFile
<1>3. ToolCount'
  <2>1. ASSUME NEW p \in Prot, Definite(p)'
        PROVE  (table_size[p] =< TblSize[p] /\ Occupied(p) = 0..(table_size[p] - 1))'
    <3>1. Definite(p)
      BY <2>1, SameFile
    <3>2. table_size[p] =< TblSize[p] /\ Occupied(p) = 0..(table_size[p] - 1)
      BY <3>1 DEF ToolInv, ToolCount
    <3> QED
      BY <1>1, <3>2 DEF SameTables, TblSize
  <2> QED
    BY <2>1 DEF ToolCount
<1> QED
  BY <1>1, <1>2, <1>3

\* A new rule comes from the line that was read, and is counted once.
LEMMA AddRuleTool ==
  ASSUME ToolInv, file' = file, NEW p \in Prot, NEW e \in Sendable(p), AddRule(p, e),
         NEW n \in LinesOf(p), e \in Entries(p, n)
  PROVE  TableFromFile' /\ ToolCount' /\ LineStored(p, n)'
<1>1. PICK i \in Slot(p) :
        /\ i \notin Occupied(p)
        /\ i < table_size'[p]
        /\ tbl'[p][i] = e
        /\ \A j \in Slot(p) \ {i} : tbl'[p][j] = tbl[p][j]
        /\ Occupied(p)' = IF IsFree(p, e) THEN Occupied(p)
                                          ELSE Occupied(p) \cup {i}
        /\ table_size'[p] = table_size[p] + 1
        /\ \A q \in Prot \ {p} : /\ tbl'[q] = tbl[q]
                                 /\ table_size'[q] = table_size[q]
  BY AddRuleEffect DEF ToolInv
<1>2. \A q \in Prot \ {p} : Occupied(q)' = Occupied(q)
  BY <1>1 DEF Occupied
<1>3. /\ \A q : LinesOf(q)' = LinesOf(q)
      /\ \A q, j : Entries(q, j)' = Entries(q, j)
      /\ \A q : Definite(q)' <=> Definite(q)
  BY SameFile
<1>4. TableFromFile'
  <2>1. ASSUME NEW q \in Prot, NEW k \in Occupied(q)'
        PROVE  \E j \in LinesOf(q) : tbl'[q][k] \in Entries(q, j)
    <3>1. CASE k \in Occupied(q)
      <4>1. tbl'[q][k] = tbl[q][k]
        BY <1>1, <3>1 DEF Occupied
      <4> QED
        BY <3>1, <4>1 DEF ToolInv, TableFromFile
    <3>2. CASE k \notin Occupied(q)
      <4>1. q = p /\ k = i
        BY <1>1, <1>2, <2>1, <3>2
      <4> QED
        BY <1>1, <4>1
    <3> QED
      BY <3>1, <3>2
  <2> QED
    BY <1>3, <2>1 DEF TableFromFile
<1>5. ToolCount'
  <2>1. ASSUME NEW q \in Prot, Definite(q)
        PROVE  table_size'[q] =< TblSize[q] /\ Occupied(q)' = 0..(table_size'[q] - 1)
    <3>1. table_size[q] =< TblSize[q] /\ Occupied(q) = 0..(table_size[q] - 1)
      BY <2>1 DEF ToolInv, ToolCount
    <3>2. CASE q # p
      BY <1>1, <1>2, <3>1, <3>2
    <3>3. CASE q = p
      <4>1. ~ IsFree(p, e)
        BY <2>1, <3>3 DEF Definite
      <4>2. table_size[p] \in Nat /\ TblSize[p] \in Nat
        BY TblSizeType DEF ToolInv, IInv, TypeOK
      <4>3. i \in Nat /\ i < TblSize[p]
        BY <4>2 DEF Slot
      <4>4. i = table_size[p]
        BY <1>1, <3>1, <3>3, <4>2, <4>3
      <4>5. Occupied(p)' = (0..(table_size[p] - 1)) \cup {table_size[p]}
        BY <1>1, <3>1, <3>3, <4>1, <4>4
      <4>6. \A m \in Nat : (0..(m - 1)) \cup {m} = 0..m
        OBVIOUS
      <4>7. /\ table_size'[p] =< TblSize[p]
            /\ table_size'[p] - 1 = table_size[p]
        BY <1>1, <4>2, <4>3, <4>4
      <4>8. Occupied(p)' = 0..(table_size'[p] - 1)
        BY <4>2, <4>5, <4>6, <4>7
      <4> QED
        BY <3>3, <4>7, <4>8
    <3> QED
      BY <3>2, <3>3
  <2>2. \A q : TblSize[q]' = TblSize[q]
    BY DEF TblSize
  <2> QED
    BY <1>3, <2>1, <2>2 DEF ToolCount
<1>6. LineStored(p, n)'
  <2>1. Slot(p)' = Slot(p)
    BY DEF Slot, TblSize
  <2> QED
    BY <1>1, <1>3, <2>1 DEF LineStored
<1> QED
  BY <1>4, <1>5, <1>6

\* A line that becomes an ioctl keeps the invariant.
LEMMA LineSentInv ==
  ASSUME ToolInv, IInv', NEW p \in Prot, NEW e \in Sendable(p), LineSent(p, e)
  PROVE  TableFromFile' /\ ToolCount' /\ PortLinesReported' /\ Sent'
<1>1. PICK n \in LinesOf(p) : n = pos /\ e \in Entries(p, n)
  BY DEF LineSent
<1>2. /\ file' = file /\ pos' = n + 1 /\ UNCHANGED <<runs, lost>> /\ Config(p, e)
      /\ errors' = IF reply'.ret = "AR_SUCCESS" THEN errors ELSE errors \cup {n}
  BY <1>1 DEF LineSent, Advance, Report
<1>3. Len(file) \in Nat /\ DOMAIN file = 1..Len(file)
  BY FileLines DEF ToolInv, ToolTyped
<1>4. \A q : \A i \in LinesOf(q) : i \in Nat
  BY <1>3 DEF LinesOf
<1>5. \A q \in Prot \ {p} : n \notin LinesOf(q)
  BY DEF LinesOf
<1>6. \A q \in Prot : \A i \in LinesOf(q) : i < pos' => i < pos \/ (q = p /\ i = n)
  BY <1>1, <1>2, <1>4, <1>5
<1>7. Definite(p) => Entries(p, n) = {e} /\ table_size[p] =< TblSize[p]
  BY <1>1 DEF Definite, ToolInv, ToolCount
<1>8. /\ TableFromFile' /\ ToolCount' /\ Grow
      /\ Definite(p) => \/ LineStored(p, n)'
                        \/ Occupied(p)' = Slot(p) /\ reply'.ret = FullAnswer(p)
  <2>1. CASE /\ SameTables
             /\ \/ \E k \in Slot(p) : k < table_size[p] /\ tbl[p][k] = e
                \/ ~ table_size[p] =< TblSize[p]
    <3>1. TableFromFile' /\ ToolCount' /\ Grow
      BY <1>2, <2>1, SameTablesTool
    <3>2. ASSUME Definite(p) PROVE LineStored(p, n)'
      <4>1. LineStored(p, n)
        BY <1>7, <2>1, <3>2 DEF LineStored
      <4> QED
        BY <1>2, <3>1, <3>2, <4>1, GrowKeeps DEF ToolInv
    <3> QED
      BY <3>1, <3>2
  <2>2. CASE SameTables /\ Occupied(p) = Slot(p) /\ reply'.ret = FullAnswer(p)
    <3>1. TableFromFile' /\ ToolCount' /\ Grow
      BY <1>2, <2>2, SameTablesTool
    <3>2. Occupied(p)' = Slot(p)
      BY <2>2, SameTablesGrow DEF ToolInv, IInv
    <3> QED
      BY <2>2, <3>1, <3>2
  <2>3. CASE AddRule(p, e)
    BY <1>1, <1>2, <2>3, AddRuleTool, AddRuleGrows DEF ToolInv
  <2> QED
    BY <1>2, <2>1, <2>2, <2>3, ConfigEffect DEF ToolInv
<1>9. PortLinesReported'
  <2>1. ASSUME NEW q \in PortProt, Definite(q), NEW i \in LinesOf(q) \ errors', i < pos'
        PROVE  (i < pos /\ i \notin errors) \/ LineStored(q, i)'
    <3>1. q \in Prot /\ i \notin errors
      BY <1>2, <2>1 DEF Prot
    <3>2. CASE i < pos
      BY <3>1, <3>2
    <3>3. CASE q = p /\ i = n
      <4>1. reply'.ret = "AR_SUCCESS"
        BY <1>2, <2>1, <3>3
      <4>2. FullAnswer(p) # "AR_SUCCESS"
        BY <3>3 DEF FullAnswer, PortProt
      <4> QED
        BY <1>8, <2>1, <3>3, <4>1, <4>2
    <3> QED
      BY <1>6, <2>1, <3>1, <3>2, <3>3
  <2> QED
    BY <1>2, <1>8, <2>1, ReportedKept
<1>10. Sent'
  <2>1. ASSUME NEW q \in Prot, Definite(q), ~lost', NEW i \in LinesOf(q),
               runs' > 0 \/ i < pos'
        PROVE  runs > 0 \/ i < pos \/ LineStored(q, i)' \/ Occupied(q)' = Slot(q)
    BY <1>2, <1>6, <1>8, <2>1
  <2> QED
    BY <1>2, <1>8, <2>1, SentKept
<1> QED
  BY <1>8, <1>9, <1>10

\* A line that leads to nothing, or whose ioctl is lost.
LEMMA PassedInv ==
  ASSUME ToolInv, IInv', SameTables, pc = "lines", pos \in DOMAIN file,
         file' = file, pos' = pos + 1, UNCHANGED runs,
         \/ /\ \A p \in Prot : pos \notin LinesOf(p)
            /\ UNCHANGED <<errors, lost>>
         \/ errors' = errors \cup {pos} /\ lost' = TRUE
  PROVE  TableFromFile' /\ ToolCount' /\ PortLinesReported' /\ Sent'
<1>1. TableFromFile' /\ ToolCount' /\ Grow
  BY SameTablesTool
<1>2. Len(file) \in Nat /\ DOMAIN file = 1..Len(file)
  BY FileLines DEF ToolInv, ToolTyped
<1>3. \A q : \A i \in LinesOf(q) : i \in Nat
  BY <1>2 DEF LinesOf
<1>4. \A q \in Prot : \A i \in LinesOf(q) : i < pos' => i < pos \/ i = pos
  BY <1>2, <1>3
<1>5. \A q \in PortProt : q \in Prot
  BY DEF Prot
<1>6. PortLinesReported'
  <2>1. ASSUME NEW q \in PortProt, NEW i \in LinesOf(q) \ errors', i < pos'
        PROVE  i < pos /\ i \notin errors
    BY <1>4, <1>5, <2>1
  <2> QED
    BY <1>1, <2>1, ReportedKept
<1>7. Sent'
  <2>1. ASSUME NEW q \in Prot, ~lost', NEW i \in LinesOf(q), runs' > 0 \/ i < pos'
        PROVE  runs > 0 \/ i < pos
    BY <1>4, <2>1
  <2>2. ~lost' => ~lost
    OBVIOUS
  <2> QED
    BY <1>1, <2>1, <2>2, SentKept
<1> QED
  BY <1>1, <1>6, <1>7

\* The program's own variables keep their type and the section its meaning.
LEMMA NextTyped ==
  ASSUME ToolInv, ToolNext
  PROVE  ToolTyped' /\ InSection' /\ file' = file
<1>1. /\ ToolTyped /\ InSection
      /\ Len(file) \in Nat /\ DOMAIN file = 1..Len(file) /\ MaxRuns \in Nat
      /\ \A i \in DOMAIN file : file[i].kind \in Prot \cup {"comment", "text"}
  BY FileLines, ToolAssumption DEF ToolInv, ToolTyped
<1>2. CASE Open
  <2>1. file' = file /\ pos' = 1 /\ SectionOf(1)' = SectionOf(1)
    BY <1>2, SameFile DEF Open
  <2>2. ToolTyped'
    BY <1>1, <1>2 DEF Open, ToolTyped
  <2>3. InSection'
    BY <1>2, <2>1, FirstSection DEF Open, InSection
  <2> QED
    BY <2>1, <2>2, <2>3
<1>3. CASE Close
  <2>1. ToolTyped' /\ file' = file
    BY <1>1, <1>3 DEF Close, ToolTyped
  <2>2. InSection'
    BY <1>3 DEF Close, InSection
  <2> QED
    BY <2>1, <2>2
<1>4. CASE UNCHANGED toolVars
  <2>1. file' = file /\ pos' = pos /\ SectionOf(pos)' = SectionOf(pos)
    BY <1>4, SameFile DEF toolVars, tool
  <2>2. ToolTyped'
    BY <1>1, <1>4 DEF toolVars, tool, ToolTyped
  <2>3. InSection'
    BY <1>1, <1>4, <2>1 DEF toolVars, tool, InSection
  <2> QED
    BY <2>1, <2>2, <2>3
<1>5. ASSUME Reading, Advance, errors' \subseteq errors \cup {pos},
             RuleToConfig' = IF line.kind \in Prot THEN line.kind ELSE RuleToConfig
      PROVE  ToolTyped' /\ InSection' /\ file' = file
  <2>1. /\ pc = "lines" /\ pos \in DOMAIN file /\ pos \in Nat \ {0}
        /\ pos' = pos + 1 /\ UNCHANGED <<file, pc, runs>>
    BY <1>1, <1>5 DEF Reading, Advance, ToolTyped
  <2>2. ToolTyped'
    BY <1>1, <1>5, <2>1 DEF ToolTyped
  <2>3. SectionOf(pos + 1) = IF file[pos].kind \in Prot THEN file[pos].kind
                                                        ELSE SectionOf(pos)
    BY <2>1, NextSection
  <2>4. SectionOf(pos)' = SectionOf(pos + 1)
    BY <2>1, SameFile
  <2>5. "none" \notin Prot
    BY DEF Prot, PortProt
  <2> QED
    BY <1>1, <1>5, <2>1, <2>2, <2>3, <2>4, <2>5 DEF InSection, line
<1>6. CASE SectionHead
  BY <1>5, <1>6 DEF SectionHead
<1>7. CASE Skip \/ PortLine \/ ar_wakeup_process_ip_prot \/ LineLost
  <2>1. Reading /\ Advance /\ RuleToConfig' = RuleToConfig
        /\ line.kind \in {"comment", "text"}
    BY <1>7 DEF Skip, PortLine, ar_wakeup_process_ip_prot, LineLost
  <2>2. errors' \subseteq errors \cup {pos}
    BY <1>7 DEF Skip, PortLine, ar_wakeup_process_ip_prot, LineLost, Report
  <2>3. line.kind \notin Prot
    BY <2>1 DEF Prot, PortProt
  <2> QED
    BY <1>5, <2>1, <2>2, <2>3
<1> QED
  BY <1>2, <1>3, <1>4, <1>6, <1>7 DEF ToolNext, Run

\* A step of the program is an ioctl of the database or none.
LEMMA NextIsIoctl ==
  ASSUME ToolTyped, InSection, [ToolNext]_toolVars
  PROVE  [Next]_vars
<1>1. CASE PortLine \/ ar_wakeup_process_ip_prot
  BY <1>1, SendsLine
<1>2. CASE LineLost
  BY <1>2 DEF LineLost, Next, BadIoctl
<1>3. CASE Open \/ SectionHead \/ Skip \/ Close \/ UNCHANGED toolVars
  BY <1>3 DEF Open, SectionHead, Skip, Close, toolVars
<1> QED
  BY <1>1, <1>2, <1>3 DEF ToolNext, Run

\* Every step of the program keeps the invariant.
LEMMA ToolNextInv == ToolInv /\ [ToolNext]_toolVars => ToolInv'
<1> SUFFICES ASSUME ToolInv, [ToolNext]_toolVars PROVE ToolInv'
  OBVIOUS
<1>1. IInv'
  BY NextIsIoctl, NextIInv DEF ToolInv
<1>2. ToolTyped' /\ InSection' /\ file' = file
  <2>1. CASE ToolNext
    BY <2>1, NextTyped
  <2>2. CASE UNCHANGED toolVars
    <3>1. file' = file /\ pos' = pos /\ SectionOf(pos)' = SectionOf(pos)
      BY <2>2, SameFile DEF toolVars, tool
    <3>2. ToolTyped' /\ InSection'
      BY <2>2, <3>1 DEF ToolInv, toolVars, tool, ToolTyped, InSection
    <3> QED
      BY <3>1, <3>2
  <2> QED
    BY <2>1, <2>2
<1>3. TypeOK /\ Len(file) \in Nat /\ DOMAIN file = 1..Len(file) /\ pos \in Nat
  BY FileLines DEF ToolInv, ToolTyped, IInv
<1>4. UNCHANGED vars => SameTables
  BY <1>3 DEF vars, SameTables, TypeOK
<1> SUFFICES TableFromFile' /\ ToolCount' /\ PortLinesReported' /\ Sent'
  BY <1>1, <1>2 DEF ToolInv
<1>5. CASE PortLine \/ ar_wakeup_process_ip_prot
  <2>1. PICK p \in Prot : \E e \in Sendable(p) : LineSent(p, e)
    BY <1>5, SendsLine DEF ToolInv
  <2>2. PICK e \in Sendable(p) : LineSent(p, e)
    BY <2>1
  <2> QED
    BY <1>1, <2>2, LineSentInv
<1>6. CASE LineLost
  <2>1. SameTables /\ reply'.ret # "AR_SUCCESS"
    BY <1>3, <1>6 DEF LineLost, Refuse, Reply, SameTables, TypeOK
  <2>2. /\ pc = "lines" /\ pos \in DOMAIN file /\ pos' = pos + 1 /\ UNCHANGED runs
        /\ errors' = errors \cup {pos} /\ lost' = TRUE
    BY <1>3, <1>6, <2>1 DEF LineLost, Reading, Advance, Report, ToolInv, ToolTyped
  <2> QED
    BY <1>1, <1>2, <2>1, <2>2, PassedInv
<1>7. CASE SectionHead \/ Skip
  <2>1. SameTables /\ UNCHANGED <<errors, lost>>
    BY <1>4, <1>7 DEF SectionHead, Skip
  <2>2. pc = "lines" /\ pos \in DOMAIN file /\ pos' = pos + 1 /\ UNCHANGED runs
    BY <1>3, <1>7 DEF SectionHead, Skip, Reading, Advance, ToolInv, ToolTyped
  <2>3. file[pos].kind # "text" \/ RuleToConfig = "CONFIG_WAKEUP_NULL"
    BY <1>7 DEF SectionHead, Skip, line, Prot, PortProt
  <2>4. \A p \in Prot : pos \notin LinesOf(p)
    BY <2>2, <2>3 DEF LinesOf, ToolInv, InSection, Prot, PortProt
  <2> QED
    BY <1>1, <1>2, <2>1, <2>2, <2>4, PassedInv
<1>8. CASE Open
  <2>1. SameTables /\ pos' = 1 /\ UNCHANGED <<runs, lost>>
    BY <1>4, <1>8 DEF Open
  <2>2. TableFromFile' /\ ToolCount' /\ Grow
    BY <1>2, <2>1, SameTablesTool
  <2>3. \A q : \A i \in LinesOf(q) : ~ i < pos'
    BY <1>3, <2>1 DEF LinesOf
  <2>4. \A q \in PortProt : q \in Prot
    BY DEF Prot
  <2>5. PortLinesReported'
    BY <1>1, <1>2, <2>2, <2>3, <2>4, ReportedKept
  <2>6. Sent'
    BY <1>1, <1>2, <2>1, <2>2, <2>3, SentKept
  <2> QED
    BY <2>2, <2>5, <2>6
<1>9. CASE Close \/ UNCHANGED toolVars
  <2>1. SameTables /\ UNCHANGED <<pos, errors, lost>>
    BY <1>4, <1>9 DEF Close, toolVars, tool
  <2>2. TableFromFile' /\ ToolCount' /\ Grow
    BY <1>2, <2>1, SameTablesTool
  <2>3. PortLinesReported'
    BY <1>1, <1>2, <2>1, <2>2, ReportedKept
  <2>4. ASSUME NEW q \in Prot, NEW i \in LinesOf(q), runs' > 0 \/ i < pos'
        PROVE  runs > 0 \/ i < pos
    <3>1. CASE Close
      BY <1>3, <3>1 DEF Close, LinesOf
    <3>2. CASE UNCHANGED toolVars
      BY <2>4, <3>2 DEF toolVars, tool
    <3> QED
      BY <1>9, <3>1, <3>2
  <2>5. Sent'
    BY <1>1, <1>2, <2>1, <2>2, <2>4, SentKept
  <2> QED
    BY <2>2, <2>3, <2>5
<1> QED
  BY <1>5, <1>6, <1>7, <1>8, <1>9 DEF ToolNext, Run

\* Before the first run the tables are empty and no line was sent.
LEMMA ToolInitInv == ToolInit => ToolInv
<1> SUFFICES ASSUME ToolInit PROVE ToolInv
  OBVIOUS
<1>1. IInv
  BY InitIInv DEF ToolInit
<1>2. Len(file) \in Nat /\ DOMAIN file = 1..Len(file) /\ MaxRuns \in Nat
  BY FileLines, ToolAssumption DEF ToolInit
<1>3. ToolTyped /\ InSection
  BY <1>2 DEF ToolInit, ToolTyped, InSection
<1>4. \A p \in Prot : Occupied(p) = {} /\ table_size[p] = 0
  <2>1. \A p \in Prot : \A i \in Slot(p) :
          tbl[p][i] = IF p = "IP_PROT" THEN 0 ELSE ZeroEntry
    BY DEF ToolInit, Init, Zero
  <2>2. \A p \in Prot : Occupied(p) = {}
    BY <2>1 DEF Occupied, IsFree, ZeroEntry
  <2> QED
    BY <2>2 DEF ToolInit, Init
<1>5. TableFromFile /\ ToolCount
  <2>1. \A p \in Prot : 0 =< TblSize[p]
    BY TblSizeType
  <2>2. 0..(0 - 1) = {}
    OBVIOUS
  <2> QED
    BY <1>4, <2>1, <2>2 DEF TableFromFile, ToolCount
<1>6. \A p : \A i \in LinesOf(p) : ~ i < pos
  BY <1>2 DEF LinesOf, ToolInit
<1>7. PortLinesReported /\ Sent
  BY <1>6 DEF PortLinesReported, Sent, ToolInit
<1> QED
  BY <1>1, <1>3, <1>5, <1>7 DEF ToolInv

-----------------------------------------------------------------------------
(* The theorems                                                            *)

\* The invariant holds in every run of the program.
THEOREM ToolInvariance == ToolSpec => []ToolInv
  BY ToolInitInv, ToolNextInv, PTL DEF ToolSpec

\* The program drives the database as any client may: what is proved of the
\* database holds under it.
THEOREM ToolIsClient == ToolSpec => Spec
<1>1. ToolInit => Init
  BY DEF ToolInit
<1>2. ToolInv /\ [ToolNext]_toolVars => [Next]_vars
  BY NextIsIoctl DEF ToolInv
<1> QED
  BY <1>1, <1>2, ToolInvariance, PTL DEF ToolSpec, Spec

\* The program's state has its type: it stays within its file.
THEOREM ToolTypeCorrect == ToolSpec => []ToolTypeOK
<1>1. ToolInv => ToolTypeOK
  BY DEF ToolInv, IInv, ToolTyped, ToolTypeOK
<1> QED
  BY <1>1, ToolInvariance, PTL

\* Every rule in a table comes from a line of that table's section.
THEOREM TablesFromFile == ToolSpec => []TableFromFile
<1>1. ToolInv => TableFromFile
  BY DEF ToolInv
<1> QED
  BY <1>1, ToolInvariance, PTL

\* A definite port line that was read is in force or its error was printed.
THEOREM LinesReported == ToolSpec => []PortLinesReported
<1>1. ToolInv => PortLinesReported
  BY DEF ToolInv
<1> QED
  BY <1>1, ToolInvariance, PTL

\* A second run over a definite file changes no table: each line finds its
\* rule stored or the table full.
THEOREM RerunsChangeNothing == ToolSpec => RerunChangesNothing
<1> DEFINE Kept == \A p \in Prot : Definite(p) /\ ~lost /\ runs > 0 =>
                        tbl'[p] = tbl[p] /\ table_size'[p] = table_size[p]
<1>1. ToolInv /\ [ToolNext]_toolVars => [Kept]_toolVars
  <2> SUFFICES ASSUME ToolInv, ToolNext PROVE Kept
    OBVIOUS
  <2>1. TypeOK
    BY DEF ToolInv, IInv
  <2>2. CASE SameTables
    BY <2>2 DEF SameTables
  <2>3. CASE PortLine \/ ar_wakeup_process_ip_prot
    <3>1. PICK q \in Prot : \E e \in Sendable(q) : LineSent(q, e)
      BY <2>3, SendsLine DEF ToolInv
    <3>2. PICK e \in Sendable(q) : LineSent(q, e)
      BY <3>1
    <3>3. pos \in LinesOf(q) /\ e \in Entries(q, pos) /\ Config(q, e)
      BY <3>2 DEF LineSent
    <3>4. CASE AddRule(q, e) /\ Occupied(q) # Slot(q)
               /\ \A k \in Slot(q) : k < table_size[q] => tbl[q][k] # e
      <4>1. \A p \in Prot \ {q} : tbl'[p] = tbl[p] /\ table_size'[p] = table_size[p]
        BY <3>4, AddRuleEffect DEF ToolInv
      <4>2. ~ (Definite(q) /\ ~lost /\ runs > 0)
        <5> SUFFICES ASSUME Definite(q), ~lost, runs > 0 PROVE FALSE
          OBVIOUS
        <5>1. LineStored(q, pos)
          BY <3>3, <3>4 DEF ToolInv, Sent
        <5>2. Entries(q, pos) = {e}
          BY <3>3 DEF Definite
        <5> QED
          BY <3>4, <5>1, <5>2 DEF LineStored
      <4> QED
        BY <4>1, <4>2
    <3> QED
      BY <2>2, <3>3, <3>4, ConfigEffect DEF ToolInv
  <2>4. CASE LineLost
    BY <2>1, <2>2, <2>4 DEF LineLost, Refuse, SameTables, TypeOK
  <2>5. CASE Open \/ SectionHead \/ Skip \/ Close \/ UNCHANGED toolVars
    BY <2>5 DEF Open, SectionHead, Skip, Close, toolVars, vars
  <2> QED
    BY <2>3, <2>4, <2>5 DEF ToolNext, Run
<1>2. ToolSpec => [][ToolNext]_toolVars
  BY PTL DEF ToolSpec
<1> QED
  BY <1>1, <1>2, ToolInvariance, PTL DEF RerunChangesNothing
=============================================================================
