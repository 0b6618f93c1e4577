------------------------- MODULE WakeupRulesProofs -------------------------
(***************************************************************************)
(* Proofs about WakeupRules, for every choice of rules, protocol table and *)
(* table sizes.  The inductive invariant is IInv: only together do the     *)
(* four conjuncts survive a step.  A new rule is no duplicate because the  *)
(* search found none among the first table_size slots and RulesAnnounced   *)
(* says that no rule is stored anywhere else; RulesAnnounced in turn needs *)
(* the first free slot to lie at most at table_size.                       *)
(***************************************************************************)
EXTENDS WakeupRules, FiniteSetTheorems, WellFoundedInduction, TLAPS

\* A set of natural numbers that is not empty has its minimum in it.
LEMMA MinInSet ==
  ASSUME NEW S, S \subseteq Nat, S # {}
  PROVE  Min(S) \in S /\ \A y \in S : Min(S) =< y
<1>1. \E x \in S : \A y \in S : ~(<<y, x>> \in OpToRel(<, Nat))
  BY NatLessThanWellFounded, WFMin
<1>2. PICK x \in S : \A y \in S : ~(<<y, x>> \in OpToRel(<, Nat))
  BY <1>1
<1>3. \A y \in S : x =< y
  <2>1. TAKE y \in S
  <2>2. y \in Nat /\ x \in Nat
    OBVIOUS
  <2>3. ~(y < x)
    BY <1>2, <2>2 DEF OpToRel
  <2> QED  BY <2>2, <2>3
<1> QED  BY <1>3 DEF Min

-----------------------------------------------------------------------------
(* Typing of the helpers                                                   *)

\* The table sizes are natural numbers.
LEMMA TblSizeType == TblSize \in [Prot -> Nat]
  BY SizeAssumption DEF TblSize, Prot, PortProt

\* A protocol code is a byte, that of an unknown name included.
LEMMA ProtCodeType ==
  ASSUME NEW n \in ProtName
  PROVE  ar_wakeup_get_prot_code(n) \in Byte
<1>1. CASE NameRows[n] = {}
  BY <1>1 DEF ar_wakeup_get_prot_code, Byte
<1>2. CASE NameRows[n] # {}
  <2>1. NameRows[n] \subseteq DOMAIN prot_info
    BY RuleAssumption
  <2>2. NameRows[n] \subseteq Nat
    BY <2>1, RuleAssumption
  <2>3. Min(NameRows[n]) \in NameRows[n]
    BY <1>2, <2>2, MinInSet
  <2> QED  BY <1>2, <2>1, <2>3, RuleAssumption DEF ar_wakeup_get_prot_code
<1> QED  BY <1>1, <1>2

\* What a client can have stored in table p are entries of p.
LEMMA SendableType ==
  ASSUME NEW p \in Prot, NEW e \in Sendable(p)
  PROVE  e \in Entry(p)
<1>1. CASE p = "UDP"
  BY <1>1, RuleAssumption DEF Sendable, Entry
<1>2. CASE p = "TCP"
  BY <1>2, RuleAssumption DEF Sendable, Entry
<1>3. CASE p = "IP_PROT"
  BY <1>3, ProtCodeType DEF Sendable, Entry
<1> QED  BY <1>1, <1>2, <1>3 DEF Prot, PortProt

-----------------------------------------------------------------------------
(* The first free slot                                                     *)

IInv == TypeOK /\ RulesAnnounced /\ NoDuplicateRules /\ CountExact

\* ar_wakeup_get_free_index finds a slot of the table that looks free, has
\* only used slots before it and lies at most at table_size.
LEMMA FreeIndex ==
  ASSUME TypeOK, RulesAnnounced, NEW p \in Prot,
         ar_wakeup_get_free_index(p) # -1
  PROVE  LET i == ar_wakeup_get_free_index(p)
         IN  /\ i \in Slot(p)
             /\ i \notin Occupied(p)
             /\ \A j \in 0..(i - 1) : j \in Occupied(p)
             /\ i =< table_size[p]
<1> DEFINE free == Slot(p) \ Occupied(p)
           i == Min(free)
<1>1. free # {} /\ ar_wakeup_get_free_index(p) = i
  BY DEF ar_wakeup_get_free_index
<1>2. TblSize[p] \in Nat /\ table_size[p] \in Nat
  BY TblSizeType DEF TypeOK
<1>3. Slot(p) \subseteq Nat
  BY <1>2 DEF Slot
<1>4. i \in free /\ \A y \in free : i =< y
  <2> HIDE DEF free
  <2>1. free \subseteq Nat
    BY <1>3 DEF free
  <2> QED  BY <1>1, <2>1, MinInSet
<1> HIDE DEF i
<1>5. \A j \in 0..(i - 1) : j \in Occupied(p)
  BY <1>2, <1>4 DEF Slot
<1>6. i =< table_size[p]
  <2>1. CASE i = 0
    BY <1>2, <2>1
  <2>2. CASE i # 0
    <3>1. i \in Nat /\ i - 1 \in 0..(i - 1)
      BY <1>3, <1>4, <2>2
    <3>2. i - 1 \in Occupied(p)
      BY <1>5, <3>1
    <3>3. i - 1 < table_size[p]
      BY <3>2 DEF RulesAnnounced
    <3> QED  BY <1>2, <3>1, <3>3
  <2> QED  BY <2>1, <2>2
<1> QED  BY <1>1, <1>4, <1>5, <1>6

\* Without a slot that looks free, every slot holds a rule.
LEMMA NoFreeIndex ==
  ASSUME NEW p \in Prot, ar_wakeup_get_free_index(p) = -1
  PROVE  Occupied(p) = Slot(p)
<1> DEFINE free == Slot(p) \ Occupied(p)
<1>1. Slot(p) \subseteq Nat
  BY TblSizeType DEF Slot
<1>2. free = {}
  <2>1. free # {} => Min(free) \in free
    BY <1>1, MinInSet
  <2>2. free # {} => Min(free) = -1
    BY DEF ar_wakeup_get_free_index
  <2> QED  BY <1>1, <2>1, <2>2
<1> QED  BY <1>2 DEF Occupied

\* ar_wakeup_get_index finds a counted slot that holds e, or reports -1 when
\* no counted slot does, or strays beyond a table whose count is too large.
LEMMA SearchIndex ==
  ASSUME TypeOK, NEW p \in Prot, NEW e
  PROVE  /\ \A i \in ar_wakeup_get_index(p, e) \ {-1} :
             \/ i \in Slot(p) /\ i < table_size[p] /\ tbl[p][i] = e
             \/ i \notin Slot(p) /\ ~(table_size[p] =< TblSize[p])
         /\ -1 \in ar_wakeup_get_index(p, e) =>
             \A j \in Slot(p) : j < table_size[p] => tbl[p][j] # e
<1> DEFINE hits == {j \in Slot(p) : j < table_size[p] /\ tbl[p][j] = e}
<1>1. TblSize[p] \in Nat /\ table_size[p] \in Nat
  BY TblSizeType DEF TypeOK
<1>2. CASE hits # {}
  <2>1. hits \subseteq Nat
    BY <1>1 DEF Slot
  <2>2. Min(hits) \in hits
    BY <1>2, <2>1, MinInSet
  <2>3. ar_wakeup_get_index(p, e) = {Min(hits)}
    BY <1>2 DEF ar_wakeup_get_index
  <2>4. Min(hits) # -1
    BY <2>1, <2>2
  <2> QED  BY <2>2, <2>3, <2>4
<1>3. CASE hits = {}
  <2>1. ar_wakeup_get_index(p, e) = {-1} \cup (TblSize[p]..(table_size[p] - 1))
    BY <1>3 DEF ar_wakeup_get_index
  <2> QED  BY <1>1, <1>3, <2>1 DEF Slot
<1> QED  BY <1>2, <1>3

-----------------------------------------------------------------------------
(* Steps that leave the tables as they are                                 *)

SameTables ==
    /\ DOMAIN tbl' = Prot
    /\ \A p \in Prot : tbl'[p] = tbl[p]
    /\ table_size' = table_size

\* A call that leaves the tables and counters alone keeps the invariants.
LEMMA SameTablesKeepInvariants ==
  ASSUME SameTables
  PROVE  /\ RulesAnnounced => RulesAnnounced'
         /\ NoDuplicateRules => NoDuplicateRules'
         /\ CountExact => CountExact'
<1>1. \A p \in Prot : Occupied(p)' = Occupied(p)
  BY DEF SameTables, Occupied
<1>2. RulesAnnounced => RulesAnnounced'
  BY <1>1 DEF SameTables, RulesAnnounced
<1>3. NoDuplicateRules => NoDuplicateRules'
  BY <1>1 DEF SameTables, NoDuplicateRules, Occupied
<1>4. CountExact => CountExact'
  BY <1>1 DEF SameTables, CountExact
<1> QED  BY <1>2, <1>3, <1>4

\* Rewriting a rule that was found changes nothing.
LEMMA RewriteKeepsTables ==
  ASSUME TypeOK, NEW p \in Prot, NEW e \in Entry(p), Rewrite(p, e)
  PROVE  SameTables /\ TypeOK'
<1>1. PICK i \in ar_wakeup_get_index(p, e) \ {-1} :
        /\ tbl' = Put(p, i, e)
        /\ Reply(p, e, "AR_SUCCESS")
        /\ UNCHANGED table_size
  BY DEF Rewrite
<1>3. i \in Slot(p) => tbl[p][i] = e
  BY SearchIndex
<1>4. tbl[p] \in [Slot(p) -> Entry(p)] /\ DOMAIN tbl = Prot
  BY DEF TypeOK
<1>5. SameTables
  <2>1. CASE i \in Slot(p)
    <3>1. tbl' = [tbl EXCEPT ![p] = [tbl[p] EXCEPT ![i] = e]]
      BY <1>1, <2>1 DEF Put
    <3>2. [tbl[p] EXCEPT ![i] = e] = tbl[p]
      BY <1>3, <1>4, <2>1
    <3> QED  BY <1>1, <1>4, <3>1, <3>2 DEF SameTables
  <2>2. CASE i \notin Slot(p)
    BY <1>1, <1>4, <2>2 DEF Put, SameTables
  <2> QED  BY <2>1, <2>2
<1>6. TypeOK'
  BY <1>1, <1>5 DEF TypeOK, SameTables, Reply, Answer
<1> QED  BY <1>5, <1>6

\* A rule that finds no slot changes nothing.
LEMMA NoSpaceKeepsTables ==
  ASSUME TypeOK, NEW p \in Prot, NEW e \in Entry(p),
         NEW r \in {"-1", "AR_SUCCESS"}, NoSpace(p, e, r)
  PROVE  SameTables /\ TypeOK'
  BY DEF TypeOK, NoSpace, SameTables, Reply, Answer

\* A refused ioctl changes nothing.
LEMMA BadIoctlKeepsTables ==
  ASSUME TypeOK, BadIoctl
  PROVE  SameTables /\ TypeOK'
  BY DEF TypeOK, BadIoctl, Refuse, Reply, SameTables, Answer

-----------------------------------------------------------------------------
(* A new rule                                                              *)

\* A new rule goes to the first free slot and keeps the invariant.
LEMMA AddRuleKeepsIInv ==
  ASSUME IInv, NEW p \in Prot, NEW e \in Sendable(p), AddRule(p, e)
  PROVE  IInv'
<1> DEFINE i == ar_wakeup_get_free_index(p)
<1>1. /\ i \in Slot(p)
      /\ i \notin Occupied(p)
      /\ \A j \in 0..(i - 1) : j \in Occupied(p)
      /\ i =< table_size[p]
  BY FreeIndex DEF AddRule, IInv
<1>2. TblSize[p] \in Nat /\ table_size \in [Prot -> Nat]
  BY TblSizeType DEF TypeOK, IInv
<1>3. e \in Entry(p)
  BY SendableType
<1>4. tbl' = [tbl EXCEPT ![p] = [tbl[p] EXCEPT ![i] = e]]
  BY <1>1 DEF AddRule, Put
<1>5. table_size' = [table_size EXCEPT ![p] = table_size[p] + 1]
  BY DEF AddRule, Counted
<1>6. -1 \in ar_wakeup_get_index(p, e)
  BY DEF AddRule
<1> HIDE DEF i
<1>7. i \in Nat /\ i < TblSize[p]
  BY <1>1, <1>2 DEF Slot
<1>8. TypeOK'
  BY <1>1, <1>2, <1>3, <1>4, <1>5
     DEF TypeOK, IInv, AddRule, Reply, Answer
<1>9. /\ \A q \in Prot \ {p} : tbl'[q] = tbl[q] /\ table_size'[q] = table_size[q]
      /\ tbl'[p] = [tbl[p] EXCEPT ![i] = e]
      /\ table_size'[p] = table_size[p] + 1
      /\ DOMAIN tbl[p] = Slot(p)
  BY <1>2, <1>4, <1>5 DEF TypeOK, IInv
<1>10. \A q \in Prot \ {p} : Occupied(q)' = Occupied(q)
  BY <1>9 DEF Occupied
<1>11. Occupied(p)' = IF IsFree(p, e) THEN Occupied(p)
                                      ELSE Occupied(p) \cup {i}
  <2>1. /\ tbl'[p][i] = e
        /\ \A j \in Slot(p) \ {i} : tbl'[p][j] = tbl[p][j]
    BY <1>1, <1>9
  <2> QED  BY <1>1, <2>1 DEF Occupied
<1>12. RulesAnnounced'
  <2>1. ASSUME NEW k \in Occupied(p)'
        PROVE  k < table_size'[p] /\ \A j \in 0..k : j \in Occupied(p)'
    <3>1. CASE k \in Occupied(p)
      <4>1. k < table_size[p] /\ \A j \in 0..k : j \in Occupied(p)
        BY <3>1 DEF IInv, RulesAnnounced
      <4>2. k \in Int /\ table_size[p] \in Nat
        BY <1>2, <3>1 DEF Occupied, Slot
      <4> QED  BY <1>9, <1>11, <4>1, <4>2
    <3>2. CASE k = i
      BY <1>1, <1>2, <1>7, <1>9, <1>11, <2>1, <3>2
    <3> QED  BY <1>11, <2>1, <3>1, <3>2
  <2>2. ASSUME NEW q \in Prot \ {p}, NEW k \in Occupied(q)'
        PROVE  k < table_size'[q] /\ \A j \in 0..k : j \in Occupied(q)'
    BY <1>9, <1>10, <2>2 DEF IInv, RulesAnnounced
  <2> QED  BY <2>1, <2>2 DEF RulesAnnounced
<1>13. NoDuplicateRules'
  <2>1. \A j \in Occupied(p) : tbl[p][j] # e
    <3>1. \A j \in Slot(p) : j < table_size[p] => tbl[p][j] # e
      BY <1>6, SearchIndex DEF IInv
    <3> QED  BY <3>1 DEF IInv, RulesAnnounced, Occupied
  <2>2. ASSUME NEW j \in Occupied(p)', NEW k \in Occupied(p)',
               tbl'[p][j] = tbl'[p][k]
        PROVE  j = k
    <3>1. tbl'[p][i] = e /\ \A l \in Slot(p) \ {i} : tbl'[p][l] = tbl[p][l]
      BY <1>1, <1>9
    <3>2. \A l \in Occupied(p) : l \in Slot(p) \ {i} /\ tbl'[p][l] = tbl[p][l]
      BY <1>1, <3>1 DEF Occupied
    <3>3. CASE j \in Occupied(p) /\ k \in Occupied(p)
      BY <2>2, <3>2, <3>3 DEF IInv, NoDuplicateRules
    <3>4. CASE j = i /\ k = i
      BY <3>4
    <3>5. CASE (j = i /\ k \in Occupied(p)) \/ (j \in Occupied(p) /\ k = i)
      BY <2>1, <2>2, <3>1, <3>2, <3>5
    <3> QED  BY <1>11, <3>3, <3>4, <3>5
  <2>3. ASSUME NEW q \in Prot \ {p}, NEW j \in Occupied(q)',
               NEW k \in Occupied(q)', tbl'[q][j] = tbl'[q][k]
        PROVE  j = k
    BY <1>9, <1>10, <2>3 DEF IInv, NoDuplicateRules
  <2> QED  BY <2>2, <2>3 DEF NoDuplicateRules
<1>14. CountExact'
  <2>1. ASSUME \A f \in Sendable(p) : ~IsFree(p, f)
        PROVE  /\ table_size'[p] =< TblSize[p]
               /\ Occupied(p)' = 0..(table_size'[p] - 1)
    <3>1. ~IsFree(p, e)
      BY <2>1
    <3>2. table_size[p] =< TblSize[p] /\ Occupied(p) = 0..(table_size[p] - 1)
      BY <2>1 DEF IInv, CountExact
    <3>3. i = table_size[p]
      BY <1>1, <1>2, <1>7, <3>2
    <3>4. Occupied(p)' = (0..(table_size[p] - 1)) \cup {table_size[p]}
      BY <1>11, <3>1, <3>2, <3>3
    <3> QED  BY <1>2, <1>7, <1>9, <3>3, <3>4
  <2>2. ASSUME NEW q \in Prot \ {p}, \A f \in Sendable(q) : ~IsFree(q, f)
        PROVE  /\ table_size'[q] =< TblSize[q]
               /\ Occupied(q)' = 0..(table_size'[q] - 1)
    BY <1>9, <1>10, <2>2 DEF IInv, CountExact
  <2> QED  BY <2>1, <2>2 DEF CountExact
<1> QED  BY <1>8, <1>12, <1>13, <1>14 DEF IInv

\* A new rule is in a slot of its table that was free, the rules of the
\* table are the old ones and, unless it looks free, the new one, and no
\* other table is touched.
LEMMA AddRuleEffect ==
  ASSUME IInv, NEW p \in Prot, NEW e \in Sendable(p), AddRule(p, e)
  PROVE  \E i \in Slot(p) :
            /\ i \notin Occupied(p)
            /\ i < table_size'[p]
            /\ tbl'[p][i] = e
            /\ \A j \in Slot(p) \ {i} : tbl'[p][j] = tbl[p][j]
            /\ Occupied(p)' = IF IsFree(p, e) THEN Occupied(p)
                                              ELSE Occupied(p) \cup {i}
            /\ table_size'[p] = table_size[p] + 1
            /\ \A q \in Prot \ {p} : /\ tbl'[q] = tbl[q]
                                     /\ table_size'[q] = table_size[q]
<1> DEFINE i == ar_wakeup_get_free_index(p)
<1>1. i \in Slot(p) /\ i \notin Occupied(p) /\ i =< table_size[p]
  BY FreeIndex DEF AddRule, IInv
<1>2. tbl' = [tbl EXCEPT ![p] = [tbl[p] EXCEPT ![i] = e]]
  BY <1>1 DEF AddRule, Put
<1>3. table_size' = [table_size EXCEPT ![p] = table_size[p] + 1]
  BY DEF AddRule, Counted
<1>4. TblSize[p] \in Nat /\ table_size \in [Prot -> Nat]
  BY TblSizeType DEF TypeOK, IInv
<1>5. DOMAIN tbl = Prot /\ DOMAIN tbl[p] = Slot(p)
  BY DEF TypeOK, IInv
<1> HIDE DEF i
<1>6. /\ tbl'[p][i] = e
      /\ \A j \in Slot(p) \ {i} : tbl'[p][j] = tbl[p][j]
      /\ \A q \in Prot \ {p} : tbl'[q] = tbl[q]
  BY <1>1, <1>2, <1>5
<1>7. /\ table_size'[p] = table_size[p] + 1
      /\ \A q \in Prot \ {p} : table_size'[q] = table_size[q]
  BY <1>3, <1>4
<1>8. i < table_size'[p]
  BY <1>1, <1>4, <1>7 DEF Slot
<1>9. Occupied(p)' = IF IsFree(p, e) THEN Occupied(p)
                                     ELSE Occupied(p) \cup {i}
  BY <1>1, <1>6 DEF Occupied
<1> QED  BY <1>1, <1>6, <1>7, <1>8, <1>9

-----------------------------------------------------------------------------
(* What an ioctl may be                                                    *)

\* The answer of ar_wakeup_recv_config when table p is full.
FullAnswer(p) == IF p = "IP_PROT" THEN "AR_SUCCESS" ELSE "-1"

\* An ioctl of table p, as PortRule and IpProto compose it.
Config(p, e) == Rewrite(p, e) \/ AddRule(p, e) \/ NoSpace(p, e, FullAnswer(p))

\* An ioctl stores an entry that a client can send, or is refused.
LEMMA NextCases ==
  ASSUME Next
  PROVE  (\E p \in Prot : \E e \in Sendable(p) : Config(p, e)) \/ BadIoctl
<1>1. ASSUME NEW e \in UdpRule, PortRule("UDP", e)
      PROVE  \E p \in Prot : \E f \in Sendable(p) : Config(p, f)
  <2>1. "UDP" \in Prot /\ e \in Sendable("UDP")
    BY DEF Prot, PortProt, Sendable
  <2>2. Config("UDP", e)
    BY <1>1 DEF PortRule, Config, FullAnswer
  <2> QED  BY <2>1, <2>2
<1>2. ASSUME NEW e \in TcpRule, PortRule("TCP", e)
      PROVE  \E p \in Prot : \E f \in Sendable(p) : Config(p, f)
  <2>1. "TCP" \in Prot /\ e \in Sendable("TCP")
    BY DEF Prot, PortProt, Sendable
  <2>2. Config("TCP", e)
    BY <1>2 DEF PortRule, Config, FullAnswer
  <2> QED  BY <2>1, <2>2
<1>3. ASSUME NEW n \in ProtName, IpProto(n)
      PROVE  \E p \in Prot : \E f \in Sendable(p) : Config(p, f)
  <2> DEFINE e == ar_wakeup_get_prot_code(n)
  <2>1. "IP_PROT" \in Prot /\ e \in Sendable("IP_PROT")
    BY DEF Prot, PortProt, Sendable
  <2>2. Config("IP_PROT", e)
    BY <1>3 DEF IpProto, Config, FullAnswer
  <2> QED  BY <2>1, <2>2
<1> QED  BY <1>1, <1>2, <1>3 DEF Next

-----------------------------------------------------------------------------
(* The invariant                                                           *)

\* The tables ar_wakeup_init_db allocates satisfy the invariant.
LEMMA InitIInv == Init => IInv
<1> SUFFICES ASSUME Init
             PROVE  IInv
  OBVIOUS
<1>1. \A p \in Prot : \A i \in Slot(p) :
        tbl[p][i] = IF p = "IP_PROT" THEN 0 ELSE ZeroEntry
  BY DEF Init, Zero
<1>2. ZeroEntry \in PortEntry
  BY DEF ZeroEntry, PortEntry, Port
<1>3. \A p \in Prot : Occupied(p) = {}
  BY <1>1 DEF Occupied, IsFree, ZeroEntry
<1>4. TypeOK
  BY <1>2 DEF Init, Zero, TypeOK, Entry, Byte, Prot, PortProt, Answer
<1>5. RulesAnnounced /\ NoDuplicateRules
  BY <1>3 DEF RulesAnnounced, NoDuplicateRules
<1>6. CountExact
  BY <1>3, TblSizeType DEF Init, CountExact
<1> QED  BY <1>4, <1>5, <1>6 DEF IInv

\* Every ioctl keeps the invariant.
LEMMA NextIInv == IInv /\ [Next]_vars => IInv'
<1> SUFFICES ASSUME IInv, [Next]_vars
             PROVE  IInv'
  OBVIOUS
<1>1. ASSUME NEW p \in Prot, NEW e \in Sendable(p), Config(p, e)
      PROVE  IInv'
  <2>1. /\ e \in Entry(p) /\ TypeOK
        /\ FullAnswer(p) \in {"-1", "AR_SUCCESS"}
    BY SendableType DEF IInv, FullAnswer
  <2>2. CASE Rewrite(p, e)
    BY <2>1, <2>2, RewriteKeepsTables, SameTablesKeepInvariants DEF IInv
  <2>3. CASE AddRule(p, e)
    BY <2>3, AddRuleKeepsIInv
  <2>4. CASE NoSpace(p, e, FullAnswer(p))
    BY <2>1, <2>4, NoSpaceKeepsTables, SameTablesKeepInvariants DEF IInv
  <2> QED  BY <1>1, <2>2, <2>3, <2>4 DEF Config
<1>2. CASE BadIoctl
  BY <1>2, BadIoctlKeepsTables, SameTablesKeepInvariants DEF IInv
<1>3. CASE UNCHANGED vars
  <2>1. SameTables /\ TypeOK'
    BY <1>3 DEF vars, SameTables, TypeOK, IInv
  <2> QED  BY <2>1, SameTablesKeepInvariants DEF IInv
<1> QED  BY <1>1, <1>2, <1>3, NextCases

\* The inductive invariant holds after every sequence of ioctls.
THEOREM Invariance == Spec => []IInv
  BY InitIInv, NextIInv, PTL DEF Spec

\* The tables and the counters keep their types.
THEOREM TypeCorrect == Spec => []TypeOK
  BY Invariance, PTL DEF IInv

\* Every stored rule is among the slots the search and FMan look at.
THEOREM AllRulesAnnounced == Spec => []RulesAnnounced
  BY Invariance, PTL DEF IInv

\* ar_wakeup_recv_config never stores a rule twice.
THEOREM RulesUnique == Spec => []NoDuplicateRules
  BY Invariance, PTL DEF IInv

\* Without rules that look like a free slot, table_size is exact.
THEOREM CountsExact == Spec => []CountExact
  BY Invariance, PTL DEF IInv

-----------------------------------------------------------------------------
(* Stored rules stay                                                       *)

\* No configuration call changes or moves a rule that is stored.
THEOREM StoredRulesKept == Spec => RulesKept
<1> DEFINE Kept == \A p \in Prot : \A i \in Occupied(p) :
                        tbl'[p][i] = tbl[p][i]
<1>1. IInv /\ [Next]_vars => [Kept]_vars
  <2> SUFFICES ASSUME IInv, Next
               PROVE  Kept
    OBVIOUS
  <2>1. ASSUME NEW p \in Prot, NEW e \in Sendable(p), Config(p, e)
        PROVE  Kept
    <3>1. e \in Entry(p) /\ TypeOK
      BY SendableType DEF IInv
    <3>2. CASE Rewrite(p, e)
      BY <3>1, <3>2, RewriteKeepsTables DEF SameTables
    <3>3. CASE AddRule(p, e)
      <4>1. PICK i \in Slot(p) :
                /\ i \notin Occupied(p)
                /\ \A j \in Slot(p) \ {i} : tbl'[p][j] = tbl[p][j]
                /\ \A q \in Prot \ {p} : tbl'[q] = tbl[q]
        BY <3>3, AddRuleEffect
      <4>2. \A k \in Occupied(p) : k \in Slot(p) \ {i}
        BY <4>1 DEF Occupied
      <4> QED  BY <4>1, <4>2
    <3>4. CASE NoSpace(p, e, FullAnswer(p))
      BY <3>4 DEF NoSpace
    <3> QED  BY <2>1, <3>2, <3>3, <3>4 DEF Config
  <2>2. CASE BadIoctl
    BY <2>2, BadIoctlKeepsTables DEF SameTables, IInv
  <2> QED  BY <2>1, <2>2, NextCases
<1>2. Spec => [][Next]_vars
  BY DEF Spec
<1> QED  BY <1>1, <1>2, Invariance, PTL DEF RulesKept

-----------------------------------------------------------------------------
(* The answers of the ioctl                                                *)

\* The answer of every ioctl for a UDP or TCP rule is honest.
LEMMA NextHonest == IInv /\ PortReplyHonest /\ [Next]_vars => PortReplyHonest'
<1> SUFFICES ASSUME IInv, PortReplyHonest, [Next]_vars
             PROVE  PortReplyHonest'
  OBVIOUS
<1>1. ASSUME NEW p \in Prot, NEW e \in Sendable(p), Config(p, e)
      PROVE  PortReplyHonest'
  <2>1. /\ TypeOK /\ RulesAnnounced /\ e \in Entry(p)
        /\ TblSize[p] \in Nat /\ table_size[p] \in Nat
    BY SendableType, TblSizeType DEF IInv, TypeOK
  <2>2. reply'.prot = p /\ reply'.rule = e
    BY <1>1 DEF Config, Rewrite, AddRule, NoSpace, Reply
  <2>3. SUFFICES ASSUME p \in PortProt, table_size'[p] =< TblSize[p]
                 PROVE  /\ reply'.ret = "AR_SUCCESS" => RuleInForce'
                        /\ reply'.ret = "-1" =>
                                ~RuleInForce' /\ Occupied(p)' = Slot(p)
    BY <2>2 DEF PortReplyHonest
  <2>4. RuleInForce' <=>
            \E i \in Slot(p) : i < table_size'[p] /\ tbl'[p][i] = e
    BY <2>2 DEF RuleInForce
  <2>5. CASE Rewrite(p, e)
    <3>1. PICK i \in ar_wakeup_get_index(p, e) \ {-1} :
                Reply(p, e, "AR_SUCCESS") /\ UNCHANGED table_size
      BY <2>5 DEF Rewrite
    <3>2. i \in Slot(p) /\ i < table_size[p] /\ tbl[p][i] = e
      BY <2>1, <2>3, <3>1, SearchIndex
    <3>3. tbl'[p] = tbl[p]
      BY <2>1, <2>5, RewriteKeepsTables DEF SameTables
    <3>4. reply'.ret = "AR_SUCCESS"
      BY <3>1 DEF Reply
    <3> QED  BY <2>4, <3>1, <3>2, <3>3, <3>4
  <2>6. CASE AddRule(p, e)
    <3>1. \E i \in Slot(p) : i < table_size'[p] /\ tbl'[p][i] = e
      BY <2>6, AddRuleEffect
    <3>2. reply'.ret = "AR_SUCCESS"
      BY <2>6 DEF AddRule, Reply
    <3> QED  BY <2>4, <3>1, <3>2
  <2>7. CASE NoSpace(p, e, FullAnswer(p))
    <3>1. /\ -1 \in ar_wakeup_get_index(p, e)
          /\ ar_wakeup_get_free_index(p) = -1
          /\ reply'.ret = "-1"
          /\ UNCHANGED <<tbl, table_size>>
      BY <2>3, <2>7 DEF NoSpace, FullAnswer, PortProt, Reply
    <3>2. \A j \in Slot(p) : j < table_size[p] => tbl[p][j] # e
      BY <2>1, <3>1, SearchIndex
    <3>3. Occupied(p) = Slot(p)
      BY <3>1, NoFreeIndex
    <3>4. Occupied(p)' = Occupied(p)
      BY <3>1 DEF Occupied
    <3> QED  BY <2>4, <3>1, <3>2, <3>3, <3>4
  <2> QED  BY <1>1, <2>5, <2>6, <2>7 DEF Config
<1>2. CASE BadIoctl
  <2>1. reply'.ret \notin {"AR_SUCCESS", "-1"}
    BY <1>2 DEF BadIoctl, Refuse, Reply
  <2> QED  BY <2>1 DEF PortReplyHonest
<1>3. CASE UNCHANGED vars
  BY <1>3 DEF vars, PortReplyHonest, RuleInForce, Occupied
<1> QED  BY <1>1, <1>2, <1>3, NextCases

\* As long as the counter is within the table, ar_wakeup_recv_config answers
\* a UDP or TCP rule truthfully: success means the rule is in force, -1 that
\* it is not and that the table is full.
THEOREM PortRepliesHonest == Spec => []PortReplyHonest
<1>1. Init => PortReplyHonest
  BY DEF Init, PortReplyHonest
<1> QED  BY <1>1, Invariance, NextHonest, PTL DEF Spec

-----------------------------------------------------------------------------
(* The tables implement BoundedMap                                         *)

Stored(p) == {tbl[p][i] : i \in Occupied(p)}

\* A table holds as many rules as it has occupied slots.
LEMMA StoredCardinality ==
  ASSUME TypeOK, NoDuplicateRules, NEW p \in Prot
  PROVE  /\ IsFiniteSet(Slot(p)) /\ Cardinality(Slot(p)) = TblSize[p]
         /\ IsFiniteSet(Occupied(p))
         /\ Cardinality(Stored(p)) = Cardinality(Occupied(p))
<1> DEFINE f == [i \in Occupied(p) |-> tbl[p][i]]
<1>1. TblSize[p] \in Nat
  BY TblSizeType
<1>2. IsFiniteSet(Slot(p)) /\ Cardinality(Slot(p)) = TblSize[p]
  BY <1>1, FS_Interval DEF Slot
<1>3. IsFiniteSet(Occupied(p))
  BY <1>2, FS_Subset DEF Occupied
<1>4. f \in Surjection(Occupied(p), Stored(p))
  BY DEF Surjection, Stored
<1>5. f \in Injection(Occupied(p), Stored(p))
  BY DEF Injection, IsInjective, Stored, NoDuplicateRules
<1>6. ExistsBijection(Occupied(p), Stored(p))
  BY <1>4, <1>5 DEF Bijection, ExistsBijection
<1> QED  BY <1>2, <1>3, <1>6, FS_Bijection

\* The entries in force are a function of the rules stored.
LEMMA SameStoredSameMap ==
  ASSUME NEW p \in Prot, Stored(p)' = Stored(p)
  PROVE  InForce(p)' = InForce(p)
  BY DEF InForce, Stored

\* A slot table that is not touched is the same map.
LEMMA SameTableSameMap ==
  ASSUME NEW p \in Prot, tbl'[p] = tbl[p]
  PROVE  InForce(p)' = InForce(p)
  BY DEF InForce, Occupied

\* An ioctl of another table is a step elsewhere.
LEMMA OtherTable ==
  ASSUME NEW t \in Prot, reply'.prot # t, tbl'[t] = tbl[t]
  PROVE  Store!Elsewhere(t)
<1>1. InForce(t)' = InForce(t)
  BY SameTableSameMap
<1>2. LastCall(t)'.ret = "other"
  BY DEF LastCall
<1> QED  BY <1>1, <1>2 DEF Store!Elsewhere

\* BoundedMap counts keys with the Cardinality of FiniteSets.
LEMMA SameCardinality ==
  ASSUME NEW S
  PROVE  Store!Cardinality(S) = Cardinality(S)
  BY DEF Store!Cardinality, Cardinality

\* An ioctl that names table p is one of the calls of a BoundedMap.
LEMMA ConfigIsCall ==
  ASSUME IInv, NEW p \in Prot, NEW e \in Sendable(p), Config(p, e),
         table_size[p] =< TblSize[p]
  PROVE  Store!Call(p)
<1> DEFINE Calls(r) == LastCall(p)' = [key |-> e, val |-> TRUE, ret |-> r]
           MapWith(S) == [x \in S |-> TRUE]
<1>1. TypeOK /\ NoDuplicateRules /\ RulesAnnounced /\ e \in Entry(p)
  BY SendableType DEF IInv
<1>2. InForce(p) = MapWith(Stored(p)) /\ InForce(p)' = MapWith(Stored(p)')
  BY DEF InForce, Stored
<1>3. SUFFICES \/ /\ Calls("ok")
                  /\ e \in Stored(p) \/ Cardinality(Stored(p)) < TblSize[p]
                  /\ InForce(p)' = [x \in Stored(p) \cup {e} |->
                            IF x = e THEN TRUE ELSE InForce(p)[x]]
               \/ /\ Calls(IF p = "IP_PROT" THEN "ok" ELSE "full")
                  /\ e \notin Stored(p)
                  /\ Cardinality(Stored(p)) = TblSize[p]
                  /\ InForce(p)' = InForce(p)
               \/ Calls("ok") /\ IsFree(p, e) /\ InForce(p)' = InForce(p)
  <2>1. DOMAIN InForce(p) = Stored(p)
    BY <1>2
  <2>2. Store!Put(p, e, TRUE) \/ Store!Full(p, e, TRUE)
            \/ Store!Ignore(p, e, TRUE)
    BY <1>3, <2>1, SameCardinality
       DEF Store!Put, Store!Full, Store!Ignore, Store!Answer
  <2> QED  BY <2>2 DEF Store!Call
<1> HIDE DEF Calls
<1>4. CASE Rewrite(p, e)
  <2>1. PICK i \in ar_wakeup_get_index(p, e) \ {-1} : Reply(p, e, "AR_SUCCESS")
    BY <1>4 DEF Rewrite
  <2>2. i \in Slot(p) /\ tbl[p][i] = e
    BY <1>1, SearchIndex
  <2>3. InForce(p)' = InForce(p)
    BY <1>1, <1>4, RewriteKeepsTables, SameTableSameMap DEF SameTables
  <2>4. Calls("ok")
    BY <2>1 DEF Calls, LastCall, Reply
  <2>5. CASE ~IsFree(p, e)
    <3>1. e \in Stored(p)
      BY <2>2, <2>5 DEF Stored, Occupied
    <3>2. InForce(p) = [x \in Stored(p) \cup {e} |->
                            IF x = e THEN TRUE ELSE InForce(p)[x]]
      BY <1>2, <3>1
    <3> QED  BY <1>3, <2>3, <2>4, <3>1, <3>2
  <2> QED  BY <1>3, <2>3, <2>4, <2>5
<1>5. CASE AddRule(p, e)
  <2>1. Calls("ok")
    BY <1>5 DEF AddRule, Calls, LastCall, Reply
  <2>2. PICK i \in Slot(p) :
            /\ i \notin Occupied(p)
            /\ tbl'[p][i] = e
            /\ \A j \in Slot(p) \ {i} : tbl'[p][j] = tbl[p][j]
            /\ Occupied(p)' = IF IsFree(p, e) THEN Occupied(p)
                                              ELSE Occupied(p) \cup {i}
    BY <1>5, AddRuleEffect
  <2>3. \A j \in Occupied(p) : tbl'[p][j] = tbl[p][j]
    BY <2>2 DEF Occupied
  <2>4. CASE IsFree(p, e)
    <3>1. Stored(p)' = Stored(p)
      BY <2>2, <2>3, <2>4 DEF Stored
    <3> QED  BY <1>3, <2>1, <2>4, <3>1, SameStoredSameMap
  <2>5. CASE ~IsFree(p, e)
    <3>1. Stored(p)' = Stored(p) \cup {e}
      BY <2>2, <2>3, <2>5 DEF Stored
    <3>2. InForce(p)' = [x \in Stored(p) \cup {e} |->
                            IF x = e THEN TRUE ELSE InForce(p)[x]]
      BY <1>2, <3>1
    <3>3. Cardinality(Stored(p)) < TblSize[p]
      <4>1. /\ IsFiniteSet(Slot(p)) /\ Cardinality(Slot(p)) = TblSize[p]
            /\ IsFiniteSet(Occupied(p))
            /\ Cardinality(Stored(p)) = Cardinality(Occupied(p))
        BY <1>1, StoredCardinality
      <4>2. Occupied(p) \in SUBSET Slot(p) /\ Occupied(p) # Slot(p)
        BY <2>2 DEF Occupied
      <4>3. Cardinality(Occupied(p)) =< Cardinality(Slot(p))
                /\ Cardinality(Occupied(p)) # Cardinality(Slot(p))
        BY <4>1, <4>2, FS_Subset
      <4>4. Cardinality(Occupied(p)) \in Nat
        BY <4>1, FS_CardinalityType
      <4> QED  BY <4>1, <4>3, <4>4, TblSizeType
    <3> QED  BY <1>3, <2>1, <3>2, <3>3
  <2> QED  BY <2>4, <2>5
<1>6. CASE NoSpace(p, e, FullAnswer(p))
  <2>1. /\ -1 \in ar_wakeup_get_index(p, e)
        /\ Occupied(p) = Slot(p)
        /\ Reply(p, e, FullAnswer(p))
        /\ UNCHANGED <<tbl, table_size>>
    BY <1>6, NoFreeIndex DEF NoSpace
  <2>2. Calls(IF p = "IP_PROT" THEN "ok" ELSE "full")
    BY <2>1 DEF Calls, LastCall, Reply, FullAnswer
  <2>3. e \notin Stored(p)
    BY <1>1, <2>1, SearchIndex DEF Stored, RulesAnnounced
  <2>4. Cardinality(Stored(p)) = TblSize[p]
    BY <1>1, <2>1, StoredCardinality
  <2>5. InForce(p)' = InForce(p)
    BY <2>1, SameTableSameMap
  <2> QED  BY <1>3, <2>2, <2>3, <2>4, <2>5
<1> QED  BY <1>4, <1>5, <1>6 DEF Config

\* Counters do not shrink, so trust in a table does not come back.
LEMMA NextImplements ==
  ASSUME IInv, Next
  PROVE  Store!Next
<1>1. SUFFICES ASSUME NEW t \in Prot, table_size'[t] =< TblSize[t]
               PROVE  table_size[t] =< TblSize[t] /\ Store!Call(t)
  BY DEF Store!Next
<1>2. ASSUME NEW p \in Prot, NEW e \in Sendable(p), Config(p, e)
      PROVE  table_size[t] =< TblSize[t] /\ Store!Call(t)
  <2>1. TypeOK /\ e \in Entry(p) /\ TblSize[t] \in Nat /\ table_size[t] \in Nat
    BY SendableType, TblSizeType DEF IInv, TypeOK
  <2>2. /\ p # t => tbl'[t] = tbl[t]
        /\ table_size'[t] \in {table_size[t], table_size[t] + 1}
    <3>1. CASE Rewrite(p, e)
      BY <2>1, <3>1, RewriteKeepsTables DEF SameTables
    <3>2. CASE AddRule(p, e)
      BY <3>2, AddRuleEffect
    <3>3. CASE NoSpace(p, e, FullAnswer(p))
      BY <3>3 DEF NoSpace
    <3> QED  BY <1>2, <3>1, <3>2, <3>3 DEF Config
  <2>3. table_size[t] =< TblSize[t]
    BY <1>1, <2>1, <2>2
  <2>4. CASE p = t
    BY <1>2, <2>3, <2>4, ConfigIsCall
  <2>5. CASE p # t
    <3>1. reply'.prot = p
      BY <1>2 DEF Config, Rewrite, AddRule, NoSpace, Reply
    <3> QED  BY <2>2, <2>3, <2>5, <3>1, OtherTable DEF Store!Call
  <2> QED  BY <2>3, <2>4, <2>5
<1>3. CASE BadIoctl
  <2>1. /\ tbl' = tbl /\ table_size' = table_size
        /\ reply'.ret \notin {"none", "AR_SUCCESS", "-1"}
    BY <1>3 DEF BadIoctl, Refuse, Reply
  <2>2. LastCall(t)'.ret \in {"failed", "other"}
    BY <2>1 DEF LastCall
  <2>3. InForce(t)' = InForce(t)
    BY <2>1, SameTableSameMap
  <2>4. Store!Elsewhere(t)
    BY <2>2, <2>3 DEF Store!Elsewhere
  <2> QED  BY <1>1, <2>1, <2>4 DEF Store!Call
<1> QED  BY <1>2, <1>3, NextCases

\* The three tables, filled by whatever sequence of ioctls, implement
\* BoundedMap: what is in force is what the successful calls stored.
THEOREM TablesStoreRules == Spec => StoresRules
<1>1. Init => Store!Init
  <2> SUFFICES ASSUME Init
               PROVE  Store!Init
    OBVIOUS
  <2>1. \A p \in Prot : Occupied(p) = {}
    <3>1. \A p \in Prot : \A i \in Slot(p) :
            tbl[p][i] = IF p = "IP_PROT" THEN 0 ELSE ZeroEntry
      BY DEF Init, Zero
    <3> QED  BY <3>1 DEF Occupied, IsFree, ZeroEntry
  <2>2. \A p \in Prot : InForce(p) = [k \in {} |-> k]
    BY <2>1 DEF InForce
  <2>3. \A p \in Prot : LastCall(p).ret = "other"
    BY DEF Init, LastCall
  <2>4. \A p \in Prot : table_size[p] =< TblSize[p]
    BY TblSizeType DEF Init
  <2> QED  BY <2>2, <2>3, <2>4 DEF Store!Init
<1>2. UNCHANGED vars => UNCHANGED <<[p \in Prot |-> InForce(p)],
                                     [p \in Prot |-> LastCall(p)],
                                     [p \in Prot |-> table_size[p] =< TblSize[p]]>>
  BY DEF vars, InForce, LastCall, Occupied
<1>3. IInv /\ [Next]_vars => [Store!Next]_<<[p \in Prot |-> InForce(p)],
                                     [p \in Prot |-> LastCall(p)],
                                     [p \in Prot |-> table_size[p] =< TblSize[p]]>>
  BY <1>2, NextImplements
<1> QED  BY <1>1, <1>3, Invariance, PTL DEF Spec, StoresRules, Store!Spec
=============================================================================
