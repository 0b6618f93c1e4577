----------------------------- MODULE WakeupTool -----------------------------
(***************************************************************************)
(* ar_wakeup_tool.c, the program that reads a rule file and sends its      *)
(* lines to the wake-up database, composed with that database: a line that *)
(* becomes an ioctl is a step of WakeupRules.                              *)
(*                                                                         *)
(* The program runs alone, since /dev/ar_wakeup_dev admits one open file,  *)
(* and several times, since the database outlives it.                      *)
(***************************************************************************)
EXTENDS WakeupRules, Sequences

CONSTANTS
    Files,      \* the rule files, sequences of lines
    MaxRuns     \* bound of the model on the runs of the program

\* A line is a section head, a comment or a text.  In a section of ports the
\* text is scanned for four numbers, and reads has the rules this may leave
\* in the variables: one if all four are there, else what the stack held.
\* Among the protocols the text is a name, of at most 9 characters: the
\* program's buffer has ten.
ASSUME ToolAssumption ==
    /\ \A f \in Files : f \in Seq({f[i] : i \in DOMAIN f})
    /\ \A f \in Files : \A i \in DOMAIN f :
            /\ f[i].kind \in Prot \cup {"comment", "text"}
            /\ f[i].kind = "text" =>
                    /\ f[i].name \in ProtName
                    /\ f[i].reads # {}
                    /\ f[i].reads \subseteq (UdpRule \cap TcpRule)
    /\ MaxRuns \in Nat

VARIABLES
    file,          \* the file the program is given
    pc,            \* "out" between two runs, "lines" in one
    pos,           \* the line it reads next
    RuleToConfig,  \* the section it is in
    errors,        \* the lines for which this run has printed an error
    runs,          \* the runs so far
    lost           \* history: an ioctl failed before it reached the database

tool == <<file, pc, pos, RuleToConfig, errors, runs, lost>>
toolVars == <<vars, tool>>

line == file[pos]

-----------------------------------------------------------------------------

\* main, up to the first line.  If the device cannot be opened the program
\* ends, and if the file cannot, it crashes at the first fgets; neither
\* changes anything.
Open ==
    /\ pc = "out" /\ runs < MaxRuns
    /\ pc' = "lines"
    /\ pos' = 1
    /\ RuleToConfig' = "CONFIG_WAKEUP_NULL"
    /\ errors' = {}
    /\ UNCHANGED <<vars, file, runs, lost>>

\* fgets has a line for ar_wakeup_process_line.
Reading == pc = "lines" /\ pos =< Len(file)

Advance ==
    /\ pos' = pos + 1
    /\ UNCHANGED <<file, pc, runs>>

\* Mutant: every line that begins with # is taken for a section head.
SectionHeadOrComment ==
    /\ Reading /\ line.kind # "text"
    /\ RuleToConfig' = line.kind
    /\ Advance
    /\ UNCHANGED <<vars, errors, lost>>

SectionHead ==
    /\ Reading /\ line.kind \in Prot
    /\ RuleToConfig' = line.kind
    /\ Advance
    /\ UNCHANGED <<vars, errors, lost>>

\* Mutant: the next line is not read.
SkipStays ==
    /\ Reading
    /\ \/ line.kind = "comment"
       \/ line.kind = "text" /\ RuleToConfig = "CONFIG_WAKEUP_NULL"
    /\ UNCHANGED toolVars

\* A comment, or a text before the first section.
Skip ==
    /\ Reading
    /\ \/ line.kind = "comment"
       \/ line.kind = "text" /\ RuleToConfig = "CONFIG_WAKEUP_NULL"
    /\ Advance
    /\ UNCHANGED <<vars, RuleToConfig, errors, lost>>

\* Mutant: an answer is not looked at.
ReportNothing == UNCHANGED errors

\* What the ioctl answers is below 0 unless it is AR_SUCCESS.
Report ==
    errors' = IF reply'.ret = "AR_SUCCESS" THEN errors ELSE errors \cup {pos}

\* Mutant: a TCP line is sent as a UDP rule.
ScannedTableSwapped == IF RuleToConfig = "TCP" THEN "UDP" ELSE RuleToConfig

\* The table the line's rule is sent to.
ScannedTable == RuleToConfig

\* ar_wakeup_process_udp_param and ar_wakeup_process_tcp_param.
PortLine ==
    /\ Reading /\ line.kind = "text" /\ RuleToConfig \in PortProt
    /\ \E e \in line.reads : PortRule(ScannedTable, e)
    /\ Report
    /\ Advance
    /\ UNCHANGED <<RuleToConfig, lost>>

ar_wakeup_process_ip_prot ==
    /\ Reading /\ line.kind = "text" /\ RuleToConfig = "IP_PROT"
    /\ IpProto(line.name)
    /\ Report
    /\ Advance
    /\ UNCHANGED <<RuleToConfig, lost>>

\* The ioctl of a line fails before it reaches the database.
LineLost ==
    /\ Reading /\ line.kind = "text" /\ RuleToConfig \in Prot
    /\ \/ Refuse("EFAULT")
       \/ RuleToConfig = "IP_PROT" /\ Refuse("AR_MEMORY_UNAVALABLE_ERROR")
    /\ Report
    /\ Advance
    /\ lost' = TRUE
    /\ UNCHANGED RuleToConfig

\* The end of the file.
Close ==
    /\ pc = "lines" /\ pos > Len(file)
    /\ pc' = "out"
    /\ runs' = runs + 1
    /\ UNCHANGED <<vars, file, pos, RuleToConfig, errors, lost>>

ToolInit ==
    /\ Init
    /\ file \in Files
    /\ pc = "out" /\ pos = 1 /\ runs = 0
    /\ RuleToConfig = "CONFIG_WAKEUP_NULL"
    /\ errors = {}
    /\ lost = FALSE

Run ==
    \/ SectionHead
    \/ Skip
    \/ PortLine
    \/ ar_wakeup_process_ip_prot
    \/ LineLost
    \/ Close

ToolNext ==
    \/ Open
    \/ Run
    \/ pc = "out" /\ runs = MaxRuns /\ UNCHANGED toolVars

\* The program waits for nobody, so once started it goes on.
ToolSpec == ToolInit /\ [][ToolNext]_toolVars /\ WF_toolVars(Run)

-----------------------------------------------------------------------------
(* Properties                                                              *)

\* The section of line i, and the lines sent to table p.
SectionOf(i) ==
    LET heads == {j \in 1..(i - 1) : file[j].kind \in Prot}
    IN  IF heads = {} THEN "none" ELSE file[Max(heads)].kind
LinesOf(p) == {i \in DOMAIN file : file[i].kind = "text" /\ SectionOf(i) = p}

\* The entries line i may put in table p.
Entries(p, i) == IF p = "IP_PROT" THEN {ar_wakeup_get_prot_code(file[i].name)}
                                  ELSE file[i].reads

\* The lines for table p say what to store, and none of it looks like a free
\* slot.
Definite(p) ==
    \A i \in LinesOf(p) : \E e \in Entries(p, i) :
        Entries(p, i) = {e} /\ ~IsFree(p, e)

\* The state has its type.
ToolTypeOK ==
    /\ TypeOK
    /\ pc \in {"out", "lines"}
    /\ pos \in 1..(Len(file) + 1)
    /\ RuleToConfig \in Prot \cup {"CONFIG_WAKEUP_NULL"}
    /\ errors \subseteq DOMAIN file
    /\ runs \in 0..MaxRuns

\* What a run tells its user about a file of definite port rules is so: once
\* a line is read, either its rule is in one of the slots FMan is given or an
\* error was printed for it.
PortLinesReported ==
    \A p \in PortProt : Definite(p) =>
        \A i \in LinesOf(p) \ errors : i < pos =>
            \E k \in Slot(p) : /\ k < table_size[p]
                               /\ tbl[p][k] \in Entries(p, i)

\* Every rule in a table comes from a line of that table's section: no
\* section leaks into the next one, nor from the end of a file into the
\* beginning of the next run.
TableFromFile ==
    \A p \in Prot : \A k \in Occupied(p) :
        \E i \in LinesOf(p) : tbl[p][k] \in Entries(p, i)

\* Sending a file again changes nothing, if its lines are definite and all
\* its ioctls reached the database the first time: not even when a table is
\* full, and whatever order the lines are in.
RerunChangesNothing ==
    [][\A p \in Prot : Definite(p) /\ ~lost /\ runs > 0 =>
            tbl'[p] = tbl[p] /\ table_size'[p] = table_size[p]]_toolVars

\* The program reads its file to the end and returns.
ToolEnds == pc = "lines" ~> pc = "out"
=============================================================================
