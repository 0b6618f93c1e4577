--------------------------- MODULE SettingsProofs ---------------------------
(***************************************************************************)
(* Proofs about Settings, for any number of agents, writers and buffers,   *)
(* and for any texts and arguments.                                        *)
(*                                                                         *)
(* While no memory has been misused four things hold together: the device  *)
(* has one agent at most (Exclusive); each string has a live buffer of its *)
(* own unless that agent is swapping it, and the buffer the agent brings   *)
(* is nobody's until it is that string's (Owned); the history tells a      *)
(* string that one call changes from one that several do (Noted); and a    *)
(* string no call is changing, or one that a single call has half changed, *)
(* holds what it should (Whole).                                           *)
(***************************************************************************)
EXTENDS Settings, TLAPS

BufferType ==
    [size : {0, 1, IOCTL_LENGTH, AR_SNMP_MAX_COMM_LENGTH}, head : Byte,
     of : Text \cup Comm \cup {"default", "freed"}, chars : Byte,
     zeros : SUBSET Nat]

Call ==
    [pc : {"ioctl", "kzfree", "clear", "install", "strlen", "terminate", "close"},
     cmd : Cmd, arg : Comm, buf : Buf \cup {NULL}, at : 0..(IOCTL_LENGTH - 1)]

Store == [pc : {"type", "length", "text", "end"}, s : Strings, t : Text]

\* Contents c are those of freed memory, or of a buffer with a size; zero
\* bytes are within it.
Sized(c) ==
    /\ c = Freed \/ (c.size # 0 /\ c.of # "freed")
    /\ \A z \in c.zeros : z < c.size

HeapTyped == heap \in [Buf -> BufferType] /\ \A b \in Buf : Sized(heap[b])

\* What TypeOK says, and what the calls in progress are.
Typed ==
    /\ HeapTyped
    /\ ptr \in [Strings -> Buf \cup {NULL}]
    /\ flags \in [Flag -> Byte]
    /\ tcp_flags_mask \in Uint16
    /\ ar_open_count \in {0, 1}
    /\ agent \in [Agent -> Call \cup {Idle}]
    /\ writer \in [Writer -> Store \cup {Idle}]
    /\ last \in [Strings -> Text \cup Comm \cup {"default", "pending", "raced"}]

\* Agent a is about to bring a buffer for string s, or has done so; it is
\* changing s in either case.  Writer w is changing s.
Brings(a, s) == agent[a].pc \in {"kzfree", "clear", "install"} /\ agent[a].cmd = s
Brought(a, s) == agent[a].pc \in {"strlen", "terminate"} /\ agent[a].cmd = s
Swaps(a, s) == Brings(a, s) \/ Brought(a, s)
Writes(w, s) == writer[w].pc # "idle" /\ writer[w].s = s

\* The device has one agent at most, and it frees and installs strings only.
Exclusive ==
    /\ \A a \in Agent : agent[a].pc # "idle" => ar_open_count = 1
    /\ \A a, b \in Agent : agent[a].pc # "idle" /\ agent[b].pc # "idle" => a = b
    /\ \A a \in Agent : agent[a].pc \notin {"idle", "ioctl", "close"} =>
            agent[a].cmd \in Strings

\* String s has a buffer.
HasBuffer(s) ==
    /\ Live(ptr[s]) \/ Swapping(s)
    /\ Live(ptr[s]) => heap[ptr[s]].size \in {IOCTL_LENGTH, AR_SNMP_MAX_COMM_LENGTH}

\* The buffer of agent a is nobody's, or that of its string.
Carries(a) ==
    \A s \in Strings :
        /\ Brings(a, s) => /\ agent[a].buf \in Buf
                           /\ heap[agent[a].buf] = CommBuffer(agent[a].arg)
                           /\ \A u \in Strings : ptr[u] # agent[a].buf
        /\ Brought(a, s) => /\ Live(ptr[s]) /\ agent[a].buf = ptr[s]
                            /\ heap[ptr[s]].size = IOCTL_LENGTH

\* Each string has a buffer of its own, and so has the agent that brings one.
Owned ==
    /\ \A s \in Strings : HasBuffer(s)
    /\ ptr["read_write"] # ptr["read_only"]
    /\ \A a \in Agent : Carries(a)

\* A string that calls are changing is noted as such, and as raced if they
\* are more than one.
NotedOn(s) ==
    /\ \A w \in Writer : Writes(w, s) => last[s] \in {"pending", "raced"}
    /\ \A a \in Agent : Swaps(a, s) => last[s] \in {"pending", "raced"}
    /\ last[s] = "pending" =>
          \/ \E w \in Writer : Writes(w, s)
          \/ \E a \in Agent : Swaps(a, s)
    /\ \A w, v \in Writer : Writes(w, s) /\ Writes(v, s) /\ w # v =>
          last[s] = "raced"
    /\ \A w \in Writer, a \in Agent : Writes(w, s) /\ Swaps(a, s) =>
          last[s] = "raced"

Noted ==
    /\ \A w \in Writer : writer[w].pc # "idle" => Fits(writer[w].t)
    /\ \A s \in Strings : NotedOn(s)

\* Buffer contents c are those of a call with text or argument x.
HoldsAll(c, x) ==
    /\ c.of = x
    /\ x \in Comm => c.head = byte1[x] /\ c.zeros = nul[x]
    /\ x \notin Comm => c.head = c.chars /\ c.chars + 2 \in c.zeros
    /\ x \in Text /\ strlen[x] =< 256 => c.chars = strlen[x] - 1

\* Buffer contents c are what store x has made them so far.
HoldsStore(c, x) ==
    /\ x.pc \in {"text", "end"} => c.head = len(x.t)
    /\ x.pc = "end" => c.of = x.t /\ c.chars = len(x.t)

\* Buffer contents c are what call x has brought.
HoldsCall(c, x) ==
    /\ c.of = x.arg /\ c.head = byte1[x.arg] /\ c.zeros = nul[x.arg]
    /\ x.pc = "terminate" => x.at \in nul[x.arg]

\* A string no call is changing holds what it was last given, and one that a
\* single call is changing what that call has written of it.
WholeOn(s) ==
    /\ last[s] \notin {"pending", "raced"} => HoldsAll(Found(s), last[s])
    /\ last[s] = "pending" =>
          /\ \A w \in Writer : Writes(w, s) => HoldsStore(Found(s), writer[w])
          /\ \A a \in Agent : Brought(a, s) => HoldsCall(Found(s), agent[a])

Whole == \A s \in Strings : WholeOn(s)

Sound == Exclusive /\ Owned /\ Noted /\ Whole

IInv == Typed /\ HarmCauses /\ (harm = {} => Sound)

-----------------------------------------------------------------------------
(* The operators                                                           *)

\* The length byte of a text is a byte.
LEMMA LenIsByte ==
  ASSUME NEW t \in Text
  PROVE  len(t) \in Byte
<1>1. strlen[t] \in Nat
  BY SettingsAssumption
<1>2. \A n \in Nat : (n - 1) % 256 \in 0..255
  OBVIOUS
<1> QED
  BY <1>1, <1>2 DEF len, Byte

\* The text of a store that is let through ends in a newline at least, and
\* up to 256 characters its length byte is exact.
LEMMA LenExact ==
  ASSUME NEW t \in Text, Fits(t), strlen[t] =< 256
  PROVE  len(t) = strlen[t] - 1
<1>1. strlen[t] \in Nat
  BY SettingsAssumption
<1>2. CASE strlen[t] = 0
  BY <1>2 DEF Fits, len, AR_SNMP_MAX_COMM_LENGTH
<1>3. CASE strlen[t] # 0
  BY <1>1, <1>3 DEF len
<1> QED
  BY <1>2, <1>3

\* Freed memory is a buffer of no bytes.
LEMMA FreedBuffer == Freed \in BufferType /\ Sized(Freed) /\ Freed.size = 0
  BY DEF Freed, Buffer, BufferType, Byte, Sized

\* The buffer of an ioctl that reads its argument.
LEMMA CommBuffers ==
  ASSUME NEW c \in Comm
  PROVE  /\ CommBuffer(c) \in BufferType /\ Sized(CommBuffer(c))
         /\ CommBuffer(c).size = IOCTL_LENGTH
         /\ CommBuffer(c).of = c /\ c # "freed"
         /\ CommBuffer(c).head = byte1[c]
         /\ CommBuffer(c).zeros = nul[c]
<1>1. byte1[c] \in Byte /\ nul[c] \in SUBSET (0..(IOCTL_LENGTH - 1)) /\ c # "freed"
  BY SettingsAssumption
<1>2. \A z \in nul[c] : z \in Nat /\ z < IOCTL_LENGTH
  BY <1>1 DEF IOCTL_LENGTH
<1>3. /\ CommBuffer(c).size = IOCTL_LENGTH
      /\ CommBuffer(c).of = c
      /\ CommBuffer(c).head = byte1[c]
      /\ CommBuffer(c).zeros = nul[c]
  BY DEF CommBuffer, Buffer
<1>4. nul[c] \in SUBSET Nat /\ IOCTL_LENGTH - 2 \in Byte
  BY <1>2 DEF IOCTL_LENGTH, Byte
<1>5. CommBuffer(c) \in BufferType
  BY <1>1, <1>4 DEF CommBuffer, Buffer, BufferType
<1>6. Sized(CommBuffer(c))
  BY <1>1, <1>2, <1>3 DEF Sized, IOCTL_LENGTH
<1> QED
  BY <1>1, <1>3, <1>5, <1>6

LEMMA IoctlBuffers ==
  ASSUME NEW cmd, NEW c \in Comm
  PROVE  IoctlBuffer(cmd, c) \in BufferType /\ Sized(IoctlBuffer(cmd, c))
<1>1. c # "freed"
  BY SettingsAssumption
<1>2. Buffer(1, 0, c, 0, {}) \in BufferType /\ Sized(Buffer(1, 0, c, 0, {}))
  BY <1>1 DEF Buffer, BufferType, Sized, Byte
<1> QED
  BY <1>2, CommBuffers DEF IoctlBuffer

\* A zero written within a buffer leaves it allocated.
LEMMA NulWritten ==
  ASSUME NEW c \in BufferType, Sized(c), c.size # 0, NEW i \in Nat, i < c.size
  PROVE  /\ WithNul(c, i) \in BufferType /\ Sized(WithNul(c, i))
         /\ WithNul(c, i).size = c.size
         /\ WithNul(c, i).of = c.of
         /\ WithNul(c, i).chars = c.chars
         /\ i # 1 => WithNul(c, i).head = c.head
         /\ i \in WithNul(c, i).zeros
<1> DEFINE h == IF i = 1 THEN 0 ELSE c.head
           z == c.zeros \cup {i}
<1>1. h \in Byte /\ z \in SUBSET Nat
  BY DEF BufferType, Byte
<1>2. WithNul(c, i) = [c EXCEPT !.zeros = z, !.head = h]
  BY DEF WithNul
<1> HIDE DEF h, z
<1>3. /\ WithNul(c, i) \in BufferType
      /\ WithNul(c, i).size = c.size
      /\ WithNul(c, i).of = c.of
      /\ WithNul(c, i).chars = c.chars
      /\ WithNul(c, i).head = h
      /\ WithNul(c, i).zeros = z
  BY <1>1, <1>2 DEF BufferType
<1>4. c # Freed
  BY FreedBuffer
<1>5. Sized(WithNul(c, i))
  BY <1>3, <1>4 DEF Sized, z
<1> QED
  BY <1>3, <1>5 DEF h, z

\* ... and where there is one already nothing changes.
LEMMA NulAgain ==
  ASSUME NEW c \in BufferType, NEW x \in Comm, c.head = byte1[x], c.zeros = nul[x],
         NEW i \in nul[x]
  PROVE  WithNul(c, i).head = byte1[x] /\ WithNul(c, i).zeros = nul[x]
<1>1. /\ c.zeros \cup {i} = nul[x]
      /\ (IF i = 1 THEN 0 ELSE c.head) = byte1[x]
  BY SettingsAssumption
<1> QED
  BY <1>1 DEF WithNul, BufferType

\* A call in progress and a store in progress have their fields.
LEMMA InProgress ==
  ASSUME Typed
  PROVE  /\ \A a \in Agent : agent[a].pc # "idle" <=> agent[a] \in Call
         /\ \A w \in Writer : writer[w].pc # "idle" <=> writer[w] \in Store
<1>1. \A c \in Call : c.pc # "idle"
  BY DEF Call
<1>2. \A c \in Store : c.pc # "idle"
  BY DEF Store
<1>3. Idle.pc = "idle"
  BY DEF Idle
<1>4. agent \in [Agent -> Call \cup {Idle}] /\ writer \in [Writer -> Store \cup {Idle}]
  BY DEF Typed
<1>5. \A a \in Agent : agent[a] \in Call \cup {Idle}
  BY <1>4
<1>6. \A w \in Writer : writer[w] \in Store \cup {Idle}
  BY <1>4
<1> QED
  BY <1>1, <1>2, <1>3, <1>5, <1>6

\* A call goes on to its next step and keeps its arguments.
LEMMA GoesOn ==
  ASSUME Typed, NEW a \in Agent, agent[a].pc # "idle",
         NEW l \in {"ioctl", "kzfree", "clear", "install", "strlen", "terminate",
                    "close"},
         GoTo(a, l)
  PROVE  /\ agent' \in [Agent -> Call \cup {Idle}]
         /\ agent'[a].pc = l
         /\ agent'[a].cmd = agent[a].cmd
         /\ agent'[a].arg = agent[a].arg
         /\ agent'[a].buf = agent[a].buf
         /\ \A b \in Agent \ {a} : agent'[b] = agent[b]
<1>1. agent[a] \in Call
  BY InProgress
<1>2. agent \in [Agent -> Call \cup {Idle}]
  BY DEF Typed
<1>3. agent' = [agent EXCEPT ![a] = [agent[a] EXCEPT !.pc = l]]
  BY DEF GoTo
<1>4. /\ [agent[a] EXCEPT !.pc = l] \in Call
      /\ [agent[a] EXCEPT !.pc = l].pc = l
      /\ [agent[a] EXCEPT !.pc = l].cmd = agent[a].cmd
      /\ [agent[a] EXCEPT !.pc = l].arg = agent[a].arg
      /\ [agent[a] EXCEPT !.pc = l].buf = agent[a].buf
  BY <1>1 DEF Call
<1> QED
  BY <1>2, <1>3, <1>4

\* The accesses through a pointer keep to the buffer found, and are noted when
\* they leave it.
LEMMA AccessEffect ==
  ASSUME NEW s \in Strings, NEW n \in Int, NEW new, Access(s, n, new)
  PROVE  \/ /\ Live(ptr[s]) /\ n =< Found(s).size
            /\ heap' = [heap EXCEPT ![ptr[s]] = new]
            /\ harm' = harm
         \/ /\ Live(ptr[s]) /\ ~ n =< Found(s).size
            /\ heap' = heap
            /\ harm' = harm \cup {<<"overrun", IF Found(s).size = IOCTL_LENGTH
                                               THEN "ioctl" ELSE "init">>}
         \/ /\ ~ Live(ptr[s])
            /\ heap' = heap
            /\ harm' = harm \cup {<<"wild", IF last[s] = "raced"
                                            THEN "raced" ELSE "alone">>}
  BY DEF Access, Found, Harm

\* A buffer that is allocated has its type and a size.
LEMMA LiveBuffer ==
  ASSUME Typed, NEW b, Live(b)
  PROVE  /\ b \in Buf /\ heap[b] \in BufferType /\ Sized(heap[b])
         /\ heap[b].size # 0 /\ heap[b].of # "freed"
  BY DEF Typed, HeapTyped, Live, Sized

\* Memory is allocated, written and freed a buffer at a time.
LEMMA HeapUpdate ==
  ASSUME HeapTyped, NEW b \in Buf, NEW c \in BufferType, Sized(c),
         heap' = [heap EXCEPT ![b] = c]
  PROVE  HeapTyped' /\ heap'[b] = c /\ \A d \in Buf \ {b} : heap'[d] = heap[d]
<1>1. heap'[b] = c /\ \A d \in Buf \ {b} : heap'[d] = heap[d]
  BY DEF HeapTyped
<1>2. heap' \in [Buf -> BufferType]
  BY DEF HeapTyped
<1>3. \A d \in Buf : Sized(heap'[d])
  BY <1>1 DEF HeapTyped
<1> QED
  BY <1>1, <1>2, <1>3 DEF HeapTyped, Sized, Freed, Buffer

\* A call that begins is noted as alone or as overlapping another.
LEMMA BeginEffect ==
  ASSUME Typed, NEW s \in Strings, Begin(s)
  PROVE  /\ last' \in [Strings -> Text \cup Comm \cup {"default", "pending", "raced"}]
         /\ last'[s] = IF Busy(s) THEN "raced" ELSE "pending"
         /\ \A u \in Strings \ {s} : last'[u] = last[u]
<1>1. last \in [Strings -> Text \cup Comm \cup {"default", "pending", "raced"}]
  BY DEF Typed
<1> QED
  BY <1>1 DEF Begin

\* The end of a call leaves its text noted, unless calls overlapped.
LEMMA EndEffect ==
  ASSUME Typed, NEW s \in Strings, NEW x \in Text \cup Comm, End(s, x)
  PROVE  /\ last' \in [Strings -> Text \cup Comm \cup {"default", "pending", "raced"}]
         /\ last'[s] = IF last[s] = "raced" THEN "raced" ELSE x
         /\ x \notin {"default", "pending", "raced"}
         /\ \A u \in Strings \ {s} : last'[u] = last[u]
<1>1. last \in [Strings -> Text \cup Comm \cup {"default", "pending", "raced"}]
  BY DEF Typed
<1>2. x \notin {"default", "pending", "raced"}
  BY SettingsAssumption
<1> QED
  BY <1>1, <1>2 DEF End

\* Busy in the terms of the invariant.
LEMMA BusyMeans ==
  ASSUME NEW s
  PROVE  /\ Busy(s) <=> \/ \E a \in Agent : Swaps(a, s)
                        \/ \E w \in Writer : Writes(w, s)
         /\ Swapping(s) => \E a \in Agent : Brings(a, s)
  BY DEF Busy, Swapping, Swaps, Brings, Brought, Writes

\* A string has a buffer that is live when no call is changing it, when a
\* store alone is, and when an agent has brought it one.
LEMMA QuietLive ==
  ASSUME NEW s \in Strings, HasBuffer(s), NotedOn(s), \A a \in Agent : Carries(a)
  PROVE  /\ last[s] \notin {"pending", "raced"} => Live(ptr[s])
         /\ \A w \in Writer : Writes(w, s) /\ last[s] # "raced" => Live(ptr[s])
         /\ \A a \in Agent : Brought(a, s) => Live(ptr[s])
<1>1. Swapping(s) => \E a \in Agent : Swaps(a, s)
  BY BusyMeans DEF Swaps
<1> QED
  BY <1>1 DEF HasBuffer, NotedOn, Carries

-----------------------------------------------------------------------------
(* What a step leaves alone                                                *)

\* A string and the calls on it are noted as before.
LEMMA NotedKept ==
  ASSUME NEW s \in Strings, NotedOn(s), last'[s] = last[s],
         \A w \in Writer : Writes(w, s)' <=> Writes(w, s),
         \A a \in Agent : Swaps(a, s)' <=> Swaps(a, s)
  PROVE  NotedOn(s)'
  BY DEF NotedOn

\* A string keeps its buffer.
LEMMA BufferKept ==
  ASSUME NEW s \in Strings, HasBuffer(s), ptr'[s] = ptr[s],
         ptr[s] \in Buf => heap'[ptr[s]] = heap[ptr[s]],
         Swapping(s) => Swapping(s)'
  PROVE  HasBuffer(s)'
<1>1. Live(ptr[s])' <=> Live(ptr[s])
  BY DEF Live
<1>2. Live(ptr[s]) => heap'[ptr'[s]] = heap[ptr[s]]
  BY DEF Live
<1> QED
  BY <1>1, <1>2 DEF HasBuffer

\* A string and the calls on it are as before, and so is what it holds.
LEMMA WholeKept ==
  ASSUME NEW s \in Strings, HasBuffer(s), NotedOn(s), WholeOn(s),
         \A a \in Agent : Carries(a),
         ptr'[s] = ptr[s], last'[s] = last[s],
         ptr[s] \in Buf => heap'[ptr[s]] = heap[ptr[s]],
         \A w \in Writer : /\ Writes(w, s)' <=> Writes(w, s)
                           /\ Writes(w, s) => writer'[w] = writer[w],
         \A a \in Agent : /\ Brought(a, s)' <=> Brought(a, s)
                          /\ Brought(a, s) => agent'[a] = agent[a]
  PROVE  WholeOn(s)'
<1>1. Live(ptr[s]) => Found(s)' = Found(s)
  BY DEF Live, Found
<1>2. ASSUME last'[s] \notin {"pending", "raced"}
      PROVE  HoldsAll(Found(s)', last'[s])
  BY <1>1, <1>2, QuietLive DEF WholeOn
<1>3. ASSUME last'[s] = "pending", NEW w \in Writer, Writes(w, s)'
      PROVE  HoldsStore(Found(s)', writer'[w])
  BY <1>1, <1>3, QuietLive DEF WholeOn
<1>4. ASSUME last'[s] = "pending", NEW a \in Agent, Brought(a, s)'
      PROVE  HoldsCall(Found(s)', agent'[a])
  BY <1>1, <1>4, QuietLive DEF WholeOn
<1> QED
  BY <1>2, <1>3, <1>4 DEF WholeOn, HoldsAll, HoldsStore, HoldsCall, len

\* A step that changes neither the strings nor the calls on them keeps what
\* the invariant says of them, whatever else it allocates.
LEMMA StringsAlone ==
  ASSUME Owned, Noted, Whole,
         UNCHANGED <<ptr, writer, last>>,
         \A s \in Strings : ptr[s] \in Buf => heap'[ptr[s]] = heap[ptr[s]],
         \A s \in Strings : Swapping(s)' <=> Swapping(s),
         \A a \in Agent, s \in Strings :
            /\ Brings(a, s)' <=> Brings(a, s)
            /\ Brought(a, s)' <=> Brought(a, s)
            /\ Swaps(a, s) => /\ agent'[a] = agent[a]
                              /\ heap'[agent[a].buf] = heap[agent[a].buf]
  PROVE  Owned' /\ Noted' /\ Whole'
<1>1. \A w \in Writer, s \in Strings : Writes(w, s)' <=> Writes(w, s)
  BY DEF Writes
<1>2. \A a \in Agent, s \in Strings : Swaps(a, s)' <=> Swaps(a, s)
  BY DEF Swaps
<1>3. \A s \in Strings : Live(ptr[s])' <=> Live(ptr[s])
  BY DEF Live
<1>4. Owned'
  <2>1. \A s \in Strings : HasBuffer(s)'
    BY BufferKept DEF Owned
  <2>2. (ptr["read_write"] # ptr["read_only"])'
    BY DEF Owned
  <2>3. ASSUME NEW a \in Agent PROVE Carries(a)'
    <3> SUFFICES ASSUME NEW s \in Strings
                 PROVE  (/\ Brings(a, s) =>
                              /\ agent[a].buf \in Buf
                              /\ heap[agent[a].buf] = CommBuffer(agent[a].arg)
                              /\ \A u \in Strings : ptr[u] # agent[a].buf
                         /\ Brought(a, s) =>
                              /\ Live(ptr[s]) /\ agent[a].buf = ptr[s]
                              /\ heap[ptr[s]].size = IOCTL_LENGTH)'
      BY DEF Carries
    <3>1. Carries(a)
      BY DEF Owned
    <3>2. CASE Brings(a, s)
      <4>1. agent'[a] = agent[a] /\ heap'[agent[a].buf] = heap[agent[a].buf]
        BY <3>2 DEF Swaps
      <4>2. ~ Brought(a, s)
        BY <3>2 DEF Brings, Brought
      <4> QED
        BY <3>1, <3>2, <4>1, <4>2 DEF Carries, CommBuffer, Buffer
    <3>3. CASE Brought(a, s)
      <4>1. agent'[a] = agent[a] /\ heap'[agent[a].buf] = heap[agent[a].buf]
        BY <3>3 DEF Swaps
      <4>2. ~ Brings(a, s)
        BY <3>3 DEF Brings, Brought
      <4> QED
        BY <1>3, <3>1, <3>3, <4>1, <4>2 DEF Carries
    <3> QED
      BY <3>2, <3>3
  <2> QED
    BY <2>1, <2>2, <2>3 DEF Owned
<1>5. Noted'
  <2>1. \A s \in Strings : NotedOn(s)'
    BY <1>1, <1>2, NotedKept DEF Noted
  <2> QED
    BY <2>1 DEF Noted, Fits, len
<1>6. Whole'
  <2>1. ASSUME NEW s \in Strings PROVE WholeOn(s)'
    <3>1. \A a \in Agent : Brought(a, s) => agent'[a] = agent[a]
      BY DEF Swaps
    <3>2. \A w \in Writer : writer'[w] = writer[w]
      OBVIOUS
    <3> QED
      BY <1>1, <3>1, <3>2, WholeKept DEF Owned, Noted, Whole
  <2> QED
    BY <2>1 DEF Whole
<1> QED
  BY <1>4, <1>5, <1>6

-----------------------------------------------------------------------------
(* Steps that leave the strings alone                                      *)

\* A step that changes no variable but flags and tcp_flags_mask.
LEMMA OnlySimple ==
  ASSUME IInv, flags' \in [Flag -> Byte], tcp_flags_mask' \in Uint16,
         UNCHANGED <<heap, ptr, ar_open_count, agent, writer, last, harm>>
  PROVE  IInv'
<1>1. Typed'
  BY DEF IInv, Typed, HeapTyped, Sized, Freed, Buffer
<1>2. HarmCauses'
  BY DEF IInv, HarmCauses
<1>3. ASSUME harm' = {} PROVE Sound'
  <2>1. Exclusive /\ Owned /\ Noted /\ Whole
    BY <1>3 DEF IInv, Sound
  <2>2. Exclusive'
    BY <2>1 DEF Exclusive
  <2>3. \A s \in Strings : Swapping(s)' <=> Swapping(s)
    BY DEF Swapping
  <2>4. \A a \in Agent, s \in Strings : /\ Brings(a, s)' <=> Brings(a, s)
                                        /\ Brought(a, s)' <=> Brought(a, s)
    BY DEF Brings, Brought
  <2> QED
    BY <2>1, <2>2, <2>3, <2>4, StringsAlone DEF Sound
<1> QED
  BY <1>1, <1>2, <1>3 DEF IInv

\* A step that misuses memory in one of the ways named and changes no string.
LEMMA OnlyHarm ==
  ASSUME IInv, flags' \in [Flag -> Byte], tcp_flags_mask' \in Uint16,
         agent' \in [Agent -> Call \cup {Idle}],
         UNCHANGED <<heap, ptr, ar_open_count, writer, last>>,
         harm' # {}, HarmCauses'
  PROVE  IInv'
<1>1. Typed'
  BY DEF IInv, Typed, HeapTyped, Sized, Freed, Buffer
<1> QED
  BY <1>1 DEF IInv

LEMMA FlagStoreInv ==
  ASSUME IInv, NEW w \in Writer, NEW f \in Flag, NEW c \in Char, FlagStore(w, f, c)
  PROVE  IInv'
<1>1. (c - 48) % 256 \in Byte
  BY SettingsAssumption DEF Byte
<1>2. flags' \in [Flag -> Byte] /\ tcp_flags_mask' \in Uint16
  BY <1>1 DEF FlagStore, IInv, Typed
<1> QED
  BY <1>2, OnlySimple DEF FlagStore

\* What is read of four digits fits in 16 bits.
LEMMA MaskInv ==
  ASSUME IInv, harm = {}, NEW w \in Writer, NEW d \in Digits, NEW n \in {0, 1},
         ar_tcp_flag_mask_store(w, d, n)
  PROVE  IInv'
<1>1. d \in Seq(0..15)
  BY SettingsAssumption
<1>2. \A i \in 1..4 : (IF i =< Len(d) THEN d[i] ELSE 0) \in 0..15
  BY <1>1
<1>3. ar_wakeup_atoi(d) \in Uint16
  <2> DEFINE digit(i) == IF i =< Len(d) THEN d[i] ELSE 0
  <2>1. digit(1) \in Int /\ digit(2) \in Int /\ digit(3) \in Int /\ digit(4) \in Int
    BY <1>2
  <2>2. ar_wakeup_atoi(d) =
          ((16 * digit(1) + digit(2)) * 256 + 16 * digit(3) + digit(4)) % 2^16
    BY DEF ar_wakeup_atoi
  <2> HIDE DEF digit
  <2>3. (16 * digit(1) + digit(2)) * 256 + 16 * digit(3) + digit(4) \in Int
    BY <2>1
  <2>4. \A m \in Int : m % 2^16 \in Uint16
    BY DEF Uint16
  <2> QED
    BY <2>2, <2>3, <2>4
<1>4. /\ flags' \in [Flag -> Byte] /\ tcp_flags_mask' \in Uint16
      /\ agent \in [Agent -> Call \cup {Idle}]
      /\ UNCHANGED <<heap, ptr, ar_open_count, agent, writer, last>>
  BY <1>3 DEF ar_tcp_flag_mask_store, IInv, Typed
<1>5. CASE UNCHANGED harm
  BY <1>4, <1>5, OnlySimple
<1>6. CASE Harm("overrun", "digits")
  BY <1>4, <1>6, OnlyHarm DEF Harm, HarmCauses
<1> QED
  BY <1>5, <1>6 DEF ar_tcp_flag_mask_store

\* A copy for which there is no memory is noted as such.
LEMMA StarvedInv ==
  ASSUME IInv, harm = {}, NEW w \in Writer, StoreStarved(w)
  PROVE  IInv'
<1>1. /\ flags' \in [Flag -> Byte] /\ tcp_flags_mask' \in Uint16
      /\ agent' \in [Agent -> Call \cup {Idle}]
      /\ UNCHANGED <<heap, ptr, ar_open_count, writer, last>>
  BY DEF StoreStarved, simple, IInv, Typed
<1> QED
  BY <1>1, OnlyHarm DEF StoreStarved, Harm, HarmCauses

LEMMA StutterInv == IInv /\ UNCHANGED vars => IInv'
<1> SUFFICES ASSUME IInv, UNCHANGED vars PROVE IInv'
  OBVIOUS
<1>1. flags' \in [Flag -> Byte] /\ tcp_flags_mask' \in Uint16
  BY DEF vars, simple, IInv, Typed
<1> QED
  BY <1>1, OnlySimple DEF vars, simple

\* An agent opens the device, or goes on or ends without a string of its own:
\* the other agents are idle.
LEMMA AgentAlone ==
  ASSUME Sound, NEW a \in Agent,
         agent[a].pc \in {"idle", "ioctl", "close"},
         agent'[a].pc \in {"idle", "ioctl", "close"},
         \A b \in Agent \ {a} : agent'[b] = agent[b],
         agent[a].pc = "idle" => ar_open_count = 0,
         agent'[a].pc # "idle" => ar_open_count' = 1,
         UNCHANGED <<ptr, writer, last>>,
         \A b \in Buf : heap[b] # Freed => heap'[b] = heap[b]
  PROVE  Sound'
<1>1. Exclusive /\ Owned /\ Noted /\ Whole
  BY DEF Sound
<1>2. \A b \in Agent \ {a} : agent[b].pc = "idle"
  BY <1>1 DEF Exclusive
<1>3. Exclusive'
  BY <1>2 DEF Exclusive
<1>4. \A b \in Agent, s \in Strings :
         ~ Brings(b, s) /\ ~ Brings(b, s)' /\ ~ Brought(b, s) /\ ~ Brought(b, s)'
  BY <1>2 DEF Brings, Brought
<1>5. \A s \in Strings : ~ Swapping(s) /\ ~ Swapping(s)'
  BY <1>2 DEF Swapping
<1>6. \A s \in Strings : ptr[s] \in Buf => heap'[ptr[s]] = heap[ptr[s]]
  BY <1>1, <1>5 DEF Owned, HasBuffer, Live
<1>7. \A b \in Agent, s \in Strings : ~ Swaps(b, s)
  BY <1>4 DEF Swaps
<1> QED
  BY <1>1, <1>3, <1>4, <1>5, <1>6, <1>7, StringsAlone DEF Sound

LEMMA OpenInv ==
  ASSUME IInv, harm = {}, NEW a \in Agent, NEW cmd \in Cmd, NEW c \in Comm,
         ar_snmp_dev_open(a, cmd, c)
  PROVE  IInv'
<1> DEFINE call == [pc |-> "ioctl", cmd |-> cmd, arg |-> c, buf |-> NULL, at |-> 0]
<1>1. Typed /\ HarmCauses /\ Sound
  BY DEF IInv
<1>2. call \in Call /\ call.pc = "ioctl"
  BY DEF Call, IOCTL_LENGTH
<1>3. agent' = [agent EXCEPT ![a] = call] /\ agent[a].pc = "idle"
  BY DEF ar_snmp_dev_open
<1>4. /\ ar_open_count = 0 /\ ar_open_count' = 1
      /\ UNCHANGED <<heap, ptr, flags, tcp_flags_mask, writer, last, harm>>
  BY DEF ar_snmp_dev_open, ar_interface_open, simple
<1> HIDE DEF call
<1>5. agent \in [Agent -> Call \cup {Idle}]
  BY <1>1 DEF Typed
<1>6. /\ agent' \in [Agent -> Call \cup {Idle}] /\ agent'[a] = call
      /\ \A b \in Agent \ {a} : agent'[b] = agent[b]
  BY <1>2, <1>3, <1>5
<1>7. Typed'
  BY <1>1, <1>4, <1>6 DEF Typed, HeapTyped, Sized, Freed, Buffer
<1>8. Sound'
  BY <1>1, <1>2, <1>3, <1>4, <1>6, AgentAlone
<1> QED
  BY <1>1, <1>4, <1>7, <1>8 DEF IInv, HarmCauses

LEMMA CloseInv ==
  ASSUME IInv, harm = {}, NEW a \in Agent, ar_snmp_dev_close(a)
  PROVE  IInv'
<1>1. Typed /\ HarmCauses /\ Sound
  BY DEF IInv
<1>2. agent' = [agent EXCEPT ![a] = Idle] /\ agent[a].pc = "close" /\ Idle.pc = "idle"
  BY DEF ar_snmp_dev_close, Idle
<1>3. ar_open_count = 1
  BY <1>1, <1>2 DEF Sound, Exclusive
<1>4. /\ ar_open_count' = 0
      /\ UNCHANGED <<heap, ptr, flags, tcp_flags_mask, writer, last, harm>>
  BY <1>3 DEF ar_snmp_dev_close, simple
<1>5. agent \in [Agent -> Call \cup {Idle}]
  BY <1>1 DEF Typed
<1>6. /\ agent' \in [Agent -> Call \cup {Idle}] /\ agent'[a] = Idle
      /\ \A b \in Agent \ {a} : agent'[b] = agent[b]
  BY <1>2, <1>5
<1>7. Typed'
  BY <1>1, <1>4, <1>6 DEF Typed, HeapTyped, Sized, Freed, Buffer
<1>8. Sound'
  BY <1>1, <1>2, <1>4, <1>6, AgentAlone
<1> QED
  BY <1>1, <1>4, <1>7, <1>8 DEF IInv, HarmCauses

\* The ioctl does nothing, or keeps a buffer it has no use for.
LEMMA IoctlNothingInv ==
  ASSUME IInv, harm = {}, NEW a \in Agent, IoctlNothing(a) \/ IoctlFault(a)
  PROVE  IInv'
<1>1. Typed /\ HarmCauses /\ Sound
  BY DEF IInv
<1>2. agent[a].pc = "ioctl" /\ GoTo(a, "close")
  BY DEF IoctlNothing, IoctlFault
<1>3. UNCHANGED <<ptr, flags, tcp_flags_mask, ar_open_count, writer, last, harm>>
  BY DEF IoctlNothing, IoctlFault, simple
<1>4. /\ agent' \in [Agent -> Call \cup {Idle}] /\ agent'[a].pc = "close"
      /\ \A b \in Agent \ {a} : agent'[b] = agent[b]
  BY <1>1, <1>2, GoesOn
<1>5. agent[a] \in Call
  BY <1>1, <1>2, InProgress
<1>6. HeapTyped' /\ \A b \in Buf : heap[b] # Freed => heap'[b] = heap[b]
  <2>1. CASE IoctlNothing(a)
    BY <2>1, <1>1 DEF IoctlNothing, Typed, HeapTyped, Sized, Freed, Buffer
  <2>2. CASE IoctlFault(a)
    <3> DEFINE new == IoctlBuffer(agent[a].cmd, agent[a].arg)
    <3>1. PICK k \in Buf : heap[k] = Freed /\ heap' = [heap EXCEPT ![k] = new]
      BY <2>2 DEF IoctlFault, kzalloc
    <3>2. agent[a].arg \in Comm
      BY <1>5 DEF Call
    <3>3. new \in BufferType /\ Sized(new)
      BY <3>2, IoctlBuffers
    <3>4. HeapTyped
      BY <1>1 DEF Typed
    <3> HIDE DEF new
    <3> QED
      BY <3>1, <3>3, <3>4, HeapUpdate
  <2> QED
    BY <2>1, <2>2
<1>7. Typed'
  BY <1>1, <1>3, <1>4, <1>6 DEF Typed
<1>8. ar_open_count = 1
  BY <1>1, <1>2 DEF Sound, Exclusive
<1>9. Sound'
  BY <1>1, <1>2, <1>3, <1>4, <1>6, <1>8, AgentAlone
<1> QED
  BY <1>1, <1>3, <1>7, <1>9 DEF IInv, HarmCauses

\* A buffer freed twice is noted as the GETALL ioctl's.
LEMMA IoctlGetallInv ==
  ASSUME IInv, harm = {}, NEW a \in Agent, NEW c \in Char, IoctlGetall(a, c)
  PROVE  IInv'
<1>1. Typed
  BY DEF IInv
<1>2. (c - 48) % 256 \in Byte
  BY SettingsAssumption DEF Byte
<1>3. flags' \in [Flag -> Byte] /\ tcp_flags_mask' \in Uint16
  BY <1>1, <1>2 DEF IoctlGetall, Typed
<1>4. agent[a].pc = "ioctl" /\ GoTo(a, "close")
  BY DEF IoctlGetall
<1>5. agent' \in [Agent -> Call \cup {Idle}]
  BY <1>1, <1>4, GoesOn
<1> QED
  BY <1>3, <1>5, OnlyHarm DEF IoctlGetall, Harm, HarmCauses

\* A deep sleep event finds a string that is not there only while the agent
\* swaps it.
LEMMA HandOffInv ==
  ASSUME IInv, harm = {}, HandOff
  PROVE  IInv'
<1>1. Typed /\ HarmCauses /\ Sound
  BY DEF IInv
<1>2. \A s \in Strings : ~ Live(ptr[s]) => Swapping(s)
  BY <1>1 DEF Sound, Owned, HasBuffer
<1>3. HarmCauses'
  BY <1>2 DEF HandOff, HarmCauses
<1>4. UNCHANGED <<heap, ptr, flags, tcp_flags_mask, ar_open_count, agent, writer, last>>
  BY DEF HandOff, simple
<1>5. /\ flags' \in [Flag -> Byte] /\ tcp_flags_mask' \in Uint16
      /\ agent' \in [Agent -> Call \cup {Idle}]
  BY <1>1, <1>4 DEF Typed
<1>6. CASE harm' = harm
  BY <1>4, <1>5, <1>6, OnlySimple
<1>7. CASE harm' # harm
  BY <1>3, <1>4, <1>5, <1>7, OnlyHarm
<1> QED
  BY <1>6, <1>7

-----------------------------------------------------------------------------
(* The stores                                                              *)

LEMMA StartStoreInv ==
  ASSUME IInv, harm = {}, NEW w \in Writer, NEW s \in Strings, NEW t \in Text,
         StartStore(w, s, t)
  PROVE  IInv'
<1> DEFINE store == [pc |-> "type", s |-> s, t |-> t]
<1>1. Typed /\ HarmCauses /\ Exclusive /\ Owned /\ Noted /\ Whole
  BY DEF IInv, Sound
<1>2. /\ writer' = [writer EXCEPT ![w] = store]
      /\ writer[w].pc = "idle" /\ Fits(t) /\ Begin(s)
      /\ UNCHANGED <<heap, ptr, flags, tcp_flags_mask, ar_open_count, agent, harm>>
  BY DEF StartStore, simple
<1>3. store \in Store /\ store.pc = "type" /\ store.s = s /\ store.t = t
  BY DEF Store
<1> HIDE DEF store
<1>4. writer \in [Writer -> Store \cup {Idle}]
  BY <1>1 DEF Typed
<1>5. /\ writer' \in [Writer -> Store \cup {Idle}] /\ writer'[w] = store
      /\ \A v \in Writer \ {w} : writer'[v] = writer[v]
  BY <1>2, <1>3, <1>4
<1>6. /\ last' \in [Strings -> Text \cup Comm \cup {"default", "pending", "raced"}]
      /\ last'[s] = IF Busy(s) THEN "raced" ELSE "pending"
      /\ \A u \in Strings \ {s} : last'[u] = last[u]
  BY <1>1, <1>2, BeginEffect
<1>7. Typed'
  BY <1>1, <1>2, <1>5, <1>6 DEF Typed, HeapTyped, Sized, Freed, Buffer
<1>8. HarmCauses'
  BY <1>1, <1>2 DEF HarmCauses
<1>9. \A a \in Agent, u \in Strings : /\ Brings(a, u)' <=> Brings(a, u)
                                      /\ Brought(a, u)' <=> Brought(a, u)
                                      /\ Swaps(a, u)' <=> Swaps(a, u)
  BY <1>2 DEF Swaps, Brings, Brought
<1>10. Exclusive' /\ Owned'
  <2>1. \A u \in Strings : Swapping(u)' <=> Swapping(u)
    BY <1>2 DEF Swapping
  <2>2. \A u \in Strings : HasBuffer(u)'
    BY <1>1, <1>2, <2>1, BufferKept DEF Owned
  <2>3. \A a \in Agent : Carries(a)'
    BY <1>1, <1>2, <1>9 DEF Owned, Carries, Live, Freed, Buffer, CommBuffer
  <2> QED
    BY <1>1, <1>2, <2>2, <2>3 DEF Exclusive, Owned
<1>11. \A v \in Writer, u \in Strings :
          Writes(v, u)' <=> Writes(v, u) \/ (v = w /\ u = s)
  BY <1>2, <1>3, <1>5 DEF Writes
<1>12. \A v \in Writer, u \in Strings : Writes(v, u) => writer'[v] = writer[v]
  BY <1>2, <1>5 DEF Writes
<1>13. last'[s] = "raced" \/
          ( /\ last'[s] = "pending"
            /\ \A v \in Writer : ~ Writes(v, s)
            /\ \A a \in Agent : ~ Swaps(a, s) )
  BY <1>6, BusyMeans
<1>14. Noted'
  <2>1. \A v \in Writer : writer'[v].pc # "idle" => Fits(writer'[v].t)
    BY <1>1, <1>2, <1>3, <1>5 DEF Noted
  <2>2. NotedOn(s)'
    BY <1>9, <1>11, <1>13 DEF NotedOn
  <2>3. \A u \in Strings \ {s} : NotedOn(u)'
    BY <1>1, <1>6, <1>9, <1>11, NotedKept DEF Noted
  <2> QED
    BY <2>1, <2>2, <2>3 DEF Noted, Fits, len
<1>15. Whole'
  <2>1. WholeOn(s)'
    <3>1. last'[s] = "pending" => \A v \in Writer : Writes(v, s)' =>
              writer'[v].pc = "type"
      BY <1>3, <1>5, <1>11, <1>13
    <3>2. last'[s] = "pending" => \A a \in Agent : ~ Brought(a, s)'
      BY <1>9, <1>13 DEF Swaps
    <3> QED
      BY <1>13, <3>1, <3>2 DEF WholeOn, HoldsStore
  <2>2. ASSUME NEW u \in Strings \ {s} PROVE WholeOn(u)'
    BY <1>1, <1>2, <1>6, <1>9, <1>11, <1>12, WholeKept DEF Owned, Noted, Whole
  <2> QED
    BY <2>1, <2>2 DEF Whole
<1> QED
  BY <1>7, <1>8, <1>10, <1>14, <1>15 DEF IInv, Sound

\* An access of a store is made to a live buffer and within it, or the
\* misuse has one of the causes named.
LEMMA StoreAccess ==
  ASSUME IInv, harm = {}, NEW w \in Writer, NEW s \in Strings, Writes(w, s),
         NEW n \in Int, n =< AR_SNMP_MAX_COMM_LENGTH, NEW new, Access(s, n, new)
  PROVE  \/ /\ Live(ptr[s]) /\ n =< Found(s).size
            /\ heap' = [heap EXCEPT ![ptr[s]] = new]
            /\ harm' = {}
         \/ heap' = heap /\ harm' # {} /\ HarmCauses'
<1>1. HarmCauses /\ Owned /\ Noted
  BY DEF IInv, Sound
<1>2. CASE /\ Live(ptr[s]) /\ n =< Found(s).size
           /\ heap' = [heap EXCEPT ![ptr[s]] = new]
           /\ harm' = harm
  BY <1>2
<1>3. CASE /\ Live(ptr[s]) /\ ~ n =< Found(s).size
           /\ heap' = heap
           /\ harm' = harm \cup {<<"overrun", IF Found(s).size = IOCTL_LENGTH
                                              THEN "ioctl" ELSE "init">>}
  <2>1. Found(s).size \in {IOCTL_LENGTH, AR_SNMP_MAX_COMM_LENGTH}
    BY <1>1, <1>3 DEF Owned, HasBuffer, Found
  <2>2. Found(s).size = IOCTL_LENGTH
    BY <2>1, <1>3
  <2> QED
    BY <2>2, <1>3 DEF HarmCauses
<1>4. CASE /\ ~ Live(ptr[s])
           /\ heap' = heap
           /\ harm' = harm \cup {<<"wild", IF last[s] = "raced"
                                           THEN "raced" ELSE "alone">>}
  <2>1. last[s] = "raced"
    BY <1>1, <1>4, QuietLive DEF Owned, Noted
  <2> QED
    BY <2>1, <1>4 DEF HarmCauses
<1> QED
  BY <1>2, <1>3, <1>4, AccessEffect

\* A write in place goes to the buffer of its string and no other.
LEMMA WriteInPlace ==
  ASSUME Typed, Owned, NEW s \in Strings, Live(ptr[s]),
         NEW new \in BufferType, Sized(new), new.size = Found(s).size,
         heap' = [heap EXCEPT ![ptr[s]] = new], UNCHANGED ptr
  PROVE  /\ HeapTyped'
         /\ Found(s)' = new
         /\ \A u \in Strings \ {s} : ptr[u] \in Buf => heap'[ptr[u]] = heap[ptr[u]]
         /\ \A u \in Strings : Live(ptr[u])' <=> Live(ptr[u])
         /\ \A u \in Strings : Live(ptr[u]) => heap'[ptr[u]].size = heap[ptr[u]].size
         /\ \A b \in Buf : b # ptr[s] => heap'[b] = heap[b]
<1>1. ptr[s] \in Buf /\ heap[ptr[s]].size # 0 /\ Found(s) = heap[ptr[s]]
  BY LiveBuffer DEF Found
<1>2. HeapTyped
  BY DEF Typed
<1>3. /\ HeapTyped' /\ heap'[ptr[s]] = new
      /\ \A d \in Buf \ {ptr[s]} : heap'[d] = heap[d]
  BY <1>1, <1>2, HeapUpdate
<1>4. \A u \in Strings \ {s} : ptr[u] # ptr[s]
  BY DEF Owned, Strings
<1>5. \A u \in Strings \ {s} : ptr[u] \in Buf => heap'[ptr[u]] = heap[ptr[u]]
  BY <1>3, <1>4
<1>6. new # Freed
  BY <1>1, FreedBuffer
<1>7. \A u \in Strings : Live(ptr[u])' <=> Live(ptr[u])
  BY <1>1, <1>3, <1>5, <1>6 DEF Live
<1>8. \A u \in Strings : Live(ptr[u]) => heap'[ptr[u]].size = heap[ptr[u]].size
  BY <1>1, <1>3, <1>5 DEF Live
<1>9. Found(s)' = new
  BY <1>3 DEF Found
<1> QED
  BY <1>3, <1>5, <1>7, <1>8, <1>9

\* ... so that strings and agents keep their buffers.
LEMMA OwnedInPlace ==
  ASSUME Typed, Owned, NEW s \in Strings, Live(ptr[s]),
         NEW new \in BufferType, Sized(new), new.size = Found(s).size,
         heap' = [heap EXCEPT ![ptr[s]] = new], UNCHANGED <<ptr, agent>>
  PROVE  Owned'
<1>1. /\ \A u \in Strings : Live(ptr[u])' <=> Live(ptr[u])
      /\ \A u \in Strings : Live(ptr[u]) => heap'[ptr[u]].size = heap[ptr[u]].size
      /\ \A b \in Buf : b # ptr[s] => heap'[b] = heap[b]
  BY WriteInPlace
<1>2. \A u \in Strings : Swapping(u)' <=> Swapping(u)
  BY DEF Swapping
<1>3. \A a \in Agent, u \in Strings : /\ Brings(a, u)' <=> Brings(a, u)
                                      /\ Brought(a, u)' <=> Brought(a, u)
  BY DEF Brings, Brought
<1>4. \A u \in Strings : HasBuffer(u)'
  BY <1>1, <1>2 DEF Owned, HasBuffer
<1>5. \A a \in Agent : Carries(a)'
  BY <1>1, <1>3 DEF Owned, Carries, CommBuffer, Buffer
<1> QED
  BY <1>4, <1>5 DEF Owned

\* An access of a store that is not its last: the writer goes on to step l,
\* and if it is alone on its string, finds there what it has written.
LEMMA StoreGoesOn ==
  ASSUME IInv, harm = {}, NEW w \in Writer, writer[w] \in Store,
         NEW s \in Strings, NEW t \in Text, writer[w].s = s, writer[w].t = t,
         NEW l \in {"length", "text", "end"},
         writer' = [writer EXCEPT ![w].pc = l],
         NEW n \in Int, n =< AR_SNMP_MAX_COMM_LENGTH, NEW new, Access(s, n, new),
         UNCHANGED <<ptr, flags, tcp_flags_mask, ar_open_count, agent, last>>,
         Live(ptr[s]) /\ n =< Found(s).size =>
            new \in BufferType /\ Sized(new) /\ new.size = Found(s).size,
         Live(ptr[s]) /\ last[s] = "pending" =>
            /\ l \in {"text", "end"} => new.head = len(t)
            /\ l = "end" => new.of = t /\ new.chars = len(t)
  PROVE  IInv'
<1>1. Typed /\ HarmCauses /\ Exclusive /\ Owned /\ Noted /\ Whole
  BY DEF IInv, Sound
<1>2. /\ [writer[w] EXCEPT !.pc = l] \in Store
      /\ [writer[w] EXCEPT !.pc = l].pc = l
      /\ [writer[w] EXCEPT !.pc = l].s = s
      /\ [writer[w] EXCEPT !.pc = l].t = t
  BY DEF Store
<1>3. writer \in [Writer -> Store \cup {Idle}]
  BY <1>1 DEF Typed
<1>4. /\ writer' \in [Writer -> Store \cup {Idle}]
      /\ writer'[w].pc = l /\ writer'[w].s = s /\ writer'[w].t = t
      /\ \A v \in Writer \ {w} : writer'[v] = writer[v]
  BY <1>2, <1>3
<1>5. Writes(w, s) /\ writer[w].pc # "idle"
  BY DEF Writes, Store
<1>6. \/ /\ Live(ptr[s]) /\ n =< Found(s).size
         /\ heap' = [heap EXCEPT ![ptr[s]] = new] /\ harm' = {}
      \/ heap' = heap /\ harm' # {} /\ HarmCauses'
  BY <1>5, StoreAccess
<1>7. CASE heap' = heap /\ harm' # {} /\ HarmCauses'
  <2>1. Typed'
    BY <1>1, <1>4, <1>7 DEF Typed, HeapTyped, Sized, Freed, Buffer
  <2> QED
    BY <2>1, <1>7 DEF IInv
<1>8. CASE /\ Live(ptr[s]) /\ n =< Found(s).size
           /\ heap' = [heap EXCEPT ![ptr[s]] = new] /\ harm' = {}
  <2>1. new \in BufferType /\ Sized(new) /\ new.size = Found(s).size
    BY <1>8
  <2>2. /\ HeapTyped' /\ Found(s)' = new
        /\ \A u \in Strings \ {s} : ptr[u] \in Buf => heap'[ptr[u]] = heap[ptr[u]]
    BY <1>1, <1>8, <2>1, WriteInPlace
  <2>3. Owned'
    BY <1>1, <1>8, <2>1, OwnedInPlace
  <2>4. Typed' /\ Exclusive'
    BY <1>1, <1>4, <2>2 DEF Typed, Exclusive
  <2>5. \A v \in Writer, u \in Strings : Writes(v, u)' <=> Writes(v, u)
    BY <1>4, <1>5 DEF Writes
  <2>6. \A a \in Agent, u \in Strings : /\ Swaps(a, u)' <=> Swaps(a, u)
                                        /\ Brought(a, u)' <=> Brought(a, u)
    BY DEF Swaps, Brings, Brought
  <2>7. Noted'
    <3>1. \A v \in Writer : writer'[v].pc # "idle" => Fits(writer'[v].t)
      BY <1>1, <1>4, <1>5 DEF Noted
    <3>2. \A u \in Strings : NotedOn(u)'
      BY <1>1, <2>5, <2>6, NotedKept DEF Noted
    <3> QED
      BY <3>1, <3>2 DEF Noted, Fits, len
  <2>8. WholeOn(s)'
    <3>1. last[s] \in {"pending", "raced"}
      BY <1>1, <1>5 DEF Noted, NotedOn
    <3>2. ASSUME last[s] = "pending"
          PROVE  /\ \A v \in Writer : Writes(v, s)' => v = w
                 /\ \A a \in Agent : ~ Brought(a, s)'
      BY <1>1, <1>5, <2>5, <2>6, <3>2 DEF Noted, NotedOn, Swaps
    <3>3. last[s] = "pending" => HoldsStore(Found(s)', writer'[w])
      BY <1>4, <1>8, <2>2 DEF HoldsStore
    <3> QED
      BY <3>1, <3>2, <3>3 DEF WholeOn, HoldsStore, len
  <2>9. ASSUME NEW u \in Strings \ {s} PROVE WholeOn(u)'
    <3>1. \A v \in Writer : Writes(v, u) => writer'[v] = writer[v]
      BY <1>4 DEF Writes
    <3> QED
      BY <1>1, <2>2, <2>5, <2>6, <3>1, WholeKept DEF Owned, Noted, Whole
  <2> QED
    BY <1>1, <1>8, <2>3, <2>4, <2>7, <2>8, <2>9 DEF IInv, Sound, Whole, HarmCauses
<1> QED
  BY <1>6, <1>7, <1>8

LEMMA StoreTypeInv ==
  ASSUME IInv, harm = {}, NEW w \in Writer, StoreType(w)
  PROVE  IInv'
<1>1. Typed /\ writer[w] \in Store
  BY InProgress DEF IInv, StoreType
<1>2. PICK s \in Strings, t \in Text : writer[w].s = s /\ writer[w].t = t
  BY <1>1 DEF Store
<1> DEFINE new == [Found(s) EXCEPT !.zeros = Found(s).zeros \ {0}]
<1>3. /\ Access(s, 1, new) /\ writer' = [writer EXCEPT ![w].pc = "length"]
      /\ UNCHANGED <<ptr, flags, tcp_flags_mask, ar_open_count, agent, last>>
  BY <1>2 DEF StoreType, simple
<1>4. ASSUME Live(ptr[s])
      PROVE  new \in BufferType /\ Sized(new) /\ new.size = Found(s).size
  <2>1. /\ Found(s) \in BufferType /\ Sized(Found(s))
        /\ Found(s).size # 0 /\ Found(s).of # "freed"
    BY <1>1, <1>4, LiveBuffer DEF Found
  <2>2. /\ new \in BufferType /\ new.size = Found(s).size /\ new.of = Found(s).of
        /\ new.zeros = Found(s).zeros \ {0}
    BY <2>1 DEF BufferType
  <2> QED
    BY <2>1, <2>2 DEF Sized
<1>5. 1 \in Int /\ 1 =< AR_SNMP_MAX_COMM_LENGTH
  BY DEF AR_SNMP_MAX_COMM_LENGTH
<1> HIDE DEF new
<1> QED
  BY <1>1, <1>2, <1>3, <1>4, <1>5, StoreGoesOn

LEMMA StoreLengthInv ==
  ASSUME IInv, harm = {}, NEW w \in Writer, StoreLength(w)
  PROVE  IInv'
<1>1. Typed /\ writer[w] \in Store
  BY InProgress DEF IInv, StoreLength
<1>2. PICK s \in Strings, t \in Text : writer[w].s = s /\ writer[w].t = t
  BY <1>1 DEF Store
<1> DEFINE zero == IF len(t) = 0 THEN {1} ELSE {}
           new == [Found(s) EXCEPT !.head = len(t),
                                   !.zeros = (Found(s).zeros \ {1}) \cup zero]
<1>3. /\ Access(s, 2, new) /\ writer' = [writer EXCEPT ![w].pc = "text"]
      /\ UNCHANGED <<ptr, flags, tcp_flags_mask, ar_open_count, agent, last>>
  BY <1>2 DEF StoreLength, simple
<1>4. ASSUME Live(ptr[s])
      PROVE  /\ 2 =< Found(s).size =>
                    new \in BufferType /\ Sized(new) /\ new.size = Found(s).size
             /\ new.head = len(t)
  <2>1. /\ Found(s) \in BufferType /\ Sized(Found(s))
        /\ Found(s).size # 0 /\ Found(s).of # "freed"
    BY <1>1, <1>4, LiveBuffer DEF Found
  <2>2. len(t) \in Byte /\ zero \subseteq {1}
    BY LenIsByte
  <2> HIDE DEF zero
  <2>3. (Found(s).zeros \ {1}) \cup zero \in SUBSET Nat
    <3>1. Found(s).zeros \in SUBSET Nat
      BY <2>1 DEF BufferType
    <3>2. zero \subseteq Nat
      BY <2>2
    <3> QED
      BY <3>1, <3>2
  <2>4. /\ new \in BufferType /\ new.size = Found(s).size /\ new.of = Found(s).of
        /\ new.head = len(t)
        /\ new.zeros = (Found(s).zeros \ {1}) \cup zero
    BY <2>1, <2>2, <2>3 DEF BufferType
  <2>5. ASSUME 2 =< Found(s).size, NEW z \in new.zeros PROVE z < Found(s).size
    <3>1. Found(s).size \in Nat
      BY <2>1 DEF BufferType, IOCTL_LENGTH, AR_SNMP_MAX_COMM_LENGTH
    <3>2. z = 1 \/ z \in Found(s).zeros
      BY <2>2, <2>4, <2>5
    <3> QED
      BY <2>1, <2>5, <3>1, <3>2 DEF Sized
  <2> QED
    BY <2>1, <2>4, <2>5 DEF Sized
<1>5. 2 \in Int /\ 2 =< AR_SNMP_MAX_COMM_LENGTH
  BY DEF AR_SNMP_MAX_COMM_LENGTH
<1> HIDE DEF new
<1> QED
  BY <1>1, <1>2, <1>3, <1>4, <1>5, StoreGoesOn

\* The reach of a store, by the test it has passed.
LEMMA StoreReach ==
  ASSUME Noted, NEW w \in Writer, writer[w].pc # "idle", NEW t \in Text,
         writer[w].t = t
  PROVE  len(t) \in Nat /\ len(t) + 3 =< AR_SNMP_MAX_COMM_LENGTH /\ Fits(t)
<1>1. Fits(t) /\ len(t) \in Byte
  BY LenIsByte DEF Noted
<1> QED
  BY <1>1 DEF Fits, AR_SNMP_MAX_COMM_LENGTH, Byte

LEMMA StoreTextInv ==
  ASSUME IInv, harm = {}, NEW w \in Writer, StoreText(w)
  PROVE  IInv'
<1>1. /\ Typed /\ Noted /\ Whole
      /\ writer[w] \in Store /\ writer[w].pc = "text"
  BY InProgress DEF IInv, Sound, StoreText
<1>2. PICK s \in Strings, t \in Text : writer[w].s = s /\ writer[w].t = t
  BY <1>1 DEF Store
<1> DEFINE kept == Found(s).zeros \ (2..(len(t) + 1))
           new == [Found(s) EXCEPT !.of = t, !.chars = len(t), !.zeros = kept]
<1>3. /\ Access(s, len(t) + 2, new) /\ writer' = [writer EXCEPT ![w].pc = "end"]
      /\ UNCHANGED <<ptr, flags, tcp_flags_mask, ar_open_count, agent, last>>
  BY <1>2 DEF StoreText, simple
<1>4. len(t) + 2 \in Int /\ len(t) + 2 =< AR_SNMP_MAX_COMM_LENGTH
  BY <1>1, <1>2, StoreReach DEF AR_SNMP_MAX_COMM_LENGTH
<1>5. ASSUME Live(ptr[s])
      PROVE  /\ new \in BufferType /\ Sized(new) /\ new.size = Found(s).size
             /\ new.of = t /\ new.chars = len(t) /\ new.head = Found(s).head
  <2>1. /\ Found(s) \in BufferType /\ Sized(Found(s))
        /\ Found(s).size # 0 /\ Found(s).of # "freed"
    BY <1>1, <1>5, LiveBuffer DEF Found
  <2>2. len(t) \in Byte /\ t # "freed"
    BY LenIsByte, SettingsAssumption
  <2>3. kept \subseteq Found(s).zeros
    OBVIOUS
  <2> HIDE DEF kept
  <2>4. /\ new \in BufferType /\ new.size = Found(s).size /\ new.of = t
        /\ new.chars = len(t) /\ new.head = Found(s).head /\ new.zeros = kept
    BY <2>1, <2>2, <2>3 DEF BufferType
  <2> QED
    BY <2>1, <2>2, <2>3, <2>4 DEF Sized
<1>6. last[s] = "pending" => Found(s).head = len(t)
  BY <1>1, <1>2 DEF Whole, WholeOn, HoldsStore, Writes
<1> HIDE DEF new
<1> QED
  BY <1>1, <1>2, <1>3, <1>4, <1>5, <1>6, StoreGoesOn

\* The terminator ends the store.
LEMMA StoreEndInv ==
  ASSUME IInv, harm = {}, NEW w \in Writer, StoreEnd(w)
  PROVE  IInv'
<1>1. Typed /\ HarmCauses /\ Exclusive /\ Owned /\ Noted /\ Whole
  BY DEF IInv, Sound
<1>2. writer[w].pc = "end" /\ writer[w] \in Store
  BY <1>1, InProgress DEF StoreEnd
<1>3. PICK s \in Strings, t \in Text : writer[w].s = s /\ writer[w].t = t
  BY <1>2 DEF Store
<1> DEFINE new == WithNul(Found(s), len(t) + 2)
<1>4. /\ Access(s, len(t) + 3, new)
      /\ writer' = [writer EXCEPT ![w] = Idle]
      /\ End(s, t)
      /\ UNCHANGED <<ptr, flags, tcp_flags_mask, ar_open_count, agent>>
  BY <1>3 DEF StoreEnd, simple
<1>5. writer \in [Writer -> Store \cup {Idle}] /\ Idle.pc = "idle"
  BY <1>1 DEF Typed, Idle
<1>6. /\ writer' \in [Writer -> Store \cup {Idle}]
      /\ writer'[w].pc = "idle"
      /\ \A v \in Writer \ {w} : writer'[v] = writer[v]
  BY <1>4, <1>5
<1>7. len(t) \in Nat /\ len(t) + 3 =< AR_SNMP_MAX_COMM_LENGTH /\ Fits(t)
  BY <1>1, <1>2, <1>3, StoreReach
<1>8. /\ last' \in [Strings -> Text \cup Comm \cup {"default", "pending", "raced"}]
      /\ last'[s] = IF last[s] = "raced" THEN "raced" ELSE t
      /\ t \notin {"default", "pending", "raced"}
      /\ \A u \in Strings \ {s} : last'[u] = last[u]
  BY <1>1, <1>4, EndEffect
<1>9. Writes(w, s)
  BY <1>2, <1>3 DEF Writes
<1>10. \/ /\ Live(ptr[s]) /\ len(t) + 3 =< Found(s).size
          /\ heap' = [heap EXCEPT ![ptr[s]] = new] /\ harm' = {}
       \/ heap' = heap /\ harm' # {} /\ HarmCauses'
  <2> HIDE DEF new
  <2> QED
    BY <1>4, <1>7, <1>9, StoreAccess
<1>11. CASE heap' = heap /\ harm' # {} /\ HarmCauses'
  <2>1. Typed'
    BY <1>1, <1>4, <1>6, <1>8, <1>11 DEF Typed, HeapTyped, Sized, Freed, Buffer
  <2> QED
    BY <2>1, <1>11 DEF IInv
<1>12. CASE /\ Live(ptr[s]) /\ len(t) + 3 =< Found(s).size
            /\ heap' = [heap EXCEPT ![ptr[s]] = new] /\ harm' = {}
  <2>1. /\ Found(s) \in BufferType /\ Sized(Found(s)) /\ Found(s).size # 0
    BY <1>1, <1>12, LiveBuffer DEF Found
  <2>2. Found(s).size \in Nat
    BY <2>1 DEF BufferType, IOCTL_LENGTH, AR_SNMP_MAX_COMM_LENGTH
  <2>3. /\ new \in BufferType /\ Sized(new) /\ new.size = Found(s).size
        /\ new.of = Found(s).of /\ new.chars = Found(s).chars
        /\ new.head = Found(s).head /\ len(t) + 2 \in new.zeros
    <3>1. len(t) + 2 \in Nat /\ len(t) + 2 < Found(s).size /\ len(t) + 2 # 1
      BY <1>7, <1>12, <2>2
    <3> QED
      BY <2>1, <3>1, NulWritten
  <2>4. last[s] = "pending" =>
          Found(s).head = len(t) /\ Found(s).of = t /\ Found(s).chars = len(t)
    BY <1>1, <1>2, <1>3, <1>9 DEF Whole, WholeOn, HoldsStore
  <2> HIDE DEF new
  <2>5. /\ HeapTyped' /\ Found(s)' = new
        /\ \A u \in Strings \ {s} : ptr[u] \in Buf => heap'[ptr[u]] = heap[ptr[u]]
    BY <1>1, <1>4, <1>12, <2>3, WriteInPlace
  <2>6. Owned'
    BY <1>1, <1>4, <1>12, <2>3, OwnedInPlace
  <2>7. Typed' /\ Exclusive'
    BY <1>1, <1>4, <1>6, <1>8, <2>5 DEF Typed, Exclusive
  <2>8. \A v \in Writer, u \in Strings : Writes(v, u)' <=> Writes(v, u) /\ v # w
    BY <1>6 DEF Writes
  <2>9. \A a \in Agent, u \in Strings : /\ Swaps(a, u)' <=> Swaps(a, u)
                                        /\ Brought(a, u)' <=> Brought(a, u)
    BY <1>4 DEF Swaps, Brings, Brought
  <2>10. NotedOn(s) /\ last[s] \in {"pending", "raced"}
    BY <1>1, <1>9 DEF Noted, NotedOn
  <2>11. NotedOn(s)'
    <3>1. CASE last[s] = "raced"
      BY <1>8, <3>1 DEF NotedOn
    <3>2. CASE last[s] # "raced"
      <4>1. \A v \in Writer : ~ Writes(v, s)'
        BY <1>9, <2>8, <2>10, <3>2 DEF NotedOn
      <4>2. \A a \in Agent : ~ Swaps(a, s)'
        BY <1>9, <2>9, <2>10, <3>2 DEF NotedOn
      <4>3. last'[s] # "pending"
        BY <1>8, <3>2
      <4> QED
        BY <4>1, <4>2, <4>3 DEF NotedOn
    <3> QED
      BY <3>1, <3>2
  <2>12. \A v \in Writer, u \in Strings \ {s} :
            /\ Writes(v, u)' <=> Writes(v, u)
            /\ Writes(v, u) => writer'[v] = writer[v]
    BY <1>3, <1>6, <2>8 DEF Writes
  <2>13. Noted'
    <3>1. \A v \in Writer : writer'[v].pc # "idle" => Fits(writer'[v].t)
      BY <1>1, <1>6 DEF Noted
    <3>2. \A u \in Strings \ {s} : NotedOn(u)'
      BY <1>1, <1>8, <2>9, <2>12, NotedKept DEF Noted
    <3> QED
      BY <2>11, <3>1, <3>2 DEF Noted, Fits, len
  <2>14. WholeOn(s)'
    <3>1. CASE last[s] = "raced"
      BY <1>8, <3>1 DEF WholeOn
    <3>2. CASE last[s] = "pending"
      <4>1. last'[s] = t /\ t \notin Comm
        BY <1>8, <3>2, SettingsAssumption
      <4>2. strlen[t] =< 256 => len(t) = strlen[t] - 1
        BY <1>7, LenExact
      <4>3. HoldsAll(Found(s)', t)
        BY <2>3, <2>4, <2>5, <3>2, <4>1, <4>2 DEF HoldsAll
      <4> QED
        BY <1>8, <4>1, <4>3 DEF WholeOn, HoldsAll
    <3> QED
      BY <2>10, <3>1, <3>2
  <2>15. ASSUME NEW u \in Strings \ {s} PROVE WholeOn(u)'
    BY <1>1, <1>4, <1>8, <2>5, <2>9, <2>12, WholeKept DEF Owned, Noted, Whole
  <2> QED
    BY <1>1, <1>12, <2>6, <2>7, <2>13, <2>14, <2>15 DEF IInv, Sound, Whole, HarmCauses
<1> QED
  BY <1>10, <1>11, <1>12

-----------------------------------------------------------------------------
(* The ioctl                                                               *)

\* While one agent uses the device the others do not, so only the string it
\* has freed may be missing.
LEMMA OneAgent ==
  ASSUME Exclusive, Owned, NEW a \in Agent, agent[a].pc # "idle"
  PROVE  /\ \A b \in Agent \ {a} : agent[b].pc = "idle"
         /\ \A b \in Agent \ {a}, u \in Strings : ~ Brings(b, u) /\ ~ Brought(b, u)
         /\ \A u \in Strings :
               \/ agent[a].pc \in {"clear", "install"} /\ agent[a].cmd = u
               \/ ~ Swapping(u) /\ Live(ptr[u])
<1>1. \A b \in Agent \ {a} : agent[b].pc = "idle"
  BY DEF Exclusive
<1>2. \A b \in Agent \ {a}, u \in Strings : ~ Brings(b, u) /\ ~ Brought(b, u)
  BY <1>1 DEF Brings, Brought
<1>3. \A u \in Strings :
         Swapping(u) => agent[a].pc \in {"clear", "install"} /\ agent[a].cmd = u
  BY <1>1 DEF Swapping
<1> QED
  BY <1>1, <1>2, <1>3 DEF Owned, HasBuffer

\* An agent that goes on changing its string leaves the other string and the
\* history alone.
LEMMA SwapGoesOn ==
  ASSUME Sound, NEW a \in Agent, NEW s \in Strings, Swaps(a, s), Swaps(a, s)',
         \A b \in Agent \ {a} : agent'[b] = agent[b],
         UNCHANGED <<ar_open_count, writer, last>>,
         \A u \in Strings \ {s} :
            ptr'[u] = ptr[u] /\ (ptr[u] \in Buf => heap'[ptr[u]] = heap[ptr[u]]),
         Brought(a, s)' /\ last[s] = "pending" => HoldsCall(Found(s)', agent'[a])
  PROVE  Exclusive' /\ Noted' /\ Whole'
<1>1. Exclusive /\ Owned /\ Noted /\ Whole
  BY DEF Sound
<1>2. agent[a].pc # "idle" /\ agent'[a].pc # "idle" /\ agent[a].cmd = s /\ agent'[a].cmd = s
  BY DEF Swaps, Brings, Brought
<1>3. /\ \A b \in Agent \ {a} : agent[b].pc = "idle"
      /\ \A b \in Agent \ {a}, u \in Strings : ~ Brings(b, u) /\ ~ Brought(b, u)
  BY <1>1, <1>2, OneAgent
<1>4. Exclusive'
  BY <1>1, <1>2, <1>3 DEF Exclusive
<1>5. \A b \in Agent, u \in Strings : Swaps(b, u)' <=> Swaps(b, u)
  <2>1. \A u \in Strings : Swaps(a, u)' <=> Swaps(a, u)
    BY <1>2 DEF Swaps, Brings, Brought
  <2>2. \A b \in Agent \ {a}, u \in Strings : Swaps(b, u)' <=> Swaps(b, u)
    BY DEF Swaps, Brings, Brought
  <2> QED
    BY <2>1, <2>2
<1>6. \A b \in Agent, u \in Strings : Brought(b, u)' => b = a /\ u = s
  BY <1>2, <1>3 DEF Brought
<1>7. \A b \in Agent, u \in Strings \ {s} : ~ Brought(b, u)
  BY <1>2, <1>3 DEF Brought
<1>8. \A v \in Writer, u \in Strings : Writes(v, u)' <=> Writes(v, u)
  BY DEF Writes
<1>9. Noted'
  <2>1. \A v \in Writer : writer'[v].pc # "idle" => Fits(writer'[v].t)
    BY <1>1 DEF Noted
  <2>2. \A u \in Strings : NotedOn(u)'
    BY <1>1, <1>5, <1>8, NotedKept DEF Noted
  <2> QED
    BY <2>1, <2>2 DEF Noted, Fits, len
<1>10. WholeOn(s)'
  <2>1. /\ last[s] \in {"pending", "raced"}
        /\ last[s] = "pending" => \A v \in Writer : ~ Writes(v, s)
    BY <1>1 DEF Noted, NotedOn
  <2> QED
    BY <1>6, <1>8, <2>1 DEF WholeOn, HoldsCall
<1>11. ASSUME NEW u \in Strings \ {s} PROVE WholeOn(u)'
  BY <1>1, <1>6, <1>7, <1>8, WholeKept DEF Owned, Noted, Whole
<1> QED
  BY <1>4, <1>9, <1>10, <1>11 DEF Whole

\* The buffer an ioctl brings is new, so it is no string's.
LEMMA IoctlCommInv ==
  ASSUME IInv, harm = {}, NEW a \in Agent, IoctlComm(a)
  PROVE  IInv'
<1>1. Typed /\ HarmCauses /\ Exclusive /\ Owned /\ Noted /\ Whole
  BY DEF IInv, Sound
<1>2. agent[a].pc = "ioctl" /\ agent[a] \in Call
  BY <1>1, InProgress DEF IoctlComm
<1>3. PICK s \in Strings, x \in Comm : agent[a].cmd = s /\ agent[a].arg = x
  BY <1>2 DEF IoctlComm, Call
<1>4. PICK k \in Buf : /\ heap[k] = Freed
                       /\ heap' = [heap EXCEPT ![k] = CommBuffer(x)]
                       /\ agent' = [agent EXCEPT
                              ![a] = [agent[a] EXCEPT !.pc = "kzfree", !.buf = k]]
  BY <1>3 DEF IoctlComm, kzalloc
<1> DEFINE new == CommBuffer(x)
           call == [agent[a] EXCEPT !.pc = "kzfree", !.buf = k]
<1>5. /\ heap' = [heap EXCEPT ![k] = new]
      /\ agent' = [agent EXCEPT ![a] = call]
      /\ Begin(s)
      /\ UNCHANGED <<ptr, flags, tcp_flags_mask, ar_open_count, writer, harm>>
  BY <1>3, <1>4 DEF IoctlComm, simple
<1>6. /\ call \in Call /\ call.pc = "kzfree" /\ call.cmd = s
      /\ call.arg = x /\ call.buf = k
  BY <1>2, <1>3 DEF Call
<1>7. new \in BufferType /\ Sized(new)
  BY CommBuffers
<1>8. agent \in [Agent -> Call \cup {Idle}] /\ HeapTyped
  BY <1>1 DEF Typed
<1> HIDE DEF new, call
<1>9. /\ agent' \in [Agent -> Call \cup {Idle}] /\ agent'[a] = call
      /\ \A b \in Agent \ {a} : agent'[b] = agent[b]
  BY <1>5, <1>6, <1>8
<1>10. HeapTyped' /\ heap'[k] = new /\ \A d \in Buf \ {k} : heap'[d] = heap[d]
  BY <1>5, <1>7, <1>8, HeapUpdate
<1>11. /\ last' \in [Strings -> Text \cup Comm \cup {"default", "pending", "raced"}]
       /\ last'[s] = IF Busy(s) THEN "raced" ELSE "pending"
       /\ \A u \in Strings \ {s} : last'[u] = last[u]
  BY <1>1, <1>5, BeginEffect
<1>12. Typed'
  BY <1>1, <1>5, <1>9, <1>10, <1>11 DEF Typed
<1>13. /\ \A b \in Agent \ {a} : agent[b].pc = "idle"
       /\ \A b \in Agent \ {a}, u \in Strings : ~ Brings(b, u) /\ ~ Brought(b, u)
       /\ \A u \in Strings : Live(ptr[u])
  BY <1>1, <1>2, OneAgent
<1>14. \A u \in Strings : /\ ptr[u] \in Buf /\ ptr[u] # k
                          /\ heap'[ptr[u]] = heap[ptr[u]]
  BY <1>4, <1>10, <1>13 DEF Live
<1>15. Exclusive'
  BY <1>1, <1>2, <1>5, <1>6, <1>9, <1>13 DEF Exclusive
<1>16. \A b \in Agent, u \in Strings : ~ Brings(b, u) /\ ~ Brought(b, u)
  BY <1>2, <1>13 DEF Brings, Brought
<1>17. \A b \in Agent, u \in Strings : /\ Brings(b, u)' <=> b = a /\ u = s
                                       /\ ~ Brought(b, u)'
  BY <1>6, <1>9, <1>13 DEF Brings, Brought
<1>18. \A v \in Writer, u \in Strings : /\ Writes(v, u)' <=> Writes(v, u)
                                        /\ writer'[v] = writer[v]
  BY <1>5 DEF Writes
<1>19. Owned'
  <2>1. \A u \in Strings : HasBuffer(u)'
    BY <1>1, <1>5, <1>13, <1>14 DEF Owned, HasBuffer, Live
  <2>2. (ptr["read_write"] # ptr["read_only"])'
    BY <1>1, <1>5 DEF Owned
  <2>3. agent'[a].buf = k /\ agent'[a].arg = x /\ heap'[k] = CommBuffer(x)
    BY <1>6, <1>9, <1>10 DEF new
  <2>4. \A b \in Agent : Carries(b)'
    BY <1>5, <1>14, <1>17, <2>3 DEF Carries, CommBuffer, Buffer
  <2> QED
    BY <2>1, <2>2, <2>4 DEF Owned
<1>20. last'[s] = "raced" \/
          (last'[s] = "pending" /\ \A v \in Writer : ~ Writes(v, s))
  BY <1>11, BusyMeans
<1>21. Noted'
  <2>1. \A v \in Writer : writer'[v].pc # "idle" => Fits(writer'[v].t)
    BY <1>1, <1>5 DEF Noted
  <2>2. NotedOn(s)'
    BY <1>17, <1>18, <1>20 DEF NotedOn, Swaps
  <2>3. \A b \in Agent, u \in Strings \ {s} : Swaps(b, u)' <=> Swaps(b, u)
    BY <1>16, <1>17 DEF Swaps
  <2>4. \A u \in Strings \ {s} : NotedOn(u)'
    BY <1>1, <1>11, <1>18, <2>3, NotedKept DEF Noted
  <2> QED
    BY <2>1, <2>2, <2>4 DEF Noted, Fits, len
<1>22. WholeOn(s)'
  BY <1>17, <1>18, <1>20 DEF WholeOn
<1>23. ASSUME NEW u \in Strings \ {s} PROVE WholeOn(u)'
  BY <1>1, <1>5, <1>11, <1>14, <1>16, <1>17, <1>18, WholeKept DEF Owned, Noted, Whole
<1> QED
  BY <1>1, <1>5, <1>12, <1>15, <1>19, <1>21, <1>22, <1>23
     DEF IInv, Sound, Whole, HarmCauses

\* The string is there to be freed, and no other agent frees it.
LEMMA kzfreeInv ==
  ASSUME IInv, harm = {}, NEW a \in Agent, kzfree(a)
  PROVE  IInv'
<1>1. Typed /\ HarmCauses /\ Sound /\ Exclusive /\ Owned
  BY DEF IInv, Sound
<1>2. agent[a].pc = "kzfree" /\ agent[a] \in Call
  BY <1>1, InProgress DEF kzfree
<1>3. PICK s \in Strings : agent[a].cmd = s
  BY <1>1, <1>2 DEF Exclusive
<1>4. /\ \A b \in Agent \ {a}, u \in Strings : ~ Brings(b, u) /\ ~ Brought(b, u)
      /\ \A u \in Strings : Live(ptr[u])
  BY <1>1, <1>2, OneAgent
<1>5. ptr[s] \in Buf /\ ptr[s] # NULL
  BY <1>4, SettingsAssumption DEF Live
<1>6. /\ heap' = [heap EXCEPT ![ptr[s]] = Freed] /\ harm' = {}
      /\ GoTo(a, "clear")
      /\ UNCHANGED <<ptr, flags, tcp_flags_mask, ar_open_count, writer, last>>
  BY <1>3, <1>4, <1>5 DEF kzfree, simple
<1>7. /\ agent' \in [Agent -> Call \cup {Idle}]
      /\ agent'[a].pc = "clear" /\ agent'[a].cmd = s
      /\ agent'[a].arg = agent[a].arg /\ agent'[a].buf = agent[a].buf
      /\ \A b \in Agent \ {a} : agent'[b] = agent[b]
  BY <1>1, <1>2, <1>3, <1>6, GoesOn
<1>8. /\ HeapTyped' /\ heap'[ptr[s]] = Freed
      /\ \A d \in Buf \ {ptr[s]} : heap'[d] = heap[d]
  <2>1. HeapTyped
    BY <1>1 DEF Typed
  <2> QED
    BY <1>5, <1>6, <2>1, FreedBuffer, HeapUpdate
<1>9. Typed'
  BY <1>1, <1>6, <1>7, <1>8 DEF Typed
<1>10. \A u \in Strings \ {s} : ptr[u] # ptr[s] /\ heap'[ptr[u]] = heap[ptr[u]]
  <2>1. \A u \in Strings \ {s} : ptr[u] # ptr[s]
    BY <1>1 DEF Owned, Strings
  <2> QED
    BY <2>1, <1>4, <1>8 DEF Live
<1>11. /\ Brings(a, s) /\ Brings(a, s)' /\ ~ Brought(a, s)'
       /\ Swaps(a, s) /\ Swaps(a, s)'
  BY <1>2, <1>3, <1>7 DEF Swaps, Brings, Brought
<1>12. Exclusive' /\ Noted' /\ Whole'
  BY <1>1, <1>6, <1>7, <1>10, <1>11, SwapGoesOn
<1>13. Owned'
  <2>1. HasBuffer(s)'
    <3>1. Swapping(s)'
      BY <1>7 DEF Swapping
    <3>2. ~ Live(ptr[s])'
      BY <1>6, <1>8 DEF Live
    <3> QED
      BY <3>1, <3>2 DEF HasBuffer
  <2>2. \A u \in Strings \ {s} : HasBuffer(u)'
    BY <1>1, <1>4, <1>6, <1>10 DEF Owned, HasBuffer, Live
  <2>3. (ptr["read_write"] # ptr["read_only"])'
    BY <1>1, <1>6 DEF Owned
  <2>4. ASSUME NEW b \in Agent PROVE Carries(b)'
    <3>1. \A u \in Strings : /\ ~ Brought(b, u)'
                             /\ Brings(b, u)' => b = a /\ u = s
      BY <1>4, <1>7 DEF Brings, Brought
    <3>2. /\ agent[a].buf \in Buf
          /\ heap[agent[a].buf] = CommBuffer(agent[a].arg)
          /\ \A x \in Strings : ptr[x] # agent[a].buf
      BY <1>1, <1>11 DEF Owned, Carries
    <3> QED
      BY <1>6, <1>7, <1>8, <3>1, <3>2 DEF Carries, CommBuffer, Buffer
  <2> QED
    BY <2>1, <2>2, <2>3, <2>4 DEF Owned
<1> QED
  BY <1>6, <1>9, <1>12, <1>13 DEF IInv, Sound, HarmCauses

\* The other string is not NULL when this one is cleared.
LEMMA ClearInv ==
  ASSUME IInv, harm = {}, NEW a \in Agent, Clear(a)
  PROVE  IInv'
<1>1. Typed /\ HarmCauses /\ Sound /\ Exclusive /\ Owned
  BY DEF IInv, Sound
<1>2. agent[a].pc = "clear" /\ agent[a] \in Call
  BY <1>1, InProgress DEF Clear
<1>3. PICK s \in Strings : agent[a].cmd = s
  BY <1>1, <1>2 DEF Exclusive
<1>4. /\ \A b \in Agent \ {a}, u \in Strings : ~ Brings(b, u) /\ ~ Brought(b, u)
      /\ \A u \in Strings \ {s} : Live(ptr[u])
  BY <1>1, <1>2, <1>3, OneAgent
<1>5. /\ ptr' = [ptr EXCEPT ![s] = NULL] /\ GoTo(a, "install")
      /\ UNCHANGED <<heap, flags, tcp_flags_mask, ar_open_count, writer, last, harm>>
  BY <1>3 DEF Clear, simple
<1>6. ptr \in [Strings -> Buf \cup {NULL}]
  BY <1>1 DEF Typed
<1>7. /\ ptr' \in [Strings -> Buf \cup {NULL}] /\ ptr'[s] = NULL
      /\ \A u \in Strings \ {s} : ptr'[u] = ptr[u] /\ heap'[ptr[u]] = heap[ptr[u]]
  BY <1>5, <1>6
<1>8. /\ agent' \in [Agent -> Call \cup {Idle}]
      /\ agent'[a].pc = "install" /\ agent'[a].cmd = s
      /\ agent'[a].arg = agent[a].arg /\ agent'[a].buf = agent[a].buf
      /\ \A b \in Agent \ {a} : agent'[b] = agent[b]
  BY <1>1, <1>2, <1>3, <1>5, GoesOn
<1>9. Typed'
  BY <1>1, <1>5, <1>7, <1>8 DEF Typed, HeapTyped, Sized, Freed, Buffer
<1>10. /\ Brings(a, s) /\ ~ Brought(a, s)' /\ Swaps(a, s) /\ Swaps(a, s)'
  BY <1>2, <1>3, <1>8 DEF Swaps, Brings, Brought
<1>11. Exclusive' /\ Noted' /\ Whole'
  BY <1>1, <1>5, <1>7, <1>8, <1>10, SwapGoesOn
<1>12. Owned'
  <2>1. ~ Live(ptr[s])'
    BY <1>7, SettingsAssumption DEF Live
  <2>2. HasBuffer(s)'
    <3>1. Swapping(s)'
      BY <1>8 DEF Swapping
    <3> QED
      BY <2>1, <3>1 DEF HasBuffer
  <2>3. \A u \in Strings \ {s} : HasBuffer(u)' /\ Live(ptr[u])'
    BY <1>1, <1>4, <1>5, <1>7 DEF Owned, HasBuffer, Live, Freed, Buffer
  <2>4. (ptr["read_write"] # ptr["read_only"])'
    BY <1>7, <2>1, <2>3 DEF Strings, Live
  <2>5. ASSUME NEW b \in Agent PROVE Carries(b)'
    <3>1. \A u \in Strings : /\ ~ Brought(b, u)'
                             /\ Brings(b, u)' => b = a /\ u = s
      BY <1>4, <1>8 DEF Brings, Brought
    <3>2. /\ agent[a].buf \in Buf
          /\ heap[agent[a].buf] = CommBuffer(agent[a].arg)
          /\ \A x \in Strings : ptr[x] # agent[a].buf
      BY <1>1, <1>10 DEF Owned, Carries
    <3> QED
      BY <1>5, <1>7, <1>8, <3>1, <3>2, SettingsAssumption DEF Carries, CommBuffer, Buffer
  <2> QED
    BY <2>2, <2>3, <2>4, <2>5 DEF Owned
<1> QED
  BY <1>1, <1>5, <1>9, <1>11, <1>12 DEF IInv, Sound, HarmCauses

\* The buffer becomes the string's, with all the argument in it.
LEMMA InstallInv ==
  ASSUME IInv, harm = {}, NEW a \in Agent, Install(a)
  PROVE  IInv'
<1>1. Typed /\ HarmCauses /\ Sound /\ Exclusive /\ Owned
  BY DEF IInv, Sound
<1>2. agent[a].pc = "install" /\ agent[a] \in Call
  BY <1>1, InProgress DEF Install
<1>3. PICK s \in Strings, x \in Comm : agent[a].cmd = s /\ agent[a].arg = x
  BY <1>1, <1>2 DEF Exclusive, Call
<1>4. Brings(a, s) /\ Swaps(a, s)
  BY <1>2, <1>3 DEF Swaps, Brings
<1>5. PICK k \in Buf : /\ agent[a].buf = k /\ heap[k] = CommBuffer(x)
                       /\ \A u \in Strings : ptr[u] # k
  BY <1>1, <1>3, <1>4 DEF Owned, Carries
<1>6. /\ ptr' = [ptr EXCEPT ![s] = k] /\ GoTo(a, "strlen")
      /\ UNCHANGED <<heap, flags, tcp_flags_mask, ar_open_count, writer, last, harm>>
  BY <1>3, <1>5 DEF Install, simple
<1>7. ptr \in [Strings -> Buf \cup {NULL}]
  BY <1>1 DEF Typed
<1>8. /\ ptr' \in [Strings -> Buf \cup {NULL}] /\ ptr'[s] = k
      /\ \A u \in Strings \ {s} : ptr'[u] = ptr[u] /\ heap'[ptr[u]] = heap[ptr[u]]
  BY <1>6, <1>7
<1>9. /\ agent' \in [Agent -> Call \cup {Idle}]
      /\ agent'[a].pc = "strlen" /\ agent'[a].cmd = s
      /\ agent'[a].arg = x /\ agent'[a].buf = k
      /\ \A b \in Agent \ {a} : agent'[b] = agent[b]
  BY <1>1, <1>2, <1>3, <1>5, <1>6, GoesOn
<1>10. Typed'
  BY <1>1, <1>6, <1>8, <1>9 DEF Typed, HeapTyped, Sized, Freed, Buffer
<1>11. Swaps(a, s)'
  BY <1>9 DEF Swaps, Brought
<1>12. /\ heap[k] # Freed /\ heap[k].size = IOCTL_LENGTH /\ heap[k].of = x
       /\ heap[k].head = byte1[x] /\ heap[k].zeros = nul[x]
  BY <1>5, CommBuffers DEF Freed, Buffer
<1>13. Found(s)' = heap[k]
  BY <1>6, <1>8 DEF Found
<1>14. HoldsCall(Found(s)', agent'[a])
  BY <1>9, <1>12, <1>13 DEF HoldsCall
<1>15. Exclusive' /\ Noted' /\ Whole'
  BY <1>1, <1>4, <1>6, <1>8, <1>9, <1>11, <1>14, SwapGoesOn
<1>16. /\ \A b \in Agent \ {a}, u \in Strings : ~ Brings(b, u) /\ ~ Brought(b, u)
       /\ \A u \in Strings \ {s} : Live(ptr[u])
  BY <1>1, <1>2, <1>3, OneAgent
<1>17. Owned'
  <2>1. Live(ptr[s])'
    BY <1>6, <1>8, <1>12 DEF Live, Freed, Buffer
  <2>2. HasBuffer(s)'
    BY <1>6, <1>8, <1>12, <2>1 DEF HasBuffer
  <2>3. \A u \in Strings \ {s} : HasBuffer(u)'
    BY <1>1, <1>6, <1>8, <1>16 DEF Owned, HasBuffer, Live, Freed, Buffer
  <2>4. (ptr["read_write"] # ptr["read_only"])'
    BY <1>5, <1>8 DEF Strings
  <2>5. ASSUME NEW b \in Agent PROVE Carries(b)'
    <3>1. \A u \in Strings : /\ ~ Brings(b, u)'
                             /\ Brought(b, u)' => b = a /\ u = s
      BY <1>9, <1>16 DEF Brings, Brought
    <3> QED
      BY <1>6, <1>8, <1>9, <1>12, <2>1, <3>1 DEF Carries
  <2> QED
    BY <2>2, <2>3, <2>4, <2>5 DEF Owned
<1> QED
  BY <1>1, <1>6, <1>10, <1>15, <1>17 DEF IInv, Sound, HarmCauses

\* strlen leaves the buffer only if the argument has no zero byte or a store
\* has overlapped the call; what it finds is within the 16 bytes.
LEMMA MeasureInv ==
  ASSUME IInv, harm = {}, NEW a \in Agent, Measure(a)
  PROVE  IInv'
<1>1. Typed /\ HarmCauses /\ Sound /\ Exclusive /\ Owned /\ Noted /\ Whole
  BY DEF IInv, Sound
<1>2. agent[a].pc = "strlen" /\ agent[a] \in Call
  BY <1>1, InProgress DEF Measure
<1>3. PICK s \in Strings, x \in Comm : agent[a].cmd = s /\ agent[a].arg = x
  BY <1>1, <1>2 DEF Exclusive, Call
<1>4. Brought(a, s) /\ Swaps(a, s)
  BY <1>2, <1>3 DEF Swaps, Brought
<1>5. /\ Live(ptr[s]) /\ agent[a].buf = ptr[s] /\ Found(s) = heap[ptr[s]]
      /\ heap[ptr[s]].size = IOCTL_LENGTH
  BY <1>1, <1>4 DEF Owned, Carries, Found
<1>6. last[s] = "pending" => Found(s).of = x /\ Found(s).head = byte1[x]
                             /\ Found(s).zeros = nul[x]
  BY <1>1, <1>3, <1>4 DEF Whole, WholeOn, HoldsCall
<1>7. last[s] \in {"pending", "raced"}
  BY <1>1, <1>4 DEF Noted, NotedOn
<1>8. /\ UNCHANGED <<heap, ptr, flags, tcp_flags_mask, ar_open_count, writer, last>>
      /\ \/ /\ Found(s).zeros = {}
            /\ Harm("overrun", IF nul[x] = {} THEN "unterminated"
                               ELSE IF last[s] = "raced" THEN "raced" ELSE "alone")
            /\ UNCHANGED agent
         \/ \E i \in Found(s).zeros :
               /\ agent' = [agent EXCEPT
                     ![a] = [agent[a] EXCEPT !.pc = "terminate", !.at = i]]
               /\ UNCHANGED harm
  BY <1>3, <1>5 DEF Measure, simple
<1>9. CASE /\ Found(s).zeros = {}
           /\ Harm("overrun", IF nul[x] = {} THEN "unterminated"
                              ELSE IF last[s] = "raced" THEN "raced" ELSE "alone")
           /\ UNCHANGED agent
  <2>1. nul[x] = {} \/ last[s] = "raced"
    BY <1>6, <1>7, <1>9
  <2>2. harm' # {} /\ HarmCauses'
    BY <1>9, <2>1 DEF Harm, HarmCauses
  <2>3. /\ flags' \in [Flag -> Byte] /\ tcp_flags_mask' \in Uint16
        /\ agent' \in [Agent -> Call \cup {Idle}]
    BY <1>1, <1>8, <1>9 DEF Typed
  <2> QED
    BY <1>8, <2>2, <2>3, OnlyHarm
<1>10. CASE \E i \in Found(s).zeros :
               /\ agent' = [agent EXCEPT
                     ![a] = [agent[a] EXCEPT !.pc = "terminate", !.at = i]]
               /\ UNCHANGED harm
  <2>1. PICK i \in Found(s).zeros :
               /\ agent' = [agent EXCEPT
                     ![a] = [agent[a] EXCEPT !.pc = "terminate", !.at = i]]
               /\ UNCHANGED harm
    BY <1>10
  <2> DEFINE call == [agent[a] EXCEPT !.pc = "terminate", !.at = i]
  <2>2. i \in 0..(IOCTL_LENGTH - 1)
    <3>1. Found(s) \in BufferType /\ Sized(Found(s))
      BY <1>1, <1>5, LiveBuffer
    <3>2. Found(s).zeros \in SUBSET Nat
      BY <3>1 DEF BufferType
    <3>3. i \in Nat /\ i < IOCTL_LENGTH
      BY <1>5, <3>1, <3>2 DEF Sized
    <3> QED
      BY <3>3 DEF IOCTL_LENGTH
  <2>3. /\ call \in Call /\ call.pc = "terminate" /\ call.cmd = s /\ call.arg = x
        /\ call.buf = agent[a].buf /\ call.at = i
    BY <1>2, <1>3, <2>2 DEF Call
  <2>4. agent \in [Agent -> Call \cup {Idle}] /\ agent' = [agent EXCEPT ![a] = call]
    BY <1>1, <2>1 DEF Typed
  <2> HIDE DEF call
  <2>5. /\ agent' \in [Agent -> Call \cup {Idle}] /\ agent'[a] = call
        /\ \A b \in Agent \ {a} : agent'[b] = agent[b]
    BY <2>3, <2>4
  <2>6. Typed'
    BY <1>1, <1>8, <2>5 DEF Typed, HeapTyped, Sized, Freed, Buffer
  <2>7. Swaps(a, s)' /\ Brought(a, s)'
    BY <2>3, <2>5 DEF Swaps, Brought
  <2>8. last[s] = "pending" => HoldsCall(Found(s)', agent'[a])
    <3>1. Found(s)' = Found(s)
      BY <1>8 DEF Found
    <3> QED
      BY <1>6, <2>3, <2>5, <3>1 DEF HoldsCall
  <2>9. \A u \in Strings : ptr'[u] = ptr[u] /\ heap'[ptr[u]] = heap[ptr[u]]
    BY <1>8
  <2>10. Exclusive' /\ Noted' /\ Whole'
    BY <1>1, <1>4, <1>8, <2>5, <2>7, <2>8, <2>9, SwapGoesOn
  <2>11. \A b \in Agent \ {a}, u \in Strings : ~ Brings(b, u) /\ ~ Brought(b, u)
    BY <1>1, <1>2, OneAgent
  <2>12. Owned'
    <3>1. \A u \in Strings : Live(ptr[u])' <=> Live(ptr[u])
      BY <1>8 DEF Live, Freed, Buffer
    <3>2. \A u \in Strings : Swapping(u) => Swapping(u)'
      BY <1>2, <2>5 DEF Swapping
    <3>3. \A u \in Strings : HasBuffer(u)'
      BY <1>1, <2>9, <3>2, BufferKept DEF Owned
    <3>4. ASSUME NEW b \in Agent PROVE Carries(b)'
      <4>1. \A u \in Strings : /\ ~ Brings(b, u)'
                               /\ Brought(b, u)' => b = a /\ u = s
        BY <2>3, <2>5, <2>11 DEF Brings, Brought
      <4> QED
        BY <1>5, <1>8, <2>3, <2>5, <3>1, <4>1 DEF Carries
    <3> QED
      BY <1>1, <1>8, <3>3, <3>4 DEF Owned
  <2> QED
    BY <1>1, <2>1, <2>6, <2>10, <2>12 DEF IInv, Sound, HarmCauses
<1> QED
  BY <1>8, <1>9, <1>10

\* The string is still the one measured, so the zero goes into it; where it
\* was found there is one already, unless a store has overlapped the call.
LEMMA TerminateInv ==
  ASSUME IInv, harm = {}, NEW a \in Agent, Terminate(a)
  PROVE  IInv'
<1>1. Typed /\ HarmCauses /\ Exclusive /\ Owned /\ Noted /\ Whole
  BY DEF IInv, Sound
<1>2. agent[a].pc = "terminate" /\ agent[a] \in Call
  BY <1>1, InProgress DEF Terminate
<1>3. PICK s \in Strings, x \in Comm, i \in 0..(IOCTL_LENGTH - 1) :
         agent[a].cmd = s /\ agent[a].arg = x /\ agent[a].at = i
  BY <1>1, <1>2 DEF Exclusive, Call
<1>4. Brought(a, s) /\ Swaps(a, s)
  BY <1>2, <1>3 DEF Swaps, Brought
<1>5. Live(ptr[s]) /\ Found(s) = heap[ptr[s]] /\ Found(s).size = IOCTL_LENGTH
  BY <1>1, <1>4 DEF Owned, Carries, Found
<1>6. Found(s) \in BufferType /\ Sized(Found(s)) /\ Found(s).size # 0
  BY <1>1, <1>5, LiveBuffer
<1>7. i \in Nat /\ i < Found(s).size /\ i + 1 =< Found(s).size
  BY <1>3, <1>5 DEF IOCTL_LENGTH
<1> DEFINE new == WithNul(Found(s), i)
<1>8. /\ new \in BufferType /\ Sized(new) /\ new.size = Found(s).size
      /\ new.of = Found(s).of
  BY <1>6, <1>7, NulWritten
<1>9. last[s] = "pending" => /\ new.of = x /\ new.head = byte1[x]
                             /\ new.zeros = nul[x]
  <2>1. last[s] = "pending" => /\ Found(s).of = x /\ Found(s).head = byte1[x]
                               /\ Found(s).zeros = nul[x] /\ i \in nul[x]
    BY <1>1, <1>2, <1>3, <1>4 DEF Whole, WholeOn, HoldsCall
  <2> QED
    BY <1>6, <1>8, <2>1, NulAgain
<1>10. /\ Access(s, i + 1, new) /\ End(s, x) /\ GoTo(a, "close")
       /\ UNCHANGED <<ptr, flags, tcp_flags_mask, ar_open_count, writer>>
  BY <1>3 DEF Terminate, simple
<1> HIDE DEF new
<1>11. heap' = [heap EXCEPT ![ptr[s]] = new] /\ harm' = {}
  BY <1>5, <1>7, <1>10 DEF Access, Found
<1>12. /\ HeapTyped' /\ Found(s)' = new
       /\ \A u \in Strings \ {s} : ptr[u] \in Buf => heap'[ptr[u]] = heap[ptr[u]]
       /\ \A u \in Strings : Live(ptr[u])' <=> Live(ptr[u])
       /\ \A u \in Strings : Live(ptr[u]) => heap'[ptr[u]].size = heap[ptr[u]].size
  BY <1>1, <1>5, <1>8, <1>10, <1>11, WriteInPlace
<1>13. /\ agent' \in [Agent -> Call \cup {Idle}] /\ agent'[a].pc = "close"
       /\ \A b \in Agent \ {a} : agent'[b] = agent[b]
  BY <1>1, <1>2, <1>10, GoesOn
<1>14. /\ last' \in [Strings -> Text \cup Comm \cup {"default", "pending", "raced"}]
       /\ last'[s] = IF last[s] = "raced" THEN "raced" ELSE x
       /\ x \notin {"default", "pending", "raced"}
       /\ \A u \in Strings \ {s} : last'[u] = last[u]
  BY <1>1, <1>10, EndEffect
<1>15. Typed'
  BY <1>1, <1>10, <1>12, <1>13, <1>14 DEF Typed
<1>16. /\ \A b \in Agent \ {a} : agent[b].pc = "idle"
       /\ \A b \in Agent \ {a}, u \in Strings : ~ Brings(b, u) /\ ~ Brought(b, u)
       /\ \A u \in Strings : Live(ptr[u])
  BY <1>1, <1>2, OneAgent
<1>17. Exclusive'
  BY <1>1, <1>2, <1>10, <1>13, <1>16 DEF Exclusive
<1>18. \A b \in Agent, u \in Strings : ~ Brings(b, u)' /\ ~ Brought(b, u)'
  BY <1>13, <1>16 DEF Brings, Brought
<1>19. \A b \in Agent, u \in Strings \ {s} : ~ Swaps(b, u)
  BY <1>3, <1>16 DEF Swaps, Brings, Brought
<1>20. \A v \in Writer, u \in Strings : /\ Writes(v, u)' <=> Writes(v, u)
                                        /\ writer'[v] = writer[v]
  BY <1>10 DEF Writes
<1>21. Owned'
  <2>1. \A u \in Strings : HasBuffer(u)'
    BY <1>1, <1>10, <1>12, <1>16 DEF Owned, HasBuffer
  <2>2. \A b \in Agent : Carries(b)'
    BY <1>18 DEF Carries
  <2> QED
    BY <1>1, <1>10, <2>1, <2>2 DEF Owned
<1>22. last[s] \in {"pending", "raced"} /\
          (last[s] = "pending" => \A v \in Writer : ~ Writes(v, s))
  BY <1>1, <1>4 DEF Noted, NotedOn
<1>23. Noted'
  <2>1. \A v \in Writer : writer'[v].pc # "idle" => Fits(writer'[v].t)
    BY <1>1, <1>10 DEF Noted
  <2>2. NotedOn(s)'
    BY <1>14, <1>18, <1>20, <1>22 DEF NotedOn, Swaps
  <2>3. \A b \in Agent, u \in Strings \ {s} : Swaps(b, u)' <=> Swaps(b, u)
    BY <1>18, <1>19 DEF Swaps
  <2>4. \A u \in Strings \ {s} : NotedOn(u)'
    BY <1>1, <1>14, <1>20, <2>3, NotedKept DEF Noted
  <2> QED
    BY <2>1, <2>2, <2>4 DEF Noted, Fits, len
<1>24. WholeOn(s)'
  <2>1. CASE last[s] = "raced"
    BY <1>14, <2>1 DEF WholeOn
  <2>2. CASE last[s] = "pending"
    <3>1. last'[s] = x /\ x \notin Text
      BY <1>14, <2>2, SettingsAssumption
    <3>2. HoldsAll(Found(s)', x)
      BY <1>9, <1>12, <2>2, <3>1 DEF HoldsAll
    <3> QED
      BY <1>14, <3>1, <3>2 DEF WholeOn, HoldsAll
  <2> QED
    BY <1>22, <2>1, <2>2
<1>25. ASSUME NEW u \in Strings \ {s} PROVE WholeOn(u)'
  <2>1. \A b \in Agent : ~ Brought(b, u)
    BY <1>19 DEF Swaps
  <2> QED
    BY <1>1, <1>10, <1>12, <1>14, <1>18, <1>20, <2>1, WholeKept DEF Owned, Noted, Whole
<1> QED
  BY <1>1, <1>11, <1>15, <1>17, <1>21, <1>23, <1>24, <1>25
     DEF IInv, Sound, Whole, HarmCauses

-----------------------------------------------------------------------------
(* The invariant and the theorems                                          *)

\* The strings of ar_snmp_init_db are whole, and in buffers of 64 bytes.
LEMMA InitBuffers ==
  ASSUME NEW s \in Strings
  PROVE  /\ InitBuffer(s) \in BufferType /\ Sized(InitBuffer(s))
         /\ InitBuffer(s).size = AR_SNMP_MAX_COMM_LENGTH
         /\ InitBuffer(s) # Freed
         /\ HoldsAll(InitBuffer(s), "default")
<1>1. PICK n \in Byte : /\ n < 10
                        /\ InitBuffer(s) =
                             Buffer(AR_SNMP_MAX_COMM_LENGTH, n, "default", n,
                                    (n + 2)..(AR_SNMP_MAX_COMM_LENGTH - 1))
  BY DEF InitBuffer, Byte
<1>2. PICK m \in Nat : m = AR_SNMP_MAX_COMM_LENGTH /\ m = 64
  BY DEF AR_SNMP_MAX_COMM_LENGTH
<1> DEFINE z == (n + 2)..(m - 1)
<1>3. /\ z \in SUBSET Nat /\ n + 2 \in z
      /\ \A i \in z : i < m
  BY <1>1, <1>2 DEF Byte
<1>4. InitBuffer(s) = Buffer(m, n, "default", n, z)
  BY <1>1, <1>2
<1> HIDE DEF z
<1>5. /\ InitBuffer(s).size = m /\ InitBuffer(s).of = "default"
      /\ InitBuffer(s).head = n /\ InitBuffer(s).chars = n
      /\ InitBuffer(s).zeros = z
  BY <1>4 DEF Buffer
<1>6. InitBuffer(s) \in BufferType
  BY <1>2, <1>3, <1>4 DEF Buffer, BufferType
<1>7. Sized(InitBuffer(s)) /\ InitBuffer(s) # Freed
  BY <1>2, <1>3, <1>5, FreedBuffer DEF Sized
<1>8. HoldsAll(InitBuffer(s), "default")
  BY <1>3, <1>5, SettingsAssumption DEF HoldsAll
<1> QED
  BY <1>2, <1>5, <1>6, <1>7, <1>8

LEMMA InitIInv == Init => IInv
<1> SUFFICES ASSUME Init PROVE IInv
  OBVIOUS
<1>1. /\ ptr \in [Strings -> Buf]
      /\ ptr["read_write"] # ptr["read_only"]
  BY DEF Init
<1>2. "read_write" \in Strings /\ "read_only" \in Strings
      /\ \A s \in Strings : s = "read_write" \/ s = "read_only"
  BY DEF Strings
<1>3. heap = [x \in Buf |->
                CASE x = ptr["read_write"] -> InitBuffer("read_write")
                  [] x = ptr["read_only"] -> InitBuffer("read_only")
                  [] OTHER -> Freed]
  BY DEF Init
<1>4. \A s \in Strings : ptr[s] \in Buf /\ heap[ptr[s]] = InitBuffer(s)
  BY <1>1, <1>2, <1>3
<1>5. HeapTyped
  <2>1. ASSUME NEW b \in Buf
        PROVE  heap[b] \in BufferType /\ Sized(heap[b])
    <3>1. CASE \E s \in Strings : b = ptr[s]
      BY <1>4, <3>1, InitBuffers
    <3>2. CASE ~ \E s \in Strings : b = ptr[s]
      <4>1. heap[b] = Freed
        BY <1>2, <1>3, <3>2
      <4> QED
        BY <4>1, FreedBuffer
    <3> QED
      BY <3>1, <3>2
  <2>2. heap = [b \in Buf |-> heap[b]]
    BY <1>3
  <2> QED
    BY <2>1, <2>2 DEF HeapTyped
<1>6. /\ flags = [f \in Flag |-> 0] /\ tcp_flags_mask = 0 /\ ar_open_count = 0
      /\ agent = [a \in Agent |-> Idle] /\ writer = [w \in Writer |-> Idle]
      /\ last = [s \in Strings |-> "default"] /\ harm = {}
  BY DEF Init
<1>7. Typed
  <2>1. 0 \in Byte /\ 0 \in Uint16
    BY DEF Byte, Uint16
  <2> QED
    BY <1>1, <1>5, <1>6, <2>1 DEF Typed
<1>8. /\ \A a \in Agent : agent[a].pc = "idle"
      /\ \A w \in Writer : writer[w].pc = "idle"
      /\ \A s \in Strings : last[s] = "default"
  BY <1>6 DEF Idle
<1>9. /\ \A a \in Agent, s \in Strings : ~ Brings(a, s) /\ ~ Brought(a, s)
      /\ \A w \in Writer, s \in Strings : ~ Writes(w, s)
  BY <1>8 DEF Brings, Brought, Writes
<1>10. Exclusive
  BY <1>8 DEF Exclusive
<1>11. Owned
  BY <1>1, <1>4, <1>9, InitBuffers DEF Owned, HasBuffer, Carries, Live
<1>12. Noted
  BY <1>8, <1>9 DEF Noted, NotedOn, Swaps
<1>13. Whole
  BY <1>4, <1>8, InitBuffers DEF Whole, WholeOn, Found
<1> QED
  BY <1>6, <1>7, <1>10, <1>11, <1>12, <1>13 DEF IInv, Sound, HarmCauses

LEMMA NextIInv == IInv /\ [Next]_vars => IInv'
<1> SUFFICES ASSUME IInv, [Next]_vars PROVE IInv'
  OBVIOUS
<1>1. CASE UNCHANGED vars
  BY <1>1, StutterInv
<1>2. ASSUME harm = {}, NEW w \in Writer, StoreStep(w) PROVE IInv'
  BY <1>2, StartStoreInv, StoreTypeInv, StoreLengthInv, StoreTextInv, StoreEndInv,
     FlagStoreInv, MaskInv, StarvedInv DEF StoreStep
<1>3. ASSUME harm = {}, NEW a \in Agent, CallStep(a) PROVE IInv'
  BY <1>3, IoctlNothingInv, IoctlCommInv, kzfreeInv, ClearInv, InstallInv,
     MeasureInv, TerminateInv, IoctlGetallInv, CloseInv DEF CallStep
<1>4. ASSUME harm = {}, NEW a \in Agent, NEW cmd \in Cmd, NEW c \in Comm,
             ar_snmp_dev_open(a, cmd, c)
      PROVE  IInv'
  BY <1>4, OpenInv
<1>5. CASE harm = {} /\ HandOff
  BY <1>5, HandOffInv
<1> QED
  BY <1>1, <1>2, <1>3, <1>4, <1>5 DEF Next

\* The invariant holds whatever the stores, the ioctls and the deep sleep
\* events do.
THEOREM Invariance == Spec => []IInv
  BY InitIInv, NextIInv, PTL DEF Spec

\* The settings have their types: flags are bytes, the mask is 16 bits, and
\* the device is opened once at most.
THEOREM TypeCorrect == Spec => []TypeOK
<1>1. IInv => TypeOK
  BY DEF IInv, Typed, HeapTyped, Sized, BufferType, TypeOK
<1> QED
  BY <1>1, Invariance, PTL

\* Memory is misused in the eight ways named only: a store alone never
\* overruns a buffer of ar_snmp_init_db or loses its string, no ioctl frees
\* a string that is not allocated, and the zero an ioctl writes leaves its 16
\* bytes only if its argument has no zero byte or a store overlapped the call.
THEOREM HarmExplained == Spec => []HarmCauses
<1>1. IInv => HarmCauses
  BY DEF IInv
<1> QED
  BY <1>1, Invariance, PTL

\* Between calls FMan is given two strings that are allocated and distinct.
THEOREM StringsAreLive == Spec => []StringsLive
<1>1. IInv => StringsLive
  <2> SUFFICES ASSUME IInv, harm = {}, \A s \in Strings : ~ Busy(s)
               PROVE  /\ \A s \in Strings : Live(ptr[s])
                      /\ ptr["read_write"] # ptr["read_only"]
    BY DEF StringsLive
  <2> QED
    BY DEF IInv, Sound, Owned, HasBuffer, Busy
<1> QED
  BY <1>1, Invariance, PTL

\* A string holds what its last call gave it, whole, with its own length byte
\* and terminator, whenever that call overlapped no other.
THEOREM LastWriteKept == Spec => []LastWriteHolds
<1>1. IInv => LastWriteHolds
  <2> SUFFICES ASSUME IInv, NEW s \in Strings, harm = {}, ~ Busy(s), last[s] # "raced"
               PROVE  HoldsAll(Found(s), last[s])
    BY DEF LastWriteHolds, HoldsAll
  <2>1. Noted /\ Whole
    BY DEF IInv, Sound
  <2>2. last[s] # "pending"
    BY <2>1, BusyMeans DEF Noted, NotedOn
  <2> QED
    BY <2>1, <2>2 DEF Whole, WholeOn
<1> QED
  BY <1>1, Invariance, PTL
=============================================================================
