------------------------ MODULE FlashPartitions_proofs ------------------------
(***************************************************************************)
(* For all partitions, images and requests, whatever fails and whenever    *)
(* the card is reset: what looks bootable is complete, what succeeded has  *)
(* been done, only the partition that a request names is written, and      *)
(* nobody reads a table that is being loaded.                              *)
(***************************************************************************)
EXTENDS FlashPartitions, SequenceTheorems, TLAPS

ChunkMessage ==
  [op : {"download", "program"}, part : Part, image : Image, n : Nat, tag : BOOLEAN,
   last : BOOLEAN]
Messages == ChunkMessage \cup CopyRequest \cup PartRequest \cup SetRequest \cup TableRequest

(* The messages of an operation: how many, and the j-th of them.           *)
Chunked(r) == r.op \in {"download", "program"}
TagLast(r) == r.op = "download" /\ Length[r.image] > 1
Steps(r) == IF ~Chunked(r) THEN 1
            ELSE IF TagLast(r) THEN Length[r.image] + 1 ELSE Length[r.image]
Item(r, j) ==
  IF ~Chunked(r) THEN r
  ELSE IF ~TagLast(r) THEN Message(r, j - 1, TRUE, j = Length[r.image])
  ELSE IF j = 1 THEN Message(r, 0, FALSE, FALSE)
  ELSE IF j = Length[r.image] + 1 THEN Message(r, 0, TRUE, TRUE)
  ELSE Message(r, j - 1, TRUE, FALSE)

(* The message the host is at.                                             *)
At == Steps(host.req) - Len(host.plan) + 1

------------------------------------------------------------------------------
HostState ==
  [pc : {"idle"}] \cup [pc : {"send", "wait", "done", "failed"}, req : Request,
                        plan : Seq(Messages)]
ApcPhase == {"download", "copy", "record", "store", "update_fpt", "set", "refresh", "header",
             "load", "program", "select", "answer", "astray"}
ApcState ==
  [pc : {"idle"}] \cup [pc : ApcPhase, msg : Messages, k : Nat, ok : BOOLEAN, first : Chunk]
ReaderState == [pc : {"idle"}] \cup [pc : {"take", "read", "astray"}, part : Part]

Typed ==
  /\ flash \in [Addr -> Chunk]
  /\ host \in HostState /\ apc \in ApcState /\ reader \in ReaderState
  /\ mbox \in Seq(Messages) /\ Len(mbox) <= MBoxSize
  /\ valid \in [Device -> BOOLEAN]
  /\ ami \in {"idle", "set", "astray"} /\ loaded \in Md5 /\ selected \in Part \cup {None}

(* What the APC task is doing is what its message asks for.                *)
Doing ==
  apc.pc # "idle" =>
    /\ apc.pc \in {"download", "copy", "update_fpt", "set", "program", "select"} =>
         Msg.op = apc.pc
    /\ apc.pc \in {"record", "store"} => Msg.op \in {"download", "copy"}
    /\ apc.pc \in {"refresh", "header", "load"} => Msg.op \in {"update_fpt", "set"}

(* A message other than a change of flags is the one the host waits for,   *)
(* and nothing comes behind it.                                            *)
Handshake ==
  /\ \A i \in 1 .. Len(mbox) : mbox[i].op # "set" =>
       host.pc = "wait" /\ mbox[i] = host.plan[1] /\ i = Len(mbox)
  /\ apc.pc # "idle" /\ Msg.op # "set" =>
       host.pc = "wait" /\ Msg = host.plan[1] /\ mbox = <<>>
  /\ host.pc = "done" /\ host.req.op # "set" => mbox = <<>> /\ apc.pc = "idle"
  /\ ami # "idle" => host.pc = "send" /\ host.plan[1].op = "set"

PlanOK ==
  host.pc \in {"send", "wait"} =>
    /\ At \in 1 .. Steps(host.req)
    /\ \A i \in 1 .. Len(host.plan) : host.plan[i] = Item(host.req, At + i - 1)

------------------------------------------------------------------------------
(* The tables.  What is cached has the size that the header says.          *)
Cached(n, c) == c = NoTable \/ c \in [0 .. n - 1 -> Entry \cup {None}]

TableTypes ==
  /\ DOMAIN table = Device /\ \A d \in Device : IsTable(table[d])
  /\ header \in [Device -> Nat] /\ DOMAIN cache = Device /\ failed \subseteq Device
  /\ \A d \in Device : Cached(header[d], cache[d])

(* A table is there, but while it is read, or after a reading that failed. *)
LoadsOK ==
  \A d \in Device :
    /\ ~Loading(d) /\ d \notin failed => \A i \in 0 .. header[d] - 1 : Whole(d, i)
    /\ Loading(d) /\ apc.pc = "header" => cache[d] = NoTable
    /\ Loading(d) /\ apc.pc = "load" =>
         /\ header[d] = table[d].entries /\ apc.k \in 0 .. header[d] - 1
         /\ DOMAIN cache[d] = 0 .. header[d] - 1
         /\ \A i \in 0 .. apc.k - 1 : Whole(d, i)

Exclusive ==
  /\ mutex \in {None, "apc", "reader"}
  /\ mutex = "apc" <=> apc.pc \in {"header", "load"}
  /\ mutex = "reader" <=> reader.pc \in {"read", "astray"}

(* A copy has two ends, and the entries of an image are there until its    *)
(* digest is in flash.                                                     *)
Named(m) == m.op = "copy" => m.src # m.part

NamesOK ==
  /\ \A i \in 1 .. Len(mbox) : Named(mbox[i])
  /\ apc.pc # "idle" => Named(Msg)
  /\ apc.pc \in {"record", "store"} => Known

------------------------------------------------------------------------------
(* The flash.                                                              *)
Full(i, n) == [image |-> i, n |-> n, whole |-> TRUE]

(* BootableIsComplete, and the image fits.                                 *)
Bootable(p) ==
  LET c == flash[Base[p]]
  IN  c.image # NoImage /\ c.n = 0 =>
        /\ Length[c.image] <= Size[p]
        /\ \A n \in 1 .. Length[c.image] - 1 : flash[Base[p] + n] = Full(c.image, n)

(* How many messages of its operation the host has had carried out, unless *)
(* the last one failed.                                                    *)
Waited  == apc.pc # "idle" /\ Msg.op # "set"
Done    == Waited /\ (apc.pc \in {"record", "store"} \/ (apc.pc = "answer" /\ apc.ok))
Failing == Waited /\ apc.pc = "answer" /\ ~apc.ok
Carried == IF Done THEN At ELSE At - 1

(* What w messages of a download leave in the partition ...                *)
Written(r, w) ==
  /\ \A n \in 1 .. Length[r.image] - 1 :
       n < w => n < Size[r.part] /\ flash[Base[r.part] + n] = Full(r.image, n)
  /\ 1 <= w /\ w < Steps(r) => flash[Base[r.part]].image = NoImage
  /\ w = Steps(r) => flash[Base[r.part]] = Full(r.image, 0)

(* ... and w messages of a direct one in memory.                           *)
InMemory(r, w) ==
  /\ \A n \in 0 .. w - 1 : [image |-> r.image, n |-> n] \in ram
  /\ w = Steps(r) => loaded = r.image

SameChunks(m, from, to) ==
  \A n \in from .. to : flash[Base[m.part] + n] = flash[Base[m.src] + n]

(* The digest goes with the image.                                         *)
Md5Of(p) == cache[DeviceOf[p]][IndexOf[p]].md5
Recorded(m) == /\ m.op = "download" => Md5Of(m.part) = m.image
               /\ m.op = "copy" => Md5Of(m.part) = Md5Of(m.src)

Progress ==
  /\ host.pc \in {"send", "wait"} /\ ~Failing =>
       /\ host.req.op = "download" => Written(host.req, Carried)
       /\ host.req.op = "program" => InMemory(host.req, Carried)
  /\ host.pc = "done" =>
       /\ host.req.op = "download" => Written(host.req, Steps(host.req))
       /\ host.req.op = "program" => InMemory(host.req, Steps(host.req))
       /\ host.req.op = "copy" => SameChunks(host.req, 0, Size[host.req.src] - 1)
       /\ Recorded(host.req)

Copying ==
  apc.pc = "copy" =>
    /\ apc.k \in 0 .. Size[Msg.src]
    /\ apc.k > 0 => Size[Msg.src] <= Size[Msg.part] /\ flash[Dest].image = NoImage
    /\ SameChunks(Msg, 1, apc.k - 1)

CopyProgress ==
  /\ Copying
  /\ Done /\ Msg.op = "copy" => SameChunks(Msg, 0, Size[Msg.src] - 1)
  /\ apc.pc \in {"record", "store"} /\ Msg.op = "download" => Msg.last
  /\ Done /\ apc.pc # "record" /\ (Msg.op = "copy" \/ (Msg.op = "download" /\ Msg.last)) =>
       Recorded(Msg)

IInv ==
  /\ Typed /\ Doing /\ Handshake /\ PlanOK
  /\ TableTypes /\ LoadsOK /\ Exclusive /\ NamesOK
  /\ \A p \in Part : Bootable(p)
  /\ Progress /\ CopyProgress

------------------------------------------------------------------------------
(* Requests, messages and plans.                                           *)
LEMMA RequestParts ==
  ASSUME NEW r \in Request
  PROVE  /\ r.op \in {"download", "program", "copy", "select", "set", "update_fpt"}
         /\ Chunked(r) => r.part \in Part /\ r.image \in Image
         /\ r.op = "copy" => r.src \in Part /\ r.part \in Part
         /\ ~Chunked(r) => r \in Messages
BY RequestAssumption DEF ImageRequest, CopyRequest, PartRequest, SetRequest, TableRequest,
   Chunked, Messages

LEMMA MessageParts ==
  ASSUME NEW m \in Messages
  PROVE  /\ m.op \in {"download", "program", "copy", "select", "set", "update_fpt"}
         /\ m.op # "update_fpt" => m.part \in Part
         /\ m.op \in {"download", "program"} =>
              m.image \in Image /\ m.n \in Nat /\ m.tag \in BOOLEAN /\ m.last \in BOOLEAN
         /\ m.op = "set" => m.image \in Image /\ m.flags \in Flag
         /\ m.op = "copy" => m.src \in Part
         /\ m.op = "update_fpt" => m.dev \in Device /\ m.table \in NewTable
BY DEF Messages, ChunkMessage, CopyRequest, PartRequest, SetRequest, TableRequest

LEMMA MessageType ==
  ASSUME NEW r, r.op \in {"download", "program"}, r.part \in Part, r.image \in Image
  PROVE  \A n \in Nat, tag, last \in BOOLEAN : Message(r, n, tag, last) \in Messages
BY DEF Message, Messages, ChunkMessage

LEMMA SeqOf ==
  ASSUME NEW S, NEW n \in Nat, NEW f \in [1 .. n -> S]
  PROVE  f \in Seq(S) /\ Len(f) = n
<1>1. f \in Seq(S)
  BY SeqDef
<1>2. Len(f) \in Nat /\ DOMAIN f = 1 .. Len(f)
  BY <1>1, LenProperties
<1>3. 1 .. n = 1 .. Len(f)
  BY <1>2
<1>4. QED BY <1>1, <1>2, <1>3

LEMMA Appended ==
  ASSUME NEW S, NEW s \in Seq(S), NEW x \in S
  PROVE  \A i \in 1 .. Len(Append(s, x)) :
           \/ i = Len(Append(s, x)) /\ Append(s, x)[i] = x
           \/ i \in 1 .. Len(s) /\ Append(s, x)[i] = s[i]
OBVIOUS

LEMMA Bracketed ==
  ASSUME NEW S, NEW n \in Nat, NEW f \in [1 .. n -> S], NEW a \in S, NEW b \in S
  PROVE  LET s == << a >> \o f \o << b >>
         IN  /\ s \in Seq(S) /\ Len(s) = n + 2
             /\ s[1] = a /\ s[n + 2] = b
             /\ \A j \in 1 .. n : s[j + 1] = f[j]
<1> DEFINE A == << a >>
           B == << b >>
           L == A \o f
<1>1. /\ A \in Seq(S) /\ Len(A) = 1 /\ A[1] = a
      /\ B \in Seq(S) /\ Len(B) = 1 /\ B[1] = b
  OBVIOUS
<1>2. f \in Seq(S) /\ Len(f) = n
  BY SeqOf
<1> HIDE DEF A, B
<1>3. /\ L \in Seq(S) /\ Len(L) = n + 1
      /\ \A j \in 1 .. n + 1 : L[j] = IF j <= 1 THEN A[j] ELSE f[j - 1]
  <2>1. /\ L \in Seq(S) /\ Len(L) = Len(A) + Len(f)
        /\ \A j \in 1 .. Len(A) + Len(f) : L[j] = IF j <= Len(A) THEN A[j] ELSE f[j - Len(A)]
    BY <1>1, <1>2, ConcatProperties
  <2>2. Len(A) + Len(f) = n + 1
    BY <1>1, <1>2
  <2>3. QED BY <1>1, <2>1, <2>2
<1> HIDE DEF L
<1>4. /\ L \o B \in Seq(S) /\ Len(L \o B) = n + 2
      /\ \A j \in 1 .. n + 2 : (L \o B)[j] = IF j <= n + 1 THEN L[j] ELSE B[j - (n + 1)]
  <2>1. /\ L \o B \in Seq(S) /\ Len(L \o B) = Len(L) + Len(B)
        /\ \A j \in 1 .. Len(L) + Len(B) :
             (L \o B)[j] = IF j <= Len(L) THEN L[j] ELSE B[j - Len(L)]
    BY <1>1, <1>3, ConcatProperties
  <2>2. Len(L) + Len(B) = n + 2
    BY <1>1, <1>3
  <2>3. QED BY <1>3, <2>1, <2>2
<1>5. (L \o B)[1] = a /\ (L \o B)[n + 2] = b
  <2>1. /\ 1 \in 1 .. n + 2 /\ 1 \in 1 .. n + 1 /\ 1 <= n + 1
        /\ n + 2 \in 1 .. n + 2 /\ ~(n + 2 <= n + 1) /\ (n + 2) - (n + 1) = 1
    OBVIOUS
  <2>2. QED BY <1>1, <1>3, <1>4, <2>1
<1>6. ASSUME NEW j \in 1 .. n
      PROVE  (L \o B)[j + 1] = f[j]
  <2>1. /\ j + 1 \in 1 .. n + 2 /\ j + 1 \in 1 .. n + 1 /\ j + 1 <= n + 1
        /\ ~(j + 1 <= 1) /\ (j + 1) - 1 = j
    OBVIOUS
  <2>2. QED BY <1>3, <1>4, <2>1
<1>7. QED BY <1>4, <1>5, <1>6 DEF L, A, B

LEMMA PlanShape ==
  ASSUME NEW r \in Request
  PROVE  /\ Plan(r) \in Seq(Messages) /\ Steps(r) \in Nat \ {0}
         /\ Len(Plan(r)) = Steps(r)
         /\ \A j \in 1 .. Steps(r) : Plan(r)[j] = Item(r, j)
<1>1. CASE ~Chunked(r)
  <2>1. r \in Messages
    BY <1>1, RequestParts
  <2>2. Plan(r) = << r >>
    BY <1>1 DEF Plan, Chunked
  <2>3. QED BY <1>1, <2>1, <2>2 DEF Steps, Item
<1>2. CASE Chunked(r)
  <2>1. r.op \in {"download", "program"} /\ r.part \in Part /\ r.image \in Image
    BY <1>2, RequestParts DEF Chunked
  <2> DEFINE n == Length[r.image]
             msg(j, tag, last) == Message(r, j, tag, last)
             plain == [j \in 1 .. n |-> msg(j - 1, TRUE, j = n)]
             rest  == [j \in 1 .. n - 1 |-> msg(j, TRUE, FALSE)]
             first == msg(0, FALSE, FALSE)
             final == msg(0, TRUE, TRUE)
  <2>2. n \in Nat \ {0}
    BY <2>1, FlashAssumption
  <2>3. /\ ~TagLast(r) => /\ Plan(r) = plain /\ Steps(r) = n
                          /\ \A j \in 1 .. n : plain[j] = Item(r, j)
        /\ TagLast(r) => /\ n > 1 /\ Plan(r) = << first >> \o rest \o << final >>
                         /\ Steps(r) = n + 1 /\ Item(r, 1) = first
                         /\ Item(r, n + 1) = final
                         /\ \A j \in 2 .. n : Item(r, j) = msg(j - 1, TRUE, FALSE)
    <3>1. Plan(r) = DownloadPlan(r)
      BY <2>1 DEF Plan
    <3>2. CASE ~TagLast(r)
      <4>1. r.op = "program" \/ n = 1
        BY <2>1, <2>2, <3>2 DEF TagLast
      <4>2. QED BY <3>1, <3>2, <4>1, <1>2 DEF DownloadPlan, Steps, Item
    <3>3. CASE TagLast(r)
      <4>1. r.op # "program" /\ n # 1 /\ n > 1
        BY <2>1, <2>2, <3>3 DEF TagLast
      <4>2. Plan(r) = << first >> \o rest \o << final >>
        BY <3>1, <4>1 DEF DownloadPlan
      <4>3. /\ 1 # n + 1 /\ n + 1 # 1
            /\ \A j \in 2 .. n : j # 1 /\ j # n + 1
        BY <2>2
      <4>4. QED BY <1>2, <3>3, <4>1, <4>2, <4>3 DEF Steps, Item
    <3>4. QED BY <3>2, <3>3
  <2>4. \A j \in 1 .. n : msg(j - 1, TRUE, j = n) \in Messages
    <3>1. \A j \in 1 .. n : j - 1 \in Nat
      BY <2>2
    <3>2. QED BY <2>1, <3>1 DEF Message, Messages, ChunkMessage
  <2>5. \A j \in 1 .. n - 1 : msg(j, TRUE, FALSE) \in Messages
    <3>1. \A j \in 1 .. n - 1 : j \in Nat
      BY <2>2
    <3>2. QED BY <2>1, <3>1 DEF Message, Messages, ChunkMessage
  <2>6. first \in Messages /\ final \in Messages
    BY <2>1 DEF Message, Messages, ChunkMessage
  <2> HIDE DEF n, msg, first, final
  <2>7. plain \in [1 .. n -> Messages] /\ rest \in [1 .. n - 1 -> Messages]
    BY <2>4, <2>5
  <2>8. \A j \in 1 .. n - 1 : rest[j] = msg(j, TRUE, FALSE)
    OBVIOUS
  <2> HIDE DEF plain, rest
  <2>9. CASE ~TagLast(r)
    <3>1. plain \in Seq(Messages) /\ Len(plain) = n
      BY <2>2, <2>7, SeqOf
    <3>2. QED BY <2>2, <2>3, <2>9, <3>1
  <2>10. CASE TagLast(r)
    <3> DEFINE m == n - 1
               s == << first >> \o rest \o << final >>
    <3>1. m \in Nat /\ m + 2 = n + 1
      BY <2>2
    <3>2. rest \in [1 .. m -> Messages]
      BY <2>7
    <3> HIDE DEF m
    <3>3. /\ s \in Seq(Messages) /\ Len(s) = m + 2
          /\ s[1] = first /\ s[m + 2] = final
          /\ \A j \in 1 .. m : s[j + 1] = rest[j]
      BY <2>6, <3>1, <3>2, Bracketed
    <3> HIDE DEF s
    <3>4. ASSUME NEW j \in 2 .. n
          PROVE  s[j] = msg(j - 1, TRUE, FALSE)
      <4>1. j - 1 \in 1 .. m /\ j - 1 \in 1 .. n - 1 /\ (j - 1) + 1 = j
        BY <2>2 DEF m
      <4>2. QED BY <2>8, <3>3, <4>1
    <3>5. \A j \in 1 .. n + 1 : j = 1 \/ j = n + 1 \/ j \in 2 .. n
      BY <2>2
    <3>6. ASSUME NEW j \in 1 .. n + 1
          PROVE  s[j] = Item(r, j)
      <4>1. CASE j = 1
        BY <4>1, <2>3, <2>10, <3>3
      <4>2. CASE j = n + 1
        BY <4>2, <2>3, <2>10, <3>1, <3>3
      <4>3. CASE j \in 2 .. n
        BY <4>3, <2>3, <2>10, <3>4
      <4>4. QED BY <3>5, <4>1, <4>2, <4>3
    <3>7. Plan(r) = s /\ Steps(r) = n + 1 /\ n + 1 \in Nat \ {0}
      BY <2>2, <2>3, <2>10 DEF s
    <3>8. QED BY <3>1, <3>3, <3>6, <3>7
  <2>11. QED BY <2>9, <2>10
<1>3. QED BY <1>1, <1>2

------------------------------------------------------------------------------
(* The records of the host and of the APC task.                            *)
LEMMA HostParts ==
  ASSUME NEW h \in HostState, h.pc # "idle"
  PROVE  /\ h.pc \in {"send", "wait", "done", "failed"}
         /\ h.req \in Request /\ h.plan \in Seq(Messages)
         /\ \A c \in {"send", "wait", "done", "failed"} :
              LET g == [h EXCEPT !.pc = c]
              IN  g \in HostState /\ g.pc = c /\ g.req = h.req /\ g.plan = h.plan
         /\ \A c \in {"send", "wait", "done", "failed"}, q \in Seq(Messages) :
              LET g == [h EXCEPT !.pc = c, !.plan = q]
              IN  g \in HostState /\ g.pc = c /\ g.req = h.req /\ g.plan = q
BY DEF HostState

LEMMA ApcParts ==
  ASSUME NEW a \in ApcState, a.pc # "idle"
  PROVE  /\ a.pc \in ApcPhase /\ a.msg \in Messages /\ a.k \in Nat /\ a.ok \in BOOLEAN
         /\ a.first \in Chunk
BY DEF ApcState

LEMMA GoStep ==
  ASSUME apc \in ApcState, apc.pc # "idle", NEW c \in ApcPhase, Go(c)
  PROVE  /\ apc' \in ApcState /\ apc'.pc = c /\ Msg' = Msg
         /\ apc'.k = apc.k /\ apc'.ok = apc.ok /\ apc'.first = apc.first
BY DEF ApcState, Go, Msg

LEMMA EndStep ==
  ASSUME apc \in ApcState, apc.pc # "idle", NEW ok \in BOOLEAN, End(ok)
  PROVE  /\ apc' \in ApcState /\ apc'.pc = "answer" /\ Msg' = Msg
         /\ apc'.k = apc.k /\ apc'.ok = ok /\ apc'.first = apc.first
BY DEF ApcState, ApcPhase, End, Msg

LEMMA PlanHead ==
  ASSUME host \in HostState, PlanOK, host.pc \in {"send", "wait"}
  PROVE  /\ host.req \in Request /\ host.plan \in Seq(Messages) /\ host.plan[1] \in Messages
         /\ Steps(host.req) \in Nat \ {0} /\ At \in 1 .. Steps(host.req)
         /\ host.plan[1] = Item(host.req, At)
<1>1. host.req \in Request /\ host.plan \in Seq(Messages)
  BY HostParts
<1>2. Steps(host.req) \in Nat \ {0} /\ Len(host.plan) \in Nat
  BY <1>1, PlanShape
<1>3. At \in 1 .. Steps(host.req) /\ At = Steps(host.req) - Len(host.plan) + 1
  BY DEF PlanOK, At
<1>4. 1 \in 1 .. Len(host.plan) /\ At + 1 - 1 = At
  BY <1>2, <1>3
<1>5. host.plan[1] \in Messages
  BY <1>1, <1>4
<1>6. host.plan[1] = Item(host.req, At + 1 - 1)
  BY <1>4 DEF PlanOK
<1>7. QED BY <1>1, <1>2, <1>3, <1>4, <1>5, <1>6

(* The answer of a message leads to the next one, or ends the operation.   *)
LEMMA AnsweredStep ==
  ASSUME host \in HostState, PlanOK, host.pc \in {"send", "wait"},
         NEW ok \in BOOLEAN, Answered(ok)
  PROVE  /\ host' \in HostState /\ host'.pc # "idle" /\ host'.req = host.req /\ PlanOK'
         /\ ~ok => host'.pc = "failed"
         /\ ok /\ At = Steps(host.req) => host'.pc = "done"
         /\ ok /\ At # Steps(host.req) => host'.pc = "send" /\ At' = At + 1
<1>1. /\ host.req \in Request /\ host.plan \in Seq(Messages) /\ Len(host.plan) \in Nat
      /\ Steps(host.req) \in Nat \ {0}
  <2>1. host.req \in Request /\ host.plan \in Seq(Messages)
    BY HostParts
  <2>2. QED BY <2>1, PlanShape
<1>2. At \in 1 .. Steps(host.req) /\ At = Steps(host.req) - Len(host.plan) + 1
  BY DEF PlanOK, At
<1>3. /\ Len(host.plan) \in 1 .. Steps(host.req)
      /\ At = Steps(host.req) <=> Len(host.plan) = 1
  <2>1. \A s \in Nat \ {0}, l \in Nat : s - l + 1 \in 1 .. s =>
          l \in 1 .. s /\ (s - l + 1 = s <=> l = 1)
    OBVIOUS
  <2>2. QED BY <1>1, <1>2, <2>1
<1>4. CASE ~ok
  BY <1>4, HostParts DEF Answered, PlanOK
<1>5. CASE ok /\ Len(host.plan) = 1
  BY <1>3, <1>5, HostParts DEF Answered, PlanOK
<1>6. CASE ok /\ Len(host.plan) # 1
  <2> DEFINE q  == Tail(host.plan)
             h2 == [host EXCEPT !.pc = "send", !.plan = q]
  <2>1. host.plan # << >>
    BY <1>1, <1>3
  <2>2. /\ q \in Seq(Messages) /\ Len(q) = Len(host.plan) - 1
        /\ \A i \in 1 .. Len(q) : q[i] = host.plan[i + 1]
    BY <1>1, <2>1, HeadTailProperties
  <2>3. host' = h2
    BY <1>6 DEF Answered
  <2> HIDE DEF q
  <2>4. host' \in HostState /\ host'.pc = "send" /\ host'.req = host.req /\ host'.plan = q
    <3>1. h2 \in HostState /\ h2.pc = "send" /\ h2.req = host.req /\ h2.plan = q
      BY <2>2 DEF HostState
    <3>2. QED BY <2>3, <3>1
  <2>5. At' = At + 1 /\ At' \in 1 .. Steps(host'.req)
    <3>1. At' = Steps(host.req) - Len(q) + 1
      BY <2>4 DEF At
    <3>2. QED BY <1>1, <1>2, <1>3, <1>6, <2>2, <2>4, <3>1
  <2>6. ASSUME NEW i \in 1 .. Len(q)
        PROVE  q[i] = Item(host.req, At' + i - 1)
    <3>1. i + 1 \in 1 .. Len(host.plan) /\ At + (i + 1) - 1 = At' + i - 1
      BY <1>1, <1>2, <2>2, <2>5
    <3>2. host.plan[i + 1] = Item(host.req, At + (i + 1) - 1)
      BY <3>1 DEF PlanOK
    <3>3. QED BY <2>2, <3>1, <3>2
  <2>7. PlanOK'
    BY <2>4, <2>5, <2>6 DEF PlanOK
  <2>8. QED BY <1>3, <1>6, <2>4, <2>5, <2>7
<1>7. QED BY <1>4, <1>5, <1>6

------------------------------------------------------------------------------
(* What a write changes.                                                   *)
LEMMA AddrOf == \A p \in Part : \A n \in 0 .. Size[p] - 1 :
                  Base[p] + n \in Addr /\ Base[p] + n \in Base[p] .. Base[p] + Size[p] - 1
<1>1. SUFFICES ASSUME NEW p \in Part, NEW n \in 0 .. Size[p] - 1
               PROVE  Base[p] + n \in Base[p] .. Base[p] + Size[p] - 1
  BY DEF Addr
<1>2. Base[p] \in Nat /\ Size[p] \in Nat
  BY FlashAssumption
<1>3. QED BY <1>2

LEMMA WriteStep ==
  ASSUME flash \in [Addr -> Chunk], NEW a \in Addr, NEW c \in Chunk, NEW ok \in BOOLEAN,
         Write(a, c, ok)
  PROVE  /\ flash' \in [Addr -> Chunk]
         /\ \A b \in Addr : b # a => flash'[b] = flash[b]
         /\ ok => flash'[a] = c
         /\ flash'[a] = flash[a] \/ (flash'[a].image = c.image /\ flash'[a].n = c.n)
<1>1. [c EXCEPT !.whole = FALSE] \in Chunk
  BY DEF Chunk
<1>2. /\ [c EXCEPT !.whole = FALSE].image = c.image
      /\ [c EXCEPT !.whole = FALSE].n = c.n
  BY DEF Chunk
<1>3. flash' \in {flash, [flash EXCEPT ![a] = c],
                  [flash EXCEPT ![a] = [c EXCEPT !.whole = FALSE]]}
  BY DEF Write
<1>4. ok => flash' = [flash EXCEPT ![a] = c]
  BY DEF Write
<1>5. QED BY <1>1, <1>2, <1>3, <1>4

------------------------------------------------------------------------------
(* The devices.                                                            *)
LEMMA ParDevice ==
  \A p \in Part : DeviceOf[p] \in Device /\ IndexOf[p] \in Nat
BY FlashAssumption DEF Device

LEMMA RefreshedDevice ==
  ASSUME apc \in ApcState, apc.pc # "idle", Msg.op \in {"update_fpt", "set"}
  PROVE  Refreshed \in Device
BY ApcParts, MessageParts, TableAssumption DEF Refreshed, Msg

(* What the tables are after a start.                                      *)
LEMMA LoadParts ==
  ASSUME NEW t, IsTable(t), NEW l \in Loads(t)
  PROVE  /\ l.ok \in BOOLEAN /\ l.valid \in BOOLEAN /\ l.header \in Nat
         /\ Cached(l.header, l.cache)
         /\ l.ok => \A i \in 0 .. l.header - 1 : i \in DOMAIN l.cache /\ l.cache[i] # None
<1>1. t.entries \in Nat /\ t.good \in BOOLEAN /\ t.entry \in [0 .. t.entries - 1 -> Entry]
  BY DEF IsTable
<1>2. ASSUME NEW n
      PROVE  FirstOf(n, t) \in [0 .. t.entries - 1 -> Entry \cup {None}]
  BY <1>1 DEF FirstOf
<1>3. ASSUME NEW i \in 0 .. t.entries - 1
      PROVE  i \in DOMAIN FirstOf(t.entries, t) /\ FirstOf(t.entries, t)[i] # None
  <2>1. i < t.entries
    BY <1>1
  <2>2. t.entry[i] \in Entry
    BY <1>1
  <2>3. QED BY <2>1, <2>2, TableAssumption DEF FirstOf
<1> DEFINE left(ok, v, h, c) == [ok |-> ok, valid |-> v, header |-> h, cache |-> c]
<1>4. \/ \E v \in BOOLEAN, h \in {0, t.entries} : l = left(FALSE, v, h, NoTable)
      \/ \E n \in 0 .. t.entries : l = left(n = t.entries, TRUE, t.entries, FirstOf(n, t))
  <2>1. CASE ~t.good
    BY <1>1, <2>1 DEF Loads
  <2>2. CASE t.good /\ t.entries = 0
    BY <1>1, <2>2 DEF Loads
  <2>3. CASE t.good /\ t.entries # 0
    <3>1. t.entries \in 0 .. t.entries
      BY <1>1
    <3>2. QED BY <1>1, <2>3, <3>1 DEF Loads
  <2>4. QED BY <1>1, <2>1, <2>2, <2>3
<1>5. CASE \E v \in BOOLEAN, h \in {0, t.entries} : l = left(FALSE, v, h, NoTable)
  BY <1>1, <1>5 DEF Cached
<1>6. CASE \E n \in 0 .. t.entries : l = left(n = t.entries, TRUE, t.entries, FirstOf(n, t))
  <2>1. PICK n \in 0 .. t.entries : l = left(n = t.entries, TRUE, t.entries, FirstOf(n, t))
    BY <1>6
  <2>2. /\ l.ok = (n = t.entries) /\ l.valid = TRUE /\ l.header = t.entries
        /\ l.cache = FirstOf(n, t)
    BY <2>1
  <2>3. Cached(l.header, l.cache)
    BY <1>2, <2>2 DEF Cached
  <2>4. l.ok \in BOOLEAN /\ l.valid \in BOOLEAN
    BY <2>2
  <2>5. l.ok => \A i \in 0 .. l.header - 1 : i \in DOMAIN l.cache /\ l.cache[i] # None
    <3>1. l.ok => n = t.entries
      BY <2>2
    <3>2. QED BY <1>3, <2>2, <3>1
  <2>6. QED BY <1>1, <2>2, <2>3, <2>4, <2>5
<1>7. QED BY <1>4, <1>5, <1>6

LEMMA StartParts ==
  ASSUME \A d \in Device : IsTable(table[d]), NEW load \in StartLoads
  PROVE  \A d \in Device :
           /\ load[d].ok \in BOOLEAN /\ load[d].valid \in BOOLEAN /\ load[d].header \in Nat
           /\ Cached(load[d].header, load[d].cache)
           /\ load[d].ok => \A i \in 0 .. load[d].header - 1 :
                              i \in DOMAIN load[d].cache /\ load[d].cache[i] # None
<1>1. TAKE d \in Device
<1>2. load[d] \in Loads(table[d])
  BY DEF StartLoads
<1>3. QED BY <1>2, LoadParts

------------------------------------------------------------------------------
(* The types, and what the APC task is doing.                              *)
LEMMA TypeStep ==
  ASSUME Typed, TableTypes, Doing, Handshake, PlanOK, [Next]_vars
  PROVE  Typed' /\ Doing'
<1> USE DEF Typed, Doing
<1>0. UNCHANGED apc => Doing'
  BY DEF Msg
<1>1. CASE Call
  <2>1. PICK r \in Request : host' = [pc |-> "send", req |-> r, plan |-> Plan(r)]
    BY <1>1 DEF Call
  <2>2. host' \in HostState
    BY <2>1, PlanShape DEF HostState
  <2>3. QED BY <1>0, <1>1, <2>2 DEF Call, fpt, tasks
<1>2. CASE Return
  <2>1. host' \in HostState
    BY <1>2 DEF Return, HostState
  <2>2. QED BY <1>0, <1>2, <2>1 DEF Return, fpt, tasks
<1>3. CASE Accept
  <2>1. host.pc = "send" /\ host.pc # "idle"
    BY <1>3 DEF Accept
  <2>3. host.plan[1] \in Messages
    BY <2>1, PlanHead
  <2>4. CASE Acceptable(host.plan[1]) /\ Room
    <3>1. mbox' = Append(mbox, host.plan[1]) /\ host' = [host EXCEPT !.pc = "wait"]
      BY <1>3, <2>4 DEF Accept, Post
    <3>2. host' \in HostState
      BY <2>1, <3>1 DEF HostState
    <3>3. mbox' \in Seq(Messages) /\ Len(mbox') <= MBoxSize
      BY <2>3, <2>4, <3>1, FlashAssumption DEF Room
    <3>4. QED BY <1>0, <1>3, <3>2, <3>3 DEF Accept, fpt, tasks
  <2>5. CASE ~(Acceptable(host.plan[1]) /\ Room)
    <3>1. Answered(FALSE) /\ UNCHANGED mbox
      BY <1>3, <2>5 DEF Accept
    <3>2. host' \in HostState
      BY <2>1, <3>1, AnsweredStep
    <3>3. QED BY <1>0, <1>3, <3>1, <3>2 DEF Accept, fpt, tasks
  <2>6. QED BY <2>4, <2>5
<1>4. CASE SetStart
  <2>1. host' \in HostState /\ ami' \in {"idle", "set", "astray"}
    BY <1>4, AnsweredStep DEF SetStart
  <2>2. QED BY <1>0, <1>4, <2>1 DEF SetStart, fpt, tasks
<1>5. CASE SetFinish
  <2>1. host.pc = "send" /\ host.pc # "idle" /\ ami = "set"
    BY <1>5 DEF SetFinish, Handshake
  <2>2. host.plan[1] \in Messages
    BY <2>1, PlanHead
  <2>3. CASE Room
    <3>1. mbox' = Append(mbox, host.plan[1]) /\ Answered(TRUE)
      BY <1>5, <2>3 DEF SetFinish, Post
    <3>2. host' \in HostState
      BY <2>1, <3>1, AnsweredStep
    <3>3. mbox' \in Seq(Messages) /\ Len(mbox') <= MBoxSize
      BY <2>2, <2>3, <3>1, FlashAssumption DEF Room
    <3>4. QED BY <1>0, <1>5, <3>2, <3>3 DEF SetFinish, fpt, tasks
  <2>4. CASE ~Room
    <3>1. Answered(FALSE) /\ UNCHANGED mbox
      BY <1>5, <2>4 DEF SetFinish
    <3>2. host' \in HostState
      BY <2>1, <3>1, AnsweredStep
    <3>3. QED BY <1>0, <1>5, <3>1, <3>2 DEF SetFinish, fpt, tasks
  <2>5. QED BY <2>3, <2>4
<1>6. CASE Pend
  <2>1. mbox # << >> /\ mbox[1] \in Messages
    BY <1>6 DEF Pend
  <2>2. mbox' \in Seq(Messages) /\ Len(mbox') <= MBoxSize
    <3>1. /\ Tail(mbox) \in Seq(Messages) /\ Len(Tail(mbox)) = Len(mbox) - 1
          /\ Len(mbox) \in Nat
      BY <2>1, HeadTailProperties
    <3>2. QED BY <1>6, <3>1, FlashAssumption DEF Pend
  <2>3. mbox[1].op \in {"download", "program", "copy", "select", "set", "update_fpt"}
    BY <2>1, MessageParts
  <2>4. /\ apc' \in ApcState /\ apc'.pc = mbox[1].op /\ Msg' = mbox[1]
    <3>1. Blank \in Chunk
      BY DEF Blank, Chunk, Md5
    <3>2. QED BY <1>6, <2>1, <2>3, <3>1 DEF Pend, ApcState, ApcPhase, Msg
  <2>5. Doing'
    BY <2>3, <2>4
  <2>6. QED BY <1>6, <2>2, <2>4, <2>5 DEF Pend, fpt, tasks
<1>7. CASE DownloadImage
  <2>1. apc.pc = "download" /\ apc.pc # "idle" /\ Msg.op = "download"
    BY <1>7 DEF DownloadImage
  <2> DEFINE c == IF Msg.tag THEN [image |-> Msg.image, n |-> Msg.n, whole |-> TRUE] ELSE Blank
  <2>2. Msg.part \in Part /\ Msg.image \in Image /\ Msg.n \in Nat /\ Msg.last \in BOOLEAN
    BY <2>1, ApcParts, MessageParts DEF Msg
  <2>3. c \in Chunk
    BY <2>2 DEF Blank, Chunk, Md5
  <2> HIDE DEF c
  <2>4. flash' \in [Addr -> Chunk]
    <3>1. CASE ~Fits(Msg.n)
      BY <1>7, <3>1 DEF DownloadImage, c
    <3>2. CASE Fits(Msg.n)
      <4>1. Dest + Msg.n \in Addr
        BY <2>2, <3>2, AddrOf, FlashAssumption DEF Fits, Dest
      <4>2. PICK ok \in BOOLEAN : Write(Dest + Msg.n, c, ok)
        BY <1>7, <3>2 DEF DownloadImage, c
      <4>3. QED BY <4>1, <4>2, <2>3, WriteStep
    <3>3. QED BY <3>1, <3>2
  <2>5. apc' \in ApcState /\ apc'.pc \in {"record", "answer"} /\ Msg' = Msg
    <3>1. Go("record") \/ End(TRUE) \/ End(FALSE)
      BY <1>7 DEF DownloadImage
    <3>2. QED BY <2>1, <3>1, GoStep, EndStep DEF ApcPhase
  <2>6. Doing'
    BY <2>1, <2>5
  <2>7. QED BY <1>7, <2>4, <2>5, <2>6 DEF DownloadImage, fpt, tasks
<1>8. CASE CopyChunk
  <2>1. apc.pc = "copy" /\ apc.pc # "idle" /\ Msg.op = "copy"
    BY <1>8 DEF CopyChunk
  <2>2. Msg.part \in Part /\ Msg.src \in Part /\ apc.k \in Nat /\ apc.k < Size[Msg.src]
    BY <1>8, <2>1, ApcParts, MessageParts DEF Msg, CopyChunk
  <2> DEFINE c == flash[Base[Msg.src] + apc.k]
  <2>3. c \in Chunk /\ Copied(c) \in Chunk
    <3>1. Base[Msg.src] + apc.k \in Addr
      BY <2>2, AddrOf, FlashAssumption
    <3>2. QED BY <3>1 DEF Copied, Blank, Chunk, Md5
  <2> HIDE DEF c
  <2>4. flash' \in [Addr -> Chunk]
    <3>1. CASE ~(Size[Msg.src] <= Size[Msg.part])
      BY <1>8, <3>1 DEF CopyChunk
    <3>2. CASE Size[Msg.src] <= Size[Msg.part]
      <4>1. Dest + apc.k \in Addr
        BY <2>2, <3>2, AddrOf, FlashAssumption, SMTT(30) DEF Dest
      <4>2. PICK ok \in BOOLEAN : Write(Dest + apc.k, Copied(c), ok)
        <5>1. ~(Size[Msg.src] > Size[Msg.part])
          BY <2>2, <3>2, FlashAssumption
        <5>2. QED BY <1>8, <5>1 DEF CopyChunk, c
      <4>3. QED BY <4>1, <4>2, <2>3, WriteStep
    <3>3. QED BY <3>1, <3>2
  <2>5. apc' \in ApcState /\ apc'.pc \in {"copy", "answer"} /\ Msg' = Msg
    <3>1. \/ End(FALSE)
          \/ apc' = [apc EXCEPT !.k = @ + 1, !.first = IF apc.k = 0 THEN c ELSE @]
      BY <1>8 DEF CopyChunk, c
    <3>2. CASE End(FALSE)
      BY <2>1, <3>2, EndStep
    <3>3. CASE apc' = [apc EXCEPT !.k = @ + 1, !.first = IF apc.k = 0 THEN c ELSE @]
      <4>1. apc.k + 1 \in Nat /\ (IF apc.k = 0 THEN c ELSE apc.first) \in Chunk
        BY <2>1, <2>2, <2>3, ApcParts
      <4>2. apc' = [apc EXCEPT !.k = apc.k + 1, !.first = IF apc.k = 0 THEN c ELSE apc.first]
        BY <3>3
      <4>3. QED BY <2>1, <4>1, <4>2 DEF ApcState, Msg
    <3>4. QED BY <3>1, <3>2, <3>3
  <2>6. Doing'
    BY <2>1, <2>5
  <2>7. QED BY <1>8, <2>4, <2>5, <2>6 DEF CopyChunk, fpt, tasks
<1>9. CASE CopyFirst
  <2>1. apc.pc = "copy" /\ apc.pc # "idle" /\ Msg.op = "copy"
    BY <1>9 DEF CopyFirst
  <2>2. Msg.part \in Part /\ apc.first \in Chunk
    BY <2>1, ApcParts, MessageParts DEF Msg
  <2>3. Dest \in Addr
    <3>1. Base[Msg.part] + 0 \in Addr
      BY <2>2, AddrOf, FlashAssumption
    <3>2. Base[Msg.part] + 0 = Base[Msg.part]
      BY <2>2, FlashAssumption
    <3>3. QED BY <3>1, <3>2 DEF Dest
  <2>4. flash' \in [Addr -> Chunk]
    BY <1>9, <2>2, <2>3, WriteStep DEF CopyFirst
  <2>5. apc' \in ApcState /\ apc'.pc \in {"record", "answer"} /\ Msg' = Msg
    <3>1. Go("record") \/ End(FALSE)
      BY <1>9 DEF CopyFirst
    <3>2. QED BY <2>1, <3>1, GoStep, EndStep DEF ApcPhase
  <2>6. Doing'
    BY <2>1, <2>5
  <2>7. QED BY <1>9, <2>4, <2>5, <2>6 DEF CopyFirst, fpt, tasks
<1>10. CASE Record
  <2>1. apc.pc # "idle" /\ apc.pc = "record"
    BY <1>10 DEF Record
  <2>2. apc' \in ApcState /\ apc'.pc = "store" /\ Msg' = Msg
    BY <1>10, <2>1, GoStep DEF Record, ApcPhase
  <2>3. Doing'
    BY <2>1, <2>2
  <2>4. QED BY <1>10, <2>2, <2>3 DEF Record, fpt, tasks
<1>11. CASE Store
  <2>1. apc.pc # "idle"
    BY <1>11 DEF Store
  <2>2. apc' \in ApcState /\ apc'.pc = "answer" /\ Msg' = Msg
    BY <1>11, <2>1, EndStep DEF Store
  <2>3. Doing'
    BY <2>2
  <2>4. QED BY <1>11, <2>2, <2>3 DEF Store, fpt, tasks
<1>12. CASE DownloadFpt
  <2>1. apc.pc # "idle" /\ Msg.op = "update_fpt"
    BY <1>12 DEF DownloadFpt
  <2>2. apc' \in ApcState /\ apc'.pc \in {"refresh", "answer"} /\ Msg' = Msg
    <3>1. Go("refresh") \/ End(FALSE)
      BY <1>12 DEF DownloadFpt
    <3>2. QED BY <2>1, <3>1, GoStep, EndStep DEF ApcPhase
  <2>3. Doing'
    BY <2>1, <2>2
  <2>4. valid' \in [Device -> BOOLEAN]
    BY <1>12 DEF DownloadFpt
  <2>5. QED BY <1>12, <2>2, <2>3, <2>4 DEF DownloadFpt, fpt, tasks
<1>13. CASE SetFptFlags
  <2>1. apc.pc # "idle" /\ Msg.op = "set"
    BY <1>13 DEF SetFptFlags
  <2>2. apc' \in ApcState /\ apc'.pc \in {"refresh", "answer"} /\ Msg' = Msg
    <3>1. Go("refresh") \/ End(FALSE)
      BY <1>13 DEF SetFptFlags
    <3>2. QED BY <2>1, <3>1, GoStep, EndStep DEF ApcPhase
  <2>3. Doing'
    BY <2>1, <2>2
  <2>4. QED BY <1>13, <2>2, <2>3 DEF SetFptFlags, fpt, tasks
<1>14. CASE Forget
  <2>1. apc.pc # "idle" /\ Msg.op \in {"update_fpt", "set"}
    BY <1>14 DEF Forget
  <2>2. apc' \in ApcState /\ apc'.pc = "header" /\ Msg' = Msg
    BY <1>14, <2>1, GoStep DEF Forget, ApcPhase
  <2>3. Doing'
    BY <2>1, <2>2
  <2>4. QED BY <1>14, <2>2, <2>3 DEF Forget, fpt, tasks
<1>15. CASE LoadHeader
  <2>1. apc.pc # "idle" /\ Msg.op \in {"update_fpt", "set"}
    BY <1>15 DEF LoadHeader
  <2>2. apc' \in ApcState /\ apc'.pc \in {"load", "answer"} /\ Msg' = Msg
    <3>1. apc' = [apc EXCEPT !.pc = "load", !.k = 0] \/ End(FALSE)
      BY <1>15 DEF LoadHeader, LoadEnds
    <3>2. CASE apc' = [apc EXCEPT !.pc = "load", !.k = 0]
      BY <2>1, <3>2 DEF ApcState, ApcPhase, Msg
    <3>3. QED BY <2>1, <3>1, <3>2, EndStep
  <2>3. Doing'
    BY <2>1, <2>2
  <2>4. valid' \in [Device -> BOOLEAN]
    <3>1. Refreshed \in Device
      BY <2>1, RefreshedDevice
    <3>2. (valid[Refreshed] \/ table[Refreshed].good) \in BOOLEAN
      OBVIOUS
    <3>3. QED BY <1>15, <3>1, <3>2, Zenon DEF LoadHeader
  <2>5. QED BY <1>15, <2>2, <2>3, <2>4 DEF LoadHeader, fpt, tasks
<1>16. CASE LoadEntry
  <2>1. apc.pc # "idle" /\ Msg.op \in {"update_fpt", "set"} /\ apc.k \in Nat /\ apc.pc = "load"
    BY <1>16, ApcParts DEF LoadEntry
  <2>2. apc' \in ApcState /\ apc'.pc \in {"load", "answer"} /\ Msg' = Msg
    <3>1. apc' = [apc EXCEPT !.k = @ + 1] \/ End(TRUE)
      BY <1>16 DEF LoadEntry, LoadEnds
    <3>2. CASE apc' = [apc EXCEPT !.k = @ + 1]
      BY <2>1, <3>2 DEF ApcState, Msg
    <3>3. QED BY <2>1, <3>1, <3>2, EndStep
  <2>3. Doing'
    BY <2>1, <2>2
  <2>4. QED BY <1>16, <2>2, <2>3 DEF LoadEntry, fpt, tasks
<1>17. CASE DownloadPdiImage
  <2>1. apc.pc # "idle" /\ Msg.op = "program"
    BY <1>17 DEF DownloadPdiImage
  <2>2. apc' \in ApcState /\ apc'.pc = "answer" /\ Msg' = Msg
    BY <1>17, <2>1, EndStep DEF DownloadPdiImage
  <2>3. Doing'
    BY <2>2
  <2>4. loaded' \in Md5
    <3>1. Msg.image \in Image
      BY <2>1, ApcParts, MessageParts DEF Msg
    <3>2. QED BY <1>17, <3>1 DEF DownloadPdiImage, Md5
  <2>5. QED BY <1>17, <2>2, <2>3, <2>4 DEF DownloadPdiImage, fpt, tasks
<1>18. CASE SelectPartition
  <2>1. apc.pc # "idle" /\ Msg.op = "select"
    BY <1>18 DEF SelectPartition
  <2>2. apc' \in ApcState /\ apc'.pc = "answer" /\ Msg' = Msg
    BY <1>18, <2>1, EndStep DEF SelectPartition
  <2>3. Doing'
    BY <2>2
  <2>4. selected' \in Part \cup {None}
    <3>1. Msg.part \in Part
      BY <2>1, ApcParts, MessageParts DEF Msg
    <3>2. QED BY <1>18, <3>1 DEF SelectPartition
  <2>5. QED BY <1>18, <2>2, <2>3, <2>4 DEF SelectPartition, fpt, tasks
<1>19. CASE Announce
  <2>1. apc.pc # "idle" /\ apc.ok \in BOOLEAN
    BY <1>19, ApcParts DEF Announce
  <2>2. host' \in HostState
    <3>1. CASE Msg.op = "set"
      BY <1>19, <3>1 DEF Announce
    <3>2. CASE Msg.op # "set"
      BY <1>19, <2>1, <3>2, AnsweredStep DEF Announce, Handshake
    <3>3. QED BY <3>1, <3>2
  <2>3. apc' \in ApcState /\ apc'.pc = "idle"
    BY <1>19 DEF Announce, ApcState
  <2>4. QED BY <1>19, <2>2, <2>3 DEF Announce, fpt, tasks
<1>20. CASE ReadStart
  <2>1. reader' \in ReaderState
    BY <1>20 DEF ReadStart, ReaderState
  <2>2. QED BY <1>0, <1>20, <2>1 DEF ReadStart, fpt, tasks
<1>21. CASE ReadTake
  <2>1. reader' \in ReaderState
    BY <1>21 DEF ReadTake, ReaderState
  <2>2. QED BY <1>0, <1>21, <2>1 DEF ReadTake, fpt, tasks
<1>22. CASE Read
  <2>1. reader' \in ReaderState
    BY <1>22 DEF Read, ReaderState
  <2>2. QED BY <1>0, <1>22, <2>1 DEF Read, fpt, tasks
<1>a. CASE SetNowhere
  BY <1>0, <1>a DEF SetNowhere, fpt
<1>b. CASE GoAstray
  <2>1. apc.pc # "idle"
    BY <1>b DEF GoAstray
  <2>2. apc' \in ApcState /\ apc'.pc = "astray" /\ Msg' = Msg
    BY <1>b, <2>1, GoStep DEF GoAstray, ApcPhase
  <2>3. Doing'
    BY <2>2
  <2>4. QED BY <1>b, <2>2, <2>3 DEF GoAstray, fpt, tasks
<1>c. CASE LoadFails
  <2>1. apc.pc # "idle"
    BY <1>c DEF LoadFails
  <2>2. apc' \in ApcState /\ apc'.pc = "answer" /\ Msg' = Msg
    BY <1>c, <2>1, EndStep DEF LoadFails, LoadEnds
  <2>3. Doing'
    BY <2>2
  <2>4. QED BY <1>c, <2>2, <2>3 DEF LoadFails
<1>d. CASE ReadNowhere
  <2>1. reader' \in ReaderState
    BY <1>d DEF ReadNowhere, ReaderState
  <2>2. QED BY <1>0, <1>d, <2>1 DEF ReadNowhere, fpt
<1>23. CASE Reset
  <2>1. host' \in HostState
    <3>1. CASE host.pc \in {"send", "wait"}
      BY <1>23, <3>1 DEF Reset, HostState
    <3>2. CASE host.pc \notin {"send", "wait"}
      BY <1>23, <3>2 DEF Reset, HostState
    <3>3. QED BY <3>1, <3>2
  <2>2. apc' \in ApcState /\ apc'.pc = "idle" /\ reader' \in ReaderState
    BY <1>23 DEF Reset, ApcState, ReaderState
  <2>3. mbox' \in Seq(Messages) /\ Len(mbox') <= MBoxSize
    BY <1>23, FlashAssumption DEF Reset
  <2>4. valid' \in [Device -> BOOLEAN] /\ loaded' \in Md5 /\ selected' \in Part \cup {None}
    <3>1. PICK load \in StartLoads : valid' = [d \in Device |-> load[d].valid]
      BY <1>23 DEF Reset
    <3>2. \A d \in Device : load[d].valid \in BOOLEAN
      BY StartParts DEF TableTypes
    <3>3. QED BY <1>23, <3>1, <3>2 DEF Reset, Md5
  <2>5. QED BY <1>23, <2>1, <2>2, <2>3, <2>4 DEF Reset
<1>24. CASE UNCHANGED vars
  BY <1>0, <1>24 DEF vars, fpt, tasks
<1>25. QED BY <1>1, <1>2, <1>3, <1>4, <1>5, <1>6, <1>7, <1>8, <1>9, <1>10, <1>11, <1>12,
             <1>13, <1>14, <1>15, <1>16, <1>17, <1>18, <1>19, <1>20, <1>21, <1>22, <1>23,
             <1>24, <1>a, <1>b, <1>c, <1>d DEF Next, AmiTask, ApcTask, Reader

------------------------------------------------------------------------------
(* The messages between the tasks.                                         *)
Work == \/ DownloadImage \/ CopyChunk \/ CopyFirst \/ Record \/ Store \/ DownloadFpt
        \/ SetFptFlags \/ Forget \/ LoadHeader \/ LoadEntry \/ LoadFails
        \/ DownloadPdiImage \/ SelectPartition \/ GoAstray

LEMMA WorkStep ==
  ASSUME Typed, Work
  PROVE  /\ apc.pc # "idle" /\ apc'.pc # "idle" /\ Msg' = Msg
         /\ UNCHANGED <<host, mbox, ami, reader>>
<1>1. UNCHANGED <<host, mbox, ami, reader>>
  BY DEF Work, DownloadImage, CopyChunk, CopyFirst, Record, Store, DownloadFpt, SetFptFlags,
     Forget, LoadHeader, LoadEntry, LoadFails, DownloadPdiImage, SelectPartition, GoAstray,
     fpt, tasks
<1>2. apc.pc # "idle"
  BY DEF Work, DownloadImage, CopyChunk, CopyFirst, Record, Store, DownloadFpt, SetFptFlags,
     Forget, LoadHeader, LoadEntry, LoadFails, DownloadPdiImage, SelectPartition, GoAstray
<1>3. apc'.pc # "idle" /\ Msg' = Msg
  <2>0. apc \in ApcState
    BY DEF Typed
  <2>1. CASE \E c \in ApcPhase : Go(c)
    BY <1>2, <2>0, <2>1, GoStep DEF ApcPhase
  <2>2. CASE \E ok \in BOOLEAN : End(ok)
    BY <1>2, <2>0, <2>2, EndStep
  <2>3. CASE DownloadImage
    BY <2>1, <2>2, <2>3 DEF DownloadImage, ApcPhase
  <2>4. CASE CopyChunk
    BY <1>2, <2>0, <2>2, <2>4 DEF CopyChunk, ApcState, Msg
  <2>5. CASE CopyFirst
    BY <2>1, <2>2, <2>5 DEF CopyFirst, ApcPhase
  <2>6. CASE Record \/ DownloadFpt \/ SetFptFlags \/ Forget \/ GoAstray \/ LoadFails
    BY <2>1, <2>2, <2>6 DEF Record, DownloadFpt, SetFptFlags, Forget, GoAstray, LoadFails,
       LoadEnds, ApcPhase
  <2>7. CASE Store \/ DownloadPdiImage \/ SelectPartition
    BY <2>2, <2>7 DEF Store, DownloadPdiImage, SelectPartition
  <2>8. CASE LoadHeader
    <3>1. apc' = [apc EXCEPT !.pc = "load", !.k = 0] \/ End(FALSE)
      BY <2>8 DEF LoadHeader, LoadEnds
    <3>2. QED BY <1>2, <2>0, <2>2, <3>1 DEF ApcState, Msg
  <2>9. CASE LoadEntry
    BY <1>2, <2>0, <2>2, <2>9 DEF LoadEntry, LoadEnds, ApcState, Msg
  <2>10. QED BY <2>3, <2>4, <2>5, <2>6, <2>7, <2>8, <2>9 DEF Work
<1>4. QED BY <1>1, <1>2, <1>3

LEMMA ItemOp ==
  ASSUME NEW r \in Request, NEW j
  PROVE  Item(r, j).op = r.op /\ (Chunked(r) => Item(r, j).part = r.part)
BY RequestParts DEF Item, Message

LEMMA HandshakeStep ==
  ASSUME Typed, Handshake, PlanOK, [Next]_vars
  PROVE  Handshake' /\ PlanOK'
<1> USE DEF Handshake
<1>0. host \in HostState /\ mbox \in Seq(Messages) /\ Len(mbox) \in Nat
  BY DEF Typed
<1>a. UNCHANGED host => PlanOK'
  BY DEF PlanOK, At
<1>1. CASE Call
  <2>1. PICK r \in Request : host' = [pc |-> "send", req |-> r, plan |-> Plan(r)]
    BY <1>1 DEF Call
  <2>2. host'.pc = "send" /\ host'.req = r /\ host'.plan = Plan(r)
    BY <2>1
  <2>3. PlanOK'
    <3>1. /\ Len(Plan(r)) = Steps(r) /\ Steps(r) \in Nat \ {0}
          /\ \A j \in 1 .. Steps(r) : Plan(r)[j] = Item(r, j)
      BY PlanShape
    <3>2. At' = 1
      BY <2>2, <3>1 DEF At
    <3>3. \A i \in 1 .. Steps(r) : 1 + i - 1 = i
      OBVIOUS
    <3>4. 1 \in 1 .. Steps(r)
      BY <3>1
    <3>5. QED BY <2>2, <3>1, <3>2, <3>3, <3>4 DEF PlanOK
  <2>4. host.pc = "idle" /\ UNCHANGED <<mbox, apc, ami>>
    BY <1>1 DEF Call, tasks
  <2>5. QED BY <2>2, <2>3, <2>4 DEF Msg
<1>2. CASE Return
  <2>1. host'.pc = "idle" /\ host.pc \in {"done", "failed"} /\ UNCHANGED <<mbox, apc, ami>>
    BY <1>2 DEF Return, tasks
  <2>2. QED BY <2>1 DEF PlanOK, Msg
<1>3. CASE Accept
  <2>1. host.pc = "send" /\ ami = "idle" /\ UNCHANGED <<apc, ami>>
    BY <1>3 DEF Accept, tasks
  <2>2. CASE Acceptable(host.plan[1]) /\ Room
    <3>1. mbox' = Append(mbox, host.plan[1]) /\ host' = [host EXCEPT !.pc = "wait"]
      BY <1>3, <2>2 DEF Accept, Post
    <3>2. host'.pc = "wait" /\ host'.plan = host.plan /\ host'.req = host.req
      BY <1>0, <2>1, <3>1, HostParts
    <3>3. PlanOK'
      BY <2>1, <3>2 DEF PlanOK, At
    <3>4. \A i \in 1 .. Len(mbox') : \/ i = Len(mbox') /\ mbox'[i] = host.plan[1]
                                     \/ i \in 1 .. Len(mbox) /\ mbox'[i] = mbox[i]
      <4>1. host.plan[1] \in Messages
        BY <1>0, <2>1, PlanHead
      <4>2. \A i \in 1 .. Len(Append(mbox, host.plan[1])) :
            \/ /\ i = Len(Append(mbox, host.plan[1]))
               /\ Append(mbox, host.plan[1])[i] = host.plan[1]
            \/ i \in 1 .. Len(mbox) /\ Append(mbox, host.plan[1])[i] = mbox[i]
        BY <1>0, <4>1, Appended
      <4>3. QED BY <3>1, <4>2
    <3>5. QED BY <2>1, <3>2, <3>3, <3>4 DEF Msg
  <2>3. CASE ~(Acceptable(host.plan[1]) /\ Room)
    <3>1. Answered(FALSE) /\ UNCHANGED mbox
      BY <1>3, <2>3 DEF Accept
    <3>2. host'.pc = "failed" /\ PlanOK'
      BY <1>0, <2>1, <3>1, AnsweredStep
    <3>3. QED BY <2>1, <3>1, <3>2 DEF Msg
  <2>4. QED BY <2>2, <2>3
<1>4. CASE SetStart
  <2>1. host.pc = "send" /\ ami = "idle" /\ UNCHANGED <<mbox, apc>>
    BY <1>4 DEF SetStart
  <2>2. CASE InTable(host.plan[1].part)
    BY <1>4, <1>a, <2>1, <2>2 DEF SetStart, Msg
  <2>3. CASE ~InTable(host.plan[1].part)
    <3>1. Answered(FALSE) /\ UNCHANGED ami
      BY <1>4, <2>3 DEF SetStart
    <3>2. host'.pc = "failed" /\ PlanOK'
      BY <1>0, <2>1, <3>1, AnsweredStep
    <3>3. QED BY <2>1, <3>1, <3>2 DEF Msg
  <2>4. QED BY <2>2, <2>3
<1>5. CASE SetFinish
  <2>1. /\ host.pc = "send" /\ ami' = "idle" /\ UNCHANGED apc
        /\ host.plan[1].op = "set"
    BY <1>5 DEF SetFinish
  <2>2. host.req.op = "set" /\ host.plan[1] \in Messages
    BY <1>0, <2>1, PlanHead, ItemOp
  <2>3. PICK ok \in BOOLEAN : Answered(ok)
    BY <1>5 DEF SetFinish
  <2>4. PlanOK' /\ host'.req = host.req
    BY <1>0, <2>1, <2>3, AnsweredStep
  <2>5. mbox' = mbox \/ mbox' = Append(mbox, host.plan[1])
    BY <1>5 DEF SetFinish, Post
  <2>6. \A i \in 1 .. Len(mbox') : mbox'[i].op = "set"
    <3>1. \A i \in 1 .. Len(mbox) : mbox[i].op = "set"
      BY <2>1
    <3>2. CASE mbox' = Append(mbox, host.plan[1])
      <4>1. \A i \in 1 .. Len(mbox') : \/ mbox'[i] = host.plan[1]
                                       \/ i \in 1 .. Len(mbox) /\ mbox'[i] = mbox[i]
        <5>1. \A i \in 1 .. Len(Append(mbox, host.plan[1])) :
              \/ /\ i = Len(Append(mbox, host.plan[1]))
                 /\ Append(mbox, host.plan[1])[i] = host.plan[1]
              \/ i \in 1 .. Len(mbox) /\ Append(mbox, host.plan[1])[i] = mbox[i]
          BY <1>0, <2>2, Appended
        <5>2. QED BY <3>2, <5>1
      <4>2. QED BY <2>1, <3>1, <4>1
    <3>3. QED BY <2>5, <3>1, <3>2
  <2>7. QED BY <2>1, <2>2, <2>4, <2>6 DEF Msg
<1>6. CASE Pend
  <2>1. /\ apc.pc = "idle" /\ mbox # << >> /\ mbox' = Tail(mbox)
        /\ Msg' = mbox[1] /\ UNCHANGED <<host, ami>>
    BY <1>6 DEF Pend, Msg, tasks
  <2>2. /\ mbox' \in Seq(Messages) /\ Len(mbox') = Len(mbox) - 1
        /\ \A i \in 1 .. Len(mbox') : mbox'[i] = mbox[i + 1] /\ i + 1 \in 1 .. Len(mbox)
    <3>1. /\ mbox' \in Seq(Messages) /\ Len(mbox') = Len(mbox) - 1
          /\ \A i \in 1 .. Len(mbox') : mbox'[i] = mbox[i + 1]
      BY <1>0, <2>1, HeadTailProperties
    <3>2. \A i \in 1 .. Len(mbox') : i + 1 \in 1 .. Len(mbox)
      BY <1>0, <3>1
    <3>3. QED BY <3>1, <3>2
  <2>3. 1 \in 1 .. Len(mbox)
    BY <1>0, <2>1
  <2>4. \A i \in 1 .. Len(mbox') : mbox'[i].op # "set" =>
          host'.pc = "wait" /\ mbox'[i] = host'.plan[1] /\ i = Len(mbox')
    <3>1. SUFFICES ASSUME NEW i \in 1 .. Len(mbox'), mbox'[i].op # "set"
                   PROVE  host'.pc = "wait" /\ mbox'[i] = host'.plan[1] /\ i = Len(mbox')
      OBVIOUS
    <3>2. host.pc = "wait" /\ mbox[i + 1] = host.plan[1] /\ i + 1 = Len(mbox)
      BY <2>2, <3>1
    <3>3. i = Len(mbox')
      BY <1>0, <2>2, <3>2
    <3>4. QED BY <2>1, <2>2, <3>2, <3>3
  <2>5. Msg'.op # "set" => host'.pc = "wait" /\ Msg' = host'.plan[1] /\ mbox' = << >>
    <3>1. SUFFICES ASSUME mbox[1].op # "set"
                   PROVE  host.pc = "wait" /\ mbox[1] = host.plan[1] /\ mbox' = << >>
      BY <2>1
    <3>2. host.pc = "wait" /\ mbox[1] = host.plan[1] /\ 1 = Len(mbox)
      BY <2>3, <3>1
    <3>3. Len(mbox') = 0
      <4>1. \A a, b \in Nat : 1 = a /\ b = a - 1 => b = 0
        OBVIOUS
      <4>2. Len(mbox') \in Nat
        BY <2>2
      <4>3. QED BY <1>0, <2>2, <3>2, <4>1, <4>2
    <3>4. QED BY <2>2, <3>2, <3>3, EmptySeq
  <2>6. ~(host.pc = "done" /\ host.req.op # "set")
    BY <2>1
  <2>7. QED BY <1>a, <2>1, <2>4, <2>5, <2>6
<1>7. CASE Work
  <2>1. /\ apc.pc # "idle" /\ Msg' = Msg /\ apc'.pc # "idle"
        /\ UNCHANGED <<host, mbox, ami, reader>>
    BY <1>7, WorkStep
  <2>2. QED BY <1>a, <2>1
<1>8. CASE Announce
  <2>1. apc.pc = "answer" /\ apc'.pc = "idle" /\ UNCHANGED <<mbox, ami>>
    BY <1>8 DEF Announce, tasks
  <2>2. CASE Msg.op = "set"
    BY <1>8, <1>a, <2>1, <2>2 DEF Announce
  <2>3. CASE Msg.op # "set"
    <3>1. host.pc = "wait" /\ mbox = << >>
      BY <2>1, <2>3
    <3>2. apc.ok \in BOOLEAN /\ Answered(apc.ok)
      BY <1>8, <2>1, <2>3, ApcParts DEF Announce, Typed
    <3>3. PlanOK'
      BY <1>0, <3>1, <3>2, AnsweredStep
    <3>4. QED BY <2>1, <3>1, <3>3
  <2>4. QED BY <2>2, <2>3
<1>9. CASE ReadStart \/ ReadTake \/ Read \/ ReadNowhere \/ SetNowhere
  BY <1>9, <1>a DEF ReadStart, ReadTake, Read, ReadNowhere, SetNowhere, Msg
<1>10. CASE Reset
  <2>1. mbox' = << >> /\ apc'.pc = "idle" /\ ami' = "idle"
    BY <1>10 DEF Reset
  <2>2. host'.pc \notin {"send", "wait"}
    <3>1. CASE host.pc \in {"send", "wait"}
      BY <1>0, <1>10, <3>1 DEF Reset, HostState
    <3>2. CASE host.pc \notin {"send", "wait"}
      BY <1>10, <3>2 DEF Reset
    <3>3. QED BY <3>1, <3>2
  <2>3. QED BY <2>1, <2>2 DEF PlanOK
<1>11. CASE UNCHANGED vars
  BY <1>11, <1>a DEF vars, tasks, Msg
<1>12. QED BY <1>1, <1>2, <1>3, <1>4, <1>5, <1>6, <1>7, <1>8, <1>9, <1>10, <1>11
           DEF Next, AmiTask, ApcTask, Reader, Work

------------------------------------------------------------------------------
(* The tables: what they hold, and how an entry of them changes.           *)
LEMMA EntryParts ==
  ASSUME NEW e \in Entry
  PROVE  /\ e.md5 \in Md5
         /\ \A x \in Md5 : LET g == [e EXCEPT !.md5 = x] IN g \in Entry /\ g.md5 = x
         /\ \A x \in Flag : LET g == [e EXCEPT !.flags = x] IN g \in Entry /\ g.md5 = e.md5
         /\ e # None
BY TableAssumption DEF Entry

LEMMA WholeEntry ==
  ASSUME TableTypes, NEW d \in Device, NEW i, Whole(d, i)
  PROVE  /\ cache[d][i] \in Entry /\ i \in 0 .. header[d] - 1 /\ cache[d] # NoTable
         /\ cache[d] \in [0 .. header[d] - 1 -> Entry \cup {None}]
<1>1. Cached(header[d], cache[d]) /\ i \in DOMAIN cache[d] /\ cache[d][i] # None
  BY DEF TableTypes, Whole
<1>2. cache[d] # NoTable
  BY <1>1 DEF NoTable
<1>3. QED BY <1>1, <1>2 DEF Cached

LEMMA EntryWritten ==
  ASSUME NEW t, IsTable(t), NEW i, NEW e \in Entry
  PROVE  IsTable([t EXCEPT !.entry[i] = e])
BY DEF IsTable

(* A change of a cached entry that is there.                               *)
LEMMA EntryEdit ==
  ASSUME TableTypes, NEW d \in Device, NEW i, Whole(d, i), NEW e \in Entry,
         cache' = [cache EXCEPT ![d][i] = e]
  PROVE  /\ DOMAIN cache' = Device /\ cache'[d][i] = e
         /\ \A b \in Device : Cached(header[b], cache'[b])
         /\ \A b \in Device : /\ DOMAIN cache'[b] = DOMAIN cache[b]
                              /\ cache[b] = NoTable => cache'[b] = NoTable
                              /\ \A j : Whole(b, j) => Whole(b, j)'
<1>1. /\ DOMAIN cache' = Device /\ cache'[d] = [cache[d] EXCEPT ![i] = e]
      /\ \A b \in Device : b # d => cache'[b] = cache[b]
  BY DEF TableTypes
<1>2. /\ cache[d] \in [0 .. header[d] - 1 -> Entry \cup {None}] /\ i \in 0 .. header[d] - 1
      /\ cache[d] # NoTable
  BY WholeEntry
<1>3. /\ cache'[d] \in [0 .. header[d] - 1 -> Entry \cup {None}] /\ cache'[d][i] = e
      /\ \A j : j # i => cache'[d][j] = cache[d][j]
      /\ DOMAIN cache'[d] = DOMAIN cache[d]
  BY <1>1, <1>2
<1>4. e # None
  BY EntryParts
<1>5. ASSUME NEW b \in Device
      PROVE  /\ Cached(header[b], cache'[b]) /\ DOMAIN cache'[b] = DOMAIN cache[b]
             /\ cache[b] = NoTable => cache'[b] = NoTable
             /\ \A j : Whole(b, j) => Whole(b, j)'
  <2>1. CASE b # d
    BY <1>1, <2>1 DEF TableTypes, Whole
  <2>2. CASE b = d
    BY <1>2, <1>3, <1>4, <2>2 DEF Cached, Whole
  <2>3. QED BY <2>1, <2>2
<1>6. QED BY <1>1, <1>3, <1>5

LEMMA Md5Edit ==
  ASSUME TableTypes, NEW d \in Device, NEW i, Whole(d, i), NEW x \in Md5,
         cache' = [cache EXCEPT ![d][i].md5 = x]
  PROVE  LET e == [cache[d][i] EXCEPT !.md5 = x]
         IN  e \in Entry /\ e.md5 = x /\ cache' = [cache EXCEPT ![d][i] = e]
<1>1. cache[d][i] \in Entry
  BY WholeEntry
<1>2. cache' = [cache EXCEPT ![d][i] = [cache[d][i] EXCEPT !.md5 = x]]
  OBVIOUS
<1>3. QED BY <1>1, <1>2, EntryParts

(* What the APC task needs is there.                                       *)
LEMMA KnownParts ==
  ASSUME Known
  PROVE  /\ Msg.op \in {"download", "copy"} => Whole(DeviceOf[Msg.part], IndexOf[Msg.part])
         /\ Msg.op = "copy" => Whole(DeviceOf[Msg.src], IndexOf[Msg.src])
         /\ Msg.op = "set" /\ InTable(Msg.part) => Whole(DeviceOf[Msg.part], IndexOf[Msg.part])
<1>1. Msg.op = "download" => << DeviceOf[Msg.part], IndexOf[Msg.part] >> \in Used
  BY DEF Used
<1>2. Msg.op = "copy" => /\ << DeviceOf[Msg.part], IndexOf[Msg.part] >> \in Used
                         /\ << DeviceOf[Msg.src], IndexOf[Msg.src] >> \in Used
  BY DEF Used
<1>3. Msg.op = "set" /\ InTable(Msg.part) =>
        << DeviceOf[Msg.part], IndexOf[Msg.part] >> \in Used
  BY DEF Used
<1>4. \A d, i : << d, i >> \in Used => Whole(d, i)
  BY DEF Known
<1>5. QED BY <1>1, <1>2, <1>3, <1>4

LEMMA KnownKept ==
  ASSUME Known, Msg' = Msg, Msg.op \in {"download", "copy"}, Msg.part \in Part,
         Msg.op = "copy" => Msg.src \in Part,
         \A b \in Device : \A j : Whole(b, j) => Whole(b, j)'
  PROVE  Known'
<1>1. Used' = Used
  BY DEF Used
<1>2. \A u \in Used : u[1] \in Device
  BY ParDevice DEF Used
<1>3. QED BY <1>1, <1>2 DEF Known

(* While no table is read again.                                           *)
Calm == apc.pc \notin {"header", "load"}

(* The steps that change an entry of a cached table.                       *)
LEMMA SetEdit ==
  ASSUME Typed, Handshake, PlanOK, TableTypes, SetFinish
  PROVE  \/ UNCHANGED cache
         \/ \E d \in Device, e \in Entry : \E i : Whole(d, i) /\ cache' = [cache EXCEPT ![d][i] = e]
<1> DEFINE d == DeviceOf[host.plan[1].part]
           i == IndexOf[host.plan[1].part]
           x == host.plan[1].image
<1>1. host \in HostState /\ host.pc = "send" /\ host.plan[1].op = "set"
  BY DEF Typed, SetFinish, Handshake
<1>2. host.plan[1].part \in Part /\ x \in Md5
  <2>1. host.plan[1] \in Messages
    BY <1>1, PlanHead
  <2>2. QED BY <1>1, <2>1, MessageParts DEF Md5
<1>3. d \in Device
  BY <1>2, ParDevice
<1>4. cache' = IF Whole(d, i) THEN [cache EXCEPT ![d][i].md5 = x] ELSE cache
  BY DEF SetFinish
<1> HIDE DEF d, i, x
<1>5. QED BY <1>2, <1>3, <1>4, Md5Edit

LEMMA DigestType ==
  ASSUME Typed, TableTypes, NamesOK, Doing, apc.pc = "record"
  PROVE  /\ Msg.op \in {"download", "copy"} /\ Msg.part \in Part /\ Digest \in Md5
         /\ Msg.op = "copy" => Msg.src \in Part
<1>1. /\ Msg.op \in {"download", "copy"} /\ Msg.part \in Part
      /\ Msg.op = "download" => Msg.image \in Image
      /\ Msg.op = "copy" => Msg.src \in Part
  BY ApcParts, MessageParts DEF Typed, Doing, Msg
<1>2. CASE Msg.op = "download"
  BY <1>1, <1>2 DEF Digest, Md5
<1>3. CASE Msg.op = "copy"
  <2>1. Whole(DeviceOf[Msg.src], IndexOf[Msg.src]) /\ DeviceOf[Msg.src] \in Device
    BY <1>1, <1>3, KnownParts, ParDevice DEF NamesOK
  <2>2. cache[DeviceOf[Msg.src]][IndexOf[Msg.src]].md5 \in Md5
    BY <2>1, WholeEntry, EntryParts
  <2>3. QED BY <1>1, <1>3, <2>2 DEF Digest
<1>4. QED BY <1>1, <1>2, <1>3

LEMMA RecordEdit ==
  ASSUME Typed, TableTypes, NamesOK, Doing, Record
  PROVE  LET d == DeviceOf[Msg.part]
             i == IndexOf[Msg.part]
             e == [cache[d][i] EXCEPT !.md5 = Digest]
         IN  /\ d \in Device /\ Whole(d, i) /\ e \in Entry /\ e.md5 = Digest
             /\ cache' = [cache EXCEPT ![d][i] = e]
<1>0. PICK d, i : d = DeviceOf[Msg.part] /\ i = IndexOf[Msg.part]
  OBVIOUS
<1>1. apc.pc = "record" /\ cache' = [cache EXCEPT ![d][i].md5 = Digest]
  BY <1>0 DEF Record
<1>2. Msg.op \in {"download", "copy"} /\ Msg.part \in Part /\ Digest \in Md5
  BY <1>1, DigestType
<1>3. d \in Device /\ Whole(d, i)
  BY <1>0, <1>1, <1>2, KnownParts, ParDevice DEF NamesOK
<1>4. LET e == [cache[d][i] EXCEPT !.md5 = Digest]
      IN  e \in Entry /\ e.md5 = Digest /\ cache' = [cache EXCEPT ![d][i] = e]
  BY <1>1, <1>2, <1>3, Md5Edit
<1>5. QED BY <1>0, <1>3, <1>4

LEMMA FlagsEdit ==
  ASSUME Typed, TableTypes, Doing, SetFptFlags
  PROVE  \/ UNCHANGED <<cache, table>>
         \/ \E d \in Device, e \in Entry : \E i :
              /\ Whole(d, i) /\ cache' = [cache EXCEPT ![d][i] = e]
              /\ table' = table \/ table' = [table EXCEPT ![d].entry[i] = e]
<1> DEFINE d == DeviceOf[Msg.part]
           i == IndexOf[Msg.part]
           e == [cache[d][i] EXCEPT !.flags = Msg.flags]
<1>1. apc.pc = "set" /\ apc.pc # "idle" /\ Msg.op = "set" /\ Known
  BY DEF SetFptFlags, Doing
<1>2. Msg.part \in Part /\ Msg.flags \in Flag /\ d \in Device
  <2>1. Msg.part \in Part /\ Msg.flags \in Flag
    BY <1>1, ApcParts, MessageParts DEF Typed, Msg
  <2>2. QED BY <2>1, ParDevice
<1>3. CASE ~InTable(Msg.part)
  BY <1>3 DEF SetFptFlags
<1>4. CASE InTable(Msg.part)
  <2>1. Whole(d, i)
    BY <1>1, <1>4, KnownParts
  <2>2. e \in Entry
    BY <1>2, <2>1, WholeEntry, EntryParts
  <2>3. \/ UNCHANGED <<cache, table>>
        \/ /\ cache' = [cache EXCEPT ![d][i] = e]
           /\ table' = table \/ table' = [table EXCEPT ![d].entry[i] = e]
    BY <1>4 DEF SetFptFlags, StoreEntry
  <2>4. QED BY <1>2, <2>1, <2>2, <2>3
<1>5. QED BY <1>3, <1>4

(* The steps that change nothing of the tables.                            *)
Others == \/ Call \/ Return \/ Accept \/ SetStart \/ SetNowhere \/ ReadStart \/ ReadTake \/ Read
          \/ ReadNowhere \/ Pend \/ DownloadImage \/ CopyChunk \/ CopyFirst \/ DownloadPdiImage
          \/ SelectPartition \/ GoAstray \/ Announce

LEMMA OthersStep ==
  ASSUME Typed, Others
  PROVE  /\ UNCHANGED <<table, header, cache, failed>>
         /\ UNCHANGED apc \/ (Calm /\ Calm')
<1>0. apc \in ApcState /\ mbox \in Seq(Messages)
  BY DEF Typed
<1>1. CASE Call \/ Return \/ Accept \/ SetStart \/ SetNowhere \/ ReadStart \/ ReadTake \/ Read
           \/ ReadNowhere
  BY <1>1 DEF Call, Return, Accept, SetStart, SetNowhere, ReadStart, ReadTake, Read,
     ReadNowhere, fpt
<1>2. CASE Pend
  <2>1. Calm /\ UNCHANGED fpt
    BY <1>2 DEF Pend, Calm
  <2>2. mbox[1] \in Messages
    BY <1>0, <1>2 DEF Pend
  <2>3. Calm'
    BY <1>2, <2>2, MessageParts DEF Pend, Calm
  <2>4. QED BY <2>1, <2>3 DEF fpt
<1>3. CASE DownloadImage \/ CopyChunk \/ CopyFirst \/ DownloadPdiImage \/ SelectPartition
           \/ GoAstray
  <2>1. Calm /\ apc.pc # "idle" /\ UNCHANGED fpt
    BY <1>3 DEF DownloadImage, CopyChunk, CopyFirst, DownloadPdiImage, SelectPartition,
       GoAstray, Calm
  <2>2. Calm'
    <3>1. CASE DownloadImage \/ CopyFirst \/ GoAstray
      <4>1. Go("record") \/ Go("astray") \/ End(TRUE) \/ End(FALSE)
        BY <3>1 DEF DownloadImage, CopyFirst, GoAstray
      <4>2. QED BY <1>0, <2>1, <4>1, GoStep, EndStep DEF ApcPhase, Calm
    <3>2. CASE DownloadPdiImage \/ SelectPartition
      <4>1. End(TRUE) \/ End(FALSE)
        BY <3>2 DEF DownloadPdiImage, SelectPartition
      <4>2. QED BY <1>0, <2>1, <4>1, EndStep DEF Calm
    <3>3. CASE CopyChunk
      BY <1>0, <3>3, EndStep DEF CopyChunk, ApcState, Calm
    <3>4. QED BY <1>3, <3>1, <3>2, <3>3
  <2>3. QED BY <2>1, <2>2 DEF fpt
<1>4. CASE Announce
  BY <1>4 DEF Announce, Calm, fpt
<1>5. QED BY <1>1, <1>2, <1>3, <1>4 DEF Others

LEMMA TableTypesStep ==
  ASSUME Typed, Doing, Handshake, PlanOK, NamesOK, LoadsOK, TableTypes, [Next]_vars
  PROVE  TableTypes'
<1>0. /\ apc \in ApcState /\ DOMAIN table = Device /\ DOMAIN cache = Device
      /\ header \in [Device -> Nat] /\ failed \subseteq Device
      /\ \A d \in Device : IsTable(table[d]) /\ Cached(header[d], cache[d])
  BY DEF Typed, TableTypes
<1>a. UNCHANGED <<table, header, cache, failed>> => TableTypes'
  BY DEF TableTypes
<1>b. ASSUME UNCHANGED <<header, failed>>, NEW d \in Device, NEW i, NEW e \in Entry, Whole(d, i),
             cache' = [cache EXCEPT ![d][i] = e],
             table' = table \/ table' = [table EXCEPT ![d].entry[i] = e]
      PROVE  TableTypes'
  <2>1. DOMAIN cache' = Device /\ \A b \in Device : Cached(header[b], cache'[b])
    BY <1>b, EntryEdit
  <2>2. IsTable([table[d] EXCEPT !.entry[i] = e])
    BY <1>0, EntryWritten
  <2>3. DOMAIN table' = Device /\ \A b \in Device : IsTable(table'[b])
    BY <1>0, <1>b, <2>2
  <2>4. QED BY <1>0, <1>b, <2>1, <2>3 DEF TableTypes
<1>1. CASE Others
  BY <1>1, <1>a, OthersStep
<1>2. CASE SetFinish
  <2>1. UNCHANGED <<table, header, failed>>
    BY <1>2 DEF SetFinish
  <2>2. QED BY <1>2, <1>a, <1>b, <2>1, SetEdit
<1>3. CASE Record
  <2>1. UNCHANGED <<table, header, failed>>
    BY <1>3 DEF Record
  <2>2. \E d \in Device, e \in Entry : \E i : Whole(d, i) /\ cache' = [cache EXCEPT ![d][i] = e]
    BY <1>3, RecordEdit
  <2>3. QED BY <1>b, <2>1, <2>2
<1>4. CASE Store
  <2> DEFINE d == DeviceOf[Msg.part]
             i == IndexOf[Msg.part]
  <2>1. /\ apc.pc = "store" /\ apc.pc # "idle" /\ UNCHANGED <<header, cache, failed>>
        /\ Msg.op \in {"download", "copy"} /\ Known
    BY <1>4 DEF Store, Doing, NamesOK
  <2>2. d \in Device /\ Whole(d, i)
    <3>1. Msg.part \in Part
      BY <1>0, <2>1, ApcParts, MessageParts DEF Msg
    <3>2. QED BY <2>1, <3>1, ParDevice, KnownParts
  <2>3. table' = table \/ table' = [table EXCEPT ![d].entry[i] = cache[d][i]]
    BY <1>4 DEF Store, StoreEntry
  <2> HIDE DEF d, i
  <2>4. cache[d][i] \in Entry
    BY <2>2, WholeEntry
  <2>5. IsTable([table[d] EXCEPT !.entry[i] = cache[d][i]])
    BY <1>0, <2>2, <2>4, EntryWritten
  <2>6. DOMAIN table' = Device /\ \A b \in Device : IsTable(table'[b])
    BY <1>0, <2>2, <2>3, <2>5
  <2>7. QED BY <1>0, <2>1, <2>6 DEF TableTypes
<1>5. CASE DownloadFpt
  <2>1. /\ apc.pc # "idle" /\ UNCHANGED <<header, cache, failed>> /\ Msg.op = "update_fpt"
        /\ \/ table' = table
           \/ table' = [table EXCEPT ![Msg.dev] = Msg.table]
           \/ table' = [table EXCEPT ![Msg.dev] = [Msg.table EXCEPT !.good = FALSE]]
    BY <1>5 DEF DownloadFpt, Doing
  <2>2. Msg.dev \in Device /\ Msg.table \in NewTable
    BY <1>0, <2>1, ApcParts, MessageParts DEF Msg
  <2>3. IsTable(Msg.table)
    BY <2>2, TableAssumption
  <2>4. IsTable([Msg.table EXCEPT !.good = FALSE])
    BY <2>3 DEF IsTable
  <2>5. DOMAIN table' = Device /\ \A b \in Device : IsTable(table'[b])
    BY <1>0, <2>1, <2>2, <2>3, <2>4
  <2>6. QED BY <1>0, <2>1, <2>5 DEF TableTypes
<1>6. CASE SetFptFlags
  <2>1. UNCHANGED <<header, failed>>
    BY <1>6 DEF SetFptFlags
  <2>2. QED BY <1>6, <1>a, <1>b, <2>1, FlagsEdit
<1>7. CASE Forget
  <2>1. /\ apc.pc # "idle" /\ UNCHANGED <<table, failed>> /\ Msg.op \in {"update_fpt", "set"}
        /\ header' = [header EXCEPT ![Refreshed] = 0]
        /\ cache' = [cache EXCEPT ![Refreshed] = NoTable]
    BY <1>7 DEF Forget, Doing
  <2> DEFINE R == Refreshed
  <2>2. R \in Device
    BY <1>0, <2>1, RefreshedDevice
  <2>3. header' = [header EXCEPT ![R] = 0] /\ cache' = [cache EXCEPT ![R] = NoTable]
    BY <2>1
  <2> HIDE DEF R
  <2>4. /\ header' \in [Device -> Nat] /\ DOMAIN cache' = Device
        /\ \A b \in Device : Cached(header'[b], cache'[b])
    BY <1>0, <2>2, <2>3 DEF Cached
  <2>5. QED BY <1>0, <2>1, <2>4 DEF TableTypes
<1>8. CASE LoadHeader
  <2> DEFINE R == Refreshed
             n == table[R].entries
  <2>1. /\ apc.pc = "header" /\ UNCHANGED table /\ Msg.op \in {"update_fpt", "set"}
        /\ header' = [header EXCEPT ![R] = n]
        /\ \/ cache' = cache
           \/ cache' = [cache EXCEPT ![R] = FirstOf(0, table[R])]
        /\ failed' = failed \/ failed' = failed \cup {R}
    BY <1>8 DEF LoadHeader, LoadEnds, Doing
  <2>2. R \in Device
    BY <1>0, <2>1, RefreshedDevice
  <2>3. cache[R] = NoTable
    BY <2>1, <2>2 DEF LoadsOK, Loading
  <2> HIDE DEF R
  <2>4. n \in Nat
    BY <1>0, <2>2 DEF IsTable
  <2>5. FirstOf(0, table[R]) \in [0 .. n - 1 -> Entry \cup {None}]
    BY <1>0, <2>2 DEF FirstOf, IsTable
  <2> HIDE DEF n
  <2>6. header' \in [Device -> Nat] /\ failed' \subseteq Device /\ DOMAIN cache' = Device
    BY <1>0, <2>1, <2>2, <2>4
  <2>7. Cached(header'[R], cache'[R])
    <3>1. header'[R] = n
      BY <1>0, <2>1, <2>2
    <3>2. cache'[R] = NoTable \/ cache'[R] = FirstOf(0, table[R])
      BY <1>0, <2>1, <2>2, <2>3
    <3>3. QED BY <2>5, <3>1, <3>2 DEF Cached
  <2>8. \A b \in Device : b # R => header'[b] = header[b] /\ cache'[b] = cache[b]
    BY <1>0, <2>1, <2>2
  <2>9. \A b \in Device : Cached(header'[b], cache'[b])
    BY <1>0, <2>7, <2>8
  <2>10. QED BY <1>0, <2>1, <2>6, <2>9 DEF TableTypes
<1>9. CASE LoadEntry
  <2> DEFINE R == Refreshed
             e == table[R].entry[apc.k]
  <2>1. /\ apc.pc = "load" /\ UNCHANGED <<table, header>> /\ Msg.op \in {"update_fpt", "set"}
        /\ cache' = [cache EXCEPT ![R][apc.k] = e]
        /\ failed' = failed \/ failed' = failed \ {R} \/ failed' = failed \cup {R}
    BY <1>9 DEF LoadEntry, LoadEnds, Doing
  <2>2. R \in Device
    BY <1>0, <2>1, RefreshedDevice
  <2>3. /\ header[R] = table[R].entries /\ apc.k \in 0 .. header[R] - 1
        /\ DOMAIN cache[R] = 0 .. header[R] - 1
    BY <2>1, <2>2 DEF LoadsOK, Loading
  <2> HIDE DEF R
  <2>4. e \in Entry
    BY <1>0, <2>2, <2>3 DEF IsTable
  <2> HIDE DEF e
  <2>5. cache[R] \in [0 .. header[R] - 1 -> Entry \cup {None}]
    <3>1. cache[R] # NoTable
      BY <2>3 DEF NoTable
    <3>2. QED BY <1>0, <2>2, <3>1 DEF Cached
  <2>6. /\ DOMAIN cache' = Device
        /\ cache'[R] \in [0 .. header[R] - 1 -> Entry \cup {None}]
        /\ \A b \in Device : b # R => cache'[b] = cache[b]
    BY <1>0, <2>1, <2>2, <2>3, <2>4, <2>5
  <2>7. failed' \subseteq Device
    BY <1>0, <2>1, <2>2
  <2>8. QED BY <1>0, <2>1, <2>6, <2>7 DEF TableTypes, Cached
<1>10. CASE LoadFails
  <2>1. /\ apc.pc # "idle" /\ Msg.op \in {"update_fpt", "set"}
        /\ UNCHANGED <<table, header, cache>> /\ failed' = failed \cup {Refreshed}
    BY <1>10 DEF LoadFails, LoadEnds, Doing
  <2>2. Refreshed \in Device
    BY <1>0, <2>1, RefreshedDevice
  <2>3. failed' \subseteq Device
    BY <1>0, <2>1, <2>2
  <2>4. QED BY <1>0, <2>1, <2>3 DEF TableTypes
<1>11. CASE Reset
  <2>1. PICK load \in StartLoads :
          /\ header' = [d \in Device |-> load[d].header]
          /\ cache' = [d \in Device |-> load[d].cache]
          /\ failed' = {d \in Device : ~load[d].ok}
    BY <1>11 DEF Reset
  <2>2. \A d \in Device : load[d].header \in Nat /\ Cached(load[d].header, load[d].cache)
    BY <1>0, StartParts
  <2>3. table' = table
    BY <1>11 DEF Reset
  <2>4. QED BY <1>0, <2>1, <2>2, <2>3 DEF TableTypes
<1>12. CASE UNCHANGED vars
  BY <1>12, <1>a DEF vars
<1>13. QED BY <1>1, <1>2, <1>3, <1>4, <1>5, <1>6, <1>7, <1>8, <1>9, <1>10, <1>11, <1>12
           DEF Next, AmiTask, ApcTask, Reader, Others

LEMMA LoadsStep ==
  ASSUME Typed, Doing, Handshake, PlanOK, NamesOK, LoadsOK, TableTypes, [Next]_vars
  PROVE  LoadsOK'
<1>0. /\ apc \in ApcState /\ DOMAIN table = Device /\ DOMAIN cache = Device
      /\ header \in [Device -> Nat] /\ failed \subseteq Device
      /\ \A d \in Device : IsTable(table[d])
  BY DEF Typed, TableTypes
<1>a. ASSUME UNCHANGED apc \/ (Calm /\ Calm'),
             UNCHANGED <<header, failed>>, UNCHANGED table \/ (Calm /\ Calm'),
             \A b \in Device : /\ DOMAIN cache'[b] = DOMAIN cache[b]
                               /\ cache[b] = NoTable => cache'[b] = NoTable
                               /\ \A j : Whole(b, j) => Whole(b, j)'
      PROVE  LoadsOK'
  <2>1. CASE Calm /\ Calm'
    BY <1>a, <2>1 DEF LoadsOK, Loading, Calm
  <2>2. CASE UNCHANGED <<apc, table>>
    <3>1. \A b \in Device : Loading(b)' = Loading(b)
      BY <2>2 DEF Loading, Refreshed, Msg
    <3>2. QED BY <1>a, <2>2, <3>1 DEF LoadsOK
  <2>3. QED BY <1>a, <2>1, <2>2
<1>b. UNCHANGED cache => \A b \in Device : /\ DOMAIN cache'[b] = DOMAIN cache[b]
                                           /\ cache[b] = NoTable => cache'[b] = NoTable
                                           /\ \A j : Whole(b, j) => Whole(b, j)'
  BY DEF Whole
<1>c. \A d \in Device, e \in Entry : \A i :
        Whole(d, i) /\ cache' = [cache EXCEPT ![d][i] = e] =>
          \A b \in Device : /\ DOMAIN cache'[b] = DOMAIN cache[b]
                            /\ cache[b] = NoTable => cache'[b] = NoTable
                            /\ \A j : Whole(b, j) => Whole(b, j)'
  BY EntryEdit
<1>d. ASSUME Calm', \A d \in Device \ failed' : \A i \in 0 .. header'[d] - 1 : Whole(d, i)'
      PROVE  LoadsOK'
  BY <1>d DEF LoadsOK, Loading, Calm
<1>1. CASE Others
  BY <1>1, <1>a, <1>b, OthersStep
<1>2. CASE SetFinish
  <2>1. UNCHANGED <<table, header, failed, apc>>
    BY <1>2 DEF SetFinish
  <2>2. QED BY <1>2, <1>a, <1>b, <1>c, <2>1, SetEdit
<1>3. CASE Record
  <2>1. UNCHANGED <<table, header, failed>> /\ Calm /\ apc.pc # "idle" /\ Go("store")
    BY <1>3 DEF Record, Calm
  <2>2. \E d \in Device, e \in Entry : \E i : Whole(d, i) /\ cache' = [cache EXCEPT ![d][i] = e]
    BY <1>3, RecordEdit
  <2>3. Calm'
    BY <1>0, <2>1, GoStep DEF Calm, ApcPhase
  <2>4. QED BY <1>a, <1>c, <2>1, <2>2, <2>3
<1>4. CASE Store \/ DownloadFpt
  <2>1. /\ UNCHANGED <<header, cache, failed>> /\ Calm /\ apc.pc # "idle"
        /\ End(TRUE) \/ End(FALSE) \/ Go("refresh")
    BY <1>4 DEF Store, DownloadFpt, Calm
  <2>2. Calm'
    BY <1>0, <2>1, GoStep, EndStep DEF Calm, ApcPhase
  <2>3. QED BY <1>a, <1>b, <2>1, <2>2
<1>5. CASE SetFptFlags
  <2>1. UNCHANGED <<header, failed>> /\ Calm /\ apc.pc # "idle" /\ (Go("refresh") \/ End(FALSE))
    BY <1>5 DEF SetFptFlags, Calm
  <2>2. Calm'
    BY <1>0, <2>1, GoStep, EndStep DEF Calm, ApcPhase
  <2>3. QED BY <1>5, <1>a, <1>b, <1>c, <2>1, <2>2, FlagsEdit
<1>6. CASE Forget
  <2>1. /\ Calm /\ apc.pc # "idle" /\ Msg.op \in {"update_fpt", "set"} /\ UNCHANGED failed
        /\ header' = [header EXCEPT ![Refreshed] = 0]
        /\ cache' = [cache EXCEPT ![Refreshed] = NoTable]
    BY <1>6 DEF Forget, Doing, Calm
  <2>2. apc'.pc = "header" /\ Msg' = Msg
    BY <1>0, <1>6, <2>1, GoStep DEF Forget, ApcPhase
  <2> DEFINE R == Refreshed
  <2>3. R \in Device /\ \A b \in Device : Loading(b)' <=> b = R
    BY <1>0, <2>1, <2>2, RefreshedDevice DEF Loading, Refreshed
  <2> HIDE DEF R
  <2>4. /\ cache'[R] = NoTable
        /\ \A b \in Device : b # R => header'[b] = header[b] /\ cache'[b] = cache[b]
    BY <1>0, <2>1, <2>3 DEF R
  <2>5. \A b \in Device \ failed : \A i \in 0 .. header[b] - 1 : Whole(b, i)
    BY <2>1 DEF LoadsOK, Loading, Calm
  <2>6. QED BY <2>1, <2>2, <2>3, <2>4, <2>5 DEF LoadsOK, Whole
<1>7. CASE LoadHeader
  <2> DEFINE R == Refreshed
             t == table[R]
  <2>1. /\ apc.pc = "header" /\ UNCHANGED table /\ Msg.op \in {"update_fpt", "set"}
        /\ header' = [header EXCEPT ![R] = t.entries]
    BY <1>7 DEF LoadHeader, Doing
  <2>2. R \in Device /\ \A b \in Device : Loading(b) <=> b = R
    BY <1>0, <2>1, RefreshedDevice DEF Loading
  <2>3. \A b \in Device \ failed : b # R => \A i \in 0 .. header[b] - 1 : Whole(b, i)
    BY <2>2 DEF LoadsOK
  <2>4. \/ /\ t.entries > 0 /\ apc' = [apc EXCEPT !.pc = "load", !.k = 0]
           /\ cache' = [cache EXCEPT ![R] = FirstOf(0, t)] /\ failed' = failed
        \/ End(FALSE) /\ UNCHANGED cache /\ failed' = failed \cup {R}
    BY <1>7 DEF LoadHeader, LoadEnds
  <2>5. CASE /\ t.entries > 0 /\ apc' = [apc EXCEPT !.pc = "load", !.k = 0]
             /\ cache' = [cache EXCEPT ![R] = FirstOf(0, t)] /\ failed' = failed
    <3>1. apc'.pc = "load" /\ Msg' = Msg /\ apc'.k = 0
      BY <1>0, <2>1, <2>5 DEF ApcState, Msg
    <3>2. \A b \in Device : Loading(b)' <=> b = R
      BY <3>1 DEF Loading, Refreshed
    <3> HIDE DEF R
    <3>3. /\ header'[R] = t.entries /\ cache'[R] = FirstOf(0, t)
          /\ \A b \in Device : b # R => header'[b] = header[b] /\ cache'[b] = cache[b]
      BY <1>0, <2>1, <2>2, <2>5
    <3>4. t.entries \in Nat /\ DOMAIN cache'[R] = 0 .. t.entries - 1
      BY <1>0, <2>2, <3>3 DEF FirstOf, IsTable
    <3>5. 0 \in 0 .. t.entries - 1 /\ \A i \in 0 .. 0 - 1 : FALSE
      BY <2>5, <3>4
    <3>6. table'[R].entries = header'[R]
      BY <2>1, <3>3
    <3> HIDE DEF t
    <3>7. \A b \in Device \ failed' : b # R => \A i \in 0 .. header'[b] - 1 : Whole(b, i)'
      BY <2>3, <2>5, <3>3 DEF Whole
    <3>8. QED BY <3>1, <3>2, <3>3, <3>4, <3>5, <3>6, <3>7 DEF LoadsOK
  <2>6. CASE End(FALSE) /\ UNCHANGED cache /\ failed' = failed \cup {R}
    <3>1. Calm'
      BY <1>0, <2>1, <2>6, EndStep DEF Calm
    <3> HIDE DEF R, t
    <3>2. \A b \in Device : b # R => header'[b] = header[b]
      BY <1>0, <2>1, <2>2
    <3>3. QED BY <1>d, <2>3, <2>6, <3>1, <3>2 DEF Whole
  <2>7. QED BY <2>4, <2>5, <2>6
<1>8. CASE LoadEntry
  <2>r. PICK R, e : R = Refreshed /\ e = table[R].entry[apc.k]
    OBVIOUS
  <2>1. /\ apc.pc = "load" /\ UNCHANGED <<table, header>> /\ Msg.op \in {"update_fpt", "set"}
        /\ cache' = [cache EXCEPT ![R][apc.k] = e]
    BY <1>8, <2>r DEF LoadEntry, Doing
  <2>2. R \in Device /\ \A b \in Device : Loading(b) <=> b = R
    BY <1>0, <2>1, <2>r, RefreshedDevice DEF Loading
  <2>3. /\ header[R] = table[R].entries /\ apc.k \in 0 .. header[R] - 1
        /\ DOMAIN cache[R] = 0 .. header[R] - 1
        /\ \A i \in 0 .. apc.k - 1 : Whole(R, i)
        /\ \A b \in Device \ failed : b # R => \A i \in 0 .. header[b] - 1 : Whole(b, i)
    BY <2>1, <2>2 DEF LoadsOK
  <2>4. e \in Entry /\ e # None
    <3>1. table[R].entry \in [0 .. table[R].entries - 1 -> Entry]
      BY <1>0, <2>2 DEF IsTable
    <3>2. QED BY <2>r, <2>3, <3>1, EntryParts
  <2>n. header[R] \in Nat
    BY <1>0, <2>2
  <2>5. /\ cache'[R] = [cache[R] EXCEPT ![apc.k] = e]
        /\ \A b \in Device : b # R => cache'[b] = cache[b]
    BY <1>0, <2>1, <2>2
  <2>6. /\ DOMAIN cache'[R] = 0 .. header[R] - 1
        /\ \A i \in 0 .. apc.k : Whole(R, i)'
    <3>1. \A i \in 0 .. apc.k : i = apc.k \/ i \in 0 .. apc.k - 1
      BY <2>n, <2>3
    <3>2. QED BY <2>3, <2>4, <2>5, <3>1 DEF Whole
  <2>7. \A b \in Device \ failed : b # R => \A i \in 0 .. header'[b] - 1 : Whole(b, i)'
    BY <2>1, <2>3, <2>5 DEF Whole
  <2>8. CASE apc.k + 1 < header[R]
    <3>1. apc' = [apc EXCEPT !.k = @ + 1] /\ failed' = failed
      BY <1>8, <2>r, <2>8 DEF LoadEntry
    <3>2. apc'.pc = "load" /\ Msg' = Msg /\ apc'.k = apc.k + 1
      BY <1>0, <2>1, <2>3, <3>1 DEF ApcState, Msg
    <3>3. apc'.k \in 0 .. header[R] - 1 /\ \A i \in 0 .. apc'.k - 1 : i \in 0 .. apc.k
      BY <2>n, <2>3, <2>8, <3>2
    <3>4. \A b \in Device : Loading(b)' <=> b = R
      BY <2>r, <3>2 DEF Loading, Refreshed
    <3>5. QED BY <2>1, <2>3, <2>6, <2>7, <3>1, <3>2, <3>3, <3>4 DEF LoadsOK
  <2>9. CASE ~(apc.k + 1 < header[R])
    <3>1. End(TRUE) /\ failed' = failed \ {R}
      BY <1>8, <2>r, <2>9 DEF LoadEntry, LoadEnds
    <3>2. Calm'
      BY <1>0, <2>1, <3>1, EndStep DEF Calm
    <3>3. \A i \in 0 .. header[R] - 1 : i \in 0 .. apc.k
      BY <2>n, <2>3, <2>9
    <3>4. \A i \in 0 .. header'[R] - 1 : Whole(R, i)'
      BY <2>1, <2>6, <3>3
    <3>5. \A b \in Device \ failed' : b = R \/ b \in Device \ failed
      BY <3>1
    <3>6. QED BY <1>d, <2>7, <3>2, <3>4, <3>5
  <2>10. QED BY <2>8, <2>9
<1>9. CASE LoadFails
  <2>1. /\ apc.pc \in {"header", "load"} /\ Msg.op \in {"update_fpt", "set"} /\ End(FALSE)
        /\ UNCHANGED <<table, header, cache>> /\ failed' = failed \cup {Refreshed}
    BY <1>9 DEF LoadFails, LoadEnds, Doing
  <2>2. Calm'
    BY <1>0, <2>1, EndStep DEF Calm
  <2>3. \A b \in Device \ failed' : \A i \in 0 .. header[b] - 1 : Whole(b, i)
    BY <2>1 DEF LoadsOK, Loading
  <2>4. QED BY <1>d, <2>1, <2>2, <2>3 DEF Whole
<1>10. CASE Reset
  <2>1. PICK load \in StartLoads :
          /\ header' = [d \in Device |-> load[d].header]
          /\ cache' = [d \in Device |-> load[d].cache]
          /\ failed' = {d \in Device : ~load[d].ok}
    BY <1>10 DEF Reset
  <2>2. \A d \in Device :
          load[d].ok => \A i \in 0 .. load[d].header - 1 :
                          i \in DOMAIN load[d].cache /\ load[d].cache[i] # None
    BY <1>0, StartParts
  <2>3. Calm'
    BY <1>10 DEF Reset, Calm
  <2>4. QED BY <1>d, <2>1, <2>2, <2>3 DEF Whole
<1>11. CASE UNCHANGED vars
  BY <1>11, <1>a, <1>b DEF vars
<1>12. QED BY <1>1, <1>2, <1>3, <1>4, <1>5, <1>6, <1>7, <1>8, <1>9, <1>10, <1>11
           DEF Next, AmiTask, ApcTask, Reader, Others

------------------------------------------------------------------------------
(* The mutex.                                                              *)
LEMMA ExclusiveStep ==
  ASSUME Typed, Exclusive, [Next]_vars
  PROVE  Exclusive'
<1> USE DEF Exclusive
<1>0. apc \in ApcState /\ reader \in ReaderState /\ mbox \in Seq(Messages)
  BY DEF Typed
<1>a. None # "apc" /\ None # "reader"
  BY TableAssumption
<1>b. UNCHANGED <<mutex, reader>> /\ Calm /\ Calm' => Exclusive'
  BY DEF Calm
<1>1. CASE Call \/ Return \/ Accept \/ SetStart \/ SetFinish \/ SetNowhere
  BY <1>1 DEF Call, Return, Accept, SetStart, SetFinish, SetNowhere, tasks
<1>2. CASE Pend
  <2>1. mbox[1] \in Messages /\ UNCHANGED <<mutex, reader>> /\ Calm
    BY <1>0, <1>2 DEF Pend, tasks, Calm
  <2>2. Calm'
    BY <1>2, <2>1, MessageParts DEF Pend, Calm
  <2>3. QED BY <1>b, <2>1, <2>2
<1>3. CASE DownloadImage \/ CopyFirst \/ Record \/ DownloadFpt \/ SetFptFlags \/ GoAstray
  <2>1. UNCHANGED <<mutex, reader>> /\ Calm /\ apc.pc # "idle"
    BY <1>3 DEF DownloadImage, CopyFirst, Record, DownloadFpt, SetFptFlags, GoAstray, tasks,
       Calm
  <2>2. \E c \in ApcPhase \ {"header", "load"} : Go(c) \/ End(TRUE) \/ End(FALSE)
    BY <1>3 DEF DownloadImage, CopyFirst, Record, DownloadFpt, SetFptFlags, GoAstray, ApcPhase
  <2>3. Calm'
    BY <1>0, <2>1, <2>2, GoStep, EndStep DEF Calm
  <2>4. QED BY <1>b, <2>1, <2>3
<1>4. CASE Store \/ DownloadPdiImage \/ SelectPartition
  <2>1. UNCHANGED <<mutex, reader>> /\ Calm /\ apc.pc # "idle"
    BY <1>4 DEF Store, DownloadPdiImage, SelectPartition, tasks, Calm
  <2>2. End(TRUE) \/ End(FALSE)
    BY <1>4 DEF Store, DownloadPdiImage, SelectPartition
  <2>3. Calm'
    BY <1>0, <2>1, <2>2, EndStep DEF Calm
  <2>4. QED BY <1>b, <2>1, <2>3
<1>5. CASE CopyChunk
  <2>1. UNCHANGED <<mutex, reader>> /\ Calm
    BY <1>5 DEF CopyChunk, tasks, Calm
  <2>2. Calm'
    BY <1>0, <1>5, EndStep DEF CopyChunk, ApcState, Calm
  <2>3. QED BY <1>b, <2>1, <2>2
<1>6. CASE Forget
  <2>1. apc.pc = "refresh" /\ mutex = None /\ mutex' = "apc" /\ Go("header")
        /\ UNCHANGED reader
    BY <1>6 DEF Forget
  <2>2. apc'.pc = "header"
    BY <1>0, <2>1, GoStep DEF ApcPhase
  <2>3. QED BY <1>a, <2>1, <2>2
<1>7. CASE LoadHeader
  <2>1. apc.pc = "header" /\ UNCHANGED reader
    BY <1>7 DEF LoadHeader
  <2>2. \/ apc' = [apc EXCEPT !.pc = "load", !.k = 0] /\ UNCHANGED mutex
        \/ End(FALSE) /\ mutex' = None
    BY <1>7 DEF LoadHeader, LoadEnds
  <2>3. \/ apc'.pc = "load" /\ UNCHANGED mutex
        \/ apc'.pc = "answer" /\ mutex' = None
    BY <1>0, <2>1, <2>2, EndStep DEF ApcState
  <2>4. QED BY <1>a, <2>1, <2>3
<1>c. CASE LoadFails
  <2>1. apc.pc \in {"header", "load"} /\ End(FALSE) /\ mutex' = None /\ UNCHANGED reader
    BY <1>c DEF LoadFails, LoadEnds
  <2>2. apc'.pc = "answer"
    BY <1>0, <2>1, EndStep
  <2>3. QED BY <1>a, <2>1, <2>2
<1>8. CASE LoadEntry
  <2>1. apc.pc = "load" /\ UNCHANGED reader
    BY <1>8 DEF LoadEntry
  <2>2. \/ apc' = [apc EXCEPT !.k = @ + 1] /\ UNCHANGED mutex
        \/ End(TRUE) /\ mutex' = None
    BY <1>8 DEF LoadEntry, LoadEnds
  <2>3. \/ apc'.pc = "load" /\ UNCHANGED mutex
        \/ apc'.pc = "answer" /\ mutex' = None
    BY <1>0, <2>1, <2>2, EndStep DEF ApcState
  <2>4. QED BY <1>a, <2>1, <2>3
<1>9. CASE Announce
  BY <1>9, <1>b DEF Announce, tasks, Calm
<1>10. CASE ReadStart
  <2>1. reader.pc = "idle" /\ reader'.pc = "take" /\ UNCHANGED <<mutex, apc>>
    BY <1>10 DEF ReadStart
  <2>2. QED BY <2>1
<1>11. CASE ReadTake
  <2>1. /\ mutex = None /\ mutex' = "reader" /\ reader'.pc = "read" /\ UNCHANGED apc
    BY <1>0, <1>11 DEF ReadTake, ReaderState
  <2>2. QED BY <1>a, <2>1
<1>12. CASE Read
  <2>1. reader.pc = "read" /\ reader'.pc = "idle" /\ UNCHANGED apc
        /\ mutex' = IF mutex = "reader" THEN None ELSE mutex
    BY <1>12 DEF Read
  <2>2. QED BY <1>a, <2>1
<1>d. CASE ReadNowhere
  <2>1. reader.pc = "read" /\ reader'.pc = "astray" /\ UNCHANGED <<apc, mutex>>
    BY <1>0, <1>d DEF ReadNowhere, ReaderState
  <2>2. QED BY <2>1
<1>13. CASE Reset
  BY <1>a, <1>13 DEF Reset
<1>14. CASE UNCHANGED vars
  BY <1>14 DEF vars, tasks
<1>15. QED BY <1>1, <1>2, <1>3, <1>4, <1>5, <1>6, <1>7, <1>8, <1>9, <1>10, <1>11, <1>12,
              <1>13, <1>14, <1>c, <1>d DEF Next, AmiTask, ApcTask, Reader

(* The ends of a copy, and the entries of an image.                        *)
LEMMA NamesStep ==
  ASSUME Typed, Doing, Handshake, PlanOK, TableTypes, NamesOK, [Next]_vars
  PROVE  NamesOK'
<1>0. /\ host \in HostState /\ mbox \in Seq(Messages) /\ Len(mbox) \in Nat /\ apc \in ApcState
  BY DEF Typed
<1> DEFINE Box  == \A i \in 1 .. Len(mbox) : Named(mbox[i])
           Work1 == apc.pc # "idle" => Named(Msg)
           Here == apc.pc \in {"record", "store"} => Known
<1>i. Box /\ Work1 /\ Here
  BY DEF NamesOK
<1>s. Box' /\ Work1' /\ Here' => NamesOK'
  BY DEF NamesOK
<1>b. ASSUME NEW m \in Messages, mbox' = Append(mbox, m), Named(m)
      PROVE  Box'
  <2>1. \A i \in 1 .. Len(Append(mbox, m)) :
          \/ i = Len(Append(mbox, m)) /\ Append(mbox, m)[i] = m
          \/ i \in 1 .. Len(mbox) /\ Append(mbox, m)[i] = mbox[i]
    BY <1>0, Appended
  <2>2. QED BY <1>b, <1>i, <2>1
<1>c. UNCHANGED mbox => Box'
  BY <1>i
<1>d. UNCHANGED <<apc, cache, header>> => Work1' /\ Here'
  BY <1>i DEF Known, Used, Whole, InTable, Msg
<1>e. ASSUME apc.pc # "idle", Msg' = Msg
      PROVE  Work1'
  BY <1>e, <1>i DEF Named
<1> HIDE DEF Box, Work1, Here
<1>1. CASE Call \/ Return \/ SetStart \/ SetNowhere \/ ReadStart \/ ReadTake \/ Read
           \/ ReadNowhere
  BY <1>1, <1>c, <1>d, <1>s DEF Call, Return, SetStart, SetNowhere, ReadStart, ReadTake, Read,
     ReadNowhere, fpt
<1>2. CASE Accept
  <2>1. host.pc = "send" /\ UNCHANGED <<apc, cache, header>> /\ host.plan[1].op # "set"
    BY <1>2 DEF Accept, fpt
  <2>2. host.plan[1] \in Messages
    BY <1>0, <2>1, PlanHead
  <2>3. UNCHANGED mbox \/ (Acceptable(host.plan[1]) /\ mbox' = Append(mbox, host.plan[1]))
    BY <1>2 DEF Accept, Post
  <2>4. Acceptable(host.plan[1]) => Named(host.plan[1])
    BY <2>2, MessageParts DEF Acceptable, Named
  <2>5. QED BY <1>b, <1>c, <1>d, <1>s, <2>1, <2>2, <2>3, <2>4
<1>3. CASE SetFinish
  <2>1. host.pc = "send" /\ host.plan[1].op = "set" /\ UNCHANGED <<apc, header>>
    BY <1>3 DEF SetFinish, Handshake
  <2>2. host.plan[1] \in Messages /\ Named(host.plan[1])
    BY <1>0, <2>1, PlanHead DEF Named
  <2>3. UNCHANGED mbox \/ mbox' = Append(mbox, host.plan[1])
    BY <1>3 DEF SetFinish, Post
  <2>4. Box'
    BY <1>b, <1>c, <2>2, <2>3
  <2>5. Work1'
    BY <1>i, <2>1 DEF Work1, Msg
  <2>6. Here'
    <3>1. SUFFICES ASSUME apc.pc \in {"record", "store"}
                   PROVE  Known'
      BY <2>1 DEF Here
    <3>2. /\ Known /\ Msg' = Msg /\ Msg.op \in {"download", "copy"}
          /\ Msg.part \in Part /\ (Msg.op = "copy" => Msg.src \in Part)
      BY <1>0, <1>i, <2>1, <3>1, ApcParts, MessageParts DEF Here, Msg, Doing
    <3>3. \A b \in Device : \A j : Whole(b, j) => Whole(b, j)'
      <4>1. CASE UNCHANGED cache
        BY <4>1 DEF Whole
      <4>2. CASE \E d \in Device, e \in Entry : \E i : Whole(d, i)
             /\ cache' = [cache EXCEPT ![d][i] = e]
        BY <4>2, EntryEdit
      <4>3. QED BY <1>3, <4>1, <4>2, SetEdit
    <3>4. QED BY <3>2, <3>3, KnownKept
  <2>7. QED BY <1>s, <2>4, <2>5, <2>6
<1>4. CASE Pend
  <2>1. mbox # << >> /\ mbox' = Tail(mbox) /\ Msg' = mbox[1] /\ apc'.pc = mbox[1].op
    BY <1>4 DEF Pend, Msg
  <2>2. 1 \in 1 .. Len(mbox) /\ mbox[1] \in Messages
    BY <1>0, <2>1
  <2>3. \A i \in 1 .. Len(mbox') : mbox'[i] = mbox[i + 1] /\ i + 1 \in 1 .. Len(mbox)
    <3>1. /\ Len(mbox') = Len(mbox) - 1
          /\ \A i \in 1 .. Len(mbox') : mbox'[i] = mbox[i + 1]
      BY <1>0, <2>1, HeadTailProperties
    <3>2. \A i \in 1 .. Len(mbox') : i + 1 \in 1 .. Len(mbox)
      BY <1>0, <3>1
    <3>3. QED BY <3>1, <3>2
  <2>4. Box' /\ Work1'
    BY <1>i, <2>1, <2>2, <2>3 DEF Box, Work1
  <2>5. Here'
    BY <2>1, <2>2, MessageParts DEF Here
  <2>6. QED BY <1>s, <2>4, <2>5
<1>5. CASE Work
  <2>1. apc.pc # "idle" /\ Msg' = Msg /\ UNCHANGED mbox
    BY <1>5, WorkStep
  <2>2. Box' /\ Work1'
    BY <1>c, <1>e, <2>1
  <2>3. CASE DownloadImage \/ CopyFirst
    <3>1. Known /\ UNCHANGED <<cache, header>>
      BY <2>3 DEF DownloadImage, CopyFirst, fpt
    <3>2. Known'
      BY <2>1, <3>1 DEF Known, Used, Whole, InTable
    <3>3. QED BY <1>s, <2>2, <3>2 DEF Here
  <2>4. CASE Record
    <3>1. apc.pc = "record" /\ Known
      BY <1>i, <2>4 DEF Record, Here
    <3>2. /\ Msg.op \in {"download", "copy"} /\ Msg.part \in Part
          /\ Msg.op = "copy" => Msg.src \in Part
      BY <3>1, DigestType
    <3>3. \A b \in Device : \A j : Whole(b, j) => Whole(b, j)'
      BY <2>4, RecordEdit, EntryEdit
    <3>4. Known'
      BY <2>1, <3>1, <3>2, <3>3, KnownKept
    <3>5. QED BY <1>s, <2>2, <3>4 DEF Here
  <2>5. CASE CopyChunk
    <3>1. apc'.pc \in {"copy", "answer"}
      BY <1>0, <2>1, <2>5, EndStep DEF CopyChunk, ApcState
    <3>2. QED BY <1>s, <2>2, <3>1 DEF Here
  <2>6. CASE Store \/ DownloadFpt \/ SetFptFlags \/ Forget \/ GoAstray \/ LoadFails
             \/ DownloadPdiImage \/ SelectPartition
    <3>1. \/ \E c \in {"refresh", "header", "astray"} : Go(c)
          \/ End(TRUE) \/ End(FALSE)
      BY <2>6 DEF Store, DownloadFpt, SetFptFlags, Forget, GoAstray, LoadFails, LoadEnds,
         DownloadPdiImage, SelectPartition
    <3>2. apc'.pc \notin {"record", "store"}
      BY <1>0, <2>1, <3>1, GoStep, EndStep DEF ApcPhase
    <3>3. QED BY <1>s, <2>2, <3>2 DEF Here
  <2>7. CASE LoadHeader \/ LoadEntry
    <3>1. \/ apc' = [apc EXCEPT !.pc = "load", !.k = 0]
          \/ apc.pc = "load" /\ apc' = [apc EXCEPT !.k = @ + 1]
          \/ End(TRUE) \/ End(FALSE)
      BY <2>7 DEF LoadHeader, LoadEntry, LoadEnds
    <3>2. apc'.pc \notin {"record", "store"}
      BY <1>0, <2>1, <3>1, EndStep DEF ApcState
    <3>3. QED BY <1>s, <2>2, <3>2 DEF Here
  <2>8. QED BY <1>5, <2>3, <2>4, <2>5, <2>6, <2>7 DEF Work
<1>6. CASE Announce
  <2>1. apc'.pc = "idle" /\ UNCHANGED mbox
    BY <1>6 DEF Announce
  <2>2. Box' /\ Work1' /\ Here'
    BY <1>c, <2>1 DEF Work1, Here
  <2>3. QED BY <1>s, <2>2
<1>7. CASE Reset
  <2>1. apc'.pc = "idle" /\ mbox' = << >>
    BY <1>7 DEF Reset
  <2>2. Box' /\ Work1' /\ Here'
    BY <2>1 DEF Box, Work1, Here
  <2>3. QED BY <1>s, <2>2
<1>8. CASE UNCHANGED vars
  BY <1>8, <1>c, <1>d, <1>s DEF vars
<1>9. QED BY <1>1, <1>2, <1>3, <1>4, <1>5, <1>6, <1>7, <1>8
          DEF Next, AmiTask, ApcTask, Reader, Work

------------------------------------------------------------------------------
(* The message that the APC task works on, among those of its operation.   *)
LEMMA DownloadItem ==
  ASSUME NEW r \in Request, r.op = "download", NEW j \in 1 .. Steps(r)
  PROVE  LET m == Item(r, j)
             n == Length[r.image]
         IN  /\ n \in Nat \ {0}
             /\ m.last <=> j = Steps(r)
             /\ m.op = r.op /\ m.part = r.part /\ m.image = r.image
             /\ n = 1 => j = 1 /\ Steps(r) = 1 /\ m.n = 0 /\ m.tag
             /\ n > 1 => /\ Steps(r) = n + 1
                         /\ j = 1 => m.n = 0 /\ ~m.tag
                         /\ j \in 2 .. n => m.n = j - 1 /\ m.tag
                         /\ j = n + 1 => m.n = 0 /\ m.tag
<1> DEFINE n == Length[r.image]
<1>1. n \in Nat \ {0} /\ Chunked(r)
  BY RequestParts, FlashAssumption DEF Chunked
<1>2. CASE n = 1
  <2>1. ~TagLast(r)
    BY <1>2 DEF TagLast
  <2>2. Steps(r) = 1 /\ j = 1
    BY <1>1, <1>2, <2>1 DEF Steps
  <2>3. Item(r, j) = Message(r, j - 1, TRUE, j = n)
    BY <1>1, <2>1 DEF Item
  <2>4. /\ Item(r, j).n = j - 1 /\ Item(r, j).tag /\ Item(r, j).op = r.op
        /\ Item(r, j).part = r.part /\ Item(r, j).image = r.image
    BY <2>3 DEF Message
  <2>5. Item(r, j).last <=> j = n
    BY <1>1, <2>1 DEF Item, Message
  <2>6. j - 1 = 0 /\ ~(n > 1) /\ (Item(r, j).last <=> j = Steps(r))
    BY <1>2, <2>2, <2>5
  <2>7. QED BY <1>1, <1>2, <2>2, <2>4, <2>6
<1>3. CASE n > 1
  <2>1. TagLast(r) /\ Steps(r) = n + 1
    BY <1>1, <1>3 DEF TagLast, Steps
  <2>2. CASE j = 1
    BY <1>1, <1>3, <2>1, <2>2 DEF Item, Message
  <2>3. CASE j = n + 1
    BY <1>1, <1>3, <2>1, <2>3 DEF Item, Message
  <2>4. CASE j \in 2 .. n
    <3>1. j # 1 /\ j # n + 1 /\ j \notin {1, n + 1}
      BY <1>1, <2>4
    <3>2. Item(r, j) = Message(r, j - 1, TRUE, FALSE)
      BY <1>1, <2>1, <3>1 DEF Item
    <3>3. QED BY <1>1, <1>3, <2>1, <3>1, <3>2 DEF Message
  <2>5. j = 1 \/ j = n + 1 \/ j \in 2 .. n
    BY <1>1, <2>1
  <2>6. QED BY <2>2, <2>3, <2>4, <2>5
<1>4. QED BY <1>1, <1>2, <1>3

LEMMA ProgramItem ==
  ASSUME NEW r \in Request, r.op = "program", NEW j \in 1 .. Steps(r)
  PROVE  LET m == Item(r, j)
         IN  /\ Steps(r) = Length[r.image] /\ m.image = r.image /\ m.n = j - 1
             /\ m.last <=> j = Steps(r)
BY DEF Steps, Chunked, TagLast, Item, Message

LEMMA AtWork ==
  ASSUME Typed, Handshake, PlanOK, apc.pc # "idle", Msg.op # "set"
  PROVE  /\ host.pc = "wait" /\ host.req \in Request /\ host.req.op = Msg.op
         /\ At \in 1 .. Steps(host.req) /\ Steps(host.req) \in Nat \ {0}
         /\ Msg = Item(host.req, At)
         /\ ~Chunked(host.req) => Msg = host.req
<1>1. host.pc = "wait" /\ Msg = host.plan[1]
  BY DEF Handshake
<1>2. /\ host.req \in Request /\ At \in 1 .. Steps(host.req) /\ Msg = Item(host.req, At)
      /\ Steps(host.req) \in Nat \ {0}
  BY <1>1, PlanHead DEF Typed
<1>3. Msg.op = host.req.op
  BY <1>2, ItemOp
<1>4. ~Chunked(host.req) => Msg = host.req
  BY <1>2 DEF Item
<1>5. QED BY <1>1, <1>2, <1>3, <1>4

(* A chunk of one partition is written: the others stay as they are.       *)
LEMMA Elsewhere ==
  ASSUME NEW p \in Part, NEW n \in 0 .. Size[p] - 1,
         \A b \in Addr : b # Base[p] + n => flash'[b] = flash[b]
  PROVE  \A q \in Part : \A j \in 0 .. Size[q] - 1 :
           q # p \/ j # n => flash'[Base[q] + j] = flash[Base[q] + j]
<1>1. SUFFICES ASSUME NEW q \in Part, NEW j \in 0 .. Size[q] - 1, q # p \/ j # n
               PROVE  Base[q] + j # Base[p] + n
  BY AddrOf
<1>2. /\ Base[p] \in Nat /\ Size[p] \in Nat /\ Base[q] \in Nat /\ Size[q] \in Nat
      /\ n \in Nat /\ j \in Nat /\ n < Size[p] /\ j < Size[q]
  BY FlashAssumption
<1>3. CASE q = p
  BY <1>1, <1>2, <1>3
<1>4. CASE q # p
  <2>1. Base[p] + Size[p] <= Base[q] \/ Base[q] + Size[q] <= Base[p]
    BY <1>4, FlashAssumption
  <2>2. QED BY <1>2, <2>1
<1>5. QED BY <1>3, <1>4

LEMMA BaseOf ==
  \A p \in Part : /\ Base[p] \in Nat /\ Size[p] \in Nat /\ Size[p] > 0 /\ 0 \in 0 .. Size[p] - 1
                  /\ Base[p] + 0 = Base[p] /\ Base[p] \in Addr
<1>1. TAKE p \in Part
<1>2. Base[p] \in Nat /\ Size[p] \in Nat \ {0}
  BY FlashAssumption
<1>3. Base[p] + 0 = Base[p] /\ 0 \in 0 .. Size[p] - 1
  BY <1>2
<1>4. Base[p] + 0 \in Addr
  BY <1>3, AddrOf
<1>5. QED BY <1>2, <1>3, <1>4

LEMMA SameBootable ==
  ASSUME flash \in [Addr -> Chunk], NEW p \in Part, Bootable(p),
         \A j \in 0 .. Size[p] - 1 : flash'[Base[p] + j] = flash[Base[p] + j]
  PROVE  Bootable(p)'
<1> DEFINE c == flash[Base[p]]
<1>1. flash'[Base[p]] = c /\ c \in Chunk
  BY BaseOf
<1>2. SUFFICES ASSUME c.image # NoImage, c.n = 0
               PROVE  /\ Length[c.image] <= Size[p]
                      /\ \A n \in 1 .. Length[c.image] - 1 :
                           flash'[Base[p] + n] = Full(c.image, n)
  BY <1>1 DEF Bootable
<1>3. Length[c.image] \in Nat /\ Size[p] \in Nat
  BY <1>1, <1>2, FlashAssumption DEF Chunk, Md5
<1>4. /\ Length[c.image] <= Size[p]
      /\ \A n \in 1 .. Length[c.image] - 1 : flash[Base[p] + n] = Full(c.image, n)
  BY <1>2 DEF Bootable
<1>5. \A n \in 1 .. Length[c.image] - 1 : n \in 0 .. Size[p] - 1
  BY <1>3, <1>4
<1>6. QED BY <1>4, <1>5

LEMMA OthersBootable ==
  ASSUME flash \in [Addr -> Chunk], \A q \in Part : Bootable(q),
         NEW p \in Part, NEW n \in 0 .. Size[p] - 1,
         \A b \in Addr : b # Base[p] + n => flash'[b] = flash[b]
  PROVE  \A q \in Part : q # p => Bootable(q)'
BY Elsewhere, SameBootable

------------------------------------------------------------------------------
(* The three steps that write the flash.                                   *)
LEMMA DownloadStep ==
  ASSUME Typed, Doing, Handshake, PlanOK, Progress, \A p \in Part : Bootable(p),
         DownloadImage, NEW r, r = host.req, NEW w, w = At
  PROVE  /\ \A p \in Part : Bootable(p)'
         /\ apc'.pc \in {"record", "answer"}
         /\ apc'.pc = "record" => Msg.last
         /\ apc'.pc = "answer" /\ apc'.ok => ~Msg.last
         /\ apc'.pc = "record" \/ apc'.ok => Written(r, w)'
<1> DEFINE p == r.part
           n == Msg.n
           len == Length[r.image]
           old == flash[Base[p]]
           new == flash'[Base[p]]
           c == IF Msg.tag THEN Full(Msg.image, n) ELSE Blank
<1>1. /\ apc.pc = "download" /\ apc.pc # "idle" /\ Msg.op = "download" /\ apc \in ApcState
      /\ flash \in [Addr -> Chunk]
  BY DEF DownloadImage, Typed, Doing
<1>2. /\ host.pc = "wait" /\ r \in Request /\ r.op = "download"
      /\ w \in 1 .. Steps(r) /\ Steps(r) \in Nat \ {0} /\ Msg = Item(r, w)
  BY <1>1, AtWork
<1>3. /\ len \in Nat \ {0}
      /\ Msg.last <=> w = Steps(r)
      /\ Msg.part = p /\ Msg.image = r.image
      /\ len = 1 => w = 1 /\ Steps(r) = 1 /\ n = 0 /\ Msg.tag
      /\ len > 1 => /\ Steps(r) = len + 1
                    /\ w = 1 => n = 0 /\ ~Msg.tag
                    /\ w \in 2 .. len => n = w - 1 /\ Msg.tag
                    /\ w = len + 1 => n = 0 /\ Msg.tag
  BY <1>2, DownloadItem
<1>4. r.part \in Part /\ r.image \in Image /\ n \in Nat
  <2>1. Msg \in Messages
    BY <1>1, ApcParts DEF Msg
  <2>2. QED BY <1>1, <1>3, <2>1, MessageParts
<1>5. Written(r, w - 1)
  <2>1. Carried = At - 1 /\ ~Failing
    BY <1>1 DEF Carried, Done, Failing
  <2>2. QED BY <1>2, <2>1 DEF Progress
<1>6. /\ \A m \in 1 .. len - 1 :
           m < w - 1 => m < Size[p] /\ flash[Base[p] + m] = Full(r.image, m)
      /\ 1 <= w - 1 /\ w - 1 < Steps(r) => old.image = NoImage
  BY <1>3, <1>5 DEF Written
<1>7. c \in Chunk
  BY <1>3, <1>4 DEF Full, Blank, Chunk, Md5
<1>8. \/ flash' = flash /\ End(FALSE)
      \/ n < Size[p] /\ Write(Dest + n, c, FALSE) /\ End(FALSE)
      \/ n < Size[p] /\ Write(Dest + n, c, TRUE) /\ Msg.last /\ Go("record")
      \/ n < Size[p] /\ Write(Dest + n, c, TRUE) /\ ~Msg.last /\ End(TRUE)
  BY <1>3 DEF DownloadImage, Fits, Full
<1>9. /\ apc'.pc \in {"record", "answer"}
      /\ apc'.pc = "record" => Msg.last
      /\ apc'.pc = "answer" /\ apc'.ok => ~Msg.last
  BY <1>1, <1>8, GoStep, EndStep DEF ApcPhase
<1>10. CASE flash' = flash /\ End(FALSE)
  <2>1. \A q \in Part : Bootable(q)'
    BY <1>10 DEF Bootable
  <2>2. apc'.pc = "answer" /\ ~apc'.ok
    BY <1>1, <1>10, EndStep
  <2>3. QED BY <1>9, <2>1, <2>2
<1>11. CASE n < Size[p] /\ \E ok \in BOOLEAN : Write(Dest + n, c, ok)
  <2>1. Dest + n \in Addr /\ Dest = Base[p] /\ n \in 0 .. Size[p] - 1
    BY <1>3, <1>4, <1>11, AddrOf, FlashAssumption DEF Dest
  <2> HIDE DEF c
  <2>2. /\ \A b \in Addr : b # Base[p] + n => flash'[b] = flash[b]
        /\ \/ flash'[Base[p] + n] = flash[Base[p] + n]
           \/ flash'[Base[p] + n].image = c.image /\ flash'[Base[p] + n].n = c.n
        /\ Write(Dest + n, c, TRUE) => flash'[Base[p] + n] = c
    BY ZenonT(30), <1>1, <1>7, <1>11, <2>1, WriteStep
  <2>3. \A j \in 0 .. Size[p] - 1 : j # n => flash'[Base[p] + j] = flash[Base[p] + j]
    BY <1>3, <1>4, <2>1, <2>2, Elsewhere
  <2>4. \A q \in Part : q # p => Bootable(q)'
    BY <1>1, <1>3, <1>4, <2>1, <2>2, OthersBootable
  <2>5. flash'[Base[p] + n] = flash[Base[p] + n] => Bootable(p)'
    <3>1. SUFFICES ASSUME flash'[Base[p] + n] = flash[Base[p] + n]
                   PROVE  Bootable(p)'
      OBVIOUS
    <3>2. \A j \in 0 .. Size[p] - 1 : flash'[Base[p] + j] = flash[Base[p] + j]
      BY <2>3, <3>1
    <3>3. QED BY <1>1, <1>4, <3>2, SameBootable
  <2>6. new.image = NoImage => Bootable(p)'
    BY DEF Bootable
  <2>7. Base[p] + 0 = Base[p] /\ Size[p] \in Nat /\ Size[p] > 0 /\ 0 \in 0 .. Size[p] - 1
    BY <1>3, <1>4, BaseOf
  <2>8. n # 0 => new = old
    BY <2>3, <2>7
  <2>9. apc'.pc = "record" \/ apc'.ok => flash'[Base[p] + n] = c
    <3>1. End(FALSE) => ~(apc'.pc = "record") /\ ~apc'.ok
      BY <1>1, EndStep
    <3>2. End(FALSE) \/ Write(Dest + n, c, TRUE)
      BY <1>8
    <3>3. QED BY <2>2, <3>1, <3>2
  <2>10. CASE len = 1
    <3>1. n = 0 /\ c = Full(r.image, 0)
      BY <1>3, <2>10 DEF c
    <3>2. \A m \in 1 .. len - 1 : FALSE
      BY <2>10
    <3>3. Bootable(p)'
      <4>1. CASE new = old
        BY <2>5, <2>7, <3>1, <4>1
      <4>2. CASE new.image = r.image /\ new.n = 0
        BY <2>7, <2>10, <3>2, <4>2 DEF Bootable
      <4>3. QED BY <2>2, <2>7, <3>1, <4>1, <4>2 DEF Full
    <3>4. apc'.pc = "record" \/ apc'.ok => Written(r, w)'
      BY <1>2, <1>3, <2>7, <2>9, <2>10, <3>1, <3>2 DEF Written
    <3>5. QED BY <1>9, <2>4, <3>3, <3>4
  <2>11. CASE len > 1 /\ w = 1
    <3>1. n = 0 /\ c = Blank
      BY <1>3, <2>11 DEF c
    <3>2. Bootable(p)'
      BY <2>2, <2>5, <2>6, <2>7, <3>1 DEF Blank
    <3>3. /\ w # Steps(r)
          /\ \A m \in 1 .. len - 1 : ~(m < w)
      BY <1>3, <2>11
    <3>4. apc'.pc = "record" \/ apc'.ok => Written(r, w)'
      <4>1. apc'.pc = "record" \/ apc'.ok => flash'[Base[r.part]].image = NoImage
        BY <1>3, <2>7, <2>9, <3>1 DEF Blank
      <4>2. QED BY <3>3, <4>1 DEF Written
    <3>5. QED BY <1>9, <2>4, <3>2, <3>4
  <2>12. CASE len > 1 /\ w \in 2 .. len
    <3>1. n = w - 1 /\ n # 0 /\ c = Full(r.image, n)
      BY <1>3, <2>12 DEF c
    <3>2. 1 <= w - 1 /\ w - 1 < Steps(r) /\ w # Steps(r)
      BY <1>3, <2>12
    <3>3. old.image = NoImage /\ new = old
      BY <1>6, <2>8, <3>1, <3>2
    <3>4. Bootable(p)'
      BY <2>6, <3>3
    <3>5. apc'.pc = "record" \/ apc'.ok => Written(r, w)'
      <4>1. SUFFICES ASSUME flash'[Base[p] + n] = c
                     PROVE  Written(r, w)'
        BY <2>9
      <4>2. ASSUME NEW m \in 1 .. len - 1, m < w
            PROVE  m < Size[p] /\ flash'[Base[p] + m] = Full(r.image, m)
        <5>1. CASE m = n
          BY <1>11, <3>1, <4>1, <5>1
        <5>2. CASE m # n
          <6>1. m < w - 1
            BY <1>2, <1>3, <3>1, <4>2, <5>2
          <6>2. m < Size[p] /\ flash[Base[p] + m] = Full(r.image, m)
            BY <1>6, <6>1
          <6>3. m \in 0 .. Size[p] - 1
            BY <1>3, <2>7, <6>2
          <6>4. QED BY <2>3, <5>2, <6>2, <6>3
        <5>3. QED BY <5>1, <5>2
      <4>3. QED BY <1>3, <3>2, <3>3, <4>2 DEF Written
    <3>6. QED BY <1>9, <2>4, <3>4, <3>5
  <2>13. CASE len > 1 /\ w = len + 1
    <3>1. n = 0 /\ c = Full(r.image, 0) /\ ~(w < Steps(r)) /\ w = Steps(r)
      BY <1>3, <2>13 DEF c
    <3>2. 1 <= w - 1 /\ w - 1 < Steps(r)
      BY <1>3, <2>13
    <3>3. ASSUME NEW m \in 1 .. len - 1
          PROVE  m < Size[p] /\ flash'[Base[p] + m] = Full(r.image, m)
      <4>1. m < w - 1 /\ m # 0
        BY <1>3, <2>13
      <4>2. m < Size[p] /\ flash[Base[p] + m] = Full(r.image, m)
        BY <1>6, <4>1
      <4>3. m \in 0 .. Size[p] - 1
        BY <1>3, <2>7, <4>2
      <4>4. QED BY <2>3, <3>1, <4>1, <4>2, <4>3
    <3>4. len <= Size[p]
      <4>1. len - 1 \in 1 .. len - 1
        BY <1>3, <2>13
      <4>2. len - 1 < Size[p]
        BY <3>3, <4>1
      <4>3. QED BY <1>3, <2>7, <4>2
    <3>5. Bootable(p)'
      <4>1. CASE new = old
        BY <1>6, <2>6, <3>2, <4>1
      <4>2. CASE new.image = r.image /\ new.n = 0
        BY <3>3, <3>4, <4>2 DEF Bootable
      <4>3. QED BY <2>2, <2>7, <3>1, <4>1, <4>2 DEF Full
    <3>6. apc'.pc = "record" \/ apc'.ok => Written(r, w)'
      BY <1>3, <2>7, <2>9, <3>1, <3>3 DEF Written
    <3>7. QED BY <1>9, <2>4, <3>5, <3>6
  <2>14. len = 1 \/ (len > 1 /\ (w = 1 \/ w \in 2 .. len \/ w = len + 1))
    BY <1>2, <1>3
  <2>15. QED BY <2>10, <2>11, <2>12, <2>13, <2>14
<1>12. QED BY <1>8, <1>10, <1>11

LEMMA CopyParts ==
  ASSUME Typed, Doing, NamesOK, apc.pc = "copy"
  PROVE  /\ apc.pc # "idle" /\ apc \in ApcState /\ flash \in [Addr -> Chunk] /\ Msg.op = "copy"
         /\ Msg.src \in Part /\ Msg.part \in Part /\ Msg.src # Msg.part
         /\ apc.k \in Nat /\ apc.first \in Chunk
<1>1. apc.pc # "idle" /\ apc \in ApcState /\ flash \in [Addr -> Chunk] /\ Msg.op = "copy"
  BY DEF Typed, Doing
<1>2. Msg \in Messages /\ apc.k \in Nat /\ apc.first \in Chunk
  BY <1>1, ApcParts DEF Msg
<1>3. QED BY <1>1, <1>2, MessageParts DEF NamesOK, Named

LEMMA CopyChunkStep ==
  ASSUME Typed, Doing, NamesOK, CopyProgress, \A p \in Part : Bootable(p), CopyChunk
  PROVE  /\ \A p \in Part : Bootable(p)'
         /\ Copying'
         /\ apc'.pc = "copy" \/ (apc'.pc = "answer" /\ ~apc'.ok)
<1>1. PICK m, k : m = Msg /\ k = apc.k
  OBVIOUS
<1> DEFINE s == m.src
           p == m.part
           c == flash[Base[s] + k]
<1>2. /\ apc.pc = "copy" /\ k < Size[s]
  BY <1>1 DEF CopyChunk
<1>3. /\ apc.pc # "idle" /\ apc \in ApcState /\ flash \in [Addr -> Chunk]
      /\ s \in Part /\ p \in Part /\ s # p /\ k \in Nat /\ apc.first \in Chunk
  BY <1>1, <1>2, CopyParts
<1>4. /\ Size[s] \in Nat /\ Size[p] \in Nat /\ Size[p] > 0 /\ Base[p] + 0 = Base[p]
      /\ 0 \in 0 .. Size[p] - 1
  BY <1>3, BaseOf
<1>5. /\ k > 0 => flash[Base[p]].image = NoImage
      /\ \A n \in 1 .. k - 1 : flash[Base[p] + n] = flash[Base[s] + n]
  BY <1>1, <1>2 DEF CopyProgress, Copying, SameChunks, Dest
<1>6. \/ End(FALSE) /\ UNCHANGED flash
      \/ /\ Size[s] <= Size[p] /\ Write(Base[p] + k, Copied(c), FALSE)
         /\ End(FALSE)
      \/ /\ Size[s] <= Size[p] /\ Write(Base[p] + k, Copied(c), TRUE)
         /\ apc' = [apc EXCEPT !.k = @ + 1, !.first = IF apc.k = 0 THEN c ELSE @]
  BY <1>1 DEF CopyChunk, Dest
<1>7. CASE End(FALSE) /\ UNCHANGED flash
  BY <1>3, <1>7, EndStep DEF Bootable, Copying
<1>8. CASE Size[s] <= Size[p] /\ \E ok \in BOOLEAN : Write(Base[p] + k, Copied(c), ok)
  <2>1. k \in 0 .. Size[p] - 1 /\ k \in 0 .. Size[s] - 1
    BY <1>2, <1>3, <1>4, <1>8
  <2>2. Base[p] + k \in Addr /\ c \in Chunk
    BY <1>3, <2>1, AddrOf
  <2>3. Copied(c) \in Chunk /\ (k = 0 => Copied(c) = Blank) /\ (k # 0 => Copied(c) = c)
    BY <1>1, <2>2 DEF Copied, Blank, Chunk, Md5
  <2> HIDE DEF c
  <2>4. /\ \A b \in Addr : b # Base[p] + k => flash'[b] = flash[b]
        /\ \/ flash'[Base[p] + k] = flash[Base[p] + k]
           \/ flash'[Base[p] + k].image = Copied(c).image
        /\ Write(Base[p] + k, Copied(c), TRUE) => flash'[Base[p] + k] = Copied(c)
    BY <1>3, <1>8, <2>2, <2>3, WriteStep
  <2>5. \A q \in Part : \A j \in 0 .. Size[q] - 1 :
          q # p \/ j # k => flash'[Base[q] + j] = flash[Base[q] + j]
    BY <1>3, <2>1, <2>4, Elsewhere
  <2>6. \A q \in Part : q # p => Bootable(q)'
    BY <1>3, <2>1, <2>4, OthersBootable
  <2>7. flash'[Base[p]].image = NoImage => Bootable(p)'
    BY DEF Bootable
  <2>8. ASSUME k = 0 PROVE Bootable(p)'
    <3>1. CASE flash'[Base[p]] = flash[Base[p]]
      <4>1. \A j \in 0 .. Size[p] - 1 : flash'[Base[p] + j] = flash[Base[p] + j]
        BY <1>3, <1>4, <2>5, <2>8, <3>1
      <4>2. QED BY <1>3, <4>1, SameBootable
    <3>2. CASE flash'[Base[p]].image = NoImage
      BY <2>7, <3>2
    <3>3. QED BY <1>4, <2>3, <2>4, <2>8, <3>1, <3>2 DEF Blank
  <2>9. ASSUME k # 0 PROVE Bootable(p)'
    <3>1. flash'[Base[p]] = flash[Base[p]] /\ k > 0
      BY <1>3, <1>4, <2>5, <2>9
    <3>2. QED BY <1>5, <2>7, <3>1
  <2>10. \A q \in Part : Bootable(q)'
    BY <2>6, <2>8, <2>9
  <2>11. CASE End(FALSE)
    BY <1>3, <2>10, <2>11, EndStep DEF Copying
  <2>12. CASE /\ Write(Base[p] + k, Copied(c), TRUE)
              /\ apc' = [apc EXCEPT !.k = @ + 1, !.first = IF apc.k = 0 THEN c ELSE @]
    <3>1. apc'.pc = "copy" /\ Msg' = m /\ apc'.k = k + 1
      BY <1>1, <1>2, <1>3, <2>12 DEF ApcState, Msg
    <3>2. /\ k + 1 \in 0 .. Size[s] /\ k + 1 > 0 /\ (k + 1) - 1 = k
      BY <1>2, <1>3, <1>4
    <3>3. flash'[Base[p]].image = NoImage
      <4>1. CASE k = 0
        BY <1>4, <2>3, <2>4, <2>12, <4>1 DEF Blank
      <4>2. CASE k # 0
        BY <1>3, <1>4, <1>5, <2>5, <4>2
      <4>3. QED BY <4>1, <4>2
    <3>4. ASSUME NEW n \in 1 .. k
          PROVE  flash'[Base[p] + n] = flash'[Base[s] + n]
      <4>1. /\ n \in 0 .. Size[p] - 1 /\ n \in 0 .. Size[s] - 1 /\ k # 0
            /\ n = k \/ n \in 1 .. k - 1
        BY <1>3, <1>4, <2>1
      <4>2. flash'[Base[s] + n] = flash[Base[s] + n]
        BY <1>3, <2>5, <4>1
      <4>3. CASE n = k
        BY <2>3, <2>4, <2>12, <4>1, <4>2, <4>3 DEF c
      <4>4. CASE n # k
        BY <1>3, <1>5, <2>5, <4>1, <4>2, <4>4
      <4>5. QED BY <4>3, <4>4
    <3>5. Copying'
      BY <1>8, <3>1, <3>2, <3>3, <3>4 DEF Copying, SameChunks, Dest
    <3>6. QED BY <2>10, <3>1, <3>5
  <2>13. QED BY <1>6, <1>7, <2>11, <2>12
<1>9. QED BY <1>6, <1>7, <1>8

LEMMA CopyFirstStep ==
  ASSUME Typed, Doing, NamesOK, CopyProgress, \A p \in Part : Bootable(p), CopyFirst,
         NEW m, m = Msg
  PROVE  /\ \A p \in Part : Bootable(p)'
         /\ \/ apc'.pc = "answer" /\ ~apc'.ok
            \/ apc'.pc = "record" /\ SameChunks(m, 0, Size[m.src] - 1)'
<1> DEFINE s == m.src
           p == m.part
           c == apc.first
<1>2. /\ apc.pc = "copy" /\ apc.k = Size[s]
  BY DEF CopyFirst
<1>3. /\ apc.pc # "idle" /\ apc \in ApcState /\ flash \in [Addr -> Chunk]
      /\ s \in Part /\ p \in Part /\ s # p /\ c \in Chunk
  BY <1>2, CopyParts
<1>4. /\ Size[s] \in Nat /\ Size[p] \in Nat /\ Size[s] > 0 /\ Size[p] > 0
      /\ Base[p] + 0 = Base[p] /\ Base[s] + 0 = Base[s] /\ Base[p] \in Addr
      /\ 0 \in 0 .. Size[p] - 1 /\ 0 \in 0 .. Size[s] - 1
  BY <1>3, BaseOf
<1>5. /\ flash[Base[p]].image = NoImage /\ Size[s] <= Size[p]
      /\ \A n \in 1 .. Size[s] - 1 : flash[Base[p] + n] = flash[Base[s] + n]
  BY <1>2, <1>4 DEF CopyProgress, Copying, SameChunks, Dest
<1>6. \/ End(FALSE) /\ UNCHANGED flash
      \/ c = flash[Base[s]] /\ Write(Base[p], c, FALSE) /\ End(FALSE)
      \/ c = flash[Base[s]] /\ Write(Base[p], c, TRUE) /\ Go("record")
  BY DEF CopyFirst, Dest
<1>7. CASE End(FALSE) /\ UNCHANGED flash
  BY <1>3, <1>7, EndStep DEF Bootable
<1>8. CASE c = flash[Base[s]] /\ \E ok \in BOOLEAN : Write(Base[p], c, ok)
  <2>1. /\ \A b \in Addr : b # Base[p] => flash'[b] = flash[b]
        /\ \/ flash'[Base[p]] = flash[Base[p]]
           \/ flash'[Base[p]].image = c.image /\ flash'[Base[p]].n = c.n
        /\ Write(Base[p], c, TRUE) => flash'[Base[p]] = c
    BY <1>3, <1>4, <1>8, WriteStep
  <2>2. \A b \in Addr : b # Base[p] + 0 => flash'[b] = flash[b]
    BY <1>4, <2>1
  <2>3. \A q \in Part : \A j \in 0 .. Size[q] - 1 :
          q # p \/ j # 0 => flash'[Base[q] + j] = flash[Base[q] + j]
    BY <1>3, <1>4, <2>2, Elsewhere
  <2>4. \A q \in Part : q # p => Bootable(q)'
    BY <1>3, <1>4, <2>2, OthersBootable
  <2>5. \A n \in 1 .. Size[s] - 1 :
          /\ n \in 0 .. Size[p] - 1 /\ n \in 0 .. Size[s] - 1 /\ n # 0
    BY <1>4, <1>5
  <2>6. ASSUME flash'[Base[p]].image = NoImage PROVE Bootable(p)'
    BY <2>6 DEF Bootable
  <2>7. ASSUME flash'[Base[p]].image # NoImage PROVE Bootable(p)'
    <3>1. flash'[Base[p]].image = c.image /\ flash'[Base[p]].n = c.n
      BY <1>5, <2>1, <2>7
    <3>2. SUFFICES ASSUME c.n = 0
                   PROVE  Bootable(p)'
      BY <3>1 DEF Bootable
    <3>3. /\ Length[c.image] <= Size[s]
          /\ \A n \in 1 .. Length[c.image] - 1 : flash[Base[s] + n] = Full(c.image, n)
      BY <1>3, <1>8, <2>7, <3>1, <3>2 DEF Bootable
    <3>4. Length[c.image] \in Nat
      BY <1>3, <2>7, <3>1, FlashAssumption DEF Chunk, Md5
    <3>5. ASSUME NEW n \in 1 .. Length[c.image] - 1
          PROVE  flash'[Base[p] + n] = Full(c.image, n)
      <4>1. n \in 1 .. Size[s] - 1
        BY <1>4, <3>3, <3>4
      <4>2. flash'[Base[p] + n] = flash[Base[p] + n]
        BY <1>3, <2>3, <2>5, <4>1
      <4>3. QED BY <1>5, <3>3, <4>1, <4>2
    <3>6. Length[c.image] <= Size[p]
      BY <1>4, <1>5, <3>3, <3>4
    <3>7. QED BY <3>1, <3>5, <3>6 DEF Bootable
  <2>8. \A q \in Part : Bootable(q)'
    BY <2>4, <2>6, <2>7
  <2>9. CASE End(FALSE)
    BY <1>3, <2>8, <2>9, EndStep
  <2>10. CASE Write(Base[p], c, TRUE) /\ Go("record")
    <3>1. apc'.pc = "record"
      BY <1>3, <2>10, GoStep DEF ApcPhase
    <3>2. ASSUME NEW n \in 0 .. Size[s] - 1
          PROVE  flash'[Base[p] + n] = flash'[Base[s] + n]
      <4>1. flash'[Base[s] + n] = flash[Base[s] + n]
        BY <1>3, <2>3
      <4>2. CASE n = 0
        BY <1>4, <1>8, <2>1, <2>10, <4>1, <4>2
      <4>3. CASE n # 0
        <5>1. n \in 1 .. Size[s] - 1
          BY <1>4, <4>3
        <5>2. QED BY <1>3, <1>5, <2>3, <2>5, <4>1, <5>1
      <4>4. QED BY <4>2, <4>3
    <3>3. SameChunks(m, 0, Size[m.src] - 1)'
      BY <3>2 DEF SameChunks
    <3>4. QED BY <2>8, <3>1, <3>3
  <2>11. QED BY <1>6, <1>7, <2>9, <2>10
<1>9. QED BY <1>6, <1>7, <1>8

------------------------------------------------------------------------------
(* How far an operation has come.                                          *)
LEMMA KeptProgress ==
  ASSUME Progress, ~Failing, host.pc \in {"send", "wait"}, host'.pc \in {"send", "wait"},
         host'.req = host.req, Carried' = Carried, UNCHANGED <<flash, ram, loaded>>
  PROVE  Progress'
BY DEF Progress, Written, InMemory

LEMMA RecordStep ==
  ASSUME Typed, TableTypes, NamesOK, Doing, Record, NEW m, m = Msg
  PROVE  Recorded(m)'
<1>1. PICK d, i, e : /\ d = DeviceOf[m.part] /\ i = IndexOf[m.part]
                     /\ e = [cache[d][i] EXCEPT !.md5 = Digest]
  OBVIOUS
<1>2. /\ d \in Device /\ Whole(d, i) /\ e \in Entry /\ e.md5 = Digest
      /\ cache' = [cache EXCEPT ![d][i] = e]
  BY <1>1, RecordEdit
<1>3. apc.pc = "record" /\ Known
  BY DEF Record, NamesOK
<1>4. /\ m.op \in {"download", "copy"} /\ m.part \in Part
      /\ m.op = "copy" => m.src \in Part
  BY <1>3, DigestType
<1>5. cache'[d][i] = e
  BY <1>2, EntryEdit
<1>6. CASE m.op = "download"
  <2>1. Digest = m.image
    BY <1>6 DEF Digest
  <2>2. QED BY <1>1, <1>2, <1>5, <1>6, <2>1 DEF Recorded, Md5Of
<1>7. CASE m.op = "copy"
  <2>1. PICK b, j : b = DeviceOf[m.src] /\ j = IndexOf[m.src]
    OBVIOUS
  <2>2. b \in Device /\ Whole(b, j) /\ Digest = cache[b][j].md5
    BY <1>3, <1>4, <1>7, <2>1, KnownParts, ParDevice DEF Digest
  <2>3. cache'[b][j].md5 = Digest
    <3>1. CASE b = d /\ j = i
      BY <1>2, <1>5, <3>1
    <3>2. CASE b # d \/ j # i
      BY <1>2, <2>2, <3>2 DEF TableTypes, Whole
    <3>3. QED BY <3>1, <3>2
  <2>4. QED BY <1>1, <1>2, <1>5, <1>7, <2>1, <2>3 DEF Recorded, Md5Of
<1>8. QED BY <1>4, <1>6, <1>7

LEMMA PdiStep ==
  ASSUME Typed, Doing, Handshake, PlanOK, Progress, DownloadPdiImage
  PROVE  Progress'
<1>1. /\ apc.pc = "program" /\ apc.pc # "idle" /\ Msg.op = "program" /\ apc \in ApcState
      /\ UNCHANGED host
  BY DEF DownloadPdiImage, Typed, Doing
<1>2. PICK r, w : r = host.req /\ w = At
  OBVIOUS
<1>3. /\ host.pc = "wait" /\ r \in Request /\ r.op = "program"
      /\ w \in 1 .. Steps(r) /\ Steps(r) \in Nat \ {0} /\ Msg = Item(r, w)
  BY <1>1, <1>2, AtWork
<1>4. /\ Steps(r) = Length[r.image] /\ Msg.image = r.image /\ Msg.n = w - 1
      /\ Msg.last <=> w = Steps(r)
  BY <1>3, ProgramItem
<1>5. InMemory(r, w - 1)
  <2>1. Carried = At - 1 /\ ~Failing
    BY <1>1 DEF Carried, Done, Failing
  <2>2. QED BY <1>2, <1>3, <2>1 DEF Progress
<1>6. ram' = {c \in ram : c.n # w - 1} \cup {[image |-> r.image, n |-> w - 1]}
  BY <1>4 DEF DownloadPdiImage
<1>7. \A n \in 0 .. w - 1 : [image |-> r.image, n |-> n] \in ram'
  <2>1. TAKE n \in 0 .. w - 1
  <2>2. CASE n = w - 1
    BY <1>6, <2>2
  <2>3. CASE n # w - 1
    <3>1. n \in 0 .. (w - 1) - 1
      BY <1>3, <2>3
    <3>2. [image |-> r.image, n |-> n] \in ram
      BY <1>5, <3>1 DEF InMemory
    <3>3. QED BY <1>6, <2>3, <3>2
  <2>4. QED BY <2>2, <2>3
<1>8. \/ End(TRUE) /\ ~Msg.last
      \/ /\ End(TRUE) /\ Msg.last
         /\ loaded' = IF \A n \in 0 .. Length[r.image] - 1 :
                              [image |-> r.image, n |-> n] \in ram'
                      THEN r.image ELSE NoImage
      \/ End(FALSE)
  BY <1>4 DEF DownloadPdiImage, Gathered
<1>9. CASE End(FALSE)
  <2>1. Failing'
    BY <1>1, <1>9, EndStep DEF Failing, Waited
  <2>2. QED BY <1>1, <1>3, <2>1 DEF Progress
<1>10. CASE End(TRUE) /\ (w = Steps(r) => loaded' = r.image)
  <2>1. Done' /\ ~Failing'
    BY <1>1, <1>10, EndStep DEF Done, Failing, Waited
  <2>2. Carried' = w /\ host'.req = r /\ host'.pc = "wait"
    BY <1>1, <1>2, <1>3, <2>1 DEF Carried, At
  <2>3. InMemory(r, w)'
    BY <1>7, <1>10 DEF InMemory
  <2>4. InMemory(host.req, Carried)'
    BY <2>2, <2>3 DEF InMemory
  <2>5. QED BY <1>3, <2>2, <2>4 DEF Progress
<1>11. QED
  <2>1. CASE /\ End(TRUE) /\ Msg.last
             /\ loaded' = IF \A n \in 0 .. Length[r.image] - 1 :
                                [image |-> r.image, n |-> n] \in ram'
                          THEN r.image ELSE NoImage
    BY <1>4, <1>7, <1>10, <2>1
  <2>2. QED BY <1>4, <1>8, <1>9, <1>10, <2>1

LEMMA ProgressStep ==
  ASSUME IInv, Typed', Doing', Handshake', [Next]_vars
  PROVE  (\A p \in Part : Bootable(p)') /\ Progress' /\ CopyProgress'
<1>0. /\ Typed /\ Doing /\ Handshake /\ PlanOK /\ TableTypes /\ Exclusive /\ NamesOK
      /\ (\A p \in Part : Bootable(p)) /\ Progress /\ CopyProgress
      /\ host \in HostState /\ apc \in ApcState /\ mbox \in Seq(Messages)
  BY DEF IInv, Typed
<1>a. UNCHANGED flash => \A p \in Part : Bootable(p)'
  BY <1>0 DEF Bootable
<1>b. UNCHANGED <<apc, flash, cache>> => CopyProgress'
  BY <1>0 DEF CopyProgress, Copying, SameChunks, Recorded, Md5Of, Done, Waited, Dest, Msg
<1>c. UNCHANGED <<host, apc, flash, cache, ram, loaded>> => Progress'
  BY <1>0 DEF Progress, Written, InMemory, SameChunks, Recorded, Md5Of, Carried, Done,
     Failing, Waited, At, Msg
<1>d. host'.pc \notin {"send", "wait", "done"} => Progress'
  BY DEF Progress
<1>e. host'.pc \notin {"send", "wait"} /\ UNCHANGED <<host, flash, cache, ram, loaded>>
      => Progress'
  BY <1>0 DEF Progress, Written, InMemory, SameChunks, Recorded, Md5Of
<1>f. host'.req.op \in {"set", "update_fpt", "select"} => Progress'
  BY DEF Progress, Recorded
<1>g. host'.pc = "wait" /\ host'.req.op = "copy" => Progress'
  BY DEF Progress
<1>h. ASSUME Msg'.op \in {"set", "update_fpt", "select", "program"} \/ apc'.pc = "idle"
      PROVE  CopyProgress'
  BY <1>h DEF CopyProgress, Copying, Done, Waited, Doing
<1>1. CASE Call
  <2>1. PICK r \in Request : host' = [pc |-> "send", req |-> r, plan |-> Plan(r)]
    BY <1>1 DEF Call
  <2>2. /\ host'.req = r /\ host'.pc = "send" /\ UNCHANGED <<flash, apc, cache>>
        /\ host'.plan = Plan(r) /\ host.pc = "idle"
    BY <1>1, <2>1 DEF Call, fpt
  <2>3. Steps(r) \in Nat \ {0} /\ Len(Plan(r)) = Steps(r)
    BY PlanShape
  <2>4. Carried' = 0
    <3>1. At' = 1
      BY <2>2, <2>3 DEF At
    <3>2. ~Waited'
      BY <1>0, <2>2 DEF Waited, Handshake, Msg
    <3>3. QED BY <3>1, <3>2 DEF Carried, Done
  <2>5. 0 # Steps(r) /\ ~(1 <= 0) /\ (\A n \in 0 .. 0 - 1 : FALSE)
    BY <2>3
  <2>6. \A n \in 1 .. Length[r.image] - 1 : ~(n < 0)
    OBVIOUS
  <2>7. Written(host.req, Carried)' /\ InMemory(host.req, Carried)'
    BY <2>2, <2>4, <2>5, <2>6 DEF Written, InMemory
  <2>8. Progress'
    BY <2>2, <2>7 DEF Progress
  <2>9. QED BY <1>a, <1>b, <2>2, <2>8
<1>2. CASE Return
  <2>1. host'.pc = "idle" /\ UNCHANGED <<flash, apc, cache>>
    BY <1>2 DEF Return, fpt
  <2>2. QED BY <1>a, <1>b, <1>d, <2>1
<1>3. CASE Accept
  <2>1. host.pc = "send" /\ UNCHANGED <<flash, apc, cache, ram, loaded>>
    BY <1>3 DEF Accept, fpt
  <2>2. CASE Acceptable(host.plan[1]) /\ Room
    <3>1. host' = [host EXCEPT !.pc = "wait"]
      BY <1>3, <2>2 DEF Accept
    <3>2. host'.pc = "wait" /\ host'.plan = host.plan /\ host'.req = host.req
      BY <1>0, <2>1, <3>1, HostParts
    <3>3. ~Waited /\ ~Failing /\ Carried' = Carried
      <4>1. ~Waited
        BY <1>0, <2>1 DEF Waited, Handshake
      <4>2. At' = At
        BY <3>2 DEF At
      <4>3. QED BY <2>1, <4>1, <4>2 DEF Carried, Done, Failing, Waited, Msg
    <3>4. Progress'
      BY <1>0, <2>1, <3>2, <3>3, KeptProgress
    <3>5. QED BY <1>a, <1>b, <2>1, <3>4
  <2>3. CASE ~(Acceptable(host.plan[1]) /\ Room)
    <3>1. Answered(FALSE)
      BY <1>3, <2>3 DEF Accept
    <3>2. host'.pc = "failed"
      BY <1>0, <2>1, <3>1, AnsweredStep
    <3>3. QED BY <1>a, <1>b, <1>d, <2>1, <3>2
  <2>4. QED BY <2>2, <2>3
<1>4. CASE SetStart
  <2>1. host.pc = "send" /\ UNCHANGED <<flash, apc, cache, ram, loaded>>
    BY <1>4 DEF SetStart, fpt
  <2>2. CASE Answered(FALSE)
    <3>1. host'.pc = "failed"
      BY <1>0, <2>1, <2>2, AnsweredStep
    <3>2. QED BY <1>a, <1>b, <1>d, <2>1, <3>1
  <2>3. QED BY <1>4, <1>a, <1>b, <1>c, <2>1, <2>2 DEF SetStart
<1>5. CASE SetFinish
  <2>1. host.pc = "send" /\ host.plan[1].op = "set" /\ UNCHANGED <<flash, apc>>
    BY <1>0, <1>5 DEF SetFinish, Handshake
  <2>2. host.req \in Request /\ host.plan[1] = Item(host.req, At)
    BY <1>0, <2>1, PlanHead
  <2>3. host.req.op = "set"
    BY <2>1, <2>2, ItemOp
  <2>4. PICK ok \in BOOLEAN : Answered(ok)
    BY <1>5 DEF SetFinish
  <2>5. host'.req = host.req
    BY <1>0, <2>1, <2>4, AnsweredStep
  <2>6. apc.pc # "idle" => Msg.op = "set"
    BY <1>0, <2>1 DEF Handshake
  <2>7. CopyProgress'
    BY <1>h, <2>1, <2>6 DEF Msg
  <2>8. QED BY <1>a, <1>f, <2>1, <2>3, <2>5, <2>7
<1>6. CASE Pend
  <2>1. /\ apc.pc = "idle" /\ apc'.pc = mbox[1].op /\ Msg' = mbox[1] /\ apc'.k = 0
        /\ mbox # << >> /\ UNCHANGED <<host, flash, cache, ram, loaded>>
    BY <1>6 DEF Pend, Msg, fpt
  <2>2. mbox[1] \in Messages
    BY <1>0, <2>1
  <2>3. apc'.pc \in {"download", "program", "copy", "select", "set", "update_fpt"}
    BY <2>1, <2>2, MessageParts
  <2>4. ~Done /\ ~Done' /\ ~Failing /\ ~Failing' /\ At' = At
    BY <2>1, <2>3 DEF Done, Failing, Waited, At
  <2>5. Progress'
    <3>1. CASE host.pc \in {"send", "wait"}
      <4>1. Carried' = Carried
        BY <2>4 DEF Carried
      <4>2. QED BY <1>0, <2>1, <2>4, <3>1, <4>1, KeptProgress
    <3>2. CASE host.pc \notin {"send", "wait"}
      BY <1>e, <2>1, <3>2
    <3>3. QED BY <3>1, <3>2
  <2>6. Copying'
    <3>1. SUFFICES ASSUME apc'.pc = "copy"
                   PROVE  Copying'
      BY DEF Copying
    <3>2. mbox[1].src \in Part
      BY <2>1, <2>2, <3>1, MessageParts
    <3>3. 0 \in 0 .. Size[mbox[1].src] /\ ~(0 > 0) /\ \A n \in 1 .. 0 - 1 : FALSE
      BY <3>2, BaseOf
    <3>4. QED BY <2>1, <3>3 DEF Copying, SameChunks
  <2>7. CopyProgress'
    BY <2>3, <2>4, <2>6 DEF CopyProgress
  <2>8. QED BY <1>a, <2>1, <2>5, <2>7
<1>7. CASE DownloadImage
  <2>1. PICK r, w : r = host.req /\ w = At
    OBVIOUS
  <2>2. /\ apc.pc = "download" /\ apc.pc # "idle" /\ Msg.op = "download"
        /\ UNCHANGED <<host, cache, ram, loaded>>
    BY <1>0, <1>7 DEF DownloadImage, Doing, fpt
  <2>3. Msg' = Msg /\ apc'.pc # "idle"
    BY <1>0, <1>7, WorkStep DEF Work
  <2>4. /\ \A p \in Part : Bootable(p)'
        /\ apc'.pc \in {"record", "answer"}
        /\ apc'.pc = "record" => Msg.last
        /\ apc'.pc = "answer" /\ apc'.ok => ~Msg.last
        /\ apc'.pc = "record" \/ apc'.ok => Written(r, w)'
    BY <1>0, <1>7, <2>1, DownloadStep
  <2>5. host.pc = "wait" /\ r.op = "download"
    BY <1>0, <2>1, <2>2, AtWork
  <2>6. Waited'
    BY <2>2, <2>3 DEF Waited
  <2>7. Progress'
    <3>1. CASE Failing'
      BY <2>2, <2>5, <3>1 DEF Progress
    <3>2. CASE ~Failing'
      <4>1. Done' /\ Written(r, w)'
        BY <2>4, <2>6, <3>2 DEF Failing, Done
      <4>2. Carried' = w
        BY <2>1, <2>2, <4>1 DEF Carried, At
      <4>3. Written(host.req, Carried)'
        BY <2>1, <2>2, <4>1, <4>2 DEF Written
      <4>4. QED BY <2>1, <2>2, <2>5, <4>3 DEF Progress
    <3>3. QED BY <3>1, <3>2
  <2>8. CopyProgress'
    BY <2>2, <2>3, <2>4 DEF CopyProgress, Copying, Done
  <2>9. QED BY <2>4, <2>7, <2>8
<1>8. CASE CopyChunk
  <2>1. apc.pc = "copy" /\ apc.pc # "idle" /\ Msg.op = "copy" /\ UNCHANGED host
    BY <1>0, <1>8 DEF CopyChunk, Doing
  <2>2. host.pc = "wait" /\ host.req.op = "copy"
    BY <1>0, <2>1, AtWork
  <2>3. /\ \A p \in Part : Bootable(p)'
        /\ Copying'
        /\ apc'.pc = "copy" \/ (apc'.pc = "answer" /\ ~apc'.ok)
    BY <1>0, <1>8, CopyChunkStep
  <2>4. CopyProgress'
    BY <2>3 DEF CopyProgress, Done
  <2>5. QED BY <1>g, <2>1, <2>2, <2>3, <2>4
<1>9. CASE CopyFirst
  <2>1. PICK m : m = Msg
    OBVIOUS
  <2>2. apc.pc = "copy" /\ apc.pc # "idle" /\ m.op = "copy" /\ UNCHANGED host
    BY <1>0, <1>9, <2>1 DEF CopyFirst, Doing
  <2>3. host.pc = "wait" /\ host.req.op = "copy"
    BY <1>0, <2>1, <2>2, AtWork
  <2>4. /\ \A p \in Part : Bootable(p)'
        /\ \/ apc'.pc = "answer" /\ ~apc'.ok
           \/ apc'.pc = "record" /\ SameChunks(m, 0, Size[m.src] - 1)'
    BY <1>0, <1>9, <2>1, CopyFirstStep
  <2>5. Msg' = m
    BY <1>0, <1>9, <2>1, WorkStep DEF Work
  <2>6. CopyProgress'
    BY <2>2, <2>4, <2>5 DEF CopyProgress, Copying, Done, SameChunks
  <2>7. QED BY <1>g, <2>2, <2>3, <2>4, <2>6
<1>10. CASE Record
  <2>1. PICK m : m = Msg
    OBVIOUS
  <2>2. /\ apc.pc = "record" /\ apc.pc # "idle" /\ m.op \in {"download", "copy"}
        /\ UNCHANGED <<host, flash, ram, loaded>> /\ Go("store")
        /\ cache' = [cache EXCEPT ![DeviceOf[m.part]][IndexOf[m.part]].md5 = Digest]
    BY <1>0, <1>10, <2>1 DEF Record, Doing
  <2>3. apc'.pc = "store" /\ Msg' = m
    BY <1>0, <2>1, <2>2, GoStep DEF ApcPhase
  <2>5. Recorded(m)'
    BY <1>0, <1>10, <2>1, RecordStep
  <2>6. host.pc = "wait"
    BY <1>0, <2>1, <2>2, AtWork
  <2>7. Done /\ Done' /\ ~Failing /\ Carried' = Carried
    BY <2>1, <2>2, <2>3 DEF Done, Waited, Failing, Carried, At
  <2>8. Progress'
    BY <1>0, <2>2, <2>6, <2>7, KeptProgress
  <2>9. /\ m.op = "copy" => SameChunks(m, 0, Size[m.src] - 1)'
        /\ m.op = "download" => m.last
    BY <1>0, <2>1, <2>2, <2>7 DEF CopyProgress, SameChunks
  <2>10. CopyProgress'
    BY <2>3, <2>5, <2>9 DEF CopyProgress, Copying, SameChunks, Recorded, Md5Of
  <2>11. QED BY <1>a, <2>2, <2>8, <2>10
<1>11. CASE Store
  <2>1. PICK m : m = Msg
    OBVIOUS
  <2>2. /\ apc.pc = "store" /\ apc.pc # "idle" /\ m.op \in {"download", "copy"}
        /\ UNCHANGED <<host, flash, cache, ram, loaded>> /\ End(TRUE)
    BY <1>0, <1>11, <2>1 DEF Store, Doing
  <2>3. apc'.pc = "answer" /\ apc'.ok /\ Msg' = m
    BY <1>0, <2>1, <2>2, EndStep
  <2>4. host.pc = "wait"
    BY <1>0, <2>1, <2>2, AtWork
  <2>5. Done /\ Done' /\ ~Failing /\ Carried' = Carried
    BY <2>1, <2>2, <2>3 DEF Done, Waited, Failing, Carried, At
  <2>6. Progress'
    BY <1>0, <2>2, <2>4, <2>5, KeptProgress
  <2>7. /\ m.op = "copy" => SameChunks(m, 0, Size[m.src] - 1)
        /\ m.op = "copy" \/ (m.op = "download" /\ m.last) => Recorded(m)
    BY <1>0, <2>1, <2>2, <2>5 DEF CopyProgress
  <2>8. /\ m.op = "copy" => SameChunks(m, 0, Size[m.src] - 1)'
        /\ m.op = "copy" \/ (m.op = "download" /\ m.last) => Recorded(m)'
    BY <2>2, <2>7 DEF SameChunks, Recorded, Md5Of
  <2>9. CopyProgress'
    BY <2>3, <2>8 DEF CopyProgress, Copying, SameChunks, Recorded, Md5Of
  <2>10. QED BY <1>a, <2>2, <2>6, <2>9
<1>12. CASE DownloadPdiImage
  <2>1. apc.pc # "idle" /\ Msg.op = "program" /\ UNCHANGED flash
    BY <1>0, <1>12 DEF DownloadPdiImage, Doing
  <2>2. Msg' = Msg
    BY <1>0, <1>12, WorkStep DEF Work
  <2>3. Progress'
    BY <1>0, <1>12, PdiStep
  <2>4. QED BY <1>a, <1>h, <2>1, <2>2, <2>3
<1>13. CASE DownloadFpt \/ SetFptFlags \/ Forget \/ LoadHeader \/ LoadEntry \/ LoadFails
            \/ SelectPartition
  <2>1. /\ apc.pc # "idle" /\ Msg.op \in {"set", "update_fpt", "select"}
        /\ UNCHANGED <<host, flash, ram, loaded>>
    BY <1>0, <1>13 DEF DownloadFpt, SetFptFlags, Forget, LoadHeader, LoadEntry, LoadFails,
       SelectPartition, Doing
  <2>2. Msg' = Msg /\ apc'.pc # "idle"
    BY <1>0, <1>13, WorkStep DEF Work
  <2>3. Progress'
    <3>1. CASE Msg.op = "set"
      <4>1. ~Waited /\ ~Waited'
        BY <2>2, <3>1 DEF Waited
      <4>2. ~Failing /\ Carried' = Carried
        BY <2>1, <4>1 DEF Failing, Carried, Done, At
      <4>3. CASE host.pc \in {"send", "wait"}
        BY <1>0, <2>1, <4>2, <4>3, KeptProgress
      <4>4. CASE host.pc = "done"
        <5>1. host.req.op = "set"
          BY <1>0, <2>1, <4>4 DEF Handshake
        <5>2. QED BY <1>f, <2>1, <5>1
      <4>5. QED BY <1>d, <2>1, <4>3, <4>4
    <3>2. CASE Msg.op # "set"
      BY <1>0, <1>f, <2>1, <3>2, AtWork
    <3>3. QED BY <3>1, <3>2
  <2>4. CopyProgress'
    BY <1>h, <2>1, <2>2
  <2>5. QED BY <1>a, <2>1, <2>3, <2>4
<1>14. CASE Announce
  <2>1. /\ apc.pc = "answer" /\ apc.pc # "idle" /\ apc'.pc = "idle"
        /\ UNCHANGED <<flash, cache, ram, loaded>>
    BY <1>14 DEF Announce, fpt
  <2>2. CopyProgress' /\ \A p \in Part : Bootable(p)'
    BY <1>a, <1>h, <2>1
  <2>3. ~Waited' /\ ~Done' /\ ~Failing'
    BY <2>1 DEF Waited, Done, Failing
  <2>4. CASE Msg.op = "set"
    <3>1. UNCHANGED host /\ ~Done /\ ~Failing
      BY <1>14, <2>4 DEF Announce, Done, Failing, Waited
    <3>2. Carried' = Carried
      BY <2>3, <3>1 DEF Carried, At
    <3>3. CASE host.pc \in {"send", "wait"}
      BY <1>0, <2>1, <2>2, <3>1, <3>2, <3>3, KeptProgress
    <3>4. CASE host.pc \notin {"send", "wait"}
      BY <1>e, <2>1, <2>2, <3>1, <3>4
    <3>5. QED BY <3>3, <3>4
  <2>5. CASE Msg.op # "set"
    <3>1. PICK r, w, m : r = host.req /\ w = At /\ m = Msg
      OBVIOUS
    <3>2. /\ host.pc = "wait" /\ r \in Request /\ r.op = m.op /\ w \in 1 .. Steps(r)
          /\ m = Item(r, w)
          /\ ~Chunked(r) => m = r
      BY <1>0, <2>1, <2>5, <3>1, AtWork
    <3>3. PICK ok \in BOOLEAN : ok = apc.ok /\ Answered(ok)
      BY <1>0, <1>14, <2>1, <2>5, ApcParts DEF Announce
    <3>4. /\ host'.req = r
          /\ ~ok => host'.pc = "failed"
          /\ ok /\ w = Steps(r) => host'.pc = "done"
          /\ ok /\ w # Steps(r) => host'.pc = "send" /\ At' = w + 1
      BY <1>0, <3>1, <3>2, <3>3, AnsweredStep
    <3>5. CASE ~ok
      BY <1>d, <2>2, <3>4, <3>5
    <3>6. CASE ok
      <4>1. Done /\ ~Failing /\ Carried = w
        BY <2>1, <2>5, <3>1, <3>3, <3>6 DEF Done, Failing, Waited, Carried
      <4>2. CASE w # Steps(r)
        <5>1. Carried' = w
          <6>1. (w + 1) - 1 = w
            BY <3>2
          <6>2. QED BY <2>3, <3>4, <3>6, <4>2, <6>1 DEF Carried
        <5>2. QED BY <1>0, <2>1, <2>2, <3>1, <3>2, <3>4, <3>6, <4>1, <4>2, <5>1, KeptProgress
      <4>3. CASE w = Steps(r)
        <5>1. /\ r.op = "download" => Written(r, w)
              /\ r.op = "program" => InMemory(r, w)
          BY <1>0, <3>1, <3>2, <4>1 DEF Progress
        <5>2. r.op = "copy" => m = r
          BY <3>2 DEF Chunked
        <5>3. r.op = "copy" => SameChunks(r, 0, Size[r.src] - 1)
          BY <1>0, <3>1, <3>2, <4>1, <5>2 DEF CopyProgress
        <5>4. r.op = "download" => m.last /\ m.part = r.part /\ m.image = r.image
          BY <3>2, <4>3, DownloadItem
        <5>5. Recorded(r)
          <6>1. r.op = "copy" \/ r.op = "download" => Recorded(m)
            BY <1>0, <2>1, <3>1, <3>2, <4>1, <5>4 DEF CopyProgress
          <6>2. QED BY <3>2, <5>2, <5>4, <6>1 DEF Recorded
        <5>6. /\ r.op = "download" => Written(r, w)'
              /\ r.op = "program" => InMemory(r, w)'
              /\ r.op = "copy" => SameChunks(r, 0, Size[r.src] - 1)'
              /\ Recorded(r)'
          BY <2>1, <5>1, <5>3, <5>5 DEF Written, InMemory, SameChunks, Recorded, Md5Of
        <5>7. Progress'
          BY <3>4, <3>6, <4>3, <5>6
             DEF Progress, Written, InMemory, SameChunks, Recorded, Md5Of
        <5>8. QED BY <2>2, <5>7
      <4>4. QED BY <4>2, <4>3
    <3>7. QED BY <3>5, <3>6
  <2>6. QED BY <2>4, <2>5
<1>15. CASE SetNowhere \/ ReadStart \/ ReadTake \/ Read \/ ReadNowhere
  <2>1. UNCHANGED <<host, apc, flash, cache, ram, loaded>>
    BY <1>15 DEF SetNowhere, ReadStart, ReadTake, Read, ReadNowhere, fpt
  <2>2. QED BY <1>a, <1>b, <1>c, <2>1
<1>16. CASE Reset
  <2>1. UNCHANGED flash /\ apc'.pc = "idle"
    BY <1>16 DEF Reset
  <2>2. host'.pc \notin {"send", "wait", "done"}
    <3>1. CASE host.pc \in {"send", "wait"}
      BY <1>0, <1>16, <3>1 DEF Reset, HostState
    <3>2. CASE host.pc \notin {"send", "wait"}
      BY <1>16, <3>2 DEF Reset
    <3>3. QED BY <3>1, <3>2
  <2>3. QED BY <1>a, <1>d, <1>h, <2>1, <2>2
<1>17. CASE UNCHANGED vars
  <2>1. UNCHANGED <<host, apc, flash, cache, ram, loaded>>
    BY <1>17 DEF vars, fpt
  <2>2. QED BY <1>a, <1>b, <1>c, <2>1
<1>18. CASE GoAstray
  <2>1. /\ apc.pc \in {"download", "copy", "set", "select"} /\ apc.pc # "idle"
        /\ UNCHANGED <<host, flash, cache, ram, loaded>>
    BY <1>18 DEF GoAstray, fpt
  <2>2. apc'.pc = "astray"
    BY <1>0, <1>18, <2>1, GoStep DEF GoAstray, ApcPhase
  <2>3. ~Done /\ ~Done' /\ ~Failing /\ Carried' = Carried
    BY <2>1, <2>2 DEF Done, Failing, Carried, At
  <2>4. Progress'
    <3>1. CASE host.pc \in {"send", "wait"}
      BY <1>0, <2>1, <2>3, <3>1, KeptProgress
    <3>2. CASE host.pc \notin {"send", "wait"}
      BY <1>e, <2>1, <3>2
    <3>3. QED BY <3>1, <3>2
  <2>5. CopyProgress'
    BY <2>2, <2>3 DEF CopyProgress, Copying
  <2>6. QED BY <1>a, <2>1, <2>4, <2>5
<1>19. QED BY <1>1, <1>2, <1>3, <1>4, <1>5, <1>6, <1>7, <1>8, <1>9, <1>10, <1>11, <1>12,
              <1>13, <1>14, <1>15, <1>16, <1>17, <1>18 DEF Next, AmiTask, ApcTask, Reader

------------------------------------------------------------------------------
(* The invariant.                                                          *)
LEMMA InitFlash ==
  ASSUME Init
  PROVE  /\ flash \in [Addr -> Chunk]
         /\ \A p \in Part : Bootable(p)
<1> DEFINE owner(a) == CHOOSE q \in Part : a \in Base[q] .. Base[q] + Size[q] - 1
           chunk(p, n) == IF Held[p] = NoImage \/ n >= Length[Held[p]] THEN Blank
                          ELSE [image |-> Held[p], n |-> n, whole |-> TRUE]
<1>1. flash = [a \in Addr |-> chunk(owner(a), a - Base[owner(a)])]
  BY DEF Init
<1>2. ASSUME NEW p \in Part, NEW n \in 0 .. Size[p] - 1
      PROVE  owner(Base[p] + n) = p
  <2> DEFINE a == Base[p] + n
  <2>1. a \in Base[p] .. Base[p] + Size[p] - 1 /\ a \in Addr
    BY AddrOf
  <2>2. owner(a) \in Part /\ a \in Base[owner(a)] .. Base[owner(a)] + Size[owner(a)] - 1
    BY <2>1
  <2> HIDE DEF owner, a
  <2>3. ASSUME NEW q \in Part, a \in Base[q] .. Base[q] + Size[q] - 1, q # p
        PROVE  FALSE
    <3>1. Base[p] + Size[p] <= Base[q] \/ Base[q] + Size[q] <= Base[p]
      BY <2>3, FlashAssumption
    <3>2. /\ Base[p] \in Nat /\ Size[p] \in Nat /\ Base[q] \in Nat /\ Size[q] \in Nat
      BY <2>3, FlashAssumption
    <3>3. QED BY <2>1, <2>3, <3>1, <3>2
  <2>4. owner(a) = p
    BY <2>2, <2>3
  <2>5. QED BY <2>4 DEF a
<1>3. ASSUME NEW p \in Part, NEW n \in 0 .. Size[p] - 1
      PROVE  flash[Base[p] + n] = chunk(p, n)
  <2>1. Base[p] + n \in Addr /\ owner(Base[p] + n) = p
    BY <1>2, AddrOf
  <2>2. (Base[p] + n) - Base[p] = n
    BY BaseOf
  <2> HIDE DEF owner, chunk
  <2>3. QED BY <1>1, <2>1, <2>2
<1>4. ASSUME NEW p \in Part, NEW n \in Nat
      PROVE  chunk(p, n) \in Chunk
  <2>1. Held[p] \in Md5
    BY FlashAssumption
  <2>2. QED BY <2>1 DEF Blank, Chunk, Md5
<1>5. ASSUME NEW a \in Addr
      PROVE  flash[a] \in Chunk
  <2>1. PICK p \in Part : a \in Base[p] .. Base[p] + Size[p] - 1
    BY DEF Addr
  <2>2. a - Base[p] \in 0 .. Size[p] - 1 /\ Base[p] + (a - Base[p]) = a
    <3>1. Base[p] \in Nat /\ Size[p] \in Nat
      BY BaseOf
    <3>2. QED BY <2>1, <3>1
  <2> DEFINE n == a - Base[p]
  <2> HIDE DEF n, chunk
  <2>3. n \in 0 .. Size[p] - 1 /\ Base[p] + n = a
    BY <2>2 DEF n
  <2>4. flash[Base[p] + n] = chunk(p, n)
    BY <1>3, <2>3
  <2>5. n \in Nat
    BY <2>3, BaseOf
  <2>6. QED BY <1>4, <2>3, <2>4, <2>5
<1>6. flash \in [Addr -> Chunk]
  <2> HIDE DEF owner, chunk
  <2>1. QED BY <1>1, <1>5
<1>7. ASSUME NEW p \in Part
      PROVE  Bootable(p)
  <2>1. flash[Base[p]] = chunk(p, 0)
    <3> HIDE DEF chunk
    <3>1. QED BY <1>3, BaseOf
  <2>2. SUFFICES ASSUME flash[Base[p]].image # NoImage
                 PROVE  LET i == flash[Base[p]].image
                        IN  /\ Length[i] <= Size[p]
                            /\ \A n \in 1 .. Length[i] - 1 : flash[Base[p] + n] = Full(i, n)
    BY DEF Bootable
  <2>3. Held[p] # NoImage /\ flash[Base[p]].image = Held[p]
    BY <2>1, <2>2 DEF Blank
  <2>4. Length[Held[p]] <= Size[p] /\ Length[Held[p]] \in Nat /\ Size[p] \in Nat
    BY <2>3, FlashAssumption DEF Md5
  <2>5. ASSUME NEW n \in 1 .. Length[Held[p]] - 1
        PROVE  flash[Base[p] + n] = Full(Held[p], n)
    <3>1. n \in 0 .. Size[p] - 1 /\ ~(n >= Length[Held[p]])
      BY <2>4
    <3>2. chunk(p, n) = Full(Held[p], n)
      BY <2>3, <3>1 DEF Full
    <3> HIDE DEF chunk
    <3>3. QED BY <1>3, <3>1, <3>2
  <2>6. QED BY <2>3, <2>4, <2>5
<1>8. QED BY <1>6, <1>7

(* The inductive invariant: what the tasks hold, the tables, and what the  *)
(* flash holds of the operation that the host is at (vProxyDriverTask()).  *)
THEOREM Inductive == Spec => []IInv
<1>1. Init => IInv
  <2>1. SUFFICES ASSUME Init PROVE IInv
    OBVIOUS
  <2>2. /\ host = [pc |-> "idle"] /\ apc = [pc |-> "idle"] /\ reader = [pc |-> "idle"]
        /\ mbox = << >> /\ ami = "idle" /\ mutex = None /\ loaded = NoImage
        /\ selected = None /\ table = TableHeld
    BY <2>1 DEF Init
  <2>a. PICK load \in StartLoads : /\ valid = [d \in Device |-> load[d].valid]
                                   /\ header = [d \in Device |-> load[d].header]
                                   /\ cache = [d \in Device |-> load[d].cache]
                                   /\ failed = {d \in Device : ~load[d].ok}
    BY <2>1 DEF Init
  <2>b. DOMAIN table = Device /\ \A d \in Device : IsTable(table[d])
    BY <2>2, TableAssumption
  <2>c. \A d \in Device :
          /\ load[d].ok \in BOOLEAN /\ load[d].valid \in BOOLEAN /\ load[d].header \in Nat
          /\ Cached(load[d].header, load[d].cache)
          /\ load[d].ok => \A i \in 0 .. load[d].header - 1 :
                             i \in DOMAIN load[d].cache /\ load[d].cache[i] # None
    BY <2>b, StartParts
  <2>d. valid \in [Device -> BOOLEAN]
    BY <2>a, <2>c
  <2>3. Typed
    BY <2>1, <2>2, <2>d, InitFlash, FlashAssumption
       DEF Typed, HostState, ApcState, ReaderState, Md5
  <2>4. Doing /\ Handshake /\ PlanOK
    BY <2>2 DEF Doing, Handshake, PlanOK
  <2>5. TableTypes /\ LoadsOK
    <3>1. TableTypes
      BY <2>a, <2>b, <2>c DEF TableTypes
    <3>2. \A d \in Device : ~Loading(d)
      BY <2>2 DEF Loading
    <3>3. QED BY <2>a, <2>c, <3>1, <3>2 DEF LoadsOK, Whole
  <2>6. Exclusive /\ NamesOK
    BY <2>2, TableAssumption DEF Exclusive, NamesOK
  <2>7. Progress /\ CopyProgress
    BY <2>2 DEF Progress, CopyProgress, Copying, Done, Waited
  <2>8. QED BY <2>1, <2>3, <2>4, <2>5, <2>6, <2>7, InitFlash DEF IInv
<1>2. IInv /\ [Next]_vars => IInv'
  <2>1. SUFFICES ASSUME IInv, [Next]_vars PROVE IInv'
    OBVIOUS
  <2>2. Typed' /\ Doing'
    BY <2>1, TypeStep DEF IInv
  <2>3. Handshake' /\ PlanOK'
    BY <2>1, HandshakeStep DEF IInv
  <2>4. TableTypes' /\ LoadsOK'
    BY <2>1, TableTypesStep, LoadsStep DEF IInv
  <2>5. Exclusive' /\ NamesOK'
    BY <2>1, ExclusiveStep, NamesStep DEF IInv
  <2>6. (\A p \in Part : Bootable(p)') /\ Progress' /\ CopyProgress'
    BY <2>1, <2>2, <2>3, ProgressStep
  <2>7. QED BY <2>2, <2>3, <2>4, <2>5, <2>6 DEF IInv
<1>3. QED BY <1>1, <1>2, PTL DEF Spec

(* The types, and that a cached table has the size its header says         *)
(* (iLoadFpt()).                                                           *)
THEOREM Types == Spec => []TypeOK
<1>1. IInv => TypeOK
  BY DEF IInv, Typed, TableTypes, Cached, Exclusive, TypeOK
<1>2. QED BY <1>1, Inductive, PTL

(* Whatever tables a host writes and whatever reading them does: whoever   *)
(* reads an entry under the mutex never meets a table that is being read,  *)
(* and the entry is there, unless the last reading of that table failed or *)
(* it has become shorter (iAPC_GetFptPartition(), iRefreshFptData()).      *)
THEOREM ReadsLoaded == Spec => []ReadsLoadedEntry
<1>1. IInv => ReadsLoadedEntry
  <2> DEFINE d == DeviceOf[reader.part]
             i == IndexOf[reader.part]
  <2>1. SUFFICES ASSUME IInv, reader.pc = "read"
                 PROVE  ~Loading(d) /\ (Whole(d, i) \/ d \in failed \/ i >= header[d])
    BY DEF ReadsLoadedEntry
  <2>2. Typed /\ TableTypes /\ LoadsOK /\ Exclusive
    BY <2>1 DEF IInv
  <2>3. ~Loading(d)
    BY <2>1, <2>2, TableAssumption DEF Exclusive, Loading
  <2>4. d \in Device /\ i \in Nat
    BY <2>1, <2>2, ParDevice DEF Typed, ReaderState
  <2> HIDE DEF d, i
  <2>5. header[d] \in Nat
    BY <2>2, <2>4 DEF TableTypes
  <2>6. d \notin failed => \A j \in 0 .. header[d] - 1 : Whole(d, j)
    BY <2>2, <2>3, <2>4 DEF LoadsOK
  <2>7. i >= header[d] \/ i \in 0 .. header[d] - 1
    BY <2>4, <2>5
  <2>8. QED BY <2>3, <2>6, <2>7
<1>2. QED BY <1>1, Inductive, PTL

(* After any failure and any reset, a partition with a valid boot tag has  *)
(* the rest of that image behind it (apc_proxy_driver.c, ami_program.c).   *)
THEOREM BootableComplete == Spec => []BootableIsComplete
<1>1. IInv => BootableIsComplete
  BY DEF IInv, Bootable, BootableIsComplete, Full
<1>2. QED BY <1>1, Inductive, PTL

(* No step changes the source of a copy, or a partition other than the one *)
(* the request names (iAPC_CopyImage(), iDownloadImage()).                 *)
THEOREM DestinationOnly == Spec => OnlyDestinationWritten
<1> DEFINE A == \A a \in Addr : flash'[a] # flash[a] =>
                  /\ a \in Dest .. Dest + Size[Msg.part] - 1
                  /\ Msg.op = "copy" => Msg.src # Msg.part
<1>1. IInv /\ [Next]_vars => [A]_vars
  <2>1. SUFFICES ASSUME IInv, [Next]_vars PROVE A
    OBVIOUS
  <2>2. Typed /\ Doing /\ NamesOK /\ CopyProgress /\ apc \in ApcState
        /\ flash \in [Addr -> Chunk]
    BY <2>1 DEF IInv, Typed
  <2>3. ASSUME NEW p \in Part, p = Msg.part, NEW n \in 0 .. Size[p] - 1, NEW c \in Chunk,
               NEW ok \in BOOLEAN, Write(Dest + n, c, ok)
        PROVE  \A a \in Addr : flash'[a] # flash[a] => a \in Dest .. Dest + Size[Msg.part] - 1
    <3>1. Dest = Base[p] /\ Base[p] + n \in Addr
          /\ Base[p] + n \in Base[p] .. Base[p] + Size[p] - 1
      BY <2>3, AddrOf DEF Dest
    <3>2. QED BY <2>2, <2>3, <3>1, WriteStep
  <2>4. CASE DownloadImage
    <3>1. apc.pc = "download" /\ apc.pc # "idle" /\ Msg.op = "download"
      BY <2>2, <2>4 DEF DownloadImage, Doing
    <3>2. Msg \in Messages
      BY <2>2, <3>1, ApcParts DEF Msg
    <3>3. Msg.part \in Part /\ Msg.image \in Image /\ Msg.n \in Nat
      BY <3>1, <3>2, MessageParts
    <3> DEFINE c == IF Msg.tag THEN Full(Msg.image, Msg.n) ELSE Blank
    <3>4. c \in Chunk
      BY <3>3 DEF Full, Blank, Chunk, Md5
    <3>5. \/ flash' = flash
          \/ Msg.n < Size[Msg.part] /\ \E ok \in BOOLEAN : Write(Dest + Msg.n, c, ok)
      BY <2>4 DEF DownloadImage, Fits, Full
    <3> HIDE DEF c
    <3>6. Msg.n < Size[Msg.part] => Msg.n \in 0 .. Size[Msg.part] - 1
      BY <3>3, BaseOf
    <3>7. QED BY <2>3, <3>1, <3>3, <3>4, <3>5, <3>6
  <2>5. CASE CopyChunk
    <3>1. apc.pc = "copy" /\ apc.k < Size[Msg.src]
      BY <2>5 DEF CopyChunk
    <3>2. /\ Msg.src \in Part /\ Msg.part \in Part /\ Msg.src # Msg.part
          /\ apc.k \in Nat
      BY <2>2, <3>1, CopyParts
    <3> DEFINE c == flash[Base[Msg.src] + apc.k]
    <3>3. apc.k \in 0 .. Size[Msg.src] - 1
      BY <3>1, <3>2, BaseOf
    <3>4. Copied(c) \in Chunk
      BY <2>2, <3>2, <3>3, AddrOf DEF Copied, Blank, Chunk, Md5
    <3>5. \/ flash' = flash
          \/ /\ Size[Msg.src] <= Size[Msg.part]
             /\ \E ok \in BOOLEAN : Write(Dest + apc.k, Copied(c), ok)
      BY <2>5 DEF CopyChunk
    <3> HIDE DEF c
    <3>6. Size[Msg.src] <= Size[Msg.part] => apc.k \in 0 .. Size[Msg.part] - 1
      BY <3>2, <3>3, BaseOf
    <3>7. QED BY <2>3, <3>2, <3>4, <3>5, <3>6
  <2>6. CASE CopyFirst
    <3>1. apc.pc = "copy"
      BY <2>6 DEF CopyFirst
    <3>2. /\ Msg.src \in Part /\ Msg.part \in Part /\ Msg.src # Msg.part
          /\ apc.first \in Chunk
      BY <2>2, <3>1, CopyParts
    <3>3. Dest = Dest + 0 /\ 0 \in 0 .. Size[Msg.part] - 1
      BY <3>2, BaseOf DEF Dest
    <3>4. \/ flash' = flash
          \/ \E ok \in BOOLEAN : Write(Dest + 0, apc.first, ok)
      BY <2>6, <3>3 DEF CopyFirst
    <3>5. QED BY <2>3, <3>2, <3>3, <3>4
  <2>7. CASE ~(DownloadImage \/ CopyChunk \/ CopyFirst)
    <3>1. UNCHANGED flash
      BY <2>1, <2>7 DEF Next, AmiTask, ApcTask, Reader, Call, Return, Accept, SetStart,
         SetFinish, SetNowhere, Pend, Record, Store, DownloadFpt, SetFptFlags, Forget,
         LoadHeader, LoadEntry, LoadFails, DownloadPdiImage, SelectPartition, GoAstray,
         Announce, ReadStart, ReadTake, Read, ReadNowhere, Reset, vars
    <3>2. QED BY <3>1
  <2>8. QED BY <2>4, <2>5, <2>6, <2>7
<1> HIDE DEF A
<1>2. Spec => [][A]_vars
  BY <1>1, Inductive, PTL DEF Spec
<1>3. QED BY <1>2, PTL DEF OnlyDestinationWritten, A

(* An operation that the host sees succeed has been done                   *)
(* (vProxyDriverTask(), do_image_download()).                              *)
THEOREM SuccessIsDone == Spec => []SuccessMeansDone
<1>1. IInv => SuccessMeansDone
  <2>1. SUFFICES ASSUME IInv, host.pc = "done", NEW r, r = host.req
                 PROVE  LET md5(p) == cache[DeviceOf[p]][IndexOf[p]].md5
                        IN  /\ r.op = "download" =>
                                 /\ \A n \in 0 .. Length[r.image] - 1 :
                                      flash[Base[r.part] + n] = Full(r.image, n)
                                 /\ md5(r.part) = r.image
                            /\ r.op = "copy" =>
                                 /\ \A n \in 0 .. Size[r.src] - 1 :
                                      flash[Base[r.part] + n] = flash[Base[r.src] + n]
                                 /\ md5(r.part) = md5(r.src)
                            /\ r.op = "program" => loaded = r.image
    BY DEF SuccessMeansDone, Full
  <2>2. /\ r.op = "download" => Written(r, Steps(r))
        /\ r.op = "program" => InMemory(r, Steps(r))
        /\ r.op = "copy" => SameChunks(r, 0, Size[r.src] - 1)
        /\ Recorded(r)
    BY <2>1 DEF IInv, Progress
  <2>3. r \in Request
    BY <2>1, HostParts DEF IInv, Typed
  <2>4. CASE r.op = "download"
    <3>1. Chunked(r) /\ r.part \in Part /\ Length[r.image] \in Nat \ {0}
      BY <2>3, <2>4, RequestParts, FlashAssumption DEF Chunked
    <3>2. Steps(r) \in {Length[r.image], Length[r.image] + 1}
      BY <3>1 DEF Steps
    <3>3. /\ \A n \in 1 .. Length[r.image] - 1 : flash[Base[r.part] + n] = Full(r.image, n)
          /\ flash[Base[r.part]] = Full(r.image, 0)
      <4>1. \A n \in 1 .. Length[r.image] - 1 : n < Steps(r)
        BY <3>1, <3>2
      <4>2. QED BY <2>2, <2>4, <4>1 DEF Written
    <3>4. Base[r.part] + 0 = Base[r.part]
      BY <3>1, BaseOf
    <3>5. \A n \in 0 .. Length[r.image] - 1 : n = 0 \/ n \in 1 .. Length[r.image] - 1
      OBVIOUS
    <3>6. \A n \in 0 .. Length[r.image] - 1 : flash[Base[r.part] + n] = Full(r.image, n)
      BY <3>3, <3>4, <3>5
    <3>7. QED BY <2>2, <2>4, <3>6 DEF Recorded, Md5Of
  <2>5. CASE r.op = "copy"
    BY <2>2, <2>5 DEF Recorded, Md5Of, SameChunks
  <2>6. CASE r.op = "program"
    BY <2>2, <2>6 DEF InMemory
  <2>7. QED BY <2>4, <2>5, <2>6
<1>2. QED BY <1>1, Inductive, PTL
==============================================================================
