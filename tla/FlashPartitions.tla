----------------------------- MODULE FlashPartitions ----------------------------
(***************************************************************************)
(* The flash of the card: its partition table, the images in its           *)
(* partitions and the cached table of the firmware.  The host carries out  *)
(* one operation at a time, which is one request or one request for each   *)
(* chunk of an image.  The AMI task checks a request and posts it to the   *)
(* mailbox of the APC task, which does the work; other tasks read the      *)
(* cached table meanwhile.  The APC task and its mutex are those of        *)
(* apc_proxy_driver.c, the host's side is ami_program.c.                   *)
(***************************************************************************)
EXTENDS Integers, Sequences

CONSTANTS
  Image,            \* images a host may download
  Length,           \* their length in chunks
  Part,             \* partitions
  DeviceOf,         \* APC_BOOT_DEVICES of each: 0 is the primary
  IndexOf,          \* its number in the table of its device
  Base,             \* ulPartitionBaseAddr and ulPartitionSize, in chunks
  Size,
  Flag,             \* ulPartitionFlags
  Held,             \* the image each partition holds at first, or NoImage
  TableHeld,        \* the table each device holds at first
  NewTable,         \* tables a host may write: [good, entries, entry]
  Request,          \* what a host may ask for
  Fault,            \* what may fail: "image", "entry" and "table" writes, a "read"
                    \* of a table, the "memory" for one, the "loader"
  MBoxSize,         \* APC_MBOX_SIZE
  MaxCalls,         \* bound on the operations of the host
  MaxResets,        \* bound on the resets of the card
  NoImage, None

Device == {DeviceOf[p] : p \in Part}
Index  == {IndexOf[p] : p \in Part}
Md5    == Image \cup {NoImage}
Entry  == [md5 : Md5, flags : Flag]
Addr   == UNION {Base[p] .. Base[p] + Size[p] - 1 : p \in Part}
Chunk  == [image : Md5, n : Nat, whole : BOOLEAN]
Blank  == [image |-> NoImage, n |-> 0, whole |-> FALSE]

(* A partition table in flash.  In a good one the magic number and the     *)
(* size of the header are right.                                           *)
IsTable(t) ==
  /\ t.entries \in Nat
  /\ t \in [good : BOOLEAN, entries : {t.entries}, entry : [0 .. t.entries - 1 -> Entry]]

(* The requests of ami_program.c; a digest that is set is one of an image. *)
ImageRequest == [op : {"download", "program"}, part : Part, image : Image]
CopyRequest  == [op : {"copy"}, src : Part, part : Part]
PartRequest  == [op : {"select"}, part : Part]
SetRequest   == [op : {"set"}, part : Part, image : Image, flags : Flag]
TableRequest == [op : {"update_fpt"}, dev : Device, table : NewTable]

(* Partitions do not overlap, and what they hold at first fits.            *)
ASSUME FlashAssumption ==
  /\ Length \in [Image -> Nat \ {0}] /\ NoImage \notin Image
  /\ DeviceOf \in [Part -> Nat] /\ IndexOf \in [Part -> Nat]
  /\ Base \in [Part -> Nat] /\ Size \in [Part -> Nat \ {0}]
  /\ Held \in [Part -> Md5] /\ MBoxSize \in Nat /\ MaxCalls \in Nat /\ MaxResets \in Nat
  /\ \A p, q \in Part : p # q =>
       Base[p] + Size[p] <= Base[q] \/ Base[q] + Size[q] <= Base[p]
  /\ \A p \in Part : Held[p] # NoImage => Length[Held[p]] <= Size[p]

ASSUME RequestAssumption ==
  Request \subseteq ImageRequest \cup CopyRequest \cup PartRequest \cup SetRequest
                     \cup TableRequest

(* Device 0, whose table every change of flags reloads, is there.  Nothing *)
(* is asked of the tables: a host may write bad, empty and short ones.     *)
ASSUME TableAssumption ==
  /\ 0 \in Device /\ \A t \in NewTable : IsTable(t)
  /\ DOMAIN TableHeld = Device /\ \A d \in Device : IsTable(TableHeld[d])
  /\ None \notin Entry \cup Part \cup {"apc", "reader"}

VARIABLES
  flash,            \* the chunks of the partitions
  table,            \* the partition table of each device, in flash
  valid,            \* piValidFpt
  header,           \* pxFptHeader[].ucNumEntries
  cache,            \* ppxFptPartitions, NoTable while it is NULL
  failed,           \* the devices whose last iLoadFpt() returned ERROR
  mutex,            \* pvOsalMutexHdl
  mbox,             \* pvOsalMBoxHdl
  apc,              \* the APC task: where it is, its message and its progress
  ami,              \* the AMI task: whether it is within iAPC_SetFptPartition()
  reader,           \* a task that reads the cached table
  loaded,           \* the image last given to the platform loader
  ram,              \* the chunks gathered for it
  selected,         \* ulNextBootAddr, by the partition it is of
  host,             \* the operation of the host, the request it is at
  calls, resets

vars == <<flash, table, valid, header, cache, failed, mutex, mbox, apc, ami, reader, loaded,
          ram, selected, host, calls, resets>>

fpt   == <<table, valid, header, cache, failed>>
tasks == <<mutex, ami, reader>>

(* Memory for a table, with its first n entries read from flash.           *)
NoTable        == [i \in {} |-> None]
FirstOf(n, t) == [i \in 0 .. t.entries - 1 |-> IF i < n THEN t.entry[i] ELSE None]

(* There is a cached entry, and it has been read from flash.               *)
Whole(d, i) == i \in DOMAIN cache[d] /\ cache[d][i] # None

(* What iLoadFpt() may leave of a table at start-up, when there is no task *)
(* to disturb it and no valid table before.                                *)
Loads(t) ==
  LET left(ok, v, h, c) == [ok |-> ok, valid |-> v, header |-> h, cache |-> c]
  IN  (CASE ~t.good -> {left(FALSE, FALSE, t.entries, NoTable)}
         [] t.good /\ t.entries = 0 -> {left(FALSE, TRUE, 0, NoTable)}
         [] OTHER -> {left(n = t.entries, TRUE, t.entries, FirstOf(n, t)) :
                        n \in IF "read" \in Fault THEN 0 .. t.entries ELSE {t.entries}}
                     \cup {left(FALSE, TRUE, t.entries, NoTable) : f \in Fault \cap {"memory"}})
      \cup {left(FALSE, FALSE, 0, NoTable) : f \in Fault \cap {"read"}}
StartLoads == {l \in [Device -> UNION {Loads(table[d]) : d \in Device}] :
                 \A d \in Device : l[d] \in Loads(table[d])}

Init ==
  /\ flash = [a \in Addr |->
       LET p == CHOOSE q \in Part : a \in Base[q] .. Base[q] + Size[q] - 1
       IN  IF Held[p] = NoImage \/ a - Base[p] >= Length[Held[p]] THEN Blank
           ELSE [image |-> Held[p], n |-> a - Base[p], whole |-> TRUE]]
  /\ table = TableHeld
  /\ \E load \in StartLoads :
       /\ valid = [d \in Device |-> load[d].valid]
       /\ header = [d \in Device |-> load[d].header]
       /\ cache = [d \in Device |-> load[d].cache]
       /\ failed = {d \in Device : ~load[d].ok}
  /\ mutex = None /\ mbox = <<>>
  /\ apc = [pc |-> "idle"] /\ ami = "idle" /\ reader = [pc |-> "idle"]
  /\ loaded = NoImage /\ ram = {} /\ selected = None
  /\ host = [pc |-> "idle"]
  /\ calls = 0 /\ resets = 0

---------------------------------------------------------------------------
(* The host.                                                               *)

Message(r, n, tag, last) ==
  [op |-> r.op, part |-> r.part, image |-> r.image, n |-> n, tag |-> tag, last |-> last]

(* A mistake: the first chunk is sent like the others, with its boot tag.  *)
DownloadPlanInOrder(r) ==
  [j \in 1 .. Length[r.image] |-> Message(r, j - 1, TRUE, j = Length[r.image])]

(* do_image_download().  An image of several chunks that goes to a         *)
(* partition starts with an invalid boot tag in the place of its first     *)
(* chunk, which is sent last.                                              *)
DownloadPlan(r) ==
  LET n     == Length[r.image]
      plain == [j \in 1 .. n |-> Message(r, j - 1, TRUE, j = n)]
  IN  IF r.op = "program" \/ n = 1 THEN plain
      ELSE << Message(r, 0, FALSE, FALSE) >>
             \o [j \in 1 .. n - 1 |-> Message(r, j, TRUE, FALSE)]
             \o << Message(r, 0, TRUE, TRUE) >>

Plan(r) == IF r.op \in {"download", "program"} THEN DownloadPlan(r) ELSE << r >>

(* An operation of the character device.  copy_partition() refuses a       *)
(* destination that is smaller than the source.                            *)
Call ==
  /\ host.pc = "idle" /\ calls < MaxCalls
  /\ \E r \in Request :
       /\ r.op = "copy" => Size[r.src] <= Size[r.part]
       /\ host' = [pc |-> "send", req |-> r, plan |-> Plan(r)]
  /\ calls' = calls + 1
  /\ UNCHANGED <<flash, fpt, tasks, mbox, apc, loaded, ram, selected, resets>>

(* The answer to a request: the next chunk follows a success.              *)
Answered(ok) ==
  host' = IF ~ok THEN [host EXCEPT !.pc = "failed"]
          ELSE IF Len(host.plan) = 1 THEN [host EXCEPT !.pc = "done"]
          ELSE [host EXCEPT !.pc = "send", !.plan = Tail(@)]

Return ==
  /\ host.pc \in {"done", "failed"}
  /\ host' = [pc |-> "idle"]
  /\ UNCHANGED <<flash, fpt, tasks, mbox, apc, loaded, ram, selected, calls, resets>>

---------------------------------------------------------------------------
(* The AMI task: iAPC_DownloadImage() and its siblings.                    *)

InTable(p) == IndexOf[p] < header[DeviceOf[p]]

(* A mistake: a partition is copied onto itself.                           *)
AcceptableOnSelf(m) ==
  CASE m.op \in {"update_fpt", "program"} -> TRUE
    [] m.op \in {"download", "select"}    -> valid[DeviceOf[m.part]] /\ InTable(m.part)
    [] m.op = "copy" -> \A p \in {m.src, m.part} : valid[DeviceOf[p]] /\ InTable(p)

Acceptable(m) ==
  CASE m.op \in {"update_fpt", "program"} -> TRUE
    [] m.op \in {"download", "select"}    -> valid[DeviceOf[m.part]] /\ InTable(m.part)
    [] m.op = "copy" -> /\ \A p \in {m.src, m.part} : valid[DeviceOf[p]] /\ InTable(p)
                          /\ m.src # m.part

(* A mistake: the mailbox is taken to have room.                           *)
RoomAlways == TRUE

Room == Len(mbox) < MBoxSize
Post(m) == mbox' = Append(mbox, m)

Accept ==
  /\ host.pc = "send" /\ ami = "idle" /\ host.plan[1].op # "set"
  /\ IF Acceptable(host.plan[1]) /\ Room
     THEN Post(host.plan[1]) /\ host' = [host EXCEPT !.pc = "wait"]
     ELSE Answered(FALSE) /\ UNCHANGED mbox
  /\ UNCHANGED <<flash, fpt, tasks, apc, loaded, ram, selected, calls, resets>>

(* iAPC_SetFptPartition() tests the number of the partition, then changes  *)
(* the cached entry and posts the request for its flags, without the mutex *)
(* and whether or not the table is valid, or there.  The host has its      *)
(* answer before the APC task has written anything.  The digest is not     *)
(* part of the message: it is kept here for what the message should lead   *)
(* to.                                                                     *)
SetStart ==
  /\ host.pc = "send" /\ ami = "idle" /\ host.plan[1].op = "set"
  /\ IF InTable(host.plan[1].part)
     THEN ami' = "set" /\ UNCHANGED host
     ELSE Answered(FALSE) /\ UNCHANGED ami
  /\ UNCHANGED <<flash, fpt, mutex, reader, mbox, apc, loaded, ram, selected, calls, resets>>

(* An entry that has not been read stays unread, whatever is written to it,*)
(* and a write outside the table may go unnoticed.                         *)
SetFinish ==
  /\ ami = "set" /\ ami' = "idle"
  /\ LET m == host.plan[1]
         d == DeviceOf[m.part]
         i == IndexOf[m.part]
     IN  /\ cache' = IF Whole(d, i) THEN [cache EXCEPT ![d][i].md5 = m.image] ELSE cache
         /\ IF Room
            THEN Post(m) /\ Answered(TRUE)
            ELSE Answered(FALSE) /\ UNCHANGED mbox
  /\ UNCHANGED <<flash, table, valid, header, failed, mutex, reader, apc, loaded, ram, selected,
                 calls, resets>>

(* There is no entry to change: the table is being read again, the last    *)
(* attempt failed, or the table has become shorter.  The write goes to     *)
(* memory of somebody else or to address 0, and what the task does then is *)
(* not followed.                                                           *)
SetNowhere ==
  /\ ami = "set" /\ ami' = "astray"
  /\ IndexOf[host.plan[1].part] \notin DOMAIN cache[DeviceOf[host.plan[1].part]]
  /\ UNCHANGED <<flash, fpt, mutex, reader, mbox, apc, loaded, ram, selected, host, calls, resets>>

---------------------------------------------------------------------------
(* A task that reads the table: iAPC_GetFptPartition(), which tests the    *)
(* number of the partition before it has the mutex.                        *)

ReadStart ==
  /\ reader.pc = "idle"
  /\ \E p \in Part :
       /\ valid[DeviceOf[p]] /\ InTable(p)
       /\ reader' = [pc |-> "take", part |-> p]
  /\ UNCHANGED <<flash, fpt, mutex, ami, mbox, apc, loaded, ram, selected, host, calls, resets>>

(* A mistake: the entry is read without the mutex.                         *)
ReadTakeNone ==
  /\ reader.pc = "take"
  /\ reader' = [reader EXCEPT !.pc = "read"]
  /\ UNCHANGED <<flash, fpt, mutex, ami, mbox, apc, loaded, ram, selected, host, calls, resets>>

ReadTake ==
  /\ reader.pc = "take" /\ mutex = None /\ mutex' = "reader"
  /\ reader' = [reader EXCEPT !.pc = "read"]
  /\ UNCHANGED <<flash, fpt, ami, mbox, apc, loaded, ram, selected, host, calls, resets>>

(* A mistake: the mutex is not given back.                                 *)
ReadKeeping ==
  /\ reader.pc = "read"
  /\ reader' = [pc |-> "idle"]
  /\ UNCHANGED <<flash, fpt, mutex, ami, mbox, apc, loaded, ram, selected, host, calls, resets>>

Read ==
  /\ reader.pc = "read"
  /\ mutex' = (IF mutex = "reader" THEN None ELSE mutex)
  /\ reader' = [pc |-> "idle"]
  /\ UNCHANGED <<flash, fpt, ami, mbox, apc, loaded, ram, selected, host, calls, resets>>

(* The entry is outside the table, or there is no table.                   *)
ReadNowhere ==
  /\ reader.pc = "read" /\ reader' = [reader EXCEPT !.pc = "astray"]
  /\ IndexOf[reader.part] \notin DOMAIN cache[DeviceOf[reader.part]]
  /\ UNCHANGED <<flash, fpt, mutex, ami, mbox, apc, loaded, ram, selected, host, calls, resets>>

---------------------------------------------------------------------------
(* The APC task: vProxyDriverTask().                                       *)

Msg   == apc.msg
Dest  == Base[Msg.part]
Go(pc) == apc' = [apc EXCEPT !.pc = pc]
End(ok) == apc' = [apc EXCEPT !.pc = "answer", !.ok = ok]

Pend ==
  /\ apc.pc = "idle" /\ mbox # <<>>
  /\ apc' = [pc |-> mbox[1].op, msg |-> mbox[1], k |-> 0, ok |-> FALSE, first |-> Blank]
  /\ mbox' = Tail(mbox)
  /\ UNCHANGED <<flash, fpt, tasks, loaded, ram, selected, host, calls, resets>>

(* The cached entries the work on a message takes addresses, sizes, flags  *)
(* and digests from, without the mutex.  Some functions test the number    *)
(* again, none that the table is there.                                    *)
Used ==
  CASE Msg.op = "download" -> {<<DeviceOf[Msg.part], IndexOf[Msg.part]>>}
    [] Msg.op = "copy"     -> {<<DeviceOf[p], IndexOf[p]>> : p \in {Msg.src, Msg.part}}
    [] Msg.op = "set"      -> {<<DeviceOf[p], IndexOf[p]>> : p \in {q \in {Msg.part} : InTable(q)}}
    [] Msg.op = "select"   -> {<<0, i>> : i \in {j \in {IndexOf[Msg.part]} : j < header[0]}}
    [] OTHER               -> {}
Known == \A u \in Used : Whole(u[1], u[2])

(* What the task does with an address or an entry that nobody read from    *)
(* flash is not followed.                                                  *)
GoAstray ==
  /\ apc.pc \in {"download", "copy", "set", "select"} /\ ~Known /\ Go("astray")
  /\ UNCHANGED <<flash, fpt, tasks, mbox, loaded, ram, selected, host, calls, resets>>

(* A mistake: what has been written is not compared with what was sent.    *)
WriteUnverified(a, c, ok) ==
  \/ /\ ok /\ flash' = [flash EXCEPT ![a] = c]
  \/ /\ ok /\ "image" \in Fault
     /\ flash' = [flash EXCEPT ![a].whole = FALSE]

(* The write of iDownloadImage() with iVerifyDownload(): a failed one      *)
(* leaves the old chunk or a damaged one, which may have a valid boot tag. *)
Write(a, c, ok) ==
  \/ /\ ok /\ flash' = [flash EXCEPT ![a] = c]
  \/ /\ ~ok /\ "image" \in Fault
     /\ flash' \in {flash, [flash EXCEPT ![a] = [c EXCEPT !.whole = FALSE]]}

Fits(n) == n < Size[Msg.part]

DownloadImage ==
  /\ apc.pc = "download" /\ Known
  /\ LET c == IF Msg.tag THEN [image |-> Msg.image, n |-> Msg.n, whole |-> TRUE] ELSE Blank
     IN  \/ /\ ~Fits(Msg.n) /\ End(FALSE) /\ UNCHANGED flash
         \/ /\ Fits(Msg.n) /\ Write(Dest + Msg.n, c, FALSE) /\ End(FALSE)
         \/ /\ Fits(Msg.n) /\ Write(Dest + Msg.n, c, TRUE)
            /\ IF Msg.last THEN Go("record") ELSE End(TRUE)
  /\ UNCHANGED <<fpt, tasks, mbox, loaded, ram, selected, host, calls, resets>>

(* The chunk the copy writes in the place of chunk k of the source.        *)
Copied(c) == IF apc.k = 0 THEN Blank ELSE c

(* The loop of iCopyImage().                                               *)
CopyChunk ==
  /\ apc.pc = "copy" /\ Known /\ apc.k < Size[Msg.src]
  /\ LET c == flash[Base[Msg.src] + apc.k]
     IN  \/ /\ Size[Msg.src] > Size[Msg.part] /\ End(FALSE) /\ UNCHANGED flash
         \/ /\ Size[Msg.src] <= Size[Msg.part]
            /\ Write(Dest + apc.k, Copied(c), FALSE) /\ End(FALSE)
         \/ /\ Size[Msg.src] <= Size[Msg.part]
            /\ Write(Dest + apc.k, Copied(c), TRUE)
            /\ apc' = [apc EXCEPT !.k = @ + 1, !.first = IF apc.k = 0 THEN c ELSE @]
  /\ UNCHANGED <<fpt, tasks, mbox, loaded, ram, selected, host, calls, resets>>

(* The end of iCopyImage(): the first chunk again, with its boot tag, once *)
(* it has been compared with the source.                                   *)
CopyFirst ==
  /\ apc.pc = "copy" /\ Known /\ apc.k = Size[Msg.src]
  /\ \/ /\ apc.first # flash[Base[Msg.src]] /\ End(FALSE) /\ UNCHANGED flash
     \/ /\ apc.first = flash[Base[Msg.src]] /\ Write(Dest, apc.first, FALSE) /\ End(FALSE)
     \/ /\ apc.first = flash[Base[Msg.src]] /\ Write(Dest, apc.first, TRUE) /\ Go("record")
  /\ UNCHANGED <<fpt, tasks, mbox, loaded, ram, selected, host, calls, resets>>

Digest == IF Msg.op = "download" THEN Msg.image
          ELSE cache[DeviceOf[Msg.src]][IndexOf[Msg.src]].md5

(* The digest of a new image, first in the cached entry.                   *)
Record ==
  /\ apc.pc = "record" /\ Go("store")
  /\ cache' = [cache EXCEPT ![DeviceOf[Msg.part]][IndexOf[Msg.part]].md5 = Digest]
  /\ UNCHANGED <<flash, table, valid, header, failed, tasks, mbox, loaded, ram, selected, host,
                 calls, resets>>

StoreEntry(d, i, e) == table' = [table EXCEPT ![d].entry[i] = e]

(* iWriteFptPartitionToFlash().  Its failure is logged and is no failure   *)
(* of the download or the copy.                                            *)
Store ==
  /\ apc.pc = "store" /\ End(TRUE)
  /\ LET d == DeviceOf[Msg.part]
         i == IndexOf[Msg.part]
     IN  \/ StoreEntry(d, i, cache[d][i])
         \/ "entry" \in Fault /\ UNCHANGED table
  /\ UNCHANGED <<flash, valid, header, cache, failed, tasks, mbox, loaded, ram, selected, host,
                 calls, resets>>

(* iDownloadImage() of a partition table: the cached one is out of use     *)
(* until the new one has been read.  A failed write may leave the old      *)
(* table or a bad one, and the old one in use or not.                      *)
DownloadFpt ==
  /\ apc.pc = "update_fpt"
  /\ LET outOfUse == [valid EXCEPT ![Msg.dev] = FALSE]
         bad      == [Msg.table EXCEPT !.good = FALSE]
     IN  \/ /\ Go("refresh")
            /\ table' = [table EXCEPT ![Msg.dev] = Msg.table] /\ valid' = outOfUse
         \/ /\ "table" \in Fault /\ End(FALSE)
            /\ table' \in {table, [table EXCEPT ![Msg.dev] = bad]} /\ valid' \in {valid, outOfUse}
  /\ UNCHANGED <<flash, header, cache, failed, tasks, mbox, loaded, ram, selected, host, calls,
                 resets>>

(* iSetFptFlags() writes the cached entry, digest included, if the flags   *)
(* are new.                                                                *)
SetFptFlags ==
  /\ apc.pc = "set" /\ Known
  /\ LET d == DeviceOf[Msg.part]
         i == IndexOf[Msg.part]
         e == [cache[d][i] EXCEPT !.flags = Msg.flags]
     IN  \/ /\ ~InTable(Msg.part) /\ End(FALSE) /\ UNCHANGED <<cache, table>>
         \/ /\ InTable(Msg.part) /\ cache[d][i] = e /\ Go("refresh")
            /\ UNCHANGED <<cache, table>>
         \/ /\ InTable(Msg.part) /\ cache[d][i] # e
            /\ cache' = [cache EXCEPT ![d][i] = e]
            /\ \/ StoreEntry(d, i, e) /\ Go("refresh")
               \/ "entry" \in Fault /\ UNCHANGED table /\ End(FALSE)
  /\ UNCHANGED <<flash, valid, header, failed, tasks, mbox, loaded, ram, selected, host, calls,
                 resets>>

(* The device that is read again: always the primary one after a change of *)
(* flags.                                                                  *)
Refreshed  == IF Msg.op = "set" THEN 0 ELSE Msg.dev
Loading(d) == apc.pc \in {"header", "load"} /\ d = Refreshed

(* iRefreshFptData() forgets the cached table.                             *)
Forget ==
  /\ apc.pc = "refresh" /\ mutex = None /\ mutex' = "apc"
  /\ Go("header")
  /\ header' = [header EXCEPT ![Refreshed] = 0]
  /\ cache' = [cache EXCEPT ![Refreshed] = NoTable]
  /\ UNCHANGED <<flash, table, valid, failed, ami, reader, mbox, loaded, ram, selected, host,
                 calls, resets>>

(* The end of iLoadFpt() and of iRefreshFptData(), which gives the mutex    *)
(* back and frees nothing.                                                 *)
LoadEnds(ok) ==
  /\ End(ok) /\ mutex' = None
  /\ failed' = IF ok THEN failed \ {Refreshed} ELSE failed \cup {Refreshed}

(* iLoadFpt() takes over the header, of a bad table too, and allocates the *)
(* table.                                                                  *)
LoadHeader ==
  /\ apc.pc = "header"
  /\ LET d == Refreshed
         t == table[d]
     IN  /\ header' = [header EXCEPT ![d] = t.entries]
         /\ valid' = [valid EXCEPT ![d] = @ \/ t.good]
         /\ \/ /\ t.good /\ t.entries > 0
               /\ apc' = [apc EXCEPT !.pc = "load", !.k = 0]
               /\ cache' = [cache EXCEPT ![d] = FirstOf(0, t)]
               /\ UNCHANGED <<mutex, failed>>
            \/ /\ ~t.good \/ t.entries = 0 \/ "memory" \in Fault
               /\ LoadEnds(FALSE) /\ UNCHANGED cache
  /\ UNCHANGED <<flash, table, ami, reader, mbox, loaded, ram, selected, host, calls, resets>>

(* iLoadFptPartition(), and the mutex once all entries are there.          *)
LoadEntry ==
  /\ apc.pc = "load"
  /\ cache' = [cache EXCEPT ![Refreshed][apc.k] = table[Refreshed].entry[apc.k]]
  /\ IF apc.k + 1 < header[Refreshed]
     THEN apc' = [apc EXCEPT !.k = @ + 1] /\ UNCHANGED <<mutex, failed>>
     ELSE LoadEnds(TRUE)
  /\ UNCHANGED <<flash, table, valid, header, ami, reader, mbox, loaded, ram, selected, host,
                 calls, resets>>

(* The read of the header or of an entry fails.                            *)
LoadFails ==
  /\ apc.pc \in {"header", "load"} /\ "read" \in Fault /\ LoadEnds(FALSE)
  /\ UNCHANGED <<flash, table, valid, header, cache, ami, reader, mbox, loaded, ram, selected,
                 host, calls, resets>>

(* The image is complete in memory.                                        *)
Gathered == Msg.last

(* iDownloadPdiImage() gathers the chunks of an image at their place in    *)
(* memory and gives them to the platform loader after the last.            *)
DownloadPdiImage ==
  /\ apc.pc = "program"
  /\ ram' = {c \in ram : c.n # Msg.n} \cup {[image |-> Msg.image, n |-> Msg.n]}
  /\ \/ /\ ~Gathered /\ End(TRUE) /\ UNCHANGED loaded
     \/ /\ Gathered /\ End(TRUE)
        /\ loaded' = IF \A n \in 0 .. Length[Msg.image] - 1 : [image |-> Msg.image, n |-> n] \in ram'
                     THEN Msg.image ELSE NoImage
     \/ /\ Gathered /\ "loader" \in Fault /\ End(FALSE) /\ UNCHANGED loaded
  /\ UNCHANGED <<flash, fpt, tasks, mbox, selected, host, calls, resets>>

(* iSelectPartition() looks the number up in the table of the primary      *)
(* device, and keeps the address even if the loader refuses it.            *)
SelectPartition ==
  /\ apc.pc = "select" /\ Known
  /\ \/ IndexOf[Msg.part] >= header[0] /\ End(FALSE) /\ UNCHANGED selected
     \/ IndexOf[Msg.part] < header[0] /\ End(TRUE) /\ selected' = Msg.part
     \/ /\ IndexOf[Msg.part] < header[0] /\ "loader" \in Fault
        /\ End(FALSE) /\ selected' = Msg.part
  /\ UNCHANGED <<flash, fpt, tasks, mbox, loaded, ram, host, calls, resets>>

(* The event of the outcome answers the host; nobody waits for the one of  *)
(* a change of flags.                                                      *)
Announce ==
  /\ apc.pc = "answer" /\ apc' = [pc |-> "idle"]
  /\ IF Msg.op = "set" THEN UNCHANGED host ELSE Answered(apc.ok)
  /\ UNCHANGED <<flash, fpt, tasks, mbox, loaded, ram, selected, calls, resets>>

(* A reset of the card, asked for or not, ends what is under way and       *)
(* iAPC_Initialise() reads the tables.  The host has no answer.            *)
Reset ==
  /\ resets < MaxResets /\ resets' = resets + 1
  /\ \E load \in StartLoads :
       /\ valid' = [d \in Device |-> load[d].valid]
       /\ header' = [d \in Device |-> load[d].header]
       /\ cache' = [d \in Device |-> load[d].cache]
       /\ failed' = {d \in Device : ~load[d].ok}
  /\ mutex' = None /\ mbox' = <<>>
  /\ apc' = [pc |-> "idle"] /\ ami' = "idle" /\ reader' = [pc |-> "idle"]
  /\ loaded' = NoImage /\ ram' = {} /\ selected' = None
  /\ host' = IF host.pc \in {"send", "wait"} THEN [host EXCEPT !.pc = "failed"] ELSE [pc |-> "idle"]
  /\ UNCHANGED <<flash, table, calls>>

---------------------------------------------------------------------------
ApcTask == \/ Pend \/ DownloadImage \/ CopyChunk \/ CopyFirst \/ Record \/ Store
           \/ DownloadFpt \/ SetFptFlags \/ Forget \/ LoadHeader \/ LoadEntry \/ LoadFails
           \/ DownloadPdiImage \/ SelectPartition \/ GoAstray \/ Announce
AmiTask == Accept \/ SetStart \/ SetFinish \/ SetNowhere
Reader  == ReadTake \/ Read \/ ReadNowhere

Next == Call \/ Return \/ AmiTask \/ ApcTask \/ ReadStart \/ Reader \/ Reset

Spec == Init /\ [][Next]_vars

(* The tasks of the firmware are scheduled, with equal priorities, and the *)
(* thread of the host runs on when it is answered.  A reader that waits    *)
(* for the mutex gets it in the end; no fairness is needed of who asks.    *)
FairSpec == /\ Spec /\ WF_vars(ApcTask) /\ WF_vars(AmiTask) /\ WF_vars(Return)
            /\ WF_vars(Read \/ ReadNowhere) /\ SF_vars(Forget)

---------------------------------------------------------------------------
(* A task works with what is no entry of the table.                        *)
Astray == apc.pc = "astray" \/ ami = "astray" \/ reader.pc = "astray"

TypeOK ==
  /\ flash \in [Addr -> Chunk] /\ \A d \in Device : IsTable(table[d])
  /\ valid \in [Device -> BOOLEAN] /\ header \in [Device -> Nat] /\ failed \subseteq Device
  /\ \A d \in Device :
       cache[d] = NoTable \/ cache[d] \in [0 .. header[d] - 1 -> Entry \cup {None}]
  /\ mutex \in {None, "apc", "reader"} /\ Len(mbox) <= MBoxSize
  /\ ami \in {"idle", "set", "astray"} /\ loaded \in Md5 /\ selected \in Part \cup {None}

(* A partition with a valid boot tag has the rest of that image behind it, *)
(* after any interrupted or failed download or copy, any retry and any     *)
(* reset: the first chunk is written last.  Only that chunk itself may be  *)
(* damaged, by a failure while it is written (apc_proxy_driver.c:2177,     *)
(* ami_program.c:125).                                                     *)
BootableIsComplete ==
  \A p \in Part :
    LET c == flash[Base[p]]
    IN  c.image # NoImage /\ c.n = 0 =>
          \A n \in 1 .. Length[c.image] - 1 :
            flash[Base[p] + n] = [image |-> c.image, n |-> n, whole |-> TRUE]

(* An operation that the host sees succeed has been done: the partition    *)
(* holds the image, its cached entry the digest; a copy equals its source; *)
(* the loader has had the whole image (vProxyDriverTask(),                 *)
(* do_image_download()).                                                   *)
SuccessMeansDone ==
  host.pc = "done" =>
    LET r == host.req
        md5(p) == cache[DeviceOf[p]][IndexOf[p]].md5
    IN  /\ r.op = "download" =>
             /\ \A n \in 0 .. Length[r.image] - 1 :
                  flash[Base[r.part] + n] = [image |-> r.image, n |-> n, whole |-> TRUE]
             /\ md5(r.part) = r.image
        /\ r.op = "copy" =>
             /\ \A n \in 0 .. Size[r.src] - 1 : flash[Base[r.part] + n] = flash[Base[r.src] + n]
             /\ md5(r.part) = md5(r.src)
        /\ r.op = "program" => loaded = r.image

(* No step changes the source of a copy, or a partition other than the one *)
(* the request names (iAPC_CopyImage(), iDownloadImage()).                 *)
OnlyDestinationWritten ==
  [][\A a \in Addr : flash'[a] # flash[a] =>
       /\ a \in Dest .. Dest + Size[Msg.part] - 1
       /\ Msg.op = "copy" => Msg.src # Msg.part]_vars

(* Whoever reads an entry under the mutex never meets a table that is being*)
(* read from flash, although its number was tested before the mutex: the   *)
(* entry is there, unless the last reading of the table failed or the      *)
(* table has become shorter (iAPC_GetFptPartition(), iRefreshFptData()).   *)
ReadsLoadedEntry ==
  reader.pc = "read" =>
    LET d == DeviceOf[reader.part]
        i == IndexOf[reader.part]
    IN  ~Loading(d) /\ (Whole(d, i) \/ d \in failed \/ i >= header[d])

(* Without the two exceptions: the entry is there.  The code tests neither.*)
ReadsEntry ==
  reader.pc = "read" => Whole(DeviceOf[reader.part], IndexOf[reader.part])

(* iAPC_SetFptPartition() writes into the table and nowhere else.  The code*)
(* reads the table again meanwhile.                                        *)
SetWritesAnEntry == ami # "astray"

(* A digest that a host sets, and is told is set, reaches the flash with   *)
(* the flags it was sent with (iAPC_SetFptPartition(): "This ensures the   *)
(* write-to-flash logic in iSetFptFlags() is triggered").                  *)
SetReachesFlash ==
  apc.pc = "answer" /\ apc.ok /\ Msg.op = "set" =>
    table[DeviceOf[Msg.part]].entry[IndexOf[Msg.part]].md5 = Msg.image

(* Every operation of the host comes to an end, unless a task goes astray: *)
(* the APC task waits for nobody who waits for it (vProxyDriverTask(),     *)
(* pvOsalMutexHdl).                                                        *)
OperationEnds == host.pc # "idle" ~> host.pc = "idle" \/ Astray

=============================================================================
