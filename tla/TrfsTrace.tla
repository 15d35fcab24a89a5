----------------------------- MODULE TrfsTrace -----------------------------
(***************************************************************************)
(* The trace pipeline of a mounted trfs: every traced file operation       *)
(* builds a record; most operations hand it to a single-threaded           *)
(* workqueue, readdir logs it itself, and large reads and writes log a     *)
(* header through the workqueue and write their data to the trace file     *)
(* themselves.  Records collect in a memory buffer that is written to the  *)
(* trace file when the next record would not fit, and periodically by the  *)
(* logger thread.  The buffer, its offset, the file and the record ids are *)
(* protected by tr_info->lock.                                             *)
(*                                                                         *)
(* Bytes are abstracted: the buffer and the file are sequences of entries, *)
(* one per record (kind "head") or per directly written data block (kind   *)
(* "data"), and only the size of a record is kept of its fields.  A step   *)
(* is the code between two points where another thread can observe or      *)
(* change shared state.                                                    *)
(***************************************************************************)
EXTENDS Integers, Sequences, FiniteSets

CONSTANTS
  Callers,      (* threads that call into the file system                  *)
  Worker,       (* the thread of the single-threaded workqueue             *)
  Logger,       (* the periodic flusher, thread_fn                         *)
  NoOne,        (* owner of a free mutex                                   *)
  Dirs,         (* directories, each with its inode lock                   *)
  Ops,          (* the operations the callers use                          *)
  PathSizes,    (* sizes of the records without data                       *)
  DataSizes,    (* sizes of the read and write records                     *)
  HeadSize,     (* bytes logged for a large read or write                  *)
  Cap,          (* sizeof(tr_info->buffer), 2*PAGE_SIZE                    *)
  IdSpace,      (* number of values of the unsigned int last_id            *)
  MaxOps,       (* bound on the operations of a behaviour                  *)
  Bitmaps,      (* what a TRFS_IOCSETOPT ioctl may set the bitmap to       *)
  WriteFaults   (* whether writes to the trace file may fail or be short   *)

Types == {"readdir", "open", "read", "write", "close",
          "mkdir", "unlink", "link", "rename", "rmdir"}

Actors == Callers \cup {Worker, Logger}

ASSUME ActorsAssumption ==
  /\ Worker \notin Callers /\ Logger \notin Callers /\ Worker # Logger
  /\ NoOne \notin Actors

ASSUME SizesAssumption ==
  /\ Cap \in Nat /\ HeadSize \in 1 .. (Cap - 1)
  /\ PathSizes \subseteq 1 .. (Cap - 1)
  /\ DataSizes \subseteq Nat \ {0}
  /\ IdSpace \in Nat \ {0}
  /\ MaxOps \in Nat

ASSUME OpsAssumption ==
  /\ Ops \subseteq Types
  /\ Bitmaps \subseteq SUBSET Types
  /\ WriteFaults \in BOOLEAN

(***************************************************************************)
(* struct record.  pos, exec, q, dirs and by are history: the number of    *)
(* ids handed out before this record's, the order in which the lower       *)
(* operations ran, the order in which the records were queued, the         *)
(* directories locked by the operation, and its caller.                    *)
(***************************************************************************)
Record == [type : Types, size : Nat, large : BOOLEAN, sig : BOOLEAN,
           id : Nat, pos : Nat, exec : Nat, q : Nat,
           dirs : SUBSET Dirs, by : Callers \cup {NoOne}]

(* A record fresh from kzalloc. *)
Blank == [type |-> "readdir", size |-> 0, large |-> FALSE, sig |-> FALSE,
          id |-> 0, pos |-> 0, exec |-> 0, q |-> 0, dirs |-> {}, by |-> NoOne]

Entry == [kind : {"head", "data"}, rec : Record, whole : BOOLEAN]

VARIABLES
  pc,             (* where each actor is                                   *)
  arg,            (* the record each actor works on                        *)
  wq,             (* records queued on eWq and not yet taken               *)
  held,           (* owner of each directory's inode lock                  *)
  lock,           (* owner of tr_info->lock                                *)
  bitmap,         (* the operations whose tracing bit is set               *)
  buffer,         (* the entries in tr_info->buffer                        *)
  buffer_offset,  (* tr_info->buffer_offset                                *)
  file,           (* the entries in the trace file                         *)
  last_id,        (* the next record id                                    *)
  logged,         (* history: ids handed out so far                        *)
  ops,            (* history: lower operations executed so far             *)
  queued          (* history: records queued so far                        *)

trace == <<buffer, buffer_offset, file>>
ids   == <<last_id, logged>>
vars  == <<pc, arg, wq, held, lock, bitmap, trace, ids, ops, queued>>

Goto(a, from, to) == pc[a] = from /\ pc' = [pc EXCEPT ![a] = to]

Init ==
  /\ pc = [a \in Actors |-> IF a = Logger THEN "check" ELSE "idle"]
  /\ arg = [a \in Actors |-> Blank]
  /\ wq = <<>>
  /\ held = [d \in Dirs |-> NoOne]
  /\ lock = NoOne
  /\ bitmap = Types
  /\ buffer = <<>> /\ buffer_offset = 0 /\ file = <<>>
  /\ last_id = 0 /\ logged = 0 /\ ops = 0 /\ queued = 0

-----------------------------------------------------------------------------
(***************************************************************************)
(* The operations.  Call is their common first half: the directory locks   *)
(* are taken, the lower file system executes the operation, and a record   *)
(* of the given size is prepared in the caller's hands.                    *)
(***************************************************************************)
CallUnlocked(c, type, sizes, D, uninit) ==   \* mutant: no directory is locked
  /\ type \in Ops /\ ops < MaxOps
  /\ Goto(c, "idle", "built")
  /\ ops' = ops + 1
  /\ \E n \in sizes, s \in uninit :
       arg' = [arg EXCEPT ![c] =
                 [Blank EXCEPT !.type = type, !.size = n, !.sig = s,
                               !.exec = ops + 1, !.dirs = D, !.by = c]]
  /\ UNCHANGED <<wq, held, lock, bitmap, trace, ids, queued>>

Call(c, type, sizes, D, uninit) ==
  /\ type \in Ops /\ ops < MaxOps
  /\ Goto(c, "idle", "built")
  /\ \A d \in D : held[d] = NoOne
  /\ held' = [d \in Dirs |-> IF d \in D THEN c ELSE held[d]]
  /\ ops' = ops + 1
  /\ \E n \in sizes, s \in uninit :
       arg' = [arg EXCEPT ![c] =
                 [Blank EXCEPT !.type = type, !.size = n, !.sig = s,
                               !.exec = ops + 1, !.dirs = D, !.by = c]]
  /\ UNCHANGED <<wq, lock, bitmap, trace, ids, queued>>

trfs_open(c)    == Call(c, "open", PathSizes, {}, {FALSE})
trfs_flush(c)   == Call(c, "close", PathSizes, {}, {FALSE})
trfs_read(c)    == Call(c, "read", DataSizes, {}, {FALSE})
trfs_write(c)   == Call(c, "write", DataSizes, {}, {FALSE})
trfs_readdir(c) == \E d \in Dirs : Call(c, "readdir", PathSizes, {d}, {FALSE})
trfs_mkdir(c)   == \E d \in Dirs : Call(c, "mkdir", PathSizes, {d}, {FALSE})
trfs_unlink(c)  == \E d \in Dirs : Call(c, "unlink", PathSizes, {d}, {FALSE})
trfs_rmdir(c)   == \E d \in Dirs : Call(c, "rmdir", PathSizes, {d}, {FALSE})
trfs_rename(c)  == \E d, e \in Dirs : Call(c, "rename", PathSizes, {d, e}, {FALSE})

(* trfs_link allocates its record with kmalloc: flush_buffer_sig is        *)
(* whatever the memory held.                                               *)
trfs_link(c)    == \E d \in Dirs : Call(c, "link", PathSizes, {d}, BOOLEAN)

IsLarge(r) == r.type \in {"read", "write"} /\ r.size >= Cap

(* The inode locks of a returning caller are dropped; a worker has none.   *)
Unlocked(a) == [d \in Dirs |-> IF held[d] = a THEN NoOne ELSE held[d]]

Leave(c) ==
  /\ Goto(c, "built", "idle")
  /\ held' = Unlocked(c)
  /\ arg' = [arg EXCEPT ![c] = Blank]

(* The operation returns without a record: the lower operation failed in a *)
(* way this handler does not trace, or an allocation or the copy of the    *)
(* user's data failed.  trfs_open has no such path.                        *)
Untraced(c) ==
  /\ arg[c].type # "open"
  /\ Leave(c)
  /\ UNCHANGED <<wq, lock, bitmap, trace, ids, ops, queued>>

QueueWork(r) ==
  /\ wq' = Append(wq, [r EXCEPT !.q = queued + 1])
  /\ queued' = queued + 1

(* The record is queued while the directory locks are still held.          *)
eworkqueue_init(c) ==
  /\ arg[c].type # "readdir" /\ ~IsLarge(arg[c])
  /\ Leave(c)
  /\ QueueWork(arg[c])
  /\ UNCHANGED <<lock, bitmap, trace, ids, ops>>

(* readdir calls log_record itself.                                        *)
LogReaddir(c) ==
  /\ arg[c].type = "readdir"
  /\ Goto(c, "built", "log")
  /\ UNCHANGED <<arg, wq, held, lock, bitmap, trace, ids, ops, queued>>

(* A large read or write: nothing if its bit is clear, else the header is  *)
(* queued and the caller waits for it.                                     *)
SkipLarge(c) ==
  /\ IsLarge(arg[c]) /\ arg[c].type \notin bitmap
  /\ Leave(c)
  /\ UNCHANGED <<wq, lock, bitmap, trace, ids, ops, queued>>

QueueLargeLocked(c) ==   \* mutant: LOCK HERE moved above flush_workqueue
  /\ IsLarge(arg[c]) /\ arg[c].type \in bitmap
  /\ Goto(c, "built", "flushwq")
  /\ lock = NoOne /\ lock' = c
  /\ QueueWork([arg[c] EXCEPT !.large = TRUE])
  /\ UNCHANGED <<arg, held, bitmap, trace, ids, ops>>

QueueLarge(c) ==
  /\ IsLarge(arg[c]) /\ arg[c].type \in bitmap
  /\ Goto(c, "built", "flushwq")
  /\ QueueWork([arg[c] EXCEPT !.large = TRUE])
  /\ UNCHANGED <<arg, held, lock, bitmap, trace, ids, ops>>

InQueue(r) ==
  \/ \E i \in DOMAIN wq : wq[i].exec = r.exec
  \/ arg[Worker].exec = r.exec

NoFlush(c) ==   \* mutant: flush_workqueue forgotten
  /\ Goto(c, "flushwq", "biglock")
  /\ UNCHANGED <<arg, wq, held, lock, bitmap, trace, ids, ops, queued>>

flush_workqueue(c) ==
  /\ ~InQueue(arg[c])
  /\ Goto(c, "flushwq", "biglock")
  /\ UNCHANGED <<arg, wq, held, lock, bitmap, trace, ids, ops, queued>>

trfs_unlocked_ioctl(c) ==
  /\ pc[c] = "idle"
  /\ bitmap' \in Bitmaps \cup {Types}
  /\ UNCHANGED <<pc, arg, wq, held, lock, trace, ids, ops, queued>>

-----------------------------------------------------------------------------
(***************************************************************************)
(* log_record, executed by the worker, by the logger with the flush signal *)
(* set, and by a caller in readdir.                                        *)
(***************************************************************************)
After(a) == IF a = Worker THEN "free" ELSE IF a = Logger THEN "sleep" ELSE "idle"

Return(a, from) ==
  /\ Goto(a, from, After(a))
  /\ held' = Unlocked(a)
  /\ arg' = IF a \in Callers THEN [arg EXCEPT ![a] = Blank] ELSE arg

log_record_skip(a) ==
  /\ ~arg[a].sig /\ arg[a].type \notin bitmap
  /\ Return(a, "log")
  /\ UNCHANGED <<wq, lock, bitmap, trace, ids, ops, queued>>

log_record(a) ==
  /\ arg[a].sig \/ arg[a].type \in bitmap
  /\ Goto(a, "log", "lock")
  /\ UNCHANGED <<arg, wq, held, lock, bitmap, trace, ids, ops, queued>>

Succ(id) == IF id + 1 = IdSpace THEN 0 ELSE id + 1

NoMutex(a) == lock' = a   \* mutant: the critical section is not exclusive

mutex_lock(a) == lock = NoOne /\ lock' = a

(* mutex_lock, and the id of a record that is not a flush signal.          *)
LockForRecord(a) ==
  /\ ~arg[a].sig
  /\ Goto(a, "lock", "sync")
  /\ mutex_lock(a)
  /\ arg' = [arg EXCEPT ![a] = [@ EXCEPT !.id = last_id, !.pos = logged]]
  /\ last_id' = Succ(last_id)
  /\ logged' = logged + 1
  /\ UNCHANGED <<wq, held, bitmap, trace, ops, queued>>

LockForFlush(a) ==
  /\ arg[a].sig
  /\ Goto(a, "lock", "sync")
  /\ mutex_lock(a)
  /\ UNCHANGED <<arg, wq, held, bitmap, trace, ids, ops, queued>>

(***************************************************************************)
(* file_write of the whole buffer.  The callers ignore its result, so      *)
(* after a failed or short write the buffer is emptied all the same: what  *)
(* reaches the file is then a prefix of the buffer, its last record        *)
(* possibly cut.                                                           *)
(***************************************************************************)
Prefixes(s) == {SubSeq(s, 1, k) : k \in 0 .. Len(s)}
CutShort(s) == {[SubSeq(s, 1, k) EXCEPT ![k].whole = FALSE] : k \in 1 .. Len(s)}
Written(s)  == IF WriteFaults THEN Prefixes(s) \cup CutShort(s) ELSE {s}

NothingWritten(a, from, to) ==   \* mutant: the buffer is dropped, not written
  /\ Goto(a, from, to)
  /\ UNCHANGED <<arg, wq, held, lock, bitmap, trace, ids, ops, queued>>

file_write(a, from, to) ==
  /\ Goto(a, from, to)
  /\ \E w \in Written(buffer) : file' = file \o w
  /\ UNCHANGED <<arg, wq, held, lock, bitmap, buffer, buffer_offset, ids, ops, queued>>

ResetBySubtracting(a, from, to) ==   \* mutant: the capacity is subtracted
  /\ Goto(a, from, to)
  /\ buffer' = <<>> /\ buffer_offset' = buffer_offset - Cap
  /\ UNCHANGED <<arg, wq, held, lock, bitmap, file, ids, ops, queued>>

NoReset(a, from, to) ==   \* mutant: the offset is not set back to zero
  /\ Goto(a, from, to)
  /\ UNCHANGED <<arg, wq, held, lock, bitmap, trace, ids, ops, queued>>

ResetBuffer(a, from, to) ==
  /\ Goto(a, from, to)
  /\ buffer' = <<>> /\ buffer_offset' = 0
  /\ UNCHANGED <<arg, wq, held, lock, bitmap, file, ids, ops, queued>>

FlushWhenFull(r) == r.sig \/ buffer_offset >= Cap   \* mutant: without the record

MustFlush(r) == r.sig \/ buffer_offset + r.size >= Cap

FlushBuffer(a) == MustFlush(arg[a]) /\ file_write(a, "sync", "reset")
FlushDone(a)   == ResetBuffer(a, "reset", IF arg[a].sig THEN "unlock" ELSE "append")

(* The record is copied to the buffer; of a large one only the header.     *)
LogSize(r) == IF r.large THEN HeadSize ELSE r.size

CopyRecord(a, from) ==
  /\ Goto(a, from, "unlock")
  /\ buffer' = Append(buffer, [kind |-> "head", rec |-> arg[a], whole |-> TRUE])
  /\ buffer_offset' = buffer_offset + LogSize(arg[a])
  /\ UNCHANGED <<arg, wq, held, lock, bitmap, file, ids, ops, queued>>

sync_log_record(a) ==
  \/ ~MustFlush(arg[a]) /\ CopyRecord(a, "sync")
  \/ CopyRecord(a, "append")

mutex_unlock(a) ==
  /\ Return(a, "unlock")
  /\ lock' = NoOne
  /\ UNCHANGED <<wq, bitmap, trace, ids, ops, queued>>

Log(a) ==
  \/ log_record_skip(a) \/ log_record(a)
  \/ LockForRecord(a) \/ LockForFlush(a)
  \/ FlushBuffer(a) \/ FlushDone(a)
  \/ sync_log_record(a) \/ mutex_unlock(a)

-----------------------------------------------------------------------------
(***************************************************************************)
(* The second half of a large read or write: with the lock held, the       *)
(* buffer is flushed and the user's data written to the file.  The length  *)
(* is read from the record after ework_handler freed it, so the block may  *)
(* or may not be the data of the operation.                                *)
(***************************************************************************)
LockForData(c) ==
  /\ Goto(c, "biglock", "bigsync")
  /\ mutex_lock(c)
  /\ UNCHANGED <<arg, wq, held, bitmap, trace, ids, ops, queued>>

FlushForData(c) == file_write(c, "bigsync", "bigreset")
ResetForData(c) == ResetBuffer(c, "bigreset", "payload")

WriteDataIfTraced(c) ==   \* mutant: CHECK_BIT is repeated before the write
  /\ Goto(c, "payload", "unlock")
  /\ file' = IF arg[c].type \in bitmap
              THEN Append(file, [kind |-> "data", rec |-> arg[c], whole |-> TRUE])
              ELSE file
  /\ UNCHANGED <<arg, wq, held, lock, bitmap, buffer, buffer_offset, ids, ops, queued>>

WriteData(c) ==
  /\ Goto(c, "payload", "unlock")
  /\ \E w \in BOOLEAN :
       \/ file' = Append(file, [kind |-> "data", rec |-> arg[c], whole |-> w])
       \/ WriteFaults /\ file' = file
  /\ UNCHANGED <<arg, wq, held, lock, bitmap, buffer, buffer_offset, ids, ops, queued>>

(* ework_handler around log_record.                                        *)
TakeNewest ==   \* mutant: the newest work first
  /\ wq # <<>>
  /\ Goto(Worker, "idle", "log")
  /\ arg' = [arg EXCEPT ![Worker] = wq[Len(wq)]]
  /\ wq' = SubSeq(wq, 1, Len(wq) - 1)
  /\ UNCHANGED <<held, lock, bitmap, trace, ids, ops, queued>>

TakeWork ==
  /\ wq # <<>>
  /\ Goto(Worker, "idle", "log")
  /\ arg' = [arg EXCEPT ![Worker] = Head(wq)]
  /\ wq' = Tail(wq)
  /\ UNCHANGED <<held, lock, bitmap, trace, ids, ops, queued>>

FreeWork ==
  /\ Goto(Worker, "free", "idle")
  /\ arg' = [arg EXCEPT ![Worker] = Blank]
  /\ UNCHANGED <<wq, held, lock, bitmap, trace, ids, ops, queued>>

NeverSignal ==   \* mutant: flush_buffer_sig is not set
  /\ buffer_offset > 0
  /\ Goto(Logger, "check", "sleep")
  /\ UNCHANGED <<arg, wq, held, lock, bitmap, trace, ids, ops, queued>>

(* thread_fn: the unlocked test of buffer_offset, the flush, the sleep.    *)
SignalFlush ==
  /\ buffer_offset > 0
  /\ Goto(Logger, "check", "log")
  /\ arg' = [arg EXCEPT ![Logger].sig = TRUE]
  /\ UNCHANGED <<wq, held, lock, bitmap, trace, ids, ops, queued>>

NothingToFlush ==
  /\ buffer_offset = 0
  /\ Goto(Logger, "check", "sleep")
  /\ UNCHANGED <<arg, wq, held, lock, bitmap, trace, ids, ops, queued>>

Wake ==
  /\ Goto(Logger, "sleep", "check")
  /\ UNCHANGED <<arg, wq, held, lock, bitmap, trace, ids, ops, queued>>

-----------------------------------------------------------------------------
StartCall(c) ==
  \/ trfs_open(c) \/ trfs_flush(c) \/ trfs_read(c) \/ trfs_write(c)
  \/ trfs_readdir(c) \/ trfs_mkdir(c) \/ trfs_unlink(c) \/ trfs_link(c)
  \/ trfs_rename(c) \/ trfs_rmdir(c)

Continue(c) ==
  \/ Untraced(c) \/ eworkqueue_init(c) \/ LogReaddir(c)
  \/ SkipLarge(c) \/ QueueLarge(c) \/ flush_workqueue(c)
  \/ LockForData(c) \/ FlushForData(c) \/ ResetForData(c) \/ WriteData(c)
  \/ Log(c)

WorkerStep == TakeWork \/ FreeWork \/ Log(Worker)
LoggerStep == SignalFlush \/ NothingToFlush \/ Wake \/ Log(Logger)

Next ==
  \/ \E c \in Callers : StartCall(c) \/ Continue(c) \/ trfs_unlocked_ioctl(c)
  \/ WorkerStep
  \/ LoggerStep

Spec == Init /\ [][Next]_vars

(* The kernel schedules the worker, the logger and a caller inside an      *)
(* operation; nothing makes a caller start one.                            *)
Fairness ==
  /\ \A c \in Callers : WF_vars(Continue(c))
  /\ WF_vars(WorkerStep)
  /\ WF_vars(LoggerStep)

FairSpec == Spec /\ Fairness

-----------------------------------------------------------------------------
(***************************************************************************)
(* Properties.  Trace is what the trace file will hold: what was written   *)
(* and what the buffer still holds; between a write of the buffer and its  *)
(* reset the buffer's entries are in the file already.                     *)
(***************************************************************************)
Discarding == \E a \in Actors : pc[a] \in {"reset", "bigreset"}
Trace == file \o (IF Discarding THEN <<>> ELSE buffer)

IsHead(e) == e.kind = "head"
IsData(e) == e.kind = "data"

LogSteps == {"log", "lock", "sync", "reset", "append", "unlock"}

StepsOf(a) ==
  LogSteps \cup
    (IF a = Worker THEN {"idle", "free"}
     ELSE IF a = Logger THEN {"check", "sleep"}
     ELSE {"idle", "built", "flushwq", "biglock", "bigsync", "bigreset", "payload"})

Steps == UNION {StepsOf(a) : a \in Actors}

TypeOK ==
  /\ pc \in [Actors -> Steps] /\ \A a \in Actors : pc[a] \in StepsOf(a)
  /\ arg \in [Actors -> Record]
  /\ wq \in Seq(Record)
  /\ held \in [Dirs -> Callers \cup {NoOne}]
  /\ lock \in Actors \cup {NoOne}
  /\ bitmap \in SUBSET Types
  /\ buffer \in Seq(Entry) /\ file \in Seq(Entry)
  /\ buffer_offset \in Nat
  /\ last_id \in 0 .. (IdSpace - 1)
  /\ logged \in Nat /\ ops \in Nat /\ queued \in Nat

(* A record is copied to the buffer without any check of its own: the      *)
(* flush before it must leave room for it, whoever flushed last and        *)
(* whichever actor logs (sync_log_record, file.c:94-103).                  *)
BufferFits == buffer_offset < Cap

(* The ids of the records in the trace increase, so they are unique, until *)
(* the unsigned int wraps; failed or short writes of the trace file lose   *)
(* records and never repeat or reorder one (log_record, file.c:258-272).   *)
IncreasingIds ==
  logged <= IdSpace =>
    \A i, j \in DOMAIN Trace :
      i < j /\ IsHead(Trace[i]) /\ IsHead(Trace[j])
        => Trace[i].rec.id < Trace[j].rec.id

(* A record that the workqueue has handled is in the trace, whatever the   *)
(* order of the flushes of the worker, the logger, readdir and the large   *)
(* operations (ework_handler, file.c:276-304).                             *)
HandledAreTraced ==
  \A n \in 1 .. queued :
    \/ \E i \in DOMAIN wq : wq[i].q = n
    \/ arg[Worker].q = n
    \/ \E i \in DOMAIN Trace : IsHead(Trace[i]) /\ Trace[i].rec.q = n

(* Records reach the trace in the order in which they were queued, even    *)
(* when others log in between (eworkqueue_init, file.c:306-333).           *)
QueueOrder ==
  \A i, j \in DOMAIN Trace :
    /\ i < j /\ IsHead(Trace[i]) /\ IsHead(Trace[j])
    /\ Trace[i].rec.q > 0 /\ Trace[j].rec.q > 0
    => Trace[i].rec.q < Trace[j].rec.q

(* Queued operations on a common directory are traced in the order in      *)
(* which the lower file system executed them, as replay needs: they are    *)
(* queued before unlock_dir (trfs_mkdir, inode.c:287-304).                 *)
DirOrder ==
  \A i, j \in DOMAIN Trace :
    /\ i < j /\ IsHead(Trace[i]) /\ IsHead(Trace[j])
    /\ Trace[i].rec.q > 0 /\ Trace[j].rec.q > 0
    /\ Trace[i].rec.dirs \cap Trace[j].rec.dirs # {}
    => Trace[i].rec.exec < Trace[j].rec.exec

(* The data of a large read or write is in the trace only after its        *)
(* header: flush_workqueue waits for the header (trfs_write,               *)
(* file.c:513-525).                                                        *)
HeaderBeforePayload ==
  \A i \in DOMAIN Trace :
    IsData(Trace[i]) =>
      \E j \in 1 .. (i - 1) :
        IsHead(Trace[j]) /\ Trace[j].rec.exec = Trace[i].rec.exec

(* The data of a large read or write directly follows its header, where    *)
(* treplay looks for it: "common values and data length. The actual large  *)
(* data buffer will be then directly written from read/write function"     *)
(* (file.c:107-108).                                                       *)
PayloadFollowsHeader ==
  \A i \in DOMAIN Trace :
    IsData(Trace[i]) =>
      /\ i > 1 /\ IsHead(Trace[i - 1])
      /\ Trace[i - 1].rec.exec = Trace[i].rec.exec

(* A header whose operation has returned is followed by its data, however  *)
(* the bits of the two operations are cleared meanwhile: replay reads as   *)
(* many bytes as the header says (trfs_read, file.c:386-407).              *)
HeaderHasPayload ==
  \A i \in DOMAIN Trace :
    IsHead(Trace[i]) /\ Trace[i].rec.large =>
      \/ \E c \in Callers : arg[c].exec = Trace[i].rec.exec
      \/ \E j \in (i + 1) .. Len(Trace) :
           IsData(Trace[j]) /\ Trace[j].rec.exec = Trace[i].rec.exec

(* The records of one caller are in the trace in the order of its          *)
(* operations: "The mutex lock ensures sequential logging and prevents     *)
(* race conditions in all the cases" (hw2/README:41).                      *)
ProgramOrder ==
  \A i, j \in DOMAIN Trace :
    /\ i < j /\ IsHead(Trace[i]) /\ IsHead(Trace[j])
    /\ Trace[i].rec.by = Trace[j].rec.by
    => Trace[i].rec.exec < Trace[j].rec.exec

(* The block written after a large header is the data of the operation:    *)
(* "write the contents of the data buffer directly to the trace file"      *)
(* (file.c:405).                                                           *)
PayloadWhole == \A i \in DOMAIN file : IsData(file[i]) => file[i].whole

(* Nothing handed to the workqueue stays in memory: the logger writes the  *)
(* last, partially filled buffer (thread_fn, file.c:26-37).                *)
QueuedReachesFile ==
  \A n \in 1 .. MaxOps :
    queued >= n ~> \E i \in DOMAIN file : IsHead(file[i]) /\ file[i].rec.q = n

(* Every operation returns: a caller that waits for the workqueue or for   *)
(* the lock is not waited for (trfs_read, file.c:393-410).                 *)
CallReturns == \A c \in Callers : pc[c] # "idle" ~> pc[c] = "idle"

-----------------------------------------------------------------------------
(***************************************************************************)
(* The pipeline implements TraceLog as long as the writes of the trace     *)
(* file succeed.  A record that has its id but is not yet in the buffer is *)
(* not yet in the log.                                                     *)
(***************************************************************************)
InFlight == \E a \in Actors : pc[a] \in {"sync", "reset", "append"} /\ ~arg[a].sig

Item(e) == [kind |-> e.kind, pos |-> IF IsHead(e) THEN e.rec.pos ELSE 0]

TheLog == INSTANCE TraceLog WITH
  log    <- [i \in DOMAIN Trace |-> Item(Trace[i])],
  stable <- Len(file),
  next   <- logged - (IF InFlight THEN 1 ELSE 0)

(* The code's two buffers of entries behave as one append-only log of      *)
(* consecutively numbered records (sync_log_record, file.c:79-240, and the *)
(* flushes of file.c:402-407 and 520-525).                                 *)
ImplementsTraceLog == TheLog!Spec
=============================================================================
