----------------------------- MODULE TrfsMount -----------------------------
(***************************************************************************)
(* The life of a trfs super block: trfs_read_super builds the tracing      *)
(* state and the stacking on the lower super block, trfs_umount takes both *)
(* apart, after a successful mount as well as after a failed one.          *)
(* Meanwhile callers submit records, the worker of each workqueue logs     *)
(* them and the logger thread flushes the buffer.                          *)
(*                                                                         *)
(* A record is its number; what log_record does with it in detail is       *)
(* TrfsTrace.  Here it matters which objects a step uses and whether they  *)
(* are alive.                                                              *)
(***************************************************************************)
EXTENDS Integers, Sequences, FiniteSets

CONSTANTS
  Callers,      (* threads that submit records                             *)
  Workqueues,   (* workqueues that can be created, each with its worker    *)
  Logger,       (* the thread that runs thread_fn                          *)
  Mounter,      (* the thread that mounts and unmounts                     *)
  NoOne,        (* owner of a free mutex                                   *)
  NULL,         (* eWq when there is no workqueue                          *)
  BufCap,       (* records that fit in tr_info->buffer                     *)
  MaxOps,       (* bound on the records of one mount                       *)
  Faults        (* the calls that may fail                                 *)

Failures == {"path", "memory", "workqueue", "thread", "option", "open",
             "inode", "stale", "root", "private", "write"}

(* What a mount takes: its private data, the trace state and the trace     *)
(* file; the options and the name of the trace file that trfs_mount parses *)
(* into, and the device number that mount_nodev gives the super block.     *)
Unreleased == {"opt", "option", "s_dev"}
Objects    == {"sbi", "tr_info", "filp"} \cup Unreleased

Counts  == {"path", "super", "inode", "lower"}
Threads == Callers \cup Workqueues \cup {Logger}

ASSUME ThreadsAssumption ==
  /\ Callers \cap Workqueues = {}
  /\ Logger \notin Callers \cup Workqueues
  /\ Mounter \notin Threads /\ NoOne \notin Threads \cup {Mounter}
  /\ NULL \notin Workqueues /\ Workqueues # {}

ASSUME BoundsAssumption ==
  BufCap \in Nat \ {0} /\ MaxOps \in Nat /\ Faults \subseteq Failures

VARIABLES
  at,         (* where the mounting and unmounting thread is               *)
  mem,        (* the objects of the last mount: none, live or freed        *)
  s_fs_info,  (* whether sb->s_fs_info is set                              *)
  s_root,     (* whether sb->s_root is set                                 *)
  thread_st,  (* null, a task, or the error pointer of a failed kthread_run *)
  stop,       (* whether kthread_stop has been called on the logger        *)
  refs,       (* references taken on the lower path and super block, on    *)
              (* the upper root inode, and by it on the lower root inode   *)
  pc,         (* where the other threads are                               *)
  arg,        (* the record a thread works on, 0 if none                   *)
  eWq,        (* the workqueue records are submitted to                    *)
  wqs,        (* the workqueues that exist                                 *)
  work,       (* the records queued on each workqueue                      *)
  lock,       (* owner of tr_info->lock                                    *)
  buffer,     (* the records in tr_info->buffer                            *)
  file,       (* the records in the trace file                             *)
  queued,     (* history: records submitted in this mount                  *)
  pending     (* history: records not yet handled when unmount began       *)

super   == <<s_fs_info, s_root, refs>>
thread  == <<thread_st, stop>>
queues  == <<eWq, wqs, work>>
records == <<buffer, file>>
history == <<queued, pending>>
vars == <<at, mem, super, thread, pc, arg, queues, lock, records, history>>

Init ==
  /\ at = "unmounted"
  /\ mem = [o \in Objects |-> "none"]
  /\ s_fs_info = FALSE /\ s_root = FALSE
  /\ thread_st = "null" /\ stop = FALSE
  /\ refs = [r \in Counts |-> 0]
  /\ pc = [t \in Threads |-> IF t \in Callers THEN "idle" ELSE "none"]
  /\ arg = [t \in Threads |-> 0]
  /\ eWq = NULL /\ wqs = {} /\ work = [w \in Workqueues |-> <<>>]
  /\ lock = NoOne
  /\ buffer = <<>> /\ file = <<>>
  /\ queued = 0 /\ pending = {}

MayFail(call) == call \in Faults

Then(from, to) == at = from /\ at' = to

(* A NULL or error pointer is dereferenced: the thread is killed where it  *)
(* is, with everything it holds.                                           *)
Oops == at' = "oops"

-----------------------------------------------------------------------------
(***************************************************************************)
(* Mount.  trfs_mount parses the options, of which only tfile is known,    *)
(* for trfs_read_super; without it opt->option is an uninitialised         *)
(* pointer.  mount_nodev makes the super block.  The error exits of        *)
(* trfs_read_super lead to "kill", from where mount_nodev calls            *)
(* trfs_umount on the half-built super block.  A super block whose unmount *)
(* left a workqueue behind is not mounted again: the handlers would be     *)
(* those of another one.                                                   *)
(***************************************************************************)
trfs_mount ==
  /\ wqs = {} /\ Then("unmounted", "path")
  /\ \E o \in {"live"} \cup IF MayFail("option") THEN {"none"} ELSE {} :
       mem' = [mem EXCEPT !["opt"] = "live", !["s_dev"] = "live", !["option"] = o]
  /\ queued' = 0 /\ pending' = {}
  /\ UNCHANGED <<super, thread, pc, arg, queues, lock, records>>

kern_path ==
  /\ \/ /\ Then("path", "alloc")
        /\ refs' = [refs EXCEPT !["path"] = @ + 1]
     \/ /\ MayFail("path") /\ Then("path", "kill")
        /\ UNCHANGED refs
  /\ UNCHANGED <<mem, s_fs_info, s_root, thread, pc, arg, queues, lock, records, history>>

(* kzalloc of the private data and of tr_info, the workqueue, the lock and *)
(* the logger thread.  A failed kzalloc, like the kmalloc of opt before,   *)
(* is not noticed before its result is used; a failed kthread_run returns  *)
(* an error pointer, which is taken for a thread.                          *)
Allocate ==
  /\ Then("alloc", "open")
  /\ mem' = [mem EXCEPT !["sbi"] = "live", !["tr_info"] = "live", !["filp"] = "none"]
  /\ s_fs_info' = TRUE
  /\ buffer' = <<>> /\ lock' = NoOne
  /\ \E q \in (Workqueues \ wqs) \cup IF MayFail("workqueue") THEN {NULL} ELSE {},
        t \in {"task"} \cup IF MayFail("thread") THEN {"error"} ELSE {} :
       /\ eWq' = q /\ wqs' = wqs \cup ({q} \ {NULL})
       /\ thread_st' = t
       /\ pc' = [u \in Threads |-> IF u = q THEN "idle"
                                  ELSE IF u = Logger /\ t = "task" THEN "test"
                                  ELSE pc[u]]
  /\ stop' = FALSE
  /\ UNCHANGED <<s_root, refs, arg, work, file, history>>

AllocateFails ==
  /\ MayFail("memory") /\ Oops
  /\ at = "alloc" \/ (at = "unmounted" /\ wqs = {})
  /\ UNCHANGED <<mem, super, thread, pc, arg, queues, lock, records, history>>

(* The trace file is truncated.                                            *)
filp_open ==
  /\ Then("open", "super")
  /\ mem' = [mem EXCEPT !["filp"] = "live"]
  /\ file' = <<>> /\ buffer' = <<>>
  /\ UNCHANGED <<super, thread, pc, arg, queues, lock, history>>

OpenFails ==      (* goto out_free *)
  /\ MayFail("open") /\ Then("open", "kill")
  /\ refs' = [refs EXCEPT !["path"] = @ - 1]
  /\ UNCHANGED <<mem, s_fs_info, s_root, thread, pc, arg, queues, lock, records, history>>

(* An uninitialised opt->option may lead anywhere.                         *)
OptionMissing ==
  /\ mem["option"] = "none" /\ at = "open" /\ Oops
  /\ UNCHANGED <<mem, super, thread, pc, arg, queues, lock, records, history>>

(* out_sput and out_free, with the references as the failed step left them. *)
NoSuperDec(taken) ==   \* mutant: the lower super block is not released
  /\ refs' = [taken EXCEPT !["path"] = @ - 1]
  /\ mem' = [mem EXCEPT !["sbi"] = "freed"]
  /\ s_fs_info' = FALSE
  /\ UNCHANGED <<s_root, thread, pc, arg, queues, lock, records, history>>

out_sput(taken) ==
  /\ refs' = [taken EXCEPT !["path"] = @ - 1, !["super"] = @ - 1]
  /\ mem' = [mem EXCEPT !["sbi"] = "freed"]
  /\ s_fs_info' = FALSE
  /\ UNCHANGED <<s_root, thread, pc, arg, queues, lock, records, history>>

(* The lower super block's s_active is incremented and the root inode is   *)
(* made.  trfs_iget drops a reference of the lower inode that it did not   *)
(* take when there is no memory, and the new inode stays when the lower    *)
(* one is being freed.                                                     *)
trfs_iget ==
  /\ Then("super", "root")
  /\ refs' = [refs EXCEPT !["super"] = @ + 1, !["inode"] = @ + 1, !["lower"] = @ + 1]
  /\ UNCHANGED <<mem, s_fs_info, s_root, thread, pc, arg, queues, lock, records, history>>

IgetFails ==
  /\ Then("super", "kill")
  /\ \/ MayFail("inode") /\ out_sput([refs EXCEPT !["super"] = @ + 1, !["lower"] = @ - 1])
     \/ MayFail("stale") /\ out_sput([refs EXCEPT !["super"] = @ + 1, !["inode"] = @ + 1])

d_make_root ==
  /\ Then("root", "private")
  /\ s_root' = TRUE
  /\ UNCHANGED <<mem, s_fs_info, refs, thread, pc, arg, queues, lock, records, history>>

(* d_make_root has put the inode already when out_iput puts it again.      *)
MakeRootFails ==
  /\ MayFail("root") /\ Then("root", "kill")
  /\ out_sput([refs EXCEPT !["inode"] = @ - 2, !["lower"] = @ - 1])

new_dentry_private_data ==
  /\ Then("private", "mounted")
  /\ UNCHANGED <<mem, super, thread, pc, arg, queues, lock, records, history>>

(* dput(s_root) drops the inode, then trfs_d_release uses the private data *)
(* that could not be allocated.                                            *)
PrivateDataFails ==
  /\ MayFail("private") /\ at = "private" /\ Oops
  /\ refs' = [refs EXCEPT !["inode"] = @ - 1, !["lower"] = @ - 1]
  /\ UNCHANGED <<mem, s_fs_info, s_root, thread, pc, arg, queues, lock, records, history>>

-----------------------------------------------------------------------------
(***************************************************************************)
(* Callers.  Each has a file open, so there is no unmount while one is     *)
(* inside an operation.                                                    *)
(***************************************************************************)
eworkqueue_init(c) ==
  /\ at = "mounted" /\ pc[c] = "idle" /\ queued < MaxOps
  /\ queued' = queued + 1
  /\ arg' = [arg EXCEPT ![c] = queued + 1]
  /\ pc' = [pc EXCEPT ![c] = IF eWq = NULL THEN "create" ELSE "queue"]
  /\ UNCHANGED <<at, mem, super, thread, queues, lock, records, pending>>

(* The workqueue that could not be created at mount time.                  *)
CreateWorkqueue(c) ==
  /\ pc[c] = "create"
  /\ \/ \E q \in Workqueues \ wqs :
          /\ eWq' = q /\ wqs' = wqs \cup {q}
          /\ pc' = [pc EXCEPT ![c] = "queue", ![q] = "idle"]
     \/ /\ MayFail("workqueue")
        /\ eWq' = NULL /\ pc' = [pc EXCEPT ![c] = "queue"]
        /\ UNCHANGED wqs
  /\ UNCHANGED <<at, mem, super, thread, arg, work, lock, records, history>>

queue_work(c) ==
  /\ pc[c] = "queue"
  /\ work' = IF eWq = NULL THEN work ELSE [work EXCEPT ![eWq] = Append(@, arg[c])]
  /\ pc' = [pc EXCEPT ![c] = "idle"]
  /\ arg' = [arg EXCEPT ![c] = 0]
  /\ UNCHANGED <<at, mem, super, thread, eWq, wqs, lock, records, history>>

-----------------------------------------------------------------------------
(***************************************************************************)
(* The logger thread and the workers.                                      *)
(***************************************************************************)
Goto(t, from, to) == pc[t] = from /\ pc' = [pc EXCEPT ![t] = to]

LogSteps == {"look", "log", "lock", "sync", "unlock"}

kthread_should_stop ==
  /\ Goto(Logger, "test", IF stop THEN "exit" ELSE "look")
  /\ UNCHANGED <<at, mem, super, thread, arg, queues, lock, records, history>>

(* The test of buffer_offset, outside the lock.                            *)
Look ==
  /\ Goto(Logger, "look", IF buffer = <<>> THEN "sleep" ELSE "lock")
  /\ UNCHANGED <<at, mem, super, thread, arg, queues, lock, records, history>>

ssleep ==
  /\ Goto(Logger, "sleep", "test")
  /\ UNCHANGED <<at, mem, super, thread, arg, queues, lock, records, history>>

TakeWork(w) ==
  /\ work[w] # <<>>
  /\ Goto(w, "idle", "log")
  /\ arg' = [arg EXCEPT ![w] = Head(work[w])]
  /\ work' = [work EXCEPT ![w] = Tail(@)]
  /\ UNCHANGED <<at, mem, super, thread, eWq, wqs, lock, records, history>>

(* CHECK_BIT: the bits are set, unless they are read from freed memory.    *)
CheckBit(w) ==
  /\ \/ Goto(w, "log", "lock")
     \/ mem["tr_info"] = "freed" /\ Goto(w, "log", "free")
  /\ UNCHANGED <<at, mem, super, thread, arg, queues, lock, records, history>>

mutex_lock(t) ==
  /\ Goto(t, "lock", "sync")
  /\ lock = NoOne /\ lock' = t
  /\ UNCHANGED <<at, mem, super, thread, arg, queues, records, history>>

Full == Len(buffer) >= BufCap

(* vfs_write of the buffer, whose result nobody looks at.  It may fail or  *)
(* be short, and a write to a closed file may or may not reach it.         *)
FileWrite ==
  \/ file' = file \o buffer
  \/ /\ mem["filp"] = "freed" \/ MayFail("write")
     /\ \E n \in 0 .. Len(buffer) : file' = file \o SubSeq(buffer, 1, n)

FlushAll ==
  /\ Goto(Logger, "sync", "unlock")
  /\ FileWrite /\ buffer' = <<>>
  /\ UNCHANGED <<at, mem, super, thread, arg, queues, lock, history>>

sync_log_record(w) ==
  /\ Goto(w, "sync", "unlock")
  /\ IF Full THEN FileWrite /\ buffer' = <<arg[w]>>
             ELSE buffer' = Append(buffer, arg[w]) /\ UNCHANGED file
  /\ UNCHANGED <<at, mem, super, thread, arg, queues, lock, history>>

KeepLock(t) ==   \* mutant: the flush returns with the lock held
  /\ Goto(t, "unlock", IF t = Logger THEN "sleep" ELSE "free")
  /\ lock' = IF t = Logger THEN lock ELSE NoOne
  /\ UNCHANGED <<at, mem, super, thread, arg, queues, records, history>>

mutex_unlock(t) ==
  /\ Goto(t, "unlock", IF t = Logger THEN "sleep" ELSE "free")
  /\ lock' = NoOne
  /\ UNCHANGED <<at, mem, super, thread, arg, queues, records, history>>

FreeWork(w) ==
  /\ Goto(w, "free", "idle")
  /\ arg' = [arg EXCEPT ![w] = 0]
  /\ UNCHANGED <<at, mem, super, thread, queues, lock, records, history>>

UsesFreed(t) ==
  \/ pc[t] \in LogSteps /\ (mem["sbi"] = "freed" \/ mem["tr_info"] = "freed")
  \/ pc[t] = "sync" /\ mem["filp"] = "freed" /\ (t = Logger \/ Full)

(* Freed memory may have been reused: the thread may be killed, and leaves *)
(* the lock as it is.                                                      *)
Crash(t) ==
  /\ UsesFreed(t)
  /\ pc' = [pc EXCEPT ![t] = "dead"]
  /\ UNCHANGED <<at, mem, super, thread, arg, queues, lock, records, history>>

-----------------------------------------------------------------------------
(***************************************************************************)
(* trfs_umount.                                                            *)
(***************************************************************************)
Elements(s) == {s[i] : i \in DOMAIN s}
Unhandled == UNION {Elements(work[w]) \cup ({arg[w]} \ {0}) : w \in Workqueues}

NoStop ==   \* mutant: the logger thread is not stopped
  /\ at \in {"mounted", "kill"}
  /\ at = "mounted" => \A c \in Callers : pc[c] = "idle"
  /\ pending' = Unhandled
  /\ at' = "lock"
  /\ UNCHANGED <<mem, super, thread, pc, arg, queues, lock, records, queued>>

kthread_stop ==
  /\ at \in {"mounted", "kill"}
  /\ at = "mounted" => \A c \in Callers : pc[c] = "idle"
  /\ pending' = Unhandled
  /\ IF s_fs_info /\ thread_st = "task"
     THEN at' = "join" /\ stop' = TRUE
     ELSE Oops /\ UNCHANGED stop
  /\ UNCHANGED <<mem, super, thread_st, pc, arg, queues, lock, records, queued>>

Joined ==
  /\ Then("join", "lock")
  /\ Goto(Logger, "exit", "none")
  /\ UNCHANGED <<mem, super, thread, arg, queues, lock, records, history>>

UmountLock ==
  /\ Then("lock", "write")
  /\ lock = NoOne /\ lock' = Mounter
  /\ UNCHANGED <<mem, super, thread, pc, arg, queues, records, history>>

DropBuffer ==   \* mutant: the last buffer is not written
  /\ Then("write", "close")
  /\ buffer' = <<>>
  /\ lock' = NoOne
  /\ UNCHANGED <<mem, super, thread, pc, arg, queues, file, history>>

(* vfs_write of the buffer, the reset of its offset, whatever reached the  *)
(* file, and the unlock.                                                   *)
UmountWrite ==
  /\ at = "write"
  /\ IF mem["filp"] = "live"
     THEN /\ at' = "close"
          /\ FileWrite /\ buffer' = <<>>
          /\ lock' = NoOne
     ELSE Oops /\ UNCHANGED <<records, lock>>
  /\ UNCHANGED <<mem, super, thread, pc, arg, queues, history>>

filp_close ==
  /\ Then("close", "free")
  /\ mem' = [mem EXCEPT !["filp"] = "freed"]
  /\ UNCHANGED <<super, thread, pc, arg, queues, lock, records, history>>

FreeTraceInfo ==
  /\ Then("free", "drain")
  /\ mem' = [mem EXCEPT !["tr_info"] = "freed"]
  /\ UNCHANGED <<super, thread, pc, arg, queues, lock, records, history>>

NotDrained ==   \* mutant: the workqueue is not destroyed
  /\ Then("drain", "shutdown")
  /\ UNCHANGED <<mem, super, thread, pc, arg, queues, lock, records, history>>

(* Waits for the queued work and its handlers.                             *)
destroy_workqueue ==
  /\ Then("drain", "shutdown")
  /\ \/ eWq = NULL /\ UNCHANGED <<pc, wqs>>
     \/ /\ eWq # NULL /\ work[eWq] = <<>> /\ Goto(eWq, "idle", "none")
        /\ wqs' = wqs \ {eWq}
  /\ UNCHANGED <<mem, super, thread, arg, eWq, work, lock, records, history>>

(* The root dentry and its inode go, then trfs_put_super drops the lower   *)
(* super block and frees the private data.                                 *)
NoPutSuper ==   \* mutant: trfs_put_super does not release the lower super block
  /\ s_root /\ Then("shutdown", "unmounted")
  /\ refs' = [refs EXCEPT !["path"] = @ - 1, !["inode"] = @ - 1, !["lower"] = @ - 1]
  /\ mem' = [mem EXCEPT !["sbi"] = "freed"]
  /\ s_fs_info' = FALSE /\ s_root' = FALSE
  /\ UNCHANGED <<thread, pc, arg, queues, lock, records, history>>

NoRelease ==   \* mutant: trfs_d_release keeps the lower path
  /\ s_root /\ Then("shutdown", "unmounted")
  /\ refs' = [refs EXCEPT !["super"] = @ - 1, !["inode"] = @ - 1, !["lower"] = @ - 1]
  /\ mem' = [mem EXCEPT !["sbi"] = "freed"]
  /\ s_fs_info' = FALSE /\ s_root' = FALSE
  /\ UNCHANGED <<thread, pc, arg, queues, lock, records, history>>

generic_shutdown_super ==
  /\ s_root /\ Then("shutdown", "unmounted")
  /\ refs' = [r \in Counts |-> refs[r] - 1]
  /\ mem' = [mem EXCEPT !["sbi"] = "freed"]
  /\ s_fs_info' = FALSE /\ s_root' = FALSE
  /\ UNCHANGED <<thread, pc, arg, queues, lock, records, history>>

-----------------------------------------------------------------------------
Mount ==
  \/ trfs_mount \/ kern_path \/ Allocate \/ AllocateFails
  \/ filp_open \/ OpenFails \/ OptionMissing
  \/ trfs_iget \/ IgetFails \/ d_make_root \/ MakeRootFails
  \/ new_dentry_private_data \/ PrivateDataFails

FinishUmount ==
  \/ Joined \/ UmountLock \/ UmountWrite \/ filp_close
  \/ FreeTraceInfo \/ destroy_workqueue \/ generic_shutdown_super

Submit(c) == eworkqueue_init(c) \/ CreateWorkqueue(c) \/ queue_work(c)

LoggerStep ==
  \/ kthread_should_stop \/ Look \/ ssleep
  \/ mutex_lock(Logger) \/ FlushAll \/ mutex_unlock(Logger) \/ Crash(Logger)

WorkerStep(w) ==
  \/ TakeWork(w) \/ CheckBit(w) \/ mutex_lock(w) \/ sync_log_record(w)
  \/ mutex_unlock(w) \/ FreeWork(w) \/ Crash(w)

Next ==
  \/ Mount \/ kthread_stop \/ FinishUmount
  \/ \E c \in Callers : Submit(c)
  \/ LoggerStep
  \/ \E w \in Workqueues : WorkerStep(w)

Spec == Init /\ [][Next]_vars

(* The kernel schedules every runnable thread; nobody has to mount or      *)
(* unmount.                                                                *)
FairSpec ==
  /\ Spec
  /\ WF_vars(FinishUmount) /\ WF_vars(LoggerStep)
  /\ \A w \in Workqueues : WF_vars(WorkerStep(w))

-----------------------------------------------------------------------------
MountSteps  == {"unmounted", "path", "alloc", "open", "super", "root", "private", "mounted"}
UmountSteps == {"kill", "join", "lock", "write", "close", "free", "drain",
                "shutdown", "oops"}

TypeOK ==
  /\ at \in MountSteps \cup UmountSteps
  /\ mem \in [Objects -> {"none", "live", "freed"}]
  /\ s_fs_info \in BOOLEAN /\ s_root \in BOOLEAN
  /\ thread_st \in {"null", "task", "error"} /\ stop \in BOOLEAN
  /\ refs \in [Counts -> -1 .. 1]
  /\ pc \in [Threads -> LogSteps \cup {"none", "idle", "create", "queue", "test",
                                       "sleep", "exit", "free", "dead"}]
  /\ arg \in [Threads -> Nat]
  /\ eWq \in Workqueues \cup {NULL} /\ wqs \subseteq Workqueues
  /\ work \in [Workqueues -> Seq(Nat)]
  /\ lock \in Workqueues \cup {Logger, Mounter, NoOne}
  /\ buffer \in Seq(Nat) /\ file \in Seq(Nat)
  /\ queued \in Nat /\ pending \in SUBSET Nat

(* The logger thread never works on freed private data or trace state: it  *)
(* "is destroyed when unmounted" (hw2/README:65), before anything is freed *)
(* (kthread_stop, main.c:227).                                             *)
LoggerSafe ==
  pc[Logger] \in LogSteps =>
    /\ mem["sbi"] = "live" /\ mem["tr_info"] = "live"
    /\ pc[Logger] = "sync" => mem["filp"] = "live"

(* No work is done for a super block whose private data is freed:          *)
(* generic_shutdown_super comes "after the tracing operations are cleaned  *)
(* up" (main.c:254-259), with the queue drained and destroyed.             *)
SbInfoSafe ==
  \A t \in Workqueues \cup Callers :
    pc[t] \in LogSteps \cup {"create", "queue"} => mem["sbi"] = "live"

(* The same for the trace state that the handlers use: "Call the           *)
(* generic_shutdown_super after the tracing operations are cleaned up"     *)
(* (main.c:258) and free nothing under a handler (main.c:249-255).         *)
TraceInfoSafe == \A w \in Workqueues : pc[w] \in LogSteps => mem["tr_info"] = "live"

(* As long as the trace file can be written, every record handled before   *)
(* unmount began is in it afterwards, whether the logger, the worker or    *)
(* unmount itself wrote the buffer (main.c:233-239).                       *)
KeptByUnmount ==
  at \in {"close", "free", "drain", "shutdown", "unmounted"} =>
    \A n \in 1 .. queued : n \in pending \cup Elements(file)

(* "Empty out the buffer to the trace file before closing" (main.c:233).   *)
EmptiedAtClose == at = "free" => buffer = <<>>

(* An unmount gives back the private data, the trace state and file, the   *)
(* threads, the queue, the lock and the lower references, each exactly     *)
(* once (main.c:215-260, super.c:21-37).  It does not give back the        *)
(* options that trfs_mount allocated (main.c:179, 194), which nothing      *)
(* frees, nor the device number, as trfs_umount is no kill_anon_super.     *)
UnmountReleases ==
  at = "unmounted" =>
    /\ \A o \in Objects \ Unreleased : mem[o] # "live"
    /\ \A r \in Counts : refs[r] = 0
    /\ wqs = {} /\ pc[Logger] = "none" /\ lock = NoOne

(* The same of everything, in words of the code "cleaned up" (main.c:258). *)
AllReleased == at = "unmounted" => \A o \in Objects : mem[o] # "live"

(* A failed mount keeps no reference to the lower file system, whichever   *)
(* step failed (out_sput and out_free, main.c:157-163).                    *)
ErrorDropsLower == at = "kill" => refs["path"] = 0 /\ refs["super"] = 0

(* A failed mount is reported to the user: "error accessing lower          *)
(* directory", "Error filp_open", "out of memory" (main.c:55, 84, 93).     *)
ErrorReturned == at # "oops"

(* A failed mount drops the "refs we took earlier" (main.c:158), no more.  *)
RefsTaken == refs["inode"] >= 0 /\ refs["lower"] >= 0

(* An unmount that finds the workqueue empty ends: the logger leaves the   *)
(* lock and its loop (main.c:227, file.c:26-43).                           *)
UnmountEnds == at = "join" /\ pending = {} ~> at = "unmounted"
=============================================================================
