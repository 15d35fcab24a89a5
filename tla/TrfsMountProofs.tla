-------------------------- MODULE TrfsMountProofs --------------------------
(***************************************************************************)
(* Proofs about TrfsMount.  Construction, which holds whichever calls      *)
(* fail, says for each step of mount and unmount what exists.  LoggerLife  *)
(* says the same of the logger thread and needs that a mount does not fail *)
(* between the allocation of the root inode and that of its dentry, where  *)
(* the private data is freed with the thread running.  QueueLife is about  *)
(* the workers and needs the workqueue to be created at mount time.        *)
(***************************************************************************)
EXTENDS TrfsMount, SequenceTheorems, TLAPS

Refs(path, others) ==
  refs = [r \in Counts |-> IF r = "path" THEN path ELSE others]

Stacked == s_root /\ Refs(1, 1)

(* What trfs_umount finds after an error of trfs_read_super.               *)
HalfBuilt ==
  /\ ~s_root /\ refs["path"] = 0 /\ refs["super"] = 0
  /\ s_fs_info => mem["filp"] = "none"

Tracing == s_fs_info /\ mem["sbi"] = "live" /\ mem["tr_info"] = "live"

Construction ==
  /\ at = "unmounted" => ~s_fs_info /\ ~s_root /\ Refs(0, 0)
                         /\ mem["sbi"] # "live" /\ mem["tr_info"] # "live"
                         /\ mem["filp"] # "live"
  /\ at = "path" => ~s_fs_info /\ ~s_root /\ Refs(0, 0)
  /\ at = "alloc" => ~s_fs_info /\ ~s_root /\ Refs(1, 0)
  /\ at \in {"open", "super"} => Tracing /\ ~s_root /\ Refs(1, 0)
  /\ at = "open" => mem["filp"] = "none"
  /\ at = "root" => Tracing /\ ~s_root /\ Refs(1, 1)
  /\ at \in {"private", "mounted"} => Tracing /\ Stacked
  /\ at \in {"super", "root", "private", "mounted", "close"} => mem["filp"] = "live"
  /\ at = "kill" => HalfBuilt /\ (s_fs_info => Tracing)
  /\ at \in {"join", "lock", "write"} =>
       Tracing /\ (HalfBuilt \/ (Stacked /\ mem["filp"] = "live"))
  /\ at \in {"close", "free"} => Tracing /\ Stacked
  /\ at \in {"drain", "shutdown"} => Stacked /\ s_fs_info /\ mem["sbi"] = "live"
  /\ at \in {"drain", "shutdown"} => mem["tr_info"] = "freed" /\ mem["filp"] = "freed"
  /\ at = "free" => mem["filp"] = "freed"
  /\ at = "oops" /\ s_root => mem["filp"] = "live"

(* The workers that exist, and where callers are.  No work is queued       *)
(* before the mount is complete, nor after one that fails.                 *)
Quiet(w) == work[w] = <<>> /\ pc[w] \in {"none", "idle"}

ThreadsLife ==
  /\ \A c \in Callers : pc[c] # "idle" => at = "mounted"
  /\ \A w \in Workqueues \ wqs : pc[w] = "none" /\ work[w] = <<>>
  /\ (~s_root /\ at # "unmounted") \/ at = "private" => \A w \in Workqueues : Quiet(w)
  /\ at \in {"open", "super", "root", "private", "mounted"} => eWq \in wqs \cup {NULL}
  /\ at \in {"path", "alloc"} => wqs = {}

(* Who holds the lock is in its critical section, or died there.           *)
LockLife ==
  /\ \A t \in Workqueues \cup {Logger} : lock = t => pc[t] \in {"sync", "unlock", "dead"}
  /\ lock = Mounter => at \in {"write", "oops"}

Life == TypeOK /\ Construction /\ ThreadsLife /\ LockLife

LoggerLife ==
  /\ at \in {"unmounted", "path", "alloc", "lock", "write", "close", "free", "drain", "shutdown"}
       => pc[Logger] = "none"
  /\ pc[Logger] # "none" => mem["sbi"] = "live" /\ mem["tr_info"] = "live"
  /\ pc[Logger] # "none" /\ mem["filp"] # "live"
       => buffer = <<>> /\ pc[Logger] \notin {"lock", "sync"}

QueueLife ==
  /\ wqs \subseteq {eWq}
  /\ \A c \in Callers : pc[c] # "create"
  /\ at \in {"open", "super", "root", "private", "mounted",
             "join", "lock", "write", "close", "free", "drain"} => eWq # NULL
  /\ at = "kill" /\ s_fs_info => eWq # NULL
  /\ at \in {"path", "alloc", "shutdown", "unmounted"} => wqs = {}
  /\ mem["sbi"] # "live" => wqs = {}

-----------------------------------------------------------------------------
LEMMA ConstructionStep ==
  ASSUME TypeOK, Construction, [Next]_vars PROVE Construction'

<1>1. CASE Mount
  <2>1. CASE kern_path
    BY <2>1 DEF kern_path, Then, MayFail, thread, queues, records,
        Construction, Refs, Stacked, HalfBuilt, Tracing, TypeOK, Counts,
        Objects
  <2>2. CASE Allocate
    BY <2>2 DEF Allocate, Then, MayFail, history, Construction, Refs,
        Stacked, HalfBuilt, Tracing, TypeOK, Counts, Objects
  <2>3. CASE AllocateFails
    BY <2>3 DEF AllocateFails, MayFail, Oops, super, thread, queues, records,
        history, Construction, Refs, Stacked, HalfBuilt, Tracing, TypeOK,
        Counts, Objects
  <2>4. CASE filp_open
    BY <2>4 DEF filp_open, Then, super, thread, queues, history,
        Construction, Refs, Stacked, HalfBuilt, Tracing, TypeOK, Counts,
        Objects
  <2>5. CASE OpenFails
    BY <2>5 DEF OpenFails, Then, MayFail, thread, queues, records, history,
        Construction, Refs, Stacked, HalfBuilt, Tracing, TypeOK, Counts,
        Objects
  <2>6. CASE OptionMissing
    BY <2>6 DEF OptionMissing, MayFail, Oops, super, thread, queues, records,
        history, Construction, Refs, Stacked, HalfBuilt, Tracing, TypeOK,
        Counts, Objects
  <2>7. CASE trfs_iget
    <3>1. refs = [r \in Counts |-> IF r = "path" THEN 1 ELSE 0]
      BY <2>7 DEF trfs_iget, Then, Construction, Refs
    <3>2. refs' = [r \in Counts |-> 1]
      <4>1. refs' \in [Counts -> Int]
        BY <2>7, <3>1 DEF trfs_iget, Counts
      <4>2. \A r \in Counts : refs'[r] = 1
        BY <2>7, <3>1 DEF trfs_iget, Counts
      <4> QED
        BY <4>1, <4>2
    <3>3. at = "super" /\ at' = "root" /\ UNCHANGED <<mem, s_fs_info, s_root>>
      BY <2>7 DEF trfs_iget, Then
    <3> QED
      BY <3>2, <3>3 DEF Construction, Refs, Tracing
  <2>8. CASE IgetFails
    BY <2>8 DEF IgetFails, Then, MayFail, out_sput, thread, queues, records,
        history, Construction, Refs, Stacked, HalfBuilt, Tracing, TypeOK,
        Counts, Objects
  <2>9. CASE d_make_root
    BY <2>9 DEF d_make_root, Then, thread, queues, records, history,
        Construction, Refs, Stacked, HalfBuilt, Tracing, TypeOK, Counts,
        Objects
  <2>10. CASE MakeRootFails
    BY <2>10 DEF MakeRootFails, Then, MayFail, out_sput, thread, queues,
        records, history, Construction, Refs, Stacked, HalfBuilt, Tracing,
        TypeOK, Counts, Objects
  <2>11. CASE new_dentry_private_data
    BY <2>11 DEF new_dentry_private_data, Then, super, thread, queues,
        records, history, Construction, Refs, Stacked, HalfBuilt, Tracing,
        TypeOK, Counts, Objects
  <2>12. CASE PrivateDataFails
    BY <2>12 DEF PrivateDataFails, MayFail, Oops, thread, queues, records,
        history, Construction, Refs, Stacked, HalfBuilt, Tracing, TypeOK,
        Counts, Objects
  <2>13. CASE trfs_mount
    BY <2>13 DEF trfs_mount, Then, MayFail, super, thread, queues, records,
        Construction, Refs, Stacked, HalfBuilt, Tracing, TypeOK, Counts,
        Objects
  <2> QED
    BY <1>1, <2>1, <2>2, <2>3, <2>4, <2>5, <2>6, <2>7, <2>8, <2>9, <2>10, <2>11, <2>12,
      <2>13 DEF Mount
<1>2. CASE kthread_stop
  BY <1>2 DEF kthread_stop, Oops, super, queues, records, Elements,
      Unhandled, Construction, Refs, Stacked, HalfBuilt, Tracing, TypeOK,
      Counts, Objects
<1>3. CASE FinishUmount
  <2>1. CASE Joined
    BY <2>1 DEF Joined, Then, Goto, super, thread, queues, records, history,
        Construction, Refs, Stacked, HalfBuilt, Tracing, TypeOK, Counts,
        Objects
  <2>2. CASE UmountLock
    BY <2>2 DEF UmountLock, Then, super, thread, queues, records, history,
        Construction, Refs, Stacked, HalfBuilt, Tracing, TypeOK, Counts,
        Objects
  <2>3. CASE UmountWrite
    BY <2>3 DEF UmountWrite, FileWrite, Oops, super, thread, queues, records, history,
        Construction, Refs, Stacked, HalfBuilt, Tracing, TypeOK, Counts,
        Objects
  <2>4. CASE filp_close
    BY <2>4 DEF filp_close, Then, super, thread, queues, records, history,
        Construction, Refs, Stacked, HalfBuilt, Tracing, TypeOK, Counts,
        Objects
  <2>5. CASE FreeTraceInfo
    BY <2>5 DEF FreeTraceInfo, Then, super, thread, queues, records, history,
        Construction, Refs, Stacked, HalfBuilt, Tracing, TypeOK, Counts,
        Objects
  <2>6. CASE destroy_workqueue
    BY <2>6 DEF destroy_workqueue, Then, Goto, super, thread, records,
        history, Construction, Refs, Stacked, HalfBuilt, Tracing, TypeOK,
        Counts, Objects
  <2>7. CASE generic_shutdown_super
    BY <2>7 DEF generic_shutdown_super, Then, thread, queues, records,
        history, Construction, Refs, Stacked, HalfBuilt, Tracing, TypeOK,
        Counts, Objects
  <2> QED
    BY <1>3, <2>1, <2>2, <2>3, <2>4, <2>5, <2>6, <2>7 DEF FinishUmount
<1>4. ASSUME NEW c \in Callers, Submit(c) PROVE Construction'
  <2>1. CASE eworkqueue_init(c)
    BY <2>1 DEF eworkqueue_init, super, thread, queues, records,
        Construction, Refs, Stacked, HalfBuilt, Tracing, TypeOK, Counts,
        Objects
  <2>2. CASE CreateWorkqueue(c)
    BY <2>2 DEF CreateWorkqueue, MayFail, super, thread, records, history,
        Construction, Refs, Stacked, HalfBuilt, Tracing, TypeOK, Counts,
        Objects
  <2>3. CASE queue_work(c)
    BY <2>3 DEF queue_work, super, thread, records, history, Construction,
        Refs, Stacked, HalfBuilt, Tracing, TypeOK, Counts, Objects
  <2> QED
    BY <1>4, <2>1, <2>2, <2>3 DEF Submit
<1>5. CASE LoggerStep
  <2>1. CASE kthread_should_stop
    BY <2>1 DEF kthread_should_stop, Goto, super, thread, queues, records,
        history, Construction, Refs, Stacked, HalfBuilt, Tracing, TypeOK,
        Counts, Objects
  <2>2. CASE Look
    BY <2>2 DEF Look, Goto, super, thread, queues, records, history,
        Construction, Refs, Stacked, HalfBuilt, Tracing, TypeOK, Counts,
        Objects
  <2>3. CASE ssleep
    BY <2>3 DEF ssleep, Goto, super, thread, queues, records, history,
        Construction, Refs, Stacked, HalfBuilt, Tracing, TypeOK, Counts,
        Objects
  <2>4. CASE mutex_lock(Logger)
    BY <2>4 DEF mutex_lock, Goto, super, thread, queues, records, history,
        Construction, Refs, Stacked, HalfBuilt, Tracing, TypeOK, Counts,
        Objects
  <2>5. CASE FlushAll
    BY <2>5 DEF FlushAll, Goto, FileWrite, super, thread, queues, history,
        Construction, Refs, Stacked, HalfBuilt, Tracing, TypeOK, Counts,
        Objects
  <2>6. CASE mutex_unlock(Logger)
    BY <2>6 DEF mutex_unlock, Goto, super, thread, queues, records, history,
        Construction, Refs, Stacked, HalfBuilt, Tracing, TypeOK, Counts,
        Objects
  <2>7. CASE Crash(Logger)
    BY <2>7 DEF Crash, Full, UsesFreed, LogSteps, super, thread, queues,
        records, history, Construction, Refs, Stacked, HalfBuilt, Tracing,
        TypeOK, Counts, Objects
  <2> QED
    BY <1>5, <2>1, <2>2, <2>3, <2>4, <2>5, <2>6, <2>7 DEF LoggerStep
<1>6. ASSUME NEW w \in Workqueues, WorkerStep(w) PROVE Construction'
  <2>1. CASE TakeWork(w)
    BY <2>1 DEF TakeWork, Goto, super, thread, records, history,
        Construction, Refs, Stacked, HalfBuilt, Tracing, TypeOK, Counts,
        Objects
  <2>2. CASE CheckBit(w)
    BY <2>2 DEF CheckBit, Goto, super, thread, queues, records, history,
        Construction, Refs, Stacked, HalfBuilt, Tracing, TypeOK, Counts,
        Objects
  <2>3. CASE mutex_lock(w)
    BY <2>3 DEF mutex_lock, Goto, super, thread, queues, records, history,
        Construction, Refs, Stacked, HalfBuilt, Tracing, TypeOK, Counts,
        Objects
  <2>4. CASE sync_log_record(w)
    BY <2>4 DEF sync_log_record, Goto, FileWrite, Full, super, thread,
        queues, history, Construction, Refs, Stacked, HalfBuilt, Tracing,
        TypeOK, Counts, Objects
  <2>5. CASE mutex_unlock(w)
    BY <2>5 DEF mutex_unlock, Goto, super, thread, queues, records, history,
        Construction, Refs, Stacked, HalfBuilt, Tracing, TypeOK, Counts,
        Objects
  <2>6. CASE FreeWork(w)
    BY <2>6 DEF FreeWork, Goto, super, thread, queues, records, history,
        Construction, Refs, Stacked, HalfBuilt, Tracing, TypeOK, Counts,
        Objects
  <2>7. CASE Crash(w)
    BY <2>7 DEF Crash, Full, UsesFreed, LogSteps, super, thread, queues,
        records, history, Construction, Refs, Stacked, HalfBuilt, Tracing,
        TypeOK, Counts, Objects
  <2> QED
    BY <1>6, <2>1, <2>2, <2>3, <2>4, <2>5, <2>6, <2>7 DEF WorkerStep
<1>7. CASE UNCHANGED vars
  BY <1>7 DEF vars, super, thread, queues, records, history, Construction,
      Refs, Stacked, HalfBuilt, Tracing, TypeOK, Counts, Objects
<1> QED
  BY <1>1, <1>2, <1>3, <1>4, <1>5, <1>6, <1>7 DEF Next

LEMMA UnhandledType == ASSUME TypeOK PROVE Unhandled \in SUBSET Nat
<1>1. ASSUME NEW w \in Workqueues PROVE Elements(work[w]) \cup ({arg[w]} \ {0}) \in SUBSET Nat
  <2>1. work[w] \in Seq(Nat) /\ arg[w] \in Nat
    BY DEF TypeOK, Threads
  <2> QED
    BY <2>1 DEF Elements
<1> QED
  BY <1>1 DEF Unhandled

(* A failed or short write adds a prefix of the buffer to the file.        *)
LEMMA FileWriteType == ASSUME TypeOK, FileWrite PROVE file' \in Seq(Nat)
<1>1. file \in Seq(Nat) /\ buffer \in Seq(Nat)
  BY DEF TypeOK
<1>2. \A n \in 0 .. Len(buffer) : SubSeq(buffer, 1, n) \in Seq(Nat)
  BY <1>1
<1>3. CASE file' = file \o buffer
  BY <1>1, <1>3
<1>4. CASE \E n \in 0 .. Len(buffer) : file' = file \o SubSeq(buffer, 1, n)
  BY <1>1, <1>2, <1>4
<1> QED
  BY <1>3, <1>4 DEF FileWrite

LEMMA TypeStep ==
  ASSUME TypeOK, Construction, ThreadsLife, [Next]_vars PROVE TypeOK'
<1> USE ThreadsAssumption, BoundsAssumption DEF Threads
<1>1. CASE Mount
  <2>1. CASE kern_path
    <3>1. refs = [r \in Counts |-> 0]
      BY <2>1 DEF kern_path, Then, Construction, Refs
    <3>2. refs' \in [Counts -> -1 .. 1]
      BY <2>1, <3>1 DEF kern_path, Counts
    <3> QED
      BY <2>1, <3>2 DEF kern_path, Then, thread, queues, records, history, TypeOK,
          MountSteps, UmountSteps
  <2>2. CASE Allocate
    <3>1. PICK q \in (Workqueues \ wqs) \cup {NULL}, t \in {"task", "error"} :
            /\ eWq' = q /\ wqs' = wqs \cup ({q} \ {NULL}) /\ thread_st' = t
            /\ pc' = [u \in Threads |-> IF u = q THEN "idle"
                                       ELSE IF u = Logger /\ t = "task" THEN "test"
                                       ELSE pc[u]]
      BY <2>2 DEF Allocate, MayFail
    <3>2. pc' \in [Threads -> LogSteps \cup {"none", "idle", "create", "queue", "test",
                                             "sleep", "exit", "free", "dead"}]
      BY <3>1 DEF TypeOK
    <3>3. eWq' \in Workqueues \cup {NULL} /\ wqs' \subseteq Workqueues
          /\ thread_st' \in {"null", "task", "error"}
      BY <3>1 DEF TypeOK
    <3>4. mem' \in [Objects -> {"none", "live", "freed"}]
      BY <2>2 DEF Allocate, TypeOK
    <3>5. buffer' \in Seq(Nat) /\ lock' = NoOne /\ stop' = FALSE /\ s_fs_info' = TRUE
      BY <2>2 DEF Allocate
    <3>6. UNCHANGED <<s_root, refs, arg, work, file, queued, pending>> /\ at' = "open"
      BY <2>2 DEF Allocate, Then, history
    <3> QED
      BY <3>2, <3>3, <3>4, <3>5, <3>6 DEF TypeOK, MountSteps
  <2>3. CASE AllocateFails
    BY <2>3 DEF AllocateFails, MayFail, Oops, super, thread, queues, records,
        history, TypeOK, Construction, Refs, Stacked, MountSteps,
        UmountSteps, LogSteps, Counts, Objects
  <2>4. CASE filp_open
    BY <2>4 DEF filp_open, Then, super, thread, queues, history, TypeOK,
        Construction, Refs, Stacked, MountSteps, UmountSteps, LogSteps,
        Counts, Objects
  <2>5. CASE OpenFails
    BY <2>5 DEF OpenFails, Then, MayFail, thread, queues, records, history,
        TypeOK, Construction, Refs, Stacked, MountSteps, UmountSteps,
        LogSteps, Counts, Objects
  <2>6. CASE OptionMissing
    BY <2>6 DEF OptionMissing, MayFail, Oops, super, thread, queues, records,
        history, TypeOK, Construction, Refs, Stacked, MountSteps,
        UmountSteps, LogSteps, Counts, Objects
  <2>7. CASE trfs_iget
    <3>1. refs = [r \in Counts |-> IF r = "path" THEN 1 ELSE 0]
      BY <2>7 DEF trfs_iget, Then, Construction, Refs
    <3>2. refs' \in [Counts -> -1 .. 1]
      BY <2>7, <3>1 DEF trfs_iget, Counts
    <3> QED
      BY <2>7, <3>2 DEF trfs_iget, Then, thread, queues, records, history, TypeOK,
          MountSteps
  <2>8. CASE IgetFails
    BY <2>8 DEF IgetFails, Then, MayFail, out_sput, thread, queues, records,
        history, TypeOK, Construction, Refs, Stacked, MountSteps,
        UmountSteps, LogSteps, Counts, Objects
  <2>9. CASE d_make_root
    BY <2>9 DEF d_make_root, Then, thread, queues, records, history, TypeOK,
        Construction, Refs, Stacked, MountSteps, UmountSteps, LogSteps,
        Counts, Objects
  <2>10. CASE MakeRootFails
    <3>1. refs = [r \in Counts |-> 1]
      BY <2>10 DEF MakeRootFails, Then, Construction, Refs
    <3>2. refs' \in [Counts -> -1 .. 1]
      BY <2>10, <3>1 DEF MakeRootFails, out_sput, Counts
    <3> QED
      BY <2>10, <3>2 DEF MakeRootFails, Then, out_sput, thread, queues, records, history,
          TypeOK, UmountSteps, Objects
  <2>11. CASE new_dentry_private_data
    BY <2>11 DEF new_dentry_private_data, Then, super, thread, queues,
        records, history, TypeOK, Construction, Refs, Stacked, MountSteps,
        UmountSteps, LogSteps, Counts, Objects
  <2>12. CASE PrivateDataFails
    BY <2>12 DEF PrivateDataFails, MayFail, Oops, thread, queues, records,
        history, TypeOK, Construction, Refs, Stacked, MountSteps,
        UmountSteps, LogSteps, Counts, Objects
  <2>13. CASE trfs_mount
    <3>1. PICK o \in {"live", "none"} :
            mem' = [mem EXCEPT !["opt"] = "live", !["s_dev"] = "live", !["option"] = o]
      BY <2>13 DEF trfs_mount
    <3>2. mem' \in [Objects -> {"none", "live", "freed"}]
      BY <3>1 DEF TypeOK
    <3>3. at' = "path" /\ queued' = 0 /\ pending' = {}
      BY <2>13 DEF trfs_mount, Then
    <3>4. UNCHANGED <<super, thread, pc, arg, queues, lock, records>>
      BY <2>13 DEF trfs_mount
    <3> QED
      BY <3>2, <3>3, <3>4 DEF super, thread, queues, records, TypeOK, MountSteps
  <2> QED
    BY <1>1, <2>1, <2>2, <2>3, <2>4, <2>5, <2>6, <2>7, <2>8, <2>9, <2>10, <2>11, <2>12,
      <2>13 DEF Mount
<1>2. CASE kthread_stop
  <2>1. at' \in {"join", "oops"} /\ stop' \in BOOLEAN
    BY <1>2 DEF kthread_stop, Oops, TypeOK
  <2>2. pending' \in SUBSET Nat
    BY <1>2, UnhandledType DEF kthread_stop
  <2> QED
    BY <1>2, <2>1, <2>2 DEF kthread_stop, super, queues, records, TypeOK, UmountSteps
<1>3. CASE FinishUmount
  <2>1. CASE Joined
    BY <2>1 DEF Joined, Then, Goto, super, thread, queues, records, history,
        TypeOK, Construction, Refs, Stacked, MountSteps, UmountSteps,
        LogSteps, Counts, Objects
  <2>2. CASE UmountLock
    BY <2>2 DEF UmountLock, Then, super, thread, queues, records, history,
        TypeOK, Construction, Refs, Stacked, MountSteps, UmountSteps,
        LogSteps, Counts, Objects
  <2>3. CASE UmountWrite
    <3>1. (FileWrite => file' \in Seq(Nat)) /\ <<>> \in Seq(Nat)
      BY FileWriteType
    <3>2. file' \in Seq(Nat) /\ buffer' \in Seq(Nat)
      <4>1. (FileWrite /\ buffer' = <<>>) \/ UNCHANGED records
        BY <2>3 DEF UmountWrite
      <4> QED
        BY <3>1, <4>1 DEF records, TypeOK
    <3>3. at' \in {"close", "oops"} /\ lock' \in {lock, NoOne}
      BY <2>3 DEF UmountWrite, Oops
    <3> QED
      BY <2>3, <3>2, <3>3 DEF UmountWrite, super, thread, queues, history, TypeOK, UmountSteps
  <2>4. CASE filp_close
    BY <2>4 DEF filp_close, Then, super, thread, queues, records, history,
        TypeOK, Construction, Refs, Stacked, MountSteps, UmountSteps,
        LogSteps, Counts, Objects
  <2>5. CASE FreeTraceInfo
    BY <2>5 DEF FreeTraceInfo, Then, super, thread, queues, records, history,
        TypeOK, Construction, Refs, Stacked, MountSteps, UmountSteps,
        LogSteps, Counts, Objects
  <2>6. CASE destroy_workqueue
    BY <2>6 DEF destroy_workqueue, Then, Goto, super, thread, records,
        history, TypeOK, Construction, Refs, Stacked, MountSteps,
        UmountSteps, LogSteps, Counts, Objects
  <2>7. CASE generic_shutdown_super
    <3>1. refs = [r \in Counts |-> 1]
      BY <2>7 DEF generic_shutdown_super, Then, Construction, Stacked, Refs
    <3>2. refs' \in [Counts -> -1 .. 1]
      BY <2>7, <3>1 DEF generic_shutdown_super
    <3> QED
      BY <2>7, <3>2 DEF generic_shutdown_super, Then, thread, queues, records, history,
          TypeOK, MountSteps, Objects
  <2> QED
    BY <1>3, <2>1, <2>2, <2>3, <2>4, <2>5, <2>6, <2>7 DEF FinishUmount
<1>4. ASSUME NEW c \in Callers, Submit(c) PROVE TypeOK'
  <2>1. CASE eworkqueue_init(c)
    BY <2>1 DEF eworkqueue_init, super, thread, queues, records, TypeOK,
        Construction, Refs, Stacked, MountSteps, UmountSteps, LogSteps,
        Counts, Objects
  <2>2. CASE CreateWorkqueue(c)
    <3>1. PICK q \in Workqueues \cup {NULL} :
            /\ eWq' = q /\ wqs' \in {wqs, wqs \cup {q}} /\ (q = NULL => wqs' = wqs)
            /\ pc' \in {[pc EXCEPT ![c] = "queue", ![q] = "idle"],
                       [pc EXCEPT ![c] = "queue"]}
      BY <2>2 DEF CreateWorkqueue
    <3>2. pc' \in [Threads -> LogSteps \cup {"none", "idle", "create", "queue", "test",
                                             "sleep", "exit", "free", "dead"}]
      BY <3>1 DEF TypeOK
    <3>3. eWq' \in Workqueues \cup {NULL} /\ wqs' \subseteq Workqueues
      BY <3>1 DEF TypeOK
    <3> QED
      BY <2>2, <3>2, <3>3 DEF CreateWorkqueue, super, thread, records, history, TypeOK
  <2>3. CASE queue_work(c)
    BY <2>3 DEF queue_work, super, thread, records, history, TypeOK,
        Construction, Refs, Stacked, MountSteps, UmountSteps, LogSteps,
        Counts, Objects
  <2> QED
    BY <1>4, <2>1, <2>2, <2>3 DEF Submit
<1>5. CASE LoggerStep
  <2>1. CASE kthread_should_stop
    BY <2>1 DEF kthread_should_stop, Goto, super, thread, queues, records,
        history, TypeOK, Construction, Refs, Stacked, MountSteps,
        UmountSteps, LogSteps, Counts, Objects
  <2>2. CASE Look
    BY <2>2 DEF Look, Goto, super, thread, queues, records, history, TypeOK,
        Construction, Refs, Stacked, MountSteps, UmountSteps, LogSteps,
        Counts, Objects
  <2>3. CASE ssleep
    BY <2>3 DEF ssleep, Goto, super, thread, queues, records, history,
        TypeOK, Construction, Refs, Stacked, MountSteps, UmountSteps,
        LogSteps, Counts, Objects
  <2>4. CASE mutex_lock(Logger)
    BY <2>4 DEF mutex_lock, Goto, super, thread, queues, records, history,
        TypeOK, Construction, Refs, Stacked, MountSteps, UmountSteps,
        LogSteps, Counts, Objects
  <2>5. CASE FlushAll
    <3>1. FileWrite => file' \in Seq(Nat)
      BY FileWriteType
    <3>2. file' \in Seq(Nat) /\ buffer' \in Seq(Nat)
      BY <2>5, <3>1 DEF FlushAll
    <3> QED
      BY <2>5, <3>2 DEF FlushAll, Goto, super, thread, queues, history, TypeOK, LogSteps
  <2>6. CASE mutex_unlock(Logger)
    BY <2>6 DEF mutex_unlock, Goto, super, thread, queues, records, history,
        TypeOK, Construction, Refs, Stacked, MountSteps, UmountSteps,
        LogSteps, Counts, Objects
  <2>7. CASE Crash(Logger)
    BY <2>7 DEF Crash, Full, UsesFreed, super, thread, queues, records,
        history, TypeOK, Construction, Refs, Stacked, MountSteps,
        UmountSteps, LogSteps, Counts, Objects
  <2> QED
    BY <1>5, <2>1, <2>2, <2>3, <2>4, <2>5, <2>6, <2>7 DEF LoggerStep
<1>6. ASSUME NEW w \in Workqueues, WorkerStep(w) PROVE TypeOK'
  <2>1. CASE TakeWork(w)
    <3>1. work[w] \in Seq(Nat) /\ work[w] # <<>>
      BY <2>1 DEF TakeWork, TypeOK
    <3>2. Head(work[w]) \in Nat /\ Tail(work[w]) \in Seq(Nat)
      BY <3>1
    <3>3. arg' \in [Threads -> Nat] /\ work' \in [Workqueues -> Seq(Nat)]
      BY <2>1, <3>2 DEF TakeWork, TypeOK
    <3> QED
      BY <2>1, <3>3 DEF TakeWork, Goto, super, thread, records, history, TypeOK, LogSteps
  <2>2. CASE CheckBit(w)
    <3>1. pc' \in {[pc EXCEPT ![w] = "lock"], [pc EXCEPT ![w] = "free"]}
      BY <2>2 DEF CheckBit, Goto
    <3> QED
      BY <2>2, <3>1 DEF CheckBit, super, thread, queues, records, history, TypeOK, LogSteps
  <2>3. CASE mutex_lock(w)
    BY <2>3 DEF mutex_lock, Goto, super, thread, queues, records, history,
        TypeOK, Construction, Refs, Stacked, MountSteps, UmountSteps,
        LogSteps, Counts, Objects
  <2>4. CASE sync_log_record(w)
    <3>1. arg[w] \in Nat
      BY DEF TypeOK
    <3>2. /\ FileWrite => file' \in Seq(Nat)
          /\ <<arg[w]>> \in Seq(Nat) /\ Append(buffer, arg[w]) \in Seq(Nat)
      BY <3>1, FileWriteType DEF TypeOK
    <3>3. file' \in Seq(Nat) /\ buffer' \in Seq(Nat)
      BY <2>4, <3>2 DEF sync_log_record, TypeOK
    <3> QED
      BY <2>4, <3>3 DEF sync_log_record, Goto, super, thread, queues, history, TypeOK, LogSteps
  <2>5. CASE mutex_unlock(w)
    BY <2>5 DEF mutex_unlock, Goto, super, thread, queues, records, history,
        TypeOK, Construction, Refs, Stacked, MountSteps, UmountSteps,
        LogSteps, Counts, Objects
  <2>6. CASE FreeWork(w)
    BY <2>6 DEF FreeWork, Goto, super, thread, queues, records, history,
        TypeOK, Construction, Refs, Stacked, MountSteps, UmountSteps,
        LogSteps, Counts, Objects
  <2>7. CASE Crash(w)
    BY <2>7 DEF Crash, Full, UsesFreed, super, thread, queues, records,
        history, TypeOK, Construction, Refs, Stacked, MountSteps,
        UmountSteps, LogSteps, Counts, Objects
  <2> QED
    BY <1>6, <2>1, <2>2, <2>3, <2>4, <2>5, <2>6, <2>7 DEF WorkerStep
<1>7. CASE UNCHANGED vars
  BY <1>7 DEF vars, super, thread, queues, records, history, TypeOK,
      Construction, Refs, Stacked, MountSteps, UmountSteps, LogSteps, Counts,
      Objects
<1> QED
  BY <1>1, <1>2, <1>3, <1>4, <1>5, <1>6, <1>7 DEF Next

LEMMA ThreadsStep ==
  ASSUME TypeOK, Construction, ThreadsLife, [Next]_vars PROVE ThreadsLife'
<1> USE ThreadsAssumption, BoundsAssumption DEF Threads
<1>1. CASE Mount
  <2>1. CASE kern_path
    BY <2>1 DEF kern_path, Then, MayFail, thread, queues, records,
        ThreadsLife, Quiet, TypeOK, Construction, Stacked, Tracing
  <2>2. CASE Allocate
    BY <2>2 DEF Allocate, Then, MayFail, history, ThreadsLife, Quiet, TypeOK,
        Construction, Stacked, Tracing
  <2>3. CASE AllocateFails
    BY <2>3 DEF AllocateFails, MayFail, Oops, super, thread, queues, records,
        history, ThreadsLife, Quiet, TypeOK, Construction, Stacked, Tracing
  <2>4. CASE filp_open
    BY <2>4 DEF filp_open, Then, super, thread, queues, history, ThreadsLife,
        Quiet, TypeOK, Construction, Stacked, Tracing
  <2>5. CASE OpenFails
    BY <2>5 DEF OpenFails, Then, MayFail, thread, queues, records, history,
        ThreadsLife, Quiet, TypeOK, Construction, Stacked, Tracing
  <2>6. CASE OptionMissing
    BY <2>6 DEF OptionMissing, MayFail, Oops, super, thread, queues, records,
        history, ThreadsLife, Quiet, TypeOK, Construction, Stacked, Tracing
  <2>7. CASE trfs_iget
    BY <2>7 DEF trfs_iget, Then, thread, queues, records, history,
        ThreadsLife, Quiet, TypeOK, Construction, Stacked, Tracing
  <2>8. CASE IgetFails
    BY <2>8 DEF IgetFails, Then, MayFail, out_sput, thread, queues, records,
        history, ThreadsLife, Quiet, TypeOK, Construction, Stacked, Tracing
  <2>9. CASE d_make_root
    BY <2>9 DEF d_make_root, Then, thread, queues, records, history,
        ThreadsLife, Quiet, TypeOK, Construction, Stacked, Tracing
  <2>10. CASE MakeRootFails
    BY <2>10 DEF MakeRootFails, Then, MayFail, out_sput, thread, queues,
        records, history, ThreadsLife, Quiet, TypeOK, Construction, Stacked,
        Tracing
  <2>11. CASE new_dentry_private_data
    BY <2>11 DEF new_dentry_private_data, Then, super, thread, queues,
        records, history, ThreadsLife, Quiet, TypeOK, Construction, Stacked,
        Tracing
  <2>12. CASE PrivateDataFails
    BY <2>12 DEF PrivateDataFails, MayFail, Oops, thread, queues, records,
        history, ThreadsLife, Quiet, TypeOK, Construction, Stacked, Tracing
  <2>13. CASE trfs_mount
    BY <2>13 DEF trfs_mount, Then, MayFail, super, thread, queues, records,
        ThreadsLife, Quiet, TypeOK, Construction, Stacked, Tracing
  <2> QED
    BY <1>1, <2>1, <2>2, <2>3, <2>4, <2>5, <2>6, <2>7, <2>8, <2>9, <2>10, <2>11, <2>12,
      <2>13 DEF Mount
<1>2. CASE kthread_stop
  BY <1>2 DEF kthread_stop, Oops, super, queues, records, Elements,
      Unhandled, ThreadsLife, Quiet, TypeOK, Construction, Stacked, Tracing
<1>3. CASE FinishUmount
  <2>1. CASE Joined
    BY <2>1 DEF Joined, Then, Goto, super, thread, queues, records, history,
        ThreadsLife, Quiet, TypeOK, Construction, Stacked, Tracing
  <2>2. CASE UmountLock
    BY <2>2 DEF UmountLock, Then, super, thread, queues, records, history,
        ThreadsLife, Quiet, TypeOK, Construction, Stacked, Tracing
  <2>3. CASE UmountWrite
    BY <2>3 DEF UmountWrite, FileWrite, Oops, super, thread, queues, records, history,
        ThreadsLife, Quiet, TypeOK, Construction, Stacked, Tracing
  <2>4. CASE filp_close
    BY <2>4 DEF filp_close, Then, super, thread, queues, records, history,
        ThreadsLife, Quiet, TypeOK, Construction, Stacked, Tracing
  <2>5. CASE FreeTraceInfo
    BY <2>5 DEF FreeTraceInfo, Then, super, thread, queues, records, history,
        ThreadsLife, Quiet, TypeOK, Construction, Stacked, Tracing
  <2>6. CASE destroy_workqueue
    BY <2>6 DEF destroy_workqueue, Then, Goto, super, thread, records,
        history, ThreadsLife, Quiet, TypeOK, Construction, Stacked, Tracing
  <2>7. CASE generic_shutdown_super
    BY <2>7 DEF generic_shutdown_super, Then, thread, queues, records,
        history, ThreadsLife, Quiet, TypeOK, Construction, Stacked, Tracing
  <2> QED
    BY <1>3, <2>1, <2>2, <2>3, <2>4, <2>5, <2>6, <2>7 DEF FinishUmount
<1>4. ASSUME NEW c \in Callers, Submit(c) PROVE ThreadsLife'
  <2>1. CASE eworkqueue_init(c)
    BY <2>1 DEF eworkqueue_init, super, thread, queues, records, ThreadsLife,
        Quiet, TypeOK, Construction, Stacked, Tracing
  <2>2. CASE CreateWorkqueue(c)
    BY <2>2 DEF CreateWorkqueue, MayFail, super, thread, records, history,
        ThreadsLife, Quiet, TypeOK, Construction, Stacked, Tracing
  <2>3. CASE queue_work(c)
    BY <2>3 DEF queue_work, super, thread, records, history, ThreadsLife,
        Quiet, TypeOK, Construction, Stacked, Tracing
  <2> QED
    BY <1>4, <2>1, <2>2, <2>3 DEF Submit
<1>5. CASE LoggerStep
  <2>1. CASE kthread_should_stop
    BY <2>1 DEF kthread_should_stop, Goto, super, thread, queues, records,
        history, ThreadsLife, Quiet, TypeOK, Construction, Stacked, Tracing
  <2>2. CASE Look
    BY <2>2 DEF Look, Goto, super, thread, queues, records, history,
        ThreadsLife, Quiet, TypeOK, Construction, Stacked, Tracing
  <2>3. CASE ssleep
    BY <2>3 DEF ssleep, Goto, super, thread, queues, records, history,
        ThreadsLife, Quiet, TypeOK, Construction, Stacked, Tracing
  <2>4. CASE mutex_lock(Logger)
    BY <2>4 DEF mutex_lock, Goto, super, thread, queues, records, history,
        ThreadsLife, Quiet, TypeOK, Construction, Stacked, Tracing
  <2>5. CASE FlushAll
    BY <2>5 DEF FlushAll, Goto, FileWrite, super, thread, queues, history,
        ThreadsLife, Quiet, TypeOK, Construction, Stacked, Tracing
  <2>6. CASE mutex_unlock(Logger)
    BY <2>6 DEF mutex_unlock, Goto, super, thread, queues, records, history,
        ThreadsLife, Quiet, TypeOK, Construction, Stacked, Tracing
  <2>7. CASE Crash(Logger)
    BY <2>7 DEF Crash, Full, UsesFreed, LogSteps, super, thread, queues,
        records, history, ThreadsLife, Quiet, TypeOK, Construction, Stacked,
        Tracing
  <2> QED
    BY <1>5, <2>1, <2>2, <2>3, <2>4, <2>5, <2>6, <2>7 DEF LoggerStep
<1>6. ASSUME NEW w \in Workqueues, WorkerStep(w) PROVE ThreadsLife'
  <2>1. CASE TakeWork(w)
    BY <2>1 DEF TakeWork, Goto, super, thread, records, history, ThreadsLife,
        Quiet, TypeOK, Construction, Stacked, Tracing
  <2>2. CASE CheckBit(w)
    BY <2>2 DEF CheckBit, Goto, super, thread, queues, records, history,
        ThreadsLife, Quiet, TypeOK, Construction, Stacked, Tracing
  <2>3. CASE mutex_lock(w)
    BY <2>3 DEF mutex_lock, Goto, super, thread, queues, records, history,
        ThreadsLife, Quiet, TypeOK, Construction, Stacked, Tracing
  <2>4. CASE sync_log_record(w)
    BY <2>4 DEF sync_log_record, Goto, FileWrite, Full, super, thread,
        queues, history, ThreadsLife, Quiet, TypeOK, Construction, Stacked,
        Tracing
  <2>5. CASE mutex_unlock(w)
    BY <2>5 DEF mutex_unlock, Goto, super, thread, queues, records, history,
        ThreadsLife, Quiet, TypeOK, Construction, Stacked, Tracing
  <2>6. CASE FreeWork(w)
    BY <2>6 DEF FreeWork, Goto, super, thread, queues, records, history,
        ThreadsLife, Quiet, TypeOK, Construction, Stacked, Tracing
  <2>7. CASE Crash(w)
    BY <2>7 DEF Crash, Full, UsesFreed, LogSteps, super, thread, queues,
        records, history, ThreadsLife, Quiet, TypeOK, Construction, Stacked,
        Tracing
  <2> QED
    BY <1>6, <2>1, <2>2, <2>3, <2>4, <2>5, <2>6, <2>7 DEF WorkerStep
<1>7. CASE UNCHANGED vars
  BY <1>7 DEF vars, super, thread, queues, records, history, ThreadsLife,
      Quiet, TypeOK, Construction, Stacked, Tracing
<1> QED
  BY <1>1, <1>2, <1>3, <1>4, <1>5, <1>6, <1>7 DEF Next

LEMMA LockStep ==
  ASSUME TypeOK, ThreadsLife, LockLife, [Next]_vars PROVE LockLife'
<1> USE ThreadsAssumption, BoundsAssumption DEF Threads
<1>1. CASE Mount
  <2>1. CASE kern_path
    BY <2>1 DEF kern_path, Then, MayFail, thread, queues, records, LockLife,
        ThreadsLife, TypeOK
  <2>2. CASE Allocate
    BY <2>2 DEF Allocate, Then, MayFail, history, LockLife, ThreadsLife,
        TypeOK
  <2>3. CASE AllocateFails
    BY <2>3 DEF AllocateFails, MayFail, Oops, super, thread, queues, records,
        history, LockLife, ThreadsLife, TypeOK
  <2>4. CASE filp_open
    BY <2>4 DEF filp_open, Then, super, thread, queues, history, LockLife,
        ThreadsLife, TypeOK
  <2>5. CASE OpenFails
    BY <2>5 DEF OpenFails, Then, MayFail, thread, queues, records, history,
        LockLife, ThreadsLife, TypeOK
  <2>6. CASE OptionMissing
    BY <2>6 DEF OptionMissing, MayFail, Oops, super, thread, queues, records,
        history, LockLife, ThreadsLife, TypeOK
  <2>7. CASE trfs_iget
    BY <2>7 DEF trfs_iget, Then, thread, queues, records, history, LockLife,
        ThreadsLife, TypeOK
  <2>8. CASE IgetFails
    BY <2>8 DEF IgetFails, Then, MayFail, out_sput, thread, queues, records,
        history, LockLife, ThreadsLife, TypeOK
  <2>9. CASE d_make_root
    BY <2>9 DEF d_make_root, Then, thread, queues, records, history,
        LockLife, ThreadsLife, TypeOK
  <2>10. CASE MakeRootFails
    BY <2>10 DEF MakeRootFails, Then, MayFail, out_sput, thread, queues,
        records, history, LockLife, ThreadsLife, TypeOK
  <2>11. CASE new_dentry_private_data
    BY <2>11 DEF new_dentry_private_data, Then, super, thread, queues,
        records, history, LockLife, ThreadsLife, TypeOK
  <2>12. CASE PrivateDataFails
    BY <2>12 DEF PrivateDataFails, MayFail, Oops, thread, queues, records,
        history, LockLife, ThreadsLife, TypeOK
  <2>13. CASE trfs_mount
    BY <2>13 DEF trfs_mount, Then, MayFail, super, thread, queues, records, LockLife,
        ThreadsLife, TypeOK
  <2> QED
    BY <1>1, <2>1, <2>2, <2>3, <2>4, <2>5, <2>6, <2>7, <2>8, <2>9, <2>10, <2>11, <2>12,
      <2>13 DEF Mount
<1>2. CASE kthread_stop
  BY <1>2 DEF kthread_stop, Oops, super, queues, records, Elements,
      Unhandled, LockLife, ThreadsLife, TypeOK
<1>3. CASE FinishUmount
  <2>1. CASE Joined
    BY <2>1 DEF Joined, Then, Goto, super, thread, queues, records, history,
        LockLife, ThreadsLife, TypeOK
  <2>2. CASE UmountLock
    BY <2>2 DEF UmountLock, Then, super, thread, queues, records, history,
        LockLife, ThreadsLife, TypeOK
  <2>3. CASE UmountWrite
    BY <2>3 DEF UmountWrite, FileWrite, Oops, super, thread, queues, records, history,
        LockLife, ThreadsLife, TypeOK
  <2>4. CASE filp_close
    BY <2>4 DEF filp_close, Then, super, thread, queues, records, history,
        LockLife, ThreadsLife, TypeOK
  <2>5. CASE FreeTraceInfo
    BY <2>5 DEF FreeTraceInfo, Then, super, thread, queues, records, history,
        LockLife, ThreadsLife, TypeOK
  <2>6. CASE destroy_workqueue
    BY <2>6 DEF destroy_workqueue, Then, Goto, super, thread, records,
        history, LockLife, ThreadsLife, TypeOK
  <2>7. CASE generic_shutdown_super
    BY <2>7 DEF generic_shutdown_super, Then, thread, queues, records,
        history, LockLife, ThreadsLife, TypeOK
  <2> QED
    BY <1>3, <2>1, <2>2, <2>3, <2>4, <2>5, <2>6, <2>7 DEF FinishUmount
<1>4. ASSUME NEW c \in Callers, Submit(c) PROVE LockLife'
  <2>1. CASE eworkqueue_init(c)
    BY <2>1 DEF eworkqueue_init, super, thread, queues, records, LockLife,
        ThreadsLife, TypeOK
  <2>2. CASE CreateWorkqueue(c)
    BY <2>2 DEF CreateWorkqueue, MayFail, super, thread, records, history,
        LockLife, ThreadsLife, TypeOK
  <2>3. CASE queue_work(c)
    BY <2>3 DEF queue_work, super, thread, records, history, LockLife,
        ThreadsLife, TypeOK
  <2> QED
    BY <1>4, <2>1, <2>2, <2>3 DEF Submit
<1>5. CASE LoggerStep
  <2>1. CASE kthread_should_stop
    BY <2>1 DEF kthread_should_stop, Goto, super, thread, queues, records,
        history, LockLife, ThreadsLife, TypeOK
  <2>2. CASE Look
    BY <2>2 DEF Look, Goto, super, thread, queues, records, history,
        LockLife, ThreadsLife, TypeOK
  <2>3. CASE ssleep
    BY <2>3 DEF ssleep, Goto, super, thread, queues, records, history,
        LockLife, ThreadsLife, TypeOK
  <2>4. CASE mutex_lock(Logger)
    BY <2>4 DEF mutex_lock, Goto, super, thread, queues, records, history,
        LockLife, ThreadsLife, TypeOK
  <2>5. CASE FlushAll
    BY <2>5 DEF FlushAll, Goto, FileWrite, super, thread, queues, history,
        LockLife, ThreadsLife, TypeOK
  <2>6. CASE mutex_unlock(Logger)
    BY <2>6 DEF mutex_unlock, Goto, super, thread, queues, records, history,
        LockLife, ThreadsLife, TypeOK
  <2>7. CASE Crash(Logger)
    BY <2>7 DEF Crash, Full, UsesFreed, LogSteps, super, thread, queues,
        records, history, LockLife, ThreadsLife, TypeOK
  <2> QED
    BY <1>5, <2>1, <2>2, <2>3, <2>4, <2>5, <2>6, <2>7 DEF LoggerStep
<1>6. ASSUME NEW w \in Workqueues, WorkerStep(w) PROVE LockLife'
  <2>1. CASE TakeWork(w)
    BY <2>1 DEF TakeWork, Goto, super, thread, records, history, LockLife,
        ThreadsLife, TypeOK
  <2>2. CASE CheckBit(w)
    BY <2>2 DEF CheckBit, Goto, super, thread, queues, records, history,
        LockLife, ThreadsLife, TypeOK
  <2>3. CASE mutex_lock(w)
    BY <2>3 DEF mutex_lock, Goto, super, thread, queues, records, history,
        LockLife, ThreadsLife, TypeOK
  <2>4. CASE sync_log_record(w)
    BY <2>4 DEF sync_log_record, Goto, FileWrite, Full, super, thread,
        queues, history, LockLife, ThreadsLife, TypeOK
  <2>5. CASE mutex_unlock(w)
    BY <2>5 DEF mutex_unlock, Goto, super, thread, queues, records, history,
        LockLife, ThreadsLife, TypeOK
  <2>6. CASE FreeWork(w)
    BY <2>6 DEF FreeWork, Goto, super, thread, queues, records, history,
        LockLife, ThreadsLife, TypeOK
  <2>7. CASE Crash(w)
    BY <2>7 DEF Crash, Full, UsesFreed, LogSteps, super, thread, queues,
        records, history, LockLife, ThreadsLife, TypeOK
  <2> QED
    BY <1>6, <2>1, <2>2, <2>3, <2>4, <2>5, <2>6, <2>7 DEF WorkerStep
<1>7. CASE UNCHANGED vars
  BY <1>7 DEF vars, super, thread, queues, records, history, LockLife,
      ThreadsLife, TypeOK
<1> QED
  BY <1>1, <1>2, <1>3, <1>4, <1>5, <1>6, <1>7 DEF Next

(* What the callers must not suffer for the logger and the workers to find *)
(* what they use.                                                          *)
NoLateFailure == Faults \cap {"inode", "stale", "root"} = {}
QueueAtMount == "workqueue" \notin Faults

LEMMA LoggerLifeStep ==
  ASSUME NoLateFailure, TypeOK, Construction, ThreadsLife, LoggerLife, [Next]_vars PROVE LoggerLife'
<1> USE ThreadsAssumption, BoundsAssumption DEF Threads
<1>1. CASE Mount
  <2>1. CASE kern_path
    BY <2>1 DEF kern_path, Then, MayFail, thread, queues, records,
        LoggerLife, NoLateFailure, ThreadsLife, Quiet, Construction, Tracing,
        Stacked, HalfBuilt, TypeOK, Objects
  <2>2. CASE Allocate
    BY <2>2 DEF Allocate, Then, MayFail, history, LoggerLife, NoLateFailure,
        ThreadsLife, Quiet, Construction, Tracing, Stacked, HalfBuilt,
        TypeOK, Objects
  <2>3. CASE AllocateFails
    BY <2>3 DEF AllocateFails, MayFail, Oops, super, thread, queues, records,
        history, LoggerLife, NoLateFailure, ThreadsLife, Quiet, Construction,
        Tracing, Stacked, HalfBuilt, TypeOK, Objects
  <2>4. CASE filp_open
    BY <2>4 DEF filp_open, Then, super, thread, queues, history, LoggerLife,
        NoLateFailure, ThreadsLife, Quiet, Construction, Tracing, Stacked,
        HalfBuilt, TypeOK, Objects
  <2>5. CASE OpenFails
    BY <2>5 DEF OpenFails, Then, MayFail, thread, queues, records, history,
        LoggerLife, NoLateFailure, ThreadsLife, Quiet, Construction, Tracing,
        Stacked, HalfBuilt, TypeOK, Objects
  <2>6. CASE OptionMissing
    BY <2>6 DEF OptionMissing, MayFail, Oops, super, thread, queues, records,
        history, LoggerLife, NoLateFailure, ThreadsLife, Quiet, Construction,
        Tracing, Stacked, HalfBuilt, TypeOK, Objects
  <2>7. CASE trfs_iget
    BY <2>7 DEF trfs_iget, Then, thread, queues, records, history,
        LoggerLife, NoLateFailure, ThreadsLife, Quiet, Construction, Tracing,
        Stacked, HalfBuilt, TypeOK, Objects
  <2>8. CASE IgetFails
    BY <2>8 DEF IgetFails, Then, MayFail, out_sput, thread, queues, records,
        history, LoggerLife, NoLateFailure, ThreadsLife, Quiet, Construction,
        Tracing, Stacked, HalfBuilt, TypeOK, Objects
  <2>9. CASE d_make_root
    BY <2>9 DEF d_make_root, Then, thread, queues, records, history,
        LoggerLife, NoLateFailure, ThreadsLife, Quiet, Construction, Tracing,
        Stacked, HalfBuilt, TypeOK, Objects
  <2>10. CASE MakeRootFails
    BY <2>10 DEF MakeRootFails, Then, MayFail, out_sput, thread, queues,
        records, history, LoggerLife, NoLateFailure, ThreadsLife, Quiet,
        Construction, Tracing, Stacked, HalfBuilt, TypeOK, Objects
  <2>11. CASE new_dentry_private_data
    BY <2>11 DEF new_dentry_private_data, Then, super, thread, queues,
        records, history, LoggerLife, NoLateFailure, ThreadsLife, Quiet,
        Construction, Tracing, Stacked, HalfBuilt, TypeOK, Objects
  <2>12. CASE PrivateDataFails
    BY <2>12 DEF PrivateDataFails, MayFail, Oops, thread, queues, records,
        history, LoggerLife, NoLateFailure, ThreadsLife, Quiet, Construction,
        Tracing, Stacked, HalfBuilt, TypeOK, Objects
  <2>13. CASE trfs_mount
    BY <2>13 DEF trfs_mount, Then, MayFail, super, thread, queues, records,
        LoggerLife, NoLateFailure, ThreadsLife, Quiet, Construction, Tracing,
        Stacked, HalfBuilt, TypeOK, Objects
  <2> QED
    BY <1>1, <2>1, <2>2, <2>3, <2>4, <2>5, <2>6, <2>7, <2>8, <2>9, <2>10, <2>11, <2>12,
      <2>13 DEF Mount
<1>2. CASE kthread_stop
  BY <1>2 DEF kthread_stop, Oops, super, queues, records, Elements,
      Unhandled, LoggerLife, NoLateFailure, ThreadsLife, Quiet, Construction,
      Tracing, Stacked, HalfBuilt, TypeOK, Objects
<1>3. CASE FinishUmount
  <2>1. CASE Joined
    BY <2>1 DEF Joined, Then, Goto, super, thread, queues, records, history,
        LoggerLife, NoLateFailure, ThreadsLife, Quiet, Construction, Tracing,
        Stacked, HalfBuilt, TypeOK, Objects
  <2>2. CASE UmountLock
    BY <2>2 DEF UmountLock, Then, super, thread, queues, records, history,
        LoggerLife, NoLateFailure, ThreadsLife, Quiet, Construction, Tracing,
        Stacked, HalfBuilt, TypeOK, Objects
  <2>3. CASE UmountWrite
    BY <2>3 DEF UmountWrite, FileWrite, Oops, super, thread, queues, records, history,
        LoggerLife, NoLateFailure, ThreadsLife, Quiet, Construction, Tracing,
        Stacked, HalfBuilt, TypeOK, Objects
  <2>4. CASE filp_close
    BY <2>4 DEF filp_close, Then, super, thread, queues, records, history,
        LoggerLife, NoLateFailure, ThreadsLife, Quiet, Construction, Tracing,
        Stacked, HalfBuilt, TypeOK, Objects
  <2>5. CASE FreeTraceInfo
    BY <2>5 DEF FreeTraceInfo, Then, super, thread, queues, records, history,
        LoggerLife, NoLateFailure, ThreadsLife, Quiet, Construction, Tracing,
        Stacked, HalfBuilt, TypeOK, Objects
  <2>6. CASE destroy_workqueue
    BY <2>6 DEF destroy_workqueue, Then, Goto, super, thread, records,
        history, LoggerLife, NoLateFailure, ThreadsLife, Quiet, Construction,
        Tracing, Stacked, HalfBuilt, TypeOK, Objects
  <2>7. CASE generic_shutdown_super
    BY <2>7 DEF generic_shutdown_super, Then, thread, queues, records,
        history, LoggerLife, NoLateFailure, ThreadsLife, Quiet, Construction,
        Tracing, Stacked, HalfBuilt, TypeOK, Objects
  <2> QED
    BY <1>3, <2>1, <2>2, <2>3, <2>4, <2>5, <2>6, <2>7 DEF FinishUmount
<1>4. ASSUME NEW c \in Callers, Submit(c) PROVE LoggerLife'
  <2>1. CASE eworkqueue_init(c)
    BY <2>1 DEF eworkqueue_init, super, thread, queues, records, LoggerLife,
        NoLateFailure, ThreadsLife, Quiet, Construction, Tracing, Stacked,
        HalfBuilt, TypeOK, Objects
  <2>2. CASE CreateWorkqueue(c)
    BY <2>2 DEF CreateWorkqueue, MayFail, super, thread, records, history,
        LoggerLife, NoLateFailure, ThreadsLife, Quiet, Construction, Tracing,
        Stacked, HalfBuilt, TypeOK, Objects
  <2>3. CASE queue_work(c)
    BY <2>3 DEF queue_work, super, thread, records, history, LoggerLife,
        NoLateFailure, ThreadsLife, Quiet, Construction, Tracing, Stacked,
        HalfBuilt, TypeOK, Objects
  <2> QED
    BY <1>4, <2>1, <2>2, <2>3 DEF Submit
<1>5. CASE LoggerStep
  <2>1. CASE kthread_should_stop
    BY <2>1 DEF kthread_should_stop, Goto, super, thread, queues, records,
        history, LoggerLife, NoLateFailure, ThreadsLife, Quiet, Construction,
        Tracing, Stacked, HalfBuilt, TypeOK, Objects
  <2>2. CASE Look
    BY <2>2 DEF Look, Goto, super, thread, queues, records, history,
        LoggerLife, NoLateFailure, ThreadsLife, Quiet, Construction, Tracing,
        Stacked, HalfBuilt, TypeOK, Objects
  <2>3. CASE ssleep
    BY <2>3 DEF ssleep, Goto, super, thread, queues, records, history,
        LoggerLife, NoLateFailure, ThreadsLife, Quiet, Construction, Tracing,
        Stacked, HalfBuilt, TypeOK, Objects
  <2>4. CASE mutex_lock(Logger)
    BY <2>4 DEF mutex_lock, Goto, super, thread, queues, records, history,
        LoggerLife, NoLateFailure, ThreadsLife, Quiet, Construction, Tracing,
        Stacked, HalfBuilt, TypeOK, Objects
  <2>5. CASE FlushAll
    BY <2>5 DEF FlushAll, Goto, FileWrite, super, thread, queues, history,
        LoggerLife, NoLateFailure, ThreadsLife, Quiet, Construction, Tracing,
        Stacked, HalfBuilt, TypeOK, Objects
  <2>6. CASE mutex_unlock(Logger)
    BY <2>6 DEF mutex_unlock, Goto, super, thread, queues, records, history,
        LoggerLife, NoLateFailure, ThreadsLife, Quiet, Construction, Tracing,
        Stacked, HalfBuilt, TypeOK, Objects
  <2>7. CASE Crash(Logger)
    BY <2>7 DEF Crash, Full, UsesFreed, LogSteps, super, thread, queues,
        records, history, LoggerLife, NoLateFailure, ThreadsLife, Quiet,
        Construction, Tracing, Stacked, HalfBuilt, TypeOK, Objects
  <2> QED
    BY <1>5, <2>1, <2>2, <2>3, <2>4, <2>5, <2>6, <2>7 DEF LoggerStep
<1>6. ASSUME NEW w \in Workqueues, WorkerStep(w) PROVE LoggerLife'
  <2>1. CASE TakeWork(w)
    BY <2>1 DEF TakeWork, Goto, super, thread, records, history, LoggerLife,
        NoLateFailure, ThreadsLife, Quiet, Construction, Tracing, Stacked,
        HalfBuilt, TypeOK, Objects
  <2>2. CASE CheckBit(w)
    BY <2>2 DEF CheckBit, Goto, super, thread, queues, records, history,
        LoggerLife, NoLateFailure, ThreadsLife, Quiet, Construction, Tracing,
        Stacked, HalfBuilt, TypeOK, Objects
  <2>3. CASE mutex_lock(w)
    BY <2>3 DEF mutex_lock, Goto, super, thread, queues, records, history,
        LoggerLife, NoLateFailure, ThreadsLife, Quiet, Construction, Tracing,
        Stacked, HalfBuilt, TypeOK, Objects
  <2>4. CASE sync_log_record(w)
    <3>1. pc[w] = "sync" /\ pc'[Logger] = pc[Logger] /\ UNCHANGED <<at, mem>>
      BY <2>4 DEF sync_log_record, Goto, TypeOK
    <3>2. s_root \/ at = "unmounted"
      BY <3>1 DEF ThreadsLife, Quiet, LoggerLife, Construction
    <3>3. at # "private"
      BY <3>1 DEF ThreadsLife, Quiet
    <3> QED
      BY <3>1, <3>2, <3>3 DEF LoggerLife, Construction, Stacked, HalfBuilt, TypeOK,
          MountSteps, UmountSteps
  <2>5. CASE mutex_unlock(w)
    BY <2>5 DEF mutex_unlock, Goto, super, thread, queues, records, history,
        LoggerLife, NoLateFailure, ThreadsLife, Quiet, Construction, Tracing,
        Stacked, HalfBuilt, TypeOK, Objects
  <2>6. CASE FreeWork(w)
    BY <2>6 DEF FreeWork, Goto, super, thread, queues, records, history,
        LoggerLife, NoLateFailure, ThreadsLife, Quiet, Construction, Tracing,
        Stacked, HalfBuilt, TypeOK, Objects
  <2>7. CASE Crash(w)
    BY <2>7 DEF Crash, Full, UsesFreed, LogSteps, super, thread, queues,
        records, history, LoggerLife, NoLateFailure, ThreadsLife, Quiet,
        Construction, Tracing, Stacked, HalfBuilt, TypeOK, Objects
  <2> QED
    BY <1>6, <2>1, <2>2, <2>3, <2>4, <2>5, <2>6, <2>7 DEF WorkerStep
<1>7. CASE UNCHANGED vars
  BY <1>7 DEF vars, super, thread, queues, records, history, LoggerLife,
      NoLateFailure, ThreadsLife, Quiet, Construction, Tracing, Stacked,
      HalfBuilt, TypeOK, Objects
<1> QED
  BY <1>1, <1>2, <1>3, <1>4, <1>5, <1>6, <1>7 DEF Next

LEMMA QueueLifeStep ==
  ASSUME NoLateFailure, QueueAtMount, TypeOK, Construction, ThreadsLife, QueueLife, [Next]_vars PROVE QueueLife'
<1> USE ThreadsAssumption, BoundsAssumption DEF Threads
<1>1. CASE Mount
  <2>1. CASE kern_path
    BY <2>1 DEF kern_path, Then, MayFail, thread, queues, records, QueueLife,
        NoLateFailure, QueueAtMount, ThreadsLife, Construction, Tracing,
        Stacked, TypeOK, Objects
  <2>2. CASE Allocate
    BY <2>2 DEF Allocate, Then, MayFail, history, QueueLife, NoLateFailure,
        QueueAtMount, ThreadsLife, Construction, Tracing, Stacked, TypeOK,
        Objects
  <2>3. CASE AllocateFails
    BY <2>3 DEF AllocateFails, MayFail, Oops, super, thread, queues, records,
        history, QueueLife, NoLateFailure, QueueAtMount, ThreadsLife,
        Construction, Tracing, Stacked, TypeOK, Objects
  <2>4. CASE filp_open
    BY <2>4 DEF filp_open, Then, super, thread, queues, history, QueueLife,
        NoLateFailure, QueueAtMount, ThreadsLife, Construction, Tracing,
        Stacked, TypeOK, Objects
  <2>5. CASE OpenFails
    BY <2>5 DEF OpenFails, Then, MayFail, thread, queues, records, history,
        QueueLife, NoLateFailure, QueueAtMount, ThreadsLife, Construction,
        Tracing, Stacked, TypeOK, Objects
  <2>6. CASE OptionMissing
    BY <2>6 DEF OptionMissing, MayFail, Oops, super, thread, queues, records,
        history, QueueLife, NoLateFailure, QueueAtMount, ThreadsLife,
        Construction, Tracing, Stacked, TypeOK, Objects
  <2>7. CASE trfs_iget
    BY <2>7 DEF trfs_iget, Then, thread, queues, records, history, QueueLife,
        NoLateFailure, QueueAtMount, ThreadsLife, Construction, Tracing,
        Stacked, TypeOK, Objects
  <2>8. CASE IgetFails
    BY <2>8 DEF IgetFails, Then, MayFail, out_sput, thread, queues, records,
        history, QueueLife, NoLateFailure, QueueAtMount, ThreadsLife,
        Construction, Tracing, Stacked, TypeOK, Objects
  <2>9. CASE d_make_root
    BY <2>9 DEF d_make_root, Then, thread, queues, records, history,
        QueueLife, NoLateFailure, QueueAtMount, ThreadsLife, Construction,
        Tracing, Stacked, TypeOK, Objects
  <2>10. CASE MakeRootFails
    BY <2>10 DEF MakeRootFails, Then, MayFail, out_sput, thread, queues,
        records, history, QueueLife, NoLateFailure, QueueAtMount,
        ThreadsLife, Construction, Tracing, Stacked, TypeOK, Objects
  <2>11. CASE new_dentry_private_data
    BY <2>11 DEF new_dentry_private_data, Then, super, thread, queues,
        records, history, QueueLife, NoLateFailure, QueueAtMount,
        ThreadsLife, Construction, Tracing, Stacked, TypeOK, Objects
  <2>12. CASE PrivateDataFails
    BY <2>12 DEF PrivateDataFails, MayFail, Oops, thread, queues, records,
        history, QueueLife, NoLateFailure, QueueAtMount, ThreadsLife,
        Construction, Tracing, Stacked, TypeOK, Objects
  <2>13. CASE trfs_mount
    BY <2>13 DEF trfs_mount, Then, MayFail, super, thread, queues, records, QueueLife,
        NoLateFailure, QueueAtMount, ThreadsLife, Construction, Tracing,
        Stacked, TypeOK, Objects
  <2> QED
    BY <1>1, <2>1, <2>2, <2>3, <2>4, <2>5, <2>6, <2>7, <2>8, <2>9, <2>10, <2>11, <2>12,
      <2>13 DEF Mount
<1>2. CASE kthread_stop
  BY <1>2 DEF kthread_stop, Oops, super, queues, records, Elements,
      Unhandled, QueueLife, NoLateFailure, QueueAtMount, ThreadsLife,
      Construction, Tracing, Stacked, TypeOK, Objects
<1>3. CASE FinishUmount
  <2>1. CASE Joined
    BY <2>1 DEF Joined, Then, Goto, super, thread, queues, records, history,
        QueueLife, NoLateFailure, QueueAtMount, ThreadsLife, Construction,
        Tracing, Stacked, TypeOK, Objects
  <2>2. CASE UmountLock
    BY <2>2 DEF UmountLock, Then, super, thread, queues, records, history,
        QueueLife, NoLateFailure, QueueAtMount, ThreadsLife, Construction,
        Tracing, Stacked, TypeOK, Objects
  <2>3. CASE UmountWrite
    BY <2>3 DEF UmountWrite, FileWrite, Oops, super, thread, queues, records, history,
        QueueLife, NoLateFailure, QueueAtMount, ThreadsLife, Construction,
        Tracing, Stacked, TypeOK, Objects
  <2>4. CASE filp_close
    BY <2>4 DEF filp_close, Then, super, thread, queues, records, history,
        QueueLife, NoLateFailure, QueueAtMount, ThreadsLife, Construction,
        Tracing, Stacked, TypeOK, Objects
  <2>5. CASE FreeTraceInfo
    BY <2>5 DEF FreeTraceInfo, Then, super, thread, queues, records, history,
        QueueLife, NoLateFailure, QueueAtMount, ThreadsLife, Construction,
        Tracing, Stacked, TypeOK, Objects
  <2>6. CASE destroy_workqueue
    BY <2>6 DEF destroy_workqueue, Then, Goto, super, thread, records,
        history, QueueLife, NoLateFailure, QueueAtMount, ThreadsLife,
        Construction, Tracing, Stacked, TypeOK, Objects
  <2>7. CASE generic_shutdown_super
    BY <2>7 DEF generic_shutdown_super, Then, thread, queues, records,
        history, QueueLife, NoLateFailure, QueueAtMount, ThreadsLife,
        Construction, Tracing, Stacked, TypeOK, Objects
  <2> QED
    BY <1>3, <2>1, <2>2, <2>3, <2>4, <2>5, <2>6, <2>7 DEF FinishUmount
<1>4. ASSUME NEW c \in Callers, Submit(c) PROVE QueueLife'
  <2>1. CASE eworkqueue_init(c)
    BY <2>1 DEF eworkqueue_init, super, thread, queues, records, QueueLife,
        NoLateFailure, QueueAtMount, ThreadsLife, Construction, Tracing,
        Stacked, TypeOK, Objects
  <2>2. CASE CreateWorkqueue(c)
    BY <2>2 DEF CreateWorkqueue, MayFail, super, thread, records, history,
        QueueLife, NoLateFailure, QueueAtMount, ThreadsLife, Construction,
        Tracing, Stacked, TypeOK, Objects
  <2>3. CASE queue_work(c)
    BY <2>3 DEF queue_work, super, thread, records, history, QueueLife,
        NoLateFailure, QueueAtMount, ThreadsLife, Construction, Tracing,
        Stacked, TypeOK, Objects
  <2> QED
    BY <1>4, <2>1, <2>2, <2>3 DEF Submit
<1>5. CASE LoggerStep
  <2>1. CASE kthread_should_stop
    BY <2>1 DEF kthread_should_stop, Goto, super, thread, queues, records,
        history, QueueLife, NoLateFailure, QueueAtMount, ThreadsLife,
        Construction, Tracing, Stacked, TypeOK, Objects
  <2>2. CASE Look
    BY <2>2 DEF Look, Goto, super, thread, queues, records, history,
        QueueLife, NoLateFailure, QueueAtMount, ThreadsLife, Construction,
        Tracing, Stacked, TypeOK, Objects
  <2>3. CASE ssleep
    BY <2>3 DEF ssleep, Goto, super, thread, queues, records, history,
        QueueLife, NoLateFailure, QueueAtMount, ThreadsLife, Construction,
        Tracing, Stacked, TypeOK, Objects
  <2>4. CASE mutex_lock(Logger)
    BY <2>4 DEF mutex_lock, Goto, super, thread, queues, records, history,
        QueueLife, NoLateFailure, QueueAtMount, ThreadsLife, Construction,
        Tracing, Stacked, TypeOK, Objects
  <2>5. CASE FlushAll
    BY <2>5 DEF FlushAll, Goto, FileWrite, super, thread, queues, history,
        QueueLife, NoLateFailure, QueueAtMount, ThreadsLife, Construction,
        Tracing, Stacked, TypeOK, Objects
  <2>6. CASE mutex_unlock(Logger)
    BY <2>6 DEF mutex_unlock, Goto, super, thread, queues, records, history,
        QueueLife, NoLateFailure, QueueAtMount, ThreadsLife, Construction,
        Tracing, Stacked, TypeOK, Objects
  <2>7. CASE Crash(Logger)
    BY <2>7 DEF Crash, Full, UsesFreed, LogSteps, super, thread, queues,
        records, history, QueueLife, NoLateFailure, QueueAtMount,
        ThreadsLife, Construction, Tracing, Stacked, TypeOK, Objects
  <2> QED
    BY <1>5, <2>1, <2>2, <2>3, <2>4, <2>5, <2>6, <2>7 DEF LoggerStep
<1>6. ASSUME NEW w \in Workqueues, WorkerStep(w) PROVE QueueLife'
  <2>1. CASE TakeWork(w)
    BY <2>1 DEF TakeWork, Goto, super, thread, records, history, QueueLife,
        NoLateFailure, QueueAtMount, ThreadsLife, Construction, Tracing,
        Stacked, TypeOK, Objects
  <2>2. CASE CheckBit(w)
    BY <2>2 DEF CheckBit, Goto, super, thread, queues, records, history,
        QueueLife, NoLateFailure, QueueAtMount, ThreadsLife, Construction,
        Tracing, Stacked, TypeOK, Objects
  <2>3. CASE mutex_lock(w)
    BY <2>3 DEF mutex_lock, Goto, super, thread, queues, records, history,
        QueueLife, NoLateFailure, QueueAtMount, ThreadsLife, Construction,
        Tracing, Stacked, TypeOK, Objects
  <2>4. CASE sync_log_record(w)
    BY <2>4 DEF sync_log_record, Goto, FileWrite, Full, super, thread,
        queues, history, QueueLife, NoLateFailure, QueueAtMount, ThreadsLife,
        Construction, Tracing, Stacked, TypeOK, Objects
  <2>5. CASE mutex_unlock(w)
    BY <2>5 DEF mutex_unlock, Goto, super, thread, queues, records, history,
        QueueLife, NoLateFailure, QueueAtMount, ThreadsLife, Construction,
        Tracing, Stacked, TypeOK, Objects
  <2>6. CASE FreeWork(w)
    BY <2>6 DEF FreeWork, Goto, super, thread, queues, records, history,
        QueueLife, NoLateFailure, QueueAtMount, ThreadsLife, Construction,
        Tracing, Stacked, TypeOK, Objects
  <2>7. CASE Crash(w)
    BY <2>7 DEF Crash, Full, UsesFreed, LogSteps, super, thread, queues,
        records, history, QueueLife, NoLateFailure, QueueAtMount,
        ThreadsLife, Construction, Tracing, Stacked, TypeOK, Objects
  <2> QED
    BY <1>6, <2>1, <2>2, <2>3, <2>4, <2>5, <2>6, <2>7 DEF WorkerStep
<1>7. CASE UNCHANGED vars
  BY <1>7 DEF vars, super, thread, queues, records, history, QueueLife,
      NoLateFailure, QueueAtMount, ThreadsLife, Construction, Tracing,
      Stacked, TypeOK, Objects
<1> QED
  BY <1>1, <1>2, <1>3, <1>4, <1>5, <1>6, <1>7 DEF Next

(* What the construction says of the properties.                          *)
LEMMA LifeInit == Init => Life /\ LoggerLife /\ QueueLife
<1> SUFFICES ASSUME Init PROVE Life /\ LoggerLife /\ QueueLife
  OBVIOUS
<1> USE ThreadsAssumption, BoundsAssumption DEF Init, Threads
<1>1. TypeOK
  <2>1. buffer \in Seq(Nat) /\ file \in Seq(Nat) /\ work \in [Workqueues -> Seq(Nat)]
    OBVIOUS
  <2>2. mem \in [Objects -> {"none", "live", "freed"}] /\ refs \in [Counts -> -1 .. 1]
    OBVIOUS
  <2>3. /\ pc \in [Threads -> LogSteps \cup {"none", "idle", "create", "queue", "test",
                                        "sleep", "exit", "free", "dead"}]
        /\ arg \in [Threads -> Nat]
    OBVIOUS
  <2> QED
    BY <2>1, <2>2, <2>3 DEF TypeOK, MountSteps
<1>2. Construction
  BY DEF Construction, Refs, Counts, Objects
<1>3. ThreadsLife /\ LockLife
  BY DEF ThreadsLife, LockLife, Quiet
<1>4. LoggerLife /\ QueueLife
  BY DEF LoggerLife, QueueLife
<1> QED
  BY <1>1, <1>2, <1>3, <1>4 DEF Life

LEMMA LifeInvariant == Spec => []Life
<1>1. Init => Life
  BY LifeInit
<1>2. Life /\ [Next]_vars => Life'
  BY ConstructionStep, TypeStep, ThreadsStep, LockStep DEF Life
<1> QED
  BY <1>1, <1>2, PTL DEF Spec

LEMMA LoggerLifeInvariant == NoLateFailure => (Spec => []LoggerLife)
<1> SUFFICES ASSUME NoLateFailure PROVE Spec => []LoggerLife
  OBVIOUS
<1>1. Init => LoggerLife
  BY LifeInit
<1>2. Life /\ LoggerLife /\ [Next]_vars => LoggerLife'
  BY LoggerLifeStep DEF Life
<1> QED
  BY <1>1, <1>2, LifeInvariant, PTL DEF Spec

LEMMA QueueLifeInvariant == NoLateFailure /\ QueueAtMount => (Spec => []QueueLife)
<1> SUFFICES ASSUME NoLateFailure, QueueAtMount PROVE Spec => []QueueLife
  OBVIOUS
<1>1. Init => QueueLife
  BY LifeInit
<1>2. Life /\ QueueLife /\ [Next]_vars => QueueLife'
  BY QueueLifeStep DEF Life
<1> QED
  BY <1>1, <1>2, LifeInvariant, PTL DEF Spec

-----------------------------------------------------------------------------
(* The types, whichever calls fail; in particular no reference of the      *)
(* lower super block or path is taken twice (TrfsMount!TypeOK).            *)
THEOREM MountTypeCorrect == Spec => []TypeOK
<1>1. Life => TypeOK
  BY DEF Life
<1> QED
  BY <1>1, LifeInvariant, PTL

(* Whichever call of trfs_read_super fails, no reference to the lower file *)
(* system is kept (out_sput and out_free, main.c:157-163).                 *)
THEOREM FailedMountDropsLower == Spec => []ErrorDropsLower
<1>1. Life => ErrorDropsLower
  BY DEF Life, Construction, HalfBuilt, ErrorDropsLower
<1> QED
  BY <1>1, LifeInvariant, PTL

(* The logger never uses freed memory or a closed file, for any number of  *)
(* callers and workqueues, unless a mount fails between the root inode and *)
(* its dentry (kthread_stop, main.c:227).                                  *)
THEOREM LoggerNeverUsesFreed == NoLateFailure => (Spec => []LoggerSafe)
<1> SUFFICES ASSUME NoLateFailure PROVE Spec => []LoggerSafe
  OBVIOUS
<1>1. LoggerLife => LoggerSafe
  BY DEF LoggerLife, LoggerSafe, LogSteps
<1> QED
  BY <1>1, LoggerLifeInvariant, PTL

(* No handler and no caller works for a super block whose private data is  *)
(* freed, if the workqueue was created at mount time and the mount did not *)
(* fail late (destroy_workqueue, main.c:254-259).                          *)
THEOREM WorkEndsBeforeShutdown == NoLateFailure /\ QueueAtMount => (Spec => []SbInfoSafe)
<1> SUFFICES ASSUME NoLateFailure, QueueAtMount PROVE Spec => []SbInfoSafe
  OBVIOUS
<1>1. Life /\ QueueLife => SbInfoSafe
  <2> SUFFICES ASSUME Life, QueueLife, NEW t \in Workqueues \cup Callers,
                      pc[t] \in LogSteps \cup {"create", "queue"}
               PROVE  mem["sbi"] = "live"
    BY DEF SbInfoSafe
  <2>1. CASE t \in Callers
    BY <2>1 DEF Life, ThreadsLife, Construction, Tracing, LogSteps
  <2>2. CASE t \in Workqueues
    BY <2>2 DEF Life, ThreadsLife, QueueLife, LogSteps
  <2> QED
    BY <2>1, <2>2
<1> QED
  BY <1>1, LifeInvariant, QueueLifeInvariant, PTL

(* An unmount gives back the private data, the trace state and file, the   *)
(* threads, the queue, the lock and every lower reference, each once,      *)
(* under the same conditions (trfs_umount, main.c:215-260); not the        *)
(* options and the device number of the mount, which nothing frees.        *)
THEOREM UnmountGivesBack == NoLateFailure /\ QueueAtMount => (Spec => []UnmountReleases)
<1> SUFFICES ASSUME NoLateFailure, QueueAtMount PROVE Spec => []UnmountReleases
  OBVIOUS
<1>1. Life /\ LoggerLife /\ QueueLife => UnmountReleases
  <2> SUFFICES ASSUME Life, LoggerLife, QueueLife, at = "unmounted"
               PROVE  /\ \A o \in Objects \ Unreleased : mem[o] # "live"
                      /\ \A r \in Counts : refs[r] = 0
                      /\ wqs = {} /\ pc[Logger] = "none" /\ lock = NoOne
    BY DEF UnmountReleases
  <2>1. \A o \in Objects \ Unreleased : mem[o] # "live"
    BY DEF Life, Construction, Objects
  <2>2. \A r \in Counts : refs[r] = 0
    BY DEF Life, Construction, Refs
  <2>3. wqs = {} /\ pc[Logger] = "none"
    BY DEF LoggerLife, QueueLife
  <2>4. \A t \in Workqueues \cup {Logger} : pc[t] = "none"
    BY <2>3 DEF Life, ThreadsLife
  <2>5. lock = NoOne
    BY <2>4 DEF Life, LockLife, TypeOK
  <2> QED
    BY <2>1, <2>2, <2>3, <2>5
<1> QED
  BY <1>1, LifeInvariant, LoggerLifeInvariant, QueueLifeInvariant, PTL
=============================================================================
