------------------------- MODULE TrfsUnmountProofs -------------------------
(***************************************************************************)
(* What becomes of the records of a mount: TrfsMount!KeptByUnmount, as     *)
(* long as the trace file can be written.  Each record submitted is with   *)
(* its caller, with a worker or logged until the unmount begins, and from  *)
(* then on pending or logged; only a workqueue that cannot be created at   *)
(* mount time loses one.  A mount that fails, at whichever step, has no    *)
(* records.                                                                *)
(***************************************************************************)
EXTENDS TrfsMountProofs

(* Neither a logger nor the unmount meets a failed or short vfs_write.     *)
FileWritable == "write" \notin Faults

(* The records that got past the workers, those that a caller is about to  *)
(* queue, and what is known of them while mounting and unmounting.         *)
Logged  == Elements(buffer) \cup Elements(file)
InHands == {arg[c] : c \in {d \in Callers : pc[d] = "queue"}}

NoneSubmitted ==
  at \in {"path", "alloc", "open", "super", "root", "private", "kill"} => queued = 0

CanBeWritten ==
  queued > 0 /\ at \in {"join", "lock", "write"} => mem["filp"] = "live"

HasQueue ==
  /\ at \in {"open", "super", "root", "private", "mounted"} => eWq # NULL
  /\ \A c \in Callers : pc[c] # "create"

WorkersRecord ==
  \A w \in Workqueues :
    /\ pc[w] \in {"none", "idle"} => arg[w] = 0
    /\ at = "mounted" /\ pc[w] \in {"unlock", "free"} => arg[w] \in Logged

Tracked ==
  /\ at = "mounted" =>
       \A n \in 1 .. queued : n \in InHands \cup Unhandled \cup Logged
  /\ at \in {"join", "lock", "write"} =>
       \A n \in 1 .. queued : n \in pending \cup Logged
  /\ KeptByUnmount

KeepLife == NoneSubmitted /\ CanBeWritten /\ HasQueue /\ WorkersRecord /\ Tracked

-----------------------------------------------------------------------------
(* What the steps have in common.                                          *)
LEMMA Flow ==
  ASSUME [Next]_vars
  PROVE  /\ queued' \in {0, queued} \/ at' = "mounted"
         /\ at' \in {"path", "alloc", "open", "super", "root", "private", "kill"} =>
              queued' = 0
              \/ /\ queued' = queued
                 /\ at \in {"path", "alloc", "open", "super", "root", "private", "kill"}
         /\ at' = "mounted" =>
              at = "mounted" \/ (at = "private" /\ UNCHANGED <<queued, pc>>)
         /\ at' \in {"join", "lock", "write"} =>
              /\ UNCHANGED <<queued, mem>>
              /\ (at \in {"join", "lock", "write"} /\ UNCHANGED pending) \/ kthread_stop
         /\ at' \in {"close", "free", "drain", "shutdown", "unmounted"} =>
              /\ UNCHANGED <<queued, pending>>
              /\ \/ at \in {"close", "free", "drain", "shutdown", "unmounted"}
                 \/ at = "write" /\ mem["filp"] = "live" /\ FileWrite
<1> USE DEF Next, Mount, FinishUmount, Submit, LoggerStep, WorkerStep, vars,
        trfs_mount, kern_path, Allocate, AllocateFails, filp_open, OpenFails, OptionMissing,
        trfs_iget, IgetFails, d_make_root, MakeRootFails, out_sput, Oops,
        new_dentry_private_data, PrivateDataFails, eworkqueue_init, CreateWorkqueue,
        queue_work, kthread_should_stop, Look, ssleep, TakeWork, CheckBit,
        mutex_lock, FlushAll, sync_log_record, mutex_unlock, FreeWork,
        Crash, kthread_stop, Joined, UmountLock, UmountWrite, filp_close,
        FreeTraceInfo, destroy_workqueue, generic_shutdown_super, Then, history
<1>1. queued' \in {0, queued} \/ at' = "mounted"
  OBVIOUS
<1>2. at' \in {"path", "alloc", "open", "super", "root", "private", "kill"} =>
        queued' = 0
        \/ /\ queued' = queued
           /\ at \in {"path", "alloc", "open", "super", "root", "private", "kill"}
  OBVIOUS
<1>3. at' = "mounted" =>
        at = "mounted" \/ (at = "private" /\ UNCHANGED <<queued, pc>>)
  OBVIOUS
<1>4. at' \in {"join", "lock", "write"} =>
        /\ UNCHANGED <<queued, mem>>
        /\ (at \in {"join", "lock", "write"} /\ UNCHANGED pending) \/ kthread_stop
  OBVIOUS
<1>5. at' \in {"close", "free", "drain", "shutdown", "unmounted"} =>
        /\ UNCHANGED <<queued, pending>>
        /\ \/ at \in {"close", "free", "drain", "shutdown", "unmounted"}
           \/ at = "write" /\ mem["filp"] = "live" /\ FileWrite
  OBVIOUS
<1> QED
  BY <1>1, <1>2, <1>3, <1>4, <1>5

(* Elements of the sequences that the steps build.                         *)
LEMMA ElementsConcat ==
  ASSUME NEW s \in Seq(Nat), NEW t \in Seq(Nat)
  PROVE  Elements(s \o t) = Elements(s) \cup Elements(t)
<1>1. PICK u \in Seq(Nat) : u = s \o t
  <2>1. s \o t \in Seq(Nat)
    OBVIOUS
  <2> QED
    BY <2>1
<1>2. \A i \in 1 .. Len(s) : u[i] = s[i] /\ i \in 1 .. Len(u)
  BY <1>1
<1>3. \A i \in 1 .. Len(t) : u[Len(s) + i] = t[i] /\ Len(s) + i \in 1 .. Len(u)
  BY <1>1
<1>4. DOMAIN u = 1 .. Len(u) /\ DOMAIN s = 1 .. Len(s) /\ DOMAIN t = 1 .. Len(t)
  OBVIOUS
<1>5. ASSUME NEW i \in 1 .. Len(u)
      PROVE  u[i] \in Elements(s) \cup Elements(t)
  <2>1. CASE i \in 1 .. Len(s)
    BY <1>2, <1>4, <2>1 DEF Elements
  <2>2. CASE i \notin 1 .. Len(s)
    <3>1. i - Len(s) \in 1 .. Len(t) /\ u[i] = t[i - Len(s)]
      BY <1>1, <2>2
    <3> QED
      BY <1>4, <3>1 DEF Elements
  <2> QED
    BY <2>1, <2>2
<1>6. Elements(s) \subseteq Elements(u)
  BY <1>2, <1>4 DEF Elements
<1>7. Elements(t) \subseteq Elements(u)
  BY <1>3, <1>4 DEF Elements
<1>8. Elements(u) \subseteq Elements(s) \cup Elements(t)
  BY <1>5, <1>4 DEF Elements
<1> QED
  BY <1>1, <1>6, <1>7, <1>8

LEMMA ElementsSingle ==
  /\ Elements(<<>>) = {}
  /\ \A n \in Nat : Elements(<<n>>) = {n}
BY DEF Elements

LEMMA ElementsAppend ==
  ASSUME NEW s \in Seq(Nat), NEW n \in Nat
  PROVE  Elements(Append(s, n)) = Elements(s) \cup {n}
<1>1. <<n>> \in Seq(Nat)
  OBVIOUS
<1>2. Append(s, n) = s \o <<n>>
  BY AppendIsConcat
<1>3. Elements(s \o <<n>>) = Elements(s) \cup Elements(<<n>>)
  BY <1>1, ElementsConcat
<1>4. Elements(<<n>>) = {n}
  BY ElementsSingle
<1> QED
  BY <1>2, <1>3, <1>4

LEMMA ElementsHeadTail ==
  ASSUME NEW s \in Seq(Nat), s # <<>>
  PROVE  Elements(s) = {Head(s)} \cup Elements(Tail(s))
<1>1. /\ Head(s) \in Nat /\ Tail(s) \in Seq(Nat) /\ <<Head(s)>> \in Seq(Nat)
      /\ s = <<Head(s)>> \o Tail(s)
  OBVIOUS
<1> QED
  BY <1>1, ElementsConcat, ElementsSingle

(* The file only grows after it was opened; while it is open nothing that  *)
(* was logged is lost.                                                     *)
LEMMA FileGrows ==
  ASSUME TypeOK, [Next]_vars, at # "open"
  PROVE  Elements(file) \subseteq Elements(file')
<1>1. file' = file \/ FileWrite
  BY DEF Next, Mount, FinishUmount, Submit, LoggerStep, WorkerStep, vars,
      trfs_mount, kern_path, Allocate, AllocateFails, filp_open, OpenFails, OptionMissing,
      trfs_iget, IgetFails, d_make_root, MakeRootFails, out_sput,
      new_dentry_private_data, PrivateDataFails, eworkqueue_init, CreateWorkqueue,
      queue_work, kthread_should_stop, Look, ssleep, TakeWork, CheckBit,
      mutex_lock, FlushAll, sync_log_record, mutex_unlock, FreeWork,
      Crash, kthread_stop, Joined, UmountLock, UmountWrite, filp_close,
      FreeTraceInfo, destroy_workqueue, generic_shutdown_super, Then, records
<1>2. CASE FileWrite
  <2>1. file \in Seq(Nat) /\ buffer \in Seq(Nat)
    BY DEF TypeOK
  <2>2. PICK t \in Seq(Nat) : file' = file \o t
    <3>1. \A n \in 0 .. Len(buffer) : SubSeq(buffer, 1, n) \in Seq(Nat)
      BY <2>1
    <3> QED
      BY <1>2, <2>1, <3>1 DEF FileWrite
  <2> QED
    BY <2>1, <2>2, ElementsConcat
<1> QED
  BY <1>1, <1>2

LEMMA LoggedGrows ==
  ASSUME TypeOK, FileWritable, [Next]_vars, mem["filp"] = "live", at \notin {"alloc", "open"}
  PROVE  Logged \subseteq Logged'
<1>1. \/ UNCHANGED <<buffer, file>>
      \/ FileWrite
      \/ file' = file /\ \E w \in Workqueues : buffer' = Append(buffer, arg[w])
  BY DEF Next, Mount, FinishUmount, Submit, LoggerStep, WorkerStep, vars,
      trfs_mount, kern_path, Allocate, AllocateFails, filp_open, OpenFails, OptionMissing,
      trfs_iget, IgetFails, d_make_root, MakeRootFails, out_sput,
      new_dentry_private_data, PrivateDataFails, eworkqueue_init, CreateWorkqueue,
      queue_work, kthread_should_stop, Look, ssleep, TakeWork, CheckBit,
      mutex_lock, FlushAll, sync_log_record, mutex_unlock, FreeWork,
      Crash, kthread_stop, Joined, UmountLock, UmountWrite, filp_close,
      FreeTraceInfo, destroy_workqueue, generic_shutdown_super, Then, records
<1>2. CASE UNCHANGED <<buffer, file>>
  BY <1>2 DEF Logged
<1>3. CASE FileWrite
  <2>1. file' = file \o buffer
    BY <1>3 DEF FileWrite, FileWritable, MayFail
  <2> QED
    BY <2>1, ElementsConcat DEF Logged, TypeOK
<1>4. CASE file' = file /\ \E w \in Workqueues : buffer' = Append(buffer, arg[w])
  <2>1. PICK w \in Workqueues : buffer' = Append(buffer, arg[w])
    BY <1>4
  <2>2. arg[w] \in Nat /\ buffer \in Seq(Nat)
    BY DEF TypeOK, Threads
  <2> QED
    BY <1>4, <2>1, <2>2, ElementsAppend DEF Logged
<1> QED
  BY <1>1, <1>2, <1>3, <1>4

(* No records before the mount is complete, and a workqueue for them: no   *)
(* error exit and no caller can take it away.                              *)
LEMMA GateStep ==
  ASSUME TypeOK, Construction, ThreadsLife, QueueAtMount, KeepLife, [Next]_vars
  PROVE  NoneSubmitted' /\ CanBeWritten' /\ HasQueue'
<1> USE ThreadsAssumption DEF Threads, KeepLife
<1>1. NoneSubmitted'
  BY Flow DEF NoneSubmitted
<1>2. CanBeWritten'
  <2>1. at' \in {"join", "lock", "write"} =>
          mem' = mem /\ queued' = queued /\ at \in {"mounted", "kill", "join", "lock", "write"}
    BY Flow DEF kthread_stop
  <2>2. at = "mounted" => mem["filp"] = "live"
    BY DEF Construction
  <2>3. queued \in Nat
    BY DEF TypeOK
  <2> QED
    BY <2>1, <2>2, <2>3 DEF NoneSubmitted, CanBeWritten
<1>3. HasQueue'
  <2>1. at' \in {"open", "super", "root", "private", "mounted"} => eWq' # NULL
    <3>1. CASE at' = "open" /\ at # "open"
      BY <3>1 DEF Next, Mount, FinishUmount, Submit, LoggerStep, WorkerStep, vars,
        trfs_mount, kern_path, Allocate, AllocateFails, filp_open, OpenFails, OptionMissing,
        trfs_iget, IgetFails, d_make_root, MakeRootFails, out_sput, Oops,
        new_dentry_private_data, PrivateDataFails, eworkqueue_init, CreateWorkqueue,
        queue_work, kthread_should_stop, Look, ssleep, TakeWork, CheckBit,
        mutex_lock, FlushAll, sync_log_record, mutex_unlock, FreeWork,
        Crash, kthread_stop, Joined, UmountLock, UmountWrite, filp_close,
        FreeTraceInfo, destroy_workqueue, generic_shutdown_super, Then, QueueAtMount, MayFail
    <3>2. CASE at' # "open" \/ at = "open"
      BY <3>2 DEF HasQueue, Next, Mount, FinishUmount, Submit, LoggerStep, WorkerStep, vars,
        trfs_mount, kern_path, Allocate, AllocateFails, filp_open, OpenFails, OptionMissing,
        trfs_iget, IgetFails, d_make_root, MakeRootFails, out_sput, Oops,
        new_dentry_private_data, PrivateDataFails, eworkqueue_init, CreateWorkqueue,
        queue_work, kthread_should_stop, Look, ssleep, TakeWork, CheckBit,
        mutex_lock, FlushAll, sync_log_record, mutex_unlock, FreeWork,
        Crash, kthread_stop, Joined, UmountLock, UmountWrite, filp_close,
        FreeTraceInfo, destroy_workqueue, generic_shutdown_super, Then, queues
    <3> QED
      BY <3>1, <3>2
  <2>2. ASSUME NEW c \in Callers PROVE pc'[c] # "create"
    <3>1. pc[c] # "create" /\ (at = "mounted" => eWq # NULL)
      BY DEF HasQueue
    <3>2. CASE Mount
      BY <3>1, <3>2 DEF Mount, trfs_mount, kern_path, Allocate, AllocateFails, filp_open, OpenFails,
        OptionMissing, trfs_iget, IgetFails, d_make_root, MakeRootFails, out_sput,
        new_dentry_private_data, PrivateDataFails, TypeOK
    <3>3. CASE kthread_stop \/ FinishUmount \/ UNCHANGED vars
      BY <3>1, <3>3 DEF FinishUmount, kthread_stop, Joined, UmountLock, UmountWrite,
        filp_close, FreeTraceInfo, destroy_workqueue, generic_shutdown_super, Goto, TypeOK, vars
    <3>4. ASSUME NEW d \in Callers, Submit(d) PROVE pc'[c] # "create"
      BY <3>1, <3>4 DEF Submit, eworkqueue_init, CreateWorkqueue, queue_work, TypeOK
    <3>5. CASE LoggerStep
      BY <3>1, <3>5 DEF LoggerStep, kthread_should_stop, Look, ssleep, mutex_lock,
        FlushAll, mutex_unlock, Crash, Goto, TypeOK
    <3>6. ASSUME NEW w \in Workqueues, WorkerStep(w) PROVE pc'[c] # "create"
      BY <3>1, <3>6 DEF WorkerStep, TakeWork, CheckBit, mutex_lock, sync_log_record,
        mutex_unlock, FreeWork, Crash, Goto, TypeOK
    <3> QED
      BY <3>2, <3>3, <3>4, <3>5, <3>6 DEF Next
  <2> QED
    BY <2>1, <2>2 DEF HasQueue
<1> QED
  BY <1>1, <1>2, <1>3

(* A worker that is through with its record has logged it.                 *)
LEMMA WorkersRecordStep ==
  ASSUME TypeOK, Construction, ThreadsLife, FileWritable, KeepLife, [Next]_vars
  PROVE  WorkersRecord'
<1> USE ThreadsAssumption DEF Threads
<1> SUFFICES ASSUME NEW w \in Workqueues
             PROVE  /\ pc'[w] \in {"none", "idle"} => arg'[w] = 0
                    /\ at' = "mounted" /\ pc'[w] \in {"unlock", "free"} => arg'[w] \in Logged'
  BY DEF WorkersRecord
<1>1. /\ pc[w] \in {"none", "idle"} => arg[w] = 0
      /\ at = "mounted" /\ pc[w] \in {"unlock", "free"} => arg[w] \in Logged
      /\ w \notin wqs => pc[w] = "none"
      /\ \A c \in Callers : pc[c] # "create"
  BY DEF KeepLife, WorkersRecord, ThreadsLife, HasQueue
<1>2. \/ pc'[w] = pc[w] /\ arg'[w] = arg[w]
      \/ pc'[w] \in {"none", "idle"} /\ pc[w] \in {"none", "idle"} /\ arg'[w] = arg[w]
      \/ TakeWork(w)
      \/ CheckBit(w)
      \/ pc[w] = "lock" /\ pc'[w] = "sync"
      \/ sync_log_record(w)
      \/ pc[w] = "unlock" /\ pc'[w] = "free" /\ arg'[w] = arg[w]
      \/ FreeWork(w)
      \/ pc'[w] = "dead"
  <2>1. CASE Mount
    BY <1>1, <2>1 DEF Mount, trfs_mount, kern_path, Allocate, AllocateFails, filp_open, OpenFails,
        OptionMissing, trfs_iget, IgetFails, d_make_root, MakeRootFails, out_sput,
        new_dentry_private_data, PrivateDataFails, TypeOK
  <2>2. CASE kthread_stop \/ FinishUmount \/ UNCHANGED vars
    BY <2>2 DEF FinishUmount, kthread_stop, Joined, UmountLock, UmountWrite,
        filp_close, FreeTraceInfo, destroy_workqueue, generic_shutdown_super, Goto, TypeOK, vars
  <2>3. ASSUME NEW d \in Callers, Submit(d) PROVE pc'[w] = pc[w] /\ arg'[w] = arg[w]
    BY <1>1, <2>3 DEF Submit, eworkqueue_init, CreateWorkqueue, queue_work, TypeOK
  <2>4. CASE LoggerStep
    BY <2>4 DEF LoggerStep, kthread_should_stop, Look, ssleep, mutex_lock,
        FlushAll, mutex_unlock, Crash, Goto, TypeOK
  <2>5. ASSUME NEW v \in Workqueues, v # w, WorkerStep(v)
        PROVE  pc'[w] = pc[w] /\ arg'[w] = arg[w]
    BY <2>5 DEF WorkerStep, TakeWork, CheckBit, mutex_lock, sync_log_record,
        mutex_unlock, FreeWork, Crash, Goto, TypeOK
  <2>6. CASE WorkerStep(w)
    BY <2>6 DEF WorkerStep, mutex_lock, mutex_unlock, Crash, Goto, TypeOK
  <2> QED
    BY <2>1, <2>2, <2>3, <2>4, <2>5, <2>6 DEF Next
<1>3. pc'[w] \in {"none", "idle"} => arg'[w] = 0
  BY <1>1, <1>2 DEF TakeWork, CheckBit, sync_log_record, FreeWork, Goto, TypeOK
<1>4. ASSUME at' = "mounted", pc'[w] \in {"unlock", "free"} PROVE arg'[w] \in Logged'
  <2>1. CASE at # "mounted"
    <3>1. at = "private" /\ pc' = pc
      BY <1>4, <2>1, Flow
    <3> QED
      BY <1>4, <3>1 DEF ThreadsLife, Quiet
  <2>2. CASE at = "mounted"
    <3>1. mem["filp"] = "live" /\ mem["tr_info"] = "live"
      BY <2>2 DEF Construction, Tracing
    <3>2. Logged \subseteq Logged'
      BY <2>2, <3>1, LoggedGrows
    <3>3. CASE sync_log_record(w)
      <4>1. arg' = arg /\ buffer \in Seq(Nat) /\ arg[w] \in Nat
        BY <3>3 DEF sync_log_record, TypeOK
      <4>2. buffer' = <<arg[w]>> \/ buffer' = Append(buffer, arg[w])
        BY <3>3 DEF sync_log_record
      <4>3. arg[w] \in Elements(buffer')
        BY <4>1, <4>2, ElementsSingle, ElementsAppend
      <4> QED
        BY <4>1, <4>3 DEF Logged
    <3>4. CASE ~sync_log_record(w)
      <4>1. pc[w] \in {"unlock", "free"} /\ arg'[w] = arg[w]
        BY <1>2, <1>4, <3>1, <3>4 DEF TakeWork, CheckBit, FreeWork, Goto, TypeOK
      <4> QED
        BY <1>1, <2>2, <3>2, <4>1
    <3> QED
      BY <3>3, <3>4
  <2> QED
    BY <2>1, <2>2
<1> QED
  BY <1>3, <1>4

(* While mounted a record goes from the caller to the queue, from there to *)
(* the worker and from it to the log.                                      *)
LEMMA HeldWhileMounted ==
  ASSUME TypeOK, Construction, ThreadsLife, FileWritable, KeepLife, [Next]_vars,
         at = "mounted", at' = "mounted", NEW n \in Nat \ {0},
         n \in InHands \cup Unhandled \cup Logged
  PROVE  n \in (InHands \cup Unhandled \cup Logged)'
<1> USE ThreadsAssumption DEF Threads
<1>1. mem["filp"] = "live" /\ mem["tr_info"] = "live" /\ eWq # NULL
  BY DEF Construction, Tracing, KeepLife, HasQueue
<1>2. Logged \subseteq Logged'
  BY <1>1, LoggedGrows
<1>3. work \in [Workqueues -> Seq(Nat)] /\ eWq \in Workqueues
      /\ \A t \in Threads : arg[t] \in Nat
  BY <1>1 DEF TypeOK
<1>4. CASE n \in Logged
  BY <1>2, <1>4
<1>5. CASE n \in InHands
  <2>1. PICK c \in Callers : pc[c] = "queue" /\ n = arg[c]
    BY <1>5 DEF InHands
  <2>2. (pc'[c] = "queue" /\ arg'[c] = n) \/ queue_work(c)
    <3>1. CASE Mount \/ kthread_stop \/ FinishUmount
      BY <3>1 DEF Mount, FinishUmount, kthread_stop, Joined, UmountLock, UmountWrite,
          filp_close, FreeTraceInfo, destroy_workqueue, generic_shutdown_super, Oops, Then,
          trfs_mount, kern_path, Allocate, AllocateFails, filp_open, OpenFails, OptionMissing,
          trfs_iget, IgetFails, d_make_root, MakeRootFails, new_dentry_private_data,
          PrivateDataFails
    <3>2. CASE UNCHANGED vars
      BY <2>1, <3>2 DEF vars
    <3>3. ASSUME NEW d \in Callers, d # c, Submit(d) PROVE pc'[c] = "queue" /\ arg'[c] = n
      BY <2>1, <3>3 DEF Submit, eworkqueue_init, CreateWorkqueue, queue_work, TypeOK
    <3>4. CASE Submit(c)
      BY <2>1, <3>4 DEF Submit, eworkqueue_init, CreateWorkqueue
    <3>5. CASE LoggerStep
      BY <2>1, <3>5 DEF LoggerStep, kthread_should_stop, Look, ssleep, mutex_lock,
          FlushAll, mutex_unlock, Crash, Goto, TypeOK
    <3>6. ASSUME NEW w \in Workqueues, WorkerStep(w) PROVE pc'[c] = "queue" /\ arg'[c] = n
      BY <2>1, <3>6 DEF WorkerStep, TakeWork, CheckBit, mutex_lock, sync_log_record,
          mutex_unlock, FreeWork, Crash, Goto, TypeOK
    <3> QED
      BY <3>1, <3>2, <3>3, <3>4, <3>5, <3>6 DEF Next
  <2>3. CASE pc'[c] = "queue" /\ arg'[c] = n
    BY <2>3 DEF InHands
  <2>4. CASE queue_work(c)
    <3>1. work' = [work EXCEPT ![eWq] = Append(@, n)]
      BY <1>1, <2>1, <2>4 DEF queue_work
    <3>2. work'[eWq] = Append(work[eWq], n) /\ work[eWq] \in Seq(Nat)
      BY <1>3, <3>1
    <3>3. n \in Elements(work'[eWq])
      BY <3>2, ElementsAppend
    <3> QED
      BY <1>3, <3>3 DEF Unhandled
  <2> QED
    BY <2>2, <2>3, <2>4
<1>6. CASE n \in Unhandled
  <2>1. PICK w \in Workqueues : n \in Elements(work[w]) \/ n = arg[w]
    BY <1>6 DEF Unhandled
  <2>2. work[w] \in Seq(Nat)
    BY <1>3
  <2>3. /\ pc[w] \in {"none", "idle"} => arg[w] = 0
        /\ pc[w] \in {"unlock", "free"} => arg[w] \in Logged
    BY DEF KeepLife, WorkersRecord
  <2>4. \/ work'[w] = work[w] /\ arg'[w] = arg[w]
        \/ TakeWork(w) \/ FreeWork(w)
        \/ \E c \in Callers : work'[w] = Append(work[w], arg[c]) /\ arg'[w] = arg[w]
    <3>1. CASE Mount \/ kthread_stop \/ FinishUmount \/ UNCHANGED vars
      BY <3>1 DEF Mount, FinishUmount, kthread_stop, Joined, UmountLock, UmountWrite,
          filp_close, FreeTraceInfo, destroy_workqueue, generic_shutdown_super, Oops, Then,
          trfs_mount, kern_path, Allocate, AllocateFails, filp_open, OpenFails, OptionMissing,
          trfs_iget, IgetFails, d_make_root, MakeRootFails, new_dentry_private_data,
          PrivateDataFails, vars, queues
    <3>2. ASSUME NEW c \in Callers, Submit(c)
          PROVE  /\ work'[w] \in {work[w], Append(work[w], arg[c])}
                 /\ arg'[w] = arg[w]
      <4>1. CASE eworkqueue_init(c) \/ CreateWorkqueue(c)
        BY <4>1 DEF eworkqueue_init, CreateWorkqueue, TypeOK, queues
      <4>2. CASE queue_work(c)
        <5>1. work' = [work EXCEPT ![eWq] = Append(@, arg[c])]
          BY <1>1, <4>2 DEF queue_work
        <5>2. work'[w] = IF w = eWq THEN Append(work[w], arg[c]) ELSE work[w]
          BY <1>3, <5>1
        <5> QED
          BY <4>2, <5>2 DEF queue_work, TypeOK
      <4> QED
        BY <3>2, <4>1, <4>2 DEF Submit
    <3>3. CASE LoggerStep
      BY <3>3 DEF LoggerStep, kthread_should_stop, Look, ssleep, mutex_lock,
          FlushAll, mutex_unlock, Crash, Goto, queues
    <3>4. ASSUME NEW v \in Workqueues, v # w, WorkerStep(v)
          PROVE  work'[w] = work[w] /\ arg'[w] = arg[w]
      BY <3>4 DEF WorkerStep, TakeWork, CheckBit, mutex_lock, sync_log_record,
          mutex_unlock, FreeWork, Crash, Goto, TypeOK, queues
    <3>5. CASE WorkerStep(w)
      BY <3>5 DEF WorkerStep, CheckBit, mutex_lock, sync_log_record,
          mutex_unlock, Crash, Goto, queues
    <3> QED
      BY <3>1, <3>2, <3>3, <3>4, <3>5 DEF Next
  <2>5. CASE TakeWork(w)
    <3>1. /\ work[w] # <<>>
          /\ arg'[w] = Head(work[w]) /\ work'[w] = Tail(work[w])
      BY <1>3, <2>5 DEF TakeWork, TypeOK
    <3>2. n \in Elements(work[w])
      BY <2>1, <2>3, <2>5 DEF TakeWork, Goto
    <3>3. n = arg'[w] \/ n \in Elements(work'[w])
      BY <2>2, <3>1, <3>2, ElementsHeadTail
    <3> QED
      BY <3>3 DEF Unhandled
  <2>6. CASE FreeWork(w)
    <3>1. work' = work /\ arg[w] \in Logged
      BY <2>3, <2>6 DEF FreeWork, Goto, queues
    <3>2. CASE n = arg[w]
      BY <1>2, <3>1, <3>2
    <3>3. CASE n \in Elements(work[w])
      BY <3>1, <3>3 DEF Unhandled
    <3> QED
      BY <2>1, <3>2, <3>3
  <2>7. CASE work'[w] = work[w] /\ arg'[w] = arg[w]
    <3>1. n \in Elements(work'[w]) \/ n = arg'[w]
      BY <2>1, <2>7
    <3> QED
      BY <3>1 DEF Unhandled
  <2>8. ASSUME NEW c \in Callers, work'[w] = Append(work[w], arg[c]), arg'[w] = arg[w]
        PROVE  n \in Unhandled'
    <3>1. Elements(work[w]) \subseteq Elements(work'[w])
      BY <1>3, <2>2, <2>8, ElementsAppend
    <3>2. n \in Elements(work'[w]) \/ n = arg'[w]
      BY <2>1, <2>8, <3>1
    <3> QED
      BY <3>2 DEF Unhandled
  <2> QED
    BY <2>4, <2>5, <2>6, <2>7, <2>8
<1> QED
  BY <1>4, <1>5, <1>6

(* What the unmount finds is pending or logged, and written before close.  *)
LEMMA TrackedStep ==
  ASSUME TypeOK, Construction, ThreadsLife, FileWritable, KeepLife, [Next]_vars
  PROVE  Tracked'
<1> USE ThreadsAssumption DEF Threads
<1>1. queued \in Nat /\ file \in Seq(Nat) /\ buffer \in Seq(Nat)
  BY DEF TypeOK
<1>2. ASSUME at' = "mounted", NEW n \in 1 .. queued'
      PROVE  n \in (InHands \cup Unhandled \cup Logged)'
  <2>1. at \in {"private", "mounted"} /\ (at = "private" => queued' = queued)
    BY <1>2, Flow
  <2>2. at = "mounted" /\ n \in Nat \ {0}
    BY <1>1, <1>2, <2>1 DEF KeepLife, NoneSubmitted
  <2>3. CASE n \in 1 .. queued
    <3>1. n \in InHands \cup Unhandled \cup Logged
      BY <2>2, <2>3 DEF KeepLife, Tracked
    <3> QED
      BY <1>2, <2>2, <3>1, HeldWhileMounted
  <2>4. CASE n \notin 1 .. queued
    <3>1. queued' # queued
      BY <1>2, <2>4
    <3>2. PICK c \in Callers : eworkqueue_init(c)
      BY <2>2, <3>1 DEF Next, Mount, FinishUmount, Submit, LoggerStep, WorkerStep, vars,
          trfs_mount, kern_path, Allocate, AllocateFails, filp_open, OpenFails, OptionMissing,
          trfs_iget, IgetFails, d_make_root, MakeRootFails, out_sput, Oops,
          new_dentry_private_data, PrivateDataFails, CreateWorkqueue,
          queue_work, kthread_should_stop, Look, ssleep, TakeWork, CheckBit,
          mutex_lock, FlushAll, sync_log_record, mutex_unlock, FreeWork,
          Crash, kthread_stop, Joined, UmountLock, UmountWrite, filp_close,
          FreeTraceInfo, destroy_workqueue, generic_shutdown_super, Then, history
    <3>3. n = queued + 1
      BY <1>1, <1>2, <2>4, <3>2 DEF eworkqueue_init
    <3>4. eWq # NULL
      BY <2>2 DEF KeepLife, HasQueue
    <3>5. pc'[c] = "queue" /\ arg'[c] = n
      BY <3>2, <3>3, <3>4 DEF eworkqueue_init, TypeOK
    <3> QED
      BY <3>5 DEF InHands
  <2> QED
    BY <2>3, <2>4
<1>3. ASSUME at' \in {"join", "lock", "write"}, NEW n \in 1 .. queued'
      PROVE  n \in pending' \cup Logged'
  <2>1. /\ queued' = queued /\ n \in 1 .. queued /\ queued > 0
        /\ (at \in {"join", "lock", "write"} /\ pending' = pending) \/ kthread_stop
    <3>1. /\ queued' = queued
          /\ (at \in {"join", "lock", "write"} /\ pending' = pending) \/ kthread_stop
      BY <1>3, Flow
    <3> QED
      BY <1>1, <1>3, <3>1
  <2>2. CASE at \in {"join", "lock", "write"} /\ pending' = pending
    <3>1. mem["filp"] = "live"
      BY <2>1, <2>2 DEF KeepLife, CanBeWritten
    <3>2. Logged \subseteq Logged'
      BY <2>2, <3>1, LoggedGrows
    <3> QED
      BY <2>1, <2>2, <3>2 DEF KeepLife, Tracked
  <2>3. CASE kthread_stop
    <3>1. at = "mounted" /\ \A c \in Callers : pc[c] = "idle"
      BY <2>1, <2>3 DEF kthread_stop, KeepLife, NoneSubmitted
    <3>2. n \in Unhandled \cup Logged
      BY <2>1, <3>1 DEF KeepLife, Tracked, InHands
    <3>3. pending' = Unhandled /\ buffer' = buffer /\ file' = file
      BY <2>3 DEF kthread_stop, records
    <3> QED
      BY <3>2, <3>3 DEF Logged
  <2> QED
    BY <2>1, <2>2, <2>3
<1>4. ASSUME at' \in {"close", "free", "drain", "shutdown", "unmounted"},
             NEW n \in 1 .. queued'
      PROVE  n \in pending' \cup Elements(file')
  <2>1. /\ queued' = queued /\ pending' = pending
        /\ \/ at \in {"close", "free", "drain", "shutdown", "unmounted"}
           \/ at = "write" /\ file' = file \o buffer
    BY <1>4, Flow DEF FileWrite, FileWritable, MayFail
  <2>2. Elements(file) \subseteq Elements(file')
    BY <2>1, FileGrows
  <2>3. CASE at = "write" /\ file' = file \o buffer
    <3>1. n \in pending \cup Logged
      BY <1>4, <2>1, <2>3 DEF KeepLife, Tracked
    <3>2. Elements(file') = Elements(file) \cup Elements(buffer)
      BY <1>1, <2>3, ElementsConcat
    <3> QED
      BY <2>1, <3>1, <3>2 DEF Logged
  <2>4. CASE at \in {"close", "free", "drain", "shutdown", "unmounted"}
    BY <1>4, <2>1, <2>2, <2>4 DEF KeepLife, Tracked, KeptByUnmount
  <2> QED
    BY <2>1, <2>3, <2>4
<1> QED
  BY <1>2, <1>3, <1>4 DEF Tracked, KeptByUnmount

LEMMA KeepLifeInvariant == QueueAtMount /\ FileWritable => (Spec => []KeepLife)
<1> SUFFICES ASSUME QueueAtMount, FileWritable PROVE Spec => []KeepLife
  OBVIOUS
<1>1. Init => KeepLife
  BY ThreadsAssumption DEF Init, Threads, KeepLife, NoneSubmitted, CanBeWritten, HasQueue,
      WorkersRecord, Tracked, KeptByUnmount
<1>2. Life /\ KeepLife /\ [Next]_vars => KeepLife'
  <2> SUFFICES ASSUME Life, KeepLife, [Next]_vars PROVE KeepLife'
    OBVIOUS
  <2>1. TypeOK /\ Construction /\ ThreadsLife
    BY DEF Life
  <2>2. NoneSubmitted' /\ CanBeWritten' /\ HasQueue'
    BY <2>1, GateStep
  <2>3. WorkersRecord'
    BY <2>1, WorkersRecordStep
  <2>4. Tracked'
    BY <2>1, TrackedStep
  <2> QED
    BY <2>2, <2>3, <2>4 DEF KeepLife
<1> QED
  BY <1>1, <1>2, LifeInvariant, PTL DEF Spec

(* Every record that was handled before the unmount began is in the trace  *)
(* file when it is closed, whichever of the logger, the workers and the    *)
(* unmount wrote the buffer and whichever calls of the mounts before       *)
(* failed, if the workqueue is created at mount time and the trace file    *)
(* can be written (main.c:233-239).                                        *)
THEOREM UnmountKeepsRecords == QueueAtMount /\ FileWritable => (Spec => []KeptByUnmount)
<1> SUFFICES ASSUME QueueAtMount, FileWritable PROVE Spec => []KeptByUnmount
  OBVIOUS
<1>1. KeepLife => KeptByUnmount
  BY DEF KeepLife, Tracked
<1> QED
  BY <1>1, KeepLifeInvariant, PTL
=============================================================================
