# A verification development for trfs

trfs is a stackable Linux file system (a copy of wrapfs) that records the
operations of its users in a trace file; `hw2/treplay` replays such a file and
`hw2/trctl` chooses which operations are recorded.  This directory holds TLA+
models of it, the TLC runs that check them on small instances and TLAPS proofs
for every instance.  Paths below are relative to `src/`.

## 1. The system

| Component | State | Operations | Interacts with |
|---|---|---|---|
| trace pipeline (`trfs/file.c`, `trfs/inode.c`) | records in callers' hands, the workqueue `eWq`, `tr_info` (buffer, `buffer_offset`, file, `offset`, bitmap, lock), `last_id` | ten traced operations, `eworkqueue_init`, `ework_handler`, `log_record`, `sync_log_record`, `thread_fn`, ioctl | lower file system, trace file, mount |
| bitmap control (`hw2/trctl.c`, `trfs_unlocked_ioctl`) | `tr_info->bitmap` | set all, set to a value, get | pipeline (read without the lock) |
| mount and unmount (`trfs/main.c`, `put_super`) | the parsed options, `s_fs_info`, `tr_info`, the logger thread, the workqueue, the lower super block's count | `trfs_mount`, `trfs_read_super`, `trfs_umount` | pipeline: unmount stops the logger, writes the buffer, frees `tr_info`, then drains the queue |
| namespace operations (`trfs/inode.c`, `trfs/lookup.c`) | upper dentries and inodes over the lower tree | create, link, unlink, symlink, mkdir, rmdir, mknod, rename, lookup | lower tree, references, pipeline |
| lower references (`lookup.c`, `dentry.c`, `super.c`, `trfs.h`) | lower inode, path, file and super-block counts | interpose, iget, evict, d_release, open, release | namespace, mount |
| trace format and replay (`hw2/treplay.c`, `mapper.h`) | file position, the map from kernel file addresses to descriptors, deviation state | one `replay_record` per record type | the trace file |
| sizes, offsets and attributes (`trfs/file.c`, `trfs/inode.c`) | size of each file and directory in the upper and the lower inode, offset of an open directory in the upper and the lower file | write, write_iter, setattr, link, lseek, readdir, and the size every namespace operation copies | lower file system, VFS locks |
| mmap, times, xattr, readlink | none of their own | delegation | lower file system |
| wrapfs (`wrapfs/`) | as trfs without tracing | same | lower file system |

What makes the behaviour hard:

* Many threads log.  Callers of `readdir` log themselves, the workqueue thread
  logs for everybody else, the logger flushes every second, and large reads and
  writes flush and write on their own.  All share one buffer under one mutex,
  and several decisions (`CHECK_BIT`, `buffer_offset > 0`) are taken outside it.
* A large read or write is logged in two critical sections by two threads.
* Logging is asynchronous: order in the trace is the order of the queue, not of
  the operations; directory locks are what relates the two.
* Trace-file writes may fail or be short and nobody looks.
* Records of `link` are not zeroed; the record of a large operation is read
  after it was freed.
* Unmount runs against work still queued; every error path of mount leaves a
  different half-built `s_fs_info` to `trfs_umount`.
* Upper and lower tree change in two steps and an allocation in between can fail;
  an open inside a directory that is being renamed waits for neither.
* A lookup hashes its dentry some time after it found the lower one, and moves the
  dentry that a directory has already; renames, removals and evictions happen in
  between, in both layers.
* Sizes and offsets exist twice, and nothing locks both copies together.
* treplay has its own copy of the record's layout and shares no header with trfs.

What makes each component correct: the pipeline neither loses, duplicates,
reorders nor tears records, never overflows the buffer, numbers records
uniquely and makes every record reach the file; mount and unmount release what
they took, once, and lose no queued record; the upper tree shows what the lower
tree holds; counts return to zero; the replay reads exactly what the pipeline
wrote and keeps one live descriptor per traced file.

`PROJECT.json` lists every component with its status and every hazard with its
line and the properties that cover it.

## 2. Modules

`TrfsTrace` models the pipeline.  `TraceLog` is what it promises to a reader of
the trace file: an append-only log of records with consecutive numbers and of
data blocks, with a growing part that is in the file.  `TrfsTrace` instantiates
it with a refinement mapping.  `MCTrfsTrace` adds symmetry for TLC.
`TrfsTraceProofs` proves theorems about `TrfsTrace`, and `TrfsOrderProofs`, which
EXTENDS it, those about the order and the completeness of the trace.

`TrfsMount` models the life of a super block, from `trfs_read_super` to
`trfs_umount` and the next mount, with the threads that trace meanwhile;
`MCTrfsMount` adds symmetry and the set of all failures for TLC.
`TrfsMountProofs` proves theorems about it, and `TrfsUnmountProofs`, which EXTENDS
it, the one about the records that an unmount must not lose.  `TrfsTrace` is about what happens
inside one mount and keeps every object alive; `TrfsMount` is about which
objects are alive and keeps of a record only its number.

`Treplay` models operations, the trace they leave and its replay by `treplay`;
`FileTree` is the small file system on which both halves work, `TraceCodec` the
layout of the trace file as trfs writes it and as treplay reads it, and
`MCTreplay` adds symmetry.  `TreplayProofs` proves the invariants of `Treplay`.

`Wrapfs` models upper objects over lower ones, and the references between them,
through every operation of wrapfs.  `TrfsStack` EXTENDS it to trfs: the same
operations, with a record made in the middle of some, which may fail.  `TrfsSize`
models what is kept in both layers and may come apart; `TrfsSizeProofs` proves
its invariants.  `WrapfsProofs` proves those of `Wrapfs`, and `TrfsStackProofs`,
which EXTENDS it and `TrfsStack`, that trfs keeps them and implements wrapfs.
`MCWrapfs`, `MCTrfsStack` and `MCTrfsSize` add symmetry.

### TrfsTrace

Each thread (`Callers`, `Worker`, `Logger`) has a program counter `pc` and the
record it works on, `arg`.  A step is the code between two points where another
thread can see or change shared state.  A caller goes

    idle -> built -> idle                             small record queued (or none)
    idle -> built -> log .. unlock -> idle            readdir
    idle -> built -> flushwq -> biglock -> bigsync -> bigreset -> payload -> unlock
                                                      large read or write

and `log_record` is, for whoever runs it,

    log -> lock -> sync -> reset -> append -> unlock

where `sync -> reset` writes the buffer to the file, `reset -> append` (or
`-> unlock` for the flush signal) sets the offset to zero, and `sync -> unlock`
or `append -> unlock` copies the record.  The write and the reset are two steps
although the lock is held, because the logger's test of `buffer_offset` is not
under the lock.

| TLA+ | code |
|---|---|
| `Call` and the ten operations | the handler up to the point where its record is complete: directory locks, the lower operation, the record's size |
| `Untraced` | the returns without a record: lower failure that is not traced, failed allocation, failed copy |
| `eworkqueue_init`, `TakeWork`, `FreeWork` | `queue_work` on the single-threaded queue, start and end of `ework_handler` |
| `QueueLarge`, `flush_workqueue`, `LockForData`, `FlushForData`, `ResetForData`, `WriteData`, `SkipLarge` | the large branch of `trfs_read` and `trfs_write` |
| `log_record_skip`, `log_record`, `LockForRecord`, `LockForFlush` | the bit test, the lock, the id |
| `FlushBuffer`, `FlushDone`, `sync_log_record`, `mutex_unlock` | `sync_log_record` and the unlock |
| `SignalFlush`, `NothingToFlush`, `Wake` | `thread_fn` |
| `trfs_unlocked_ioctl` | `TRFS_IOCSETALL` and `TRFS_IOCSETOPT` |

Abstractions.  A record is its type, its size and its flags: its bytes only
matter through their number, and for every type the bytes that
`sync_log_record` copies are as many as `record_size` says.  The buffer and the
file are sequences of entries, one per record or directly written data block.
A directory lock stands for the upper inode lock the VFS holds and the lower
one the handler takes; `rename` takes both directories at once as
`lock_rename` does.  A faulty write leaves a prefix of the buffer in the file,
its last entry possibly cut.  `flush_workqueue` is modelled by its weakest
guarantee, that the caller's own work is done; waiting for others' work as well
only removes behaviours.  Two values are what the memory happened to hold and
are chosen freely: `flush_buffer_sig` of a `link` record (`kmalloc`) and the
data length of a large operation (read after the free).  The history fields
`pos`, `exec`, `q`, `dirs`, `by` of a record and the counters `logged`, `ops`,
`queued` only serve the properties.  Outside the model: calls that oops
(`trfs_open` and `trfs_readdir` dereference a NULL record when its allocation
fails, and so does `thread_fn` with the record of its flush signal,
`trfs/file.c:24` and 31), failed allocation of the work item, `eWq` missing.

Operators commented `mutant:` are wrong variants of the definition after them;
none is used by the specification.  Replacing the definition by its variant
must break the property named in `PROJECT.json`, which shows that the property
depends on that part of the code.

### TrfsMount

`at` is where the mounting and unmounting thread is:

    unmounted -> path -> alloc -> open -> super -> root -> private -> mounted
        any error exit -> kill
    mounted or kill -> join -> lock -> write -> close -> free -> drain -> shutdown -> unmounted

`kill` is where `mount_nodev` calls `trfs_umount` for a mount that failed, and
`oops` where the thread dereferenced a NULL or error pointer.  `Faults` names
the calls that may fail in a run.

| TLA+ | code |
|---|---|
| `trfs_mount` | the options it parses and the super block of `mount_nodev` |
| `kern_path`, `Allocate`, `filp_open`, `trfs_iget`, `d_make_root`, `new_dentry_private_data` | the stages of `trfs_read_super` |
| `AllocateFails`, `OpenFails`, `OptionMissing`, `IgetFails`, `MakeRootFails`, `PrivateDataFails`, `out_sput` | its error exits, with the references each leaves; the use of a missing `tfile` option |
| `eworkqueue_init`, `CreateWorkqueue`, `queue_work` | `eworkqueue_init` in three steps: the test of `eWq`, the creation, the queueing |
| `kthread_should_stop`, `Look`, `ssleep`, `FlushAll` | `thread_fn` and the flush it asks for |
| `TakeWork`, `CheckBit`, `mutex_lock`, `sync_log_record`, `mutex_unlock`, `FreeWork` | `ework_handler` and `log_record` |
| `Crash` | a thread killed by what it read from freed memory; it keeps the lock |
| `kthread_stop`, `Joined`, `UmountLock`, `UmountWrite`, `filp_close`, `FreeTraceInfo`, `destroy_workqueue`, `generic_shutdown_super` | `trfs_umount`, statement by statement; the last includes `trfs_evict_inode`, `trfs_d_release` and `trfs_put_super` |

`mem` says of the private data, `tr_info`, the trace file, the options
(`opt`, `opt->option`) and the device number of the super block whether they are
live or freed; the last three are `Unreleased`, as no code releases them. `refs` counts what
the mount holds: the lower path, the lower
super block, the upper root inode, and the lower root inode through it.  Use of
freed memory is a choice: the step may go on as if nothing had happened (the
memory was not reused) or the thread is killed.  A caller has a file open, so
unmount starts when no caller is inside an operation; queued work does not hold
it up.  A write of the trace file may fail or be short in any place where the code
ignores that (`"write"` in `Faults`), and what `vfs_write` does on a closed file is a
choice too.  A super block
whose unmount left a workqueue behind is not mounted again in the model: the
handlers left would belong to another super block.

### Treplay

The first half of a behaviour (`mode = "trace"`) executes traced operations on
`lower`, one record each; `Start` picks one of the three modes of treplay, whose
main loop then goes through the trace and executes it on `target`, which began
equal to `lower`.

| TLA+ | code |
|---|---|
| `trfs_open` .. `trfs_rename` | the lower half of each operation and the record it leaves, failures only where they are traced |
| `Reported` | `trfs_link` and `trfs_flush`, whose lower half is done when they trace an error (of `trfs_interpose`, of the lower flush) |
| `Ppos`, `Moved` | read and write at the file's offset, pread and pwrite at one of their own |
| `generic_file_llseek` | lseek of a file, which leaves no record |
| `Duplicate` | dup and fork, of which trfs only sees the additional flush |
| `ReplayOpen` .. `ReplayRename` | the cases of `replay_record` |
| `map_add`, `map_find` | the map from kernel addresses to descriptors |
| `Result`, `ShowRecord` | the end of the main loop: deviation, strict mode, `-n` |

A file is its length: what is written is the same on both sides.  Names are flat.
Each record carries the lower file system after its operation (`fs`), the record
of the open its file comes from (`by`), whether the lower file system refused it
(`fails`) and whether it read or wrote elsewhere than the records before it tell
(`strays`), all history; `told`, in an open file, is the offset at which its records
alone would put it.  An operation that was refused is refused in the replay too.  An
open that is refused after `trfs_create` has made the file (`RefusedOn`) is refused
again, with or without making it; an error that a flush reported may occur again or
not; that of `trfs_interpose` after a lower link is one of the upper layer and does not
occur below.  The trace is complete and in order of execution: `TrfsTrace` says when it
is.  Left out are permissions, the flags `O_TRUNC` and `O_APPEND`, and operations that
trfs does not trace (truncate, symlink, mknod).

### TraceCodec

`Cells` is what `sync_log_record` copies for each of the ten types, `record_size`
what the operation announces before, and `RecordAt` the switch of treplay's main
loop.  `Offsets` is where each iteration of that loop starts to read, `RecordsOf`
what it has read at the end of the file; `RecordsOf(TraceFile(..))` is a trace
written and read.  A field of fixed
width is one cell, a path or a block of data its length and one cell per byte.
Both enumerations of the types are there, in the order of each source file.
Recursion is by recursive functions.

### Wrapfs and TrfsStack

| TLA+ | code |
|---|---|
| `entry`, `isdir` | the lower file system: directories and their names |
| `l_at`, `l_inode`, `l_hashed`, `l_count`, `mnt_count`, `i_count` | lower dentries, and the references that the upper layer holds on them, the lower mount and the lower inodes |
| `d_at`, `d_inode`, `d_hashed`, `lower_path`, `lower_inode` | upper dentries, the lower path in their private data, and upper inodes |
| `i_new` | dentries whose inode is new from `iget5_locked` and not set up |
| `wrapfs_lookup`: `LookupNegative`, `LookupCached`, `LookupNew`, `LookupFails`, then `wrapfs_iget_new` | `wrapfs_lookup`, `__wrapfs_lookup`, `__wrapfs_interpose`, `wrapfs_iget` |
| `wrapfs_create` .. `wrapfs_rename` | the operations on directories: the lower operation, interposition, `d_drop` or the `d_move` of the VFS |
| `wrapfs_open`, `wrapfs_file_release`, `wrapfs_d_release`, `evict_inode`, `wrapfs_d_revalidate` | the operations of the same names |
| `trfs_mkdir`, `trfs_unlink`, `trfs_rmdir`, `trfs_rename`, `trfs_link`, `trfs_open` | the same of trfs, with the exit taken when there is no memory for the record |
| `vfs_rename` | the `d_move` of the VFS after `trfs_rename` has returned |

The VFS calls an operation that changes a directory with the inode lock of the
directory, so it is one step for whatever takes that lock too.  A lookup in progress and
a negative dentry that waits for its creation keep their directory locked (`Locked`).

A rename of trfs takes two steps, because what happens to the dentry that moves, or
below it, is not kept out by the locks of the two directories: `trfs_rename` moves the
name below and queues the record, `vfs_rename` moves the upper dentry.  `moving` has the
renames in between.  The directories of these are locked (`Unlocked`, and
`s_vfs_rename_mutex` between two directories, `RenameLocks`).  `d_at` is the place that
a dentry is given, which is where `Wrapfs` needs it; where the VFS still sees it, and
`dentry_path_raw` writes it, is `Place`.  `trfs_open` takes no lock, so it may run in
between, anywhere below; only the dentry that is being replaced is not opened then.
Lower move and queueing (`inode.c:441` and 487) remain one step: the path of another
operation is the one it has when its record is made, and in which order two records
that were made at the same time are queued is not modelled here (`DirOrder` of
`TrfsTrace` holds of operations with a common directory only).  wrapfs makes no records,
and in `Wrapfs` a rename is one step.  A lookup that needs a new inode takes two
steps, so that another lookup, under another name, may find the lower inode
meanwhile: `wrapfs_inode_set` sets nothing, and `wrapfs_inode_test` therefore
accepts no inode that is still being set up.  Such a `race` is one of the failures
that leave something behind, with the missing inode (`wrapfs_iget` then puts the
lower inode, which it has not taken yet), the stale lower dentry and the missing
record; each occurs at most once, and at most `MaxFailed` of them in a behaviour.
Failures that leave nothing behind are unlimited.  References borrowed for the
time of an operation are not shown.  New objects get the least free number, which
loses nothing as numbers mean nothing.  `oops` is terminal: a thread of trfs has
dereferenced NULL.  A record with a path that could not be made is queued by trfs
and crashes the workqueue thread later; that crash is not modelled.  Nor are
changes made to the lower file system behind the back of the upper one, lookups
inside a directory that was removed, and the file handles of NFS export.

### TrfsSize

| TLA+ | code |
|---|---|
| `trfs_write_iter` (with `trfs_write`), `CopyReads`, `CopySets`, `AioDone` | `trfs_write` and `trfs_write_iter`: the lower write, and `fsstack_copy_inode_size` in its two halves; the end of a write that was only queued (`-EIOCBQUEUED`) |
| `WriteFails` | a lower write that extends the file and then fails its sync (`O_SYNC`): an error, and no size copied |
| `trfs_setattr`, `notify_change` | the two truncations of `trfs_setattr` |
| `trfs_link`, `LinkSetsSizes` | what `trfs_link` does to the sizes of the directory and of the file |
| `ChangeDir`, `CopyDirSize` | the other operations on directories |
| `trfs_file_llseek`, `SeekLower` | `trfs_file_llseek`: the upper seek, whose offset it keeps in an int (`AsInt`), and the lower one unless that looks negative |
| `generic_file_llseek`, `Target` | the five kinds of lseek in the kernel; `SEEK_END`, `SEEK_DATA` and `SEEK_HOLE` go by the size of the layer (`BySize`) |
| `trfs_readdir`, `CopyPos`, `iterate_dir` | `trfs_readdir` and what its caller does with `ctx->pos`, which a lower `iterate_dir` that fails has not set |
| `trfs_iget` | eviction of the inode and the next lookup |

One file and one directory are enough: no operation relates two files, and
`rename`, which may have two directories, does the same to each.  A lower write
extends the file to any size or leaves its size.  `InodeLocked` and `DirLocked`
are the locks of the VFS of Linux 4.6, for which the tree was built (`vermagic`
of `wrapfs/wrapfs.ko`); there `lseek` of a directory takes none.  `IntLimit` stands for
2^31.  `alone`,
`raced`, `truncated`, `stale` and `adrift` are history and say when the two copies
must agree.

## 3. Properties

* `TypeOK`: types, and each thread only at steps of its own code.
* `BufferFits`: `buffer_offset` stays below the size of the buffer.
* `IncreasingIds`: ids increase along the trace until `last_id` wraps.
* `HandledAreTraced`: what the workqueue handled is in the trace.
* `QueueOrder`, `DirOrder`: queued records are traced in queue order; those of a
  common directory in the order the lower file system executed them.
* `HeaderBeforePayload`, `HeaderHasPayload`, `PayloadFollowsHeader`: the data of
  a large operation comes after its header, exists for each header of a finished
  operation, and stands right behind it.
* `QueuedReachesFile`, `CallReturns`: liveness.
* `ImplementsTraceLog`: refinement.

Of `TrfsMount`:

* `TypeOK` bounds each reference by -1 .. 1 as well, over any number of mounts.
* `LoggerSafe`, `SbInfoSafe`, `TraceInfoSafe`: no thread works on freed data.
* `KeptByUnmount`: as long as the trace file can be written, a record whose handler
  finished before unmount began is in the file afterwards; `EmptiedAtClose` asks it of
  every record.
* `UnmountReleases`, `ErrorDropsLower`, `RefsTaken`, `ErrorReturned`: unmount
  and failed mounts give back what was taken, once, and return.  `UnmountReleases`
  excepts the options and the device number by name (`Unreleased`): trfs leaks them on
  every unmount, which `AllReleased` shows.
* `UnmountEnds`: liveness of unmount.

Of `Treplay`.  Up to a record, a trace is `Unambiguous` if no address has been opened
twice in it or used after a close, `Sequential` if each read and write was where the
records put it (no pread, pwrite or lseek went elsewhere), and has `NoHalfOpen` if no
open failed after the file was created:

* `RightFile`: each read, write and close reaches the descriptor of its own open
  (`Unambiguous`, `NoHalfOpen`).
* `InStep`: after each record names and directories (`NoHalfOpen`) and lengths (all
  three premises) are those of the traced file system after the operation.
* `DeviationsAreFailures`: what succeeded in the kernel replays with its result (all
  three premises).
* `AddressIdentifies`, `LengthsInStep`, `NamesInStep`, `StrictInStep`: the same without
  a premise each; none of them holds.
* `ParsesBack`: every trace that trfs can write is parsed by treplay into the
  records it was written from, and each record is as long as its operation said.

Of `Wrapfs` and `TrfsStack`:

* `RefsReturned`: each reference on the lower layer belongs to an upper object that
  will return it, no more and no less; `RefsHeld`, for trfs and more failures:
  none is missing.
* `NamesMatch`: a name that the cache holds is a name below, of the same object, in
  the same directory.
* `OneInode`: a lower inode has one upper inode, however many names lead to it.
* `PathsResolve`: the path a record carries leads to the object of its operation,
  unless a rename is just moving the object or a directory above it (`Overtaken`);
  `OpenPathsResolve`, which does not hold, asks it of each open without the exception.

Of `TrfsSize`:

* `SizesAgree`, `OffsetsAgree`: operations that do not overlap leave both copies
  equal, whatever happened to them before.  For sizes the exceptions are a truncate or
  a sync that fails below and a queued write; for offsets a seek to an offset that looks
  negative as an int, and one by a size that a link or a failed operation left behind.
  `SizesFollow` and `SeekConsistent` have no exceptions and do not hold.
* `UpperLags`: operations that do overlap leave the upper size too small at worst.

In the properties of `TrfsTrace`, "the trace" (`Trace`) is the file followed by the
buffer, except that between the write of the buffer and its reset it is the file
alone.

## 4. Runs

All runs use a buffer of 4 units, headers of 1, records of 1 to 5, so that a
second small record forces a flush, a record of 5 is large, and a flush falls
before, between and after every other step.  Two callers, the worker and the
logger give every pair of racing threads; three operations give a queue with a
record being handled, one waiting and one being queued.  `IdSpace` 2 or 3
makes `last_id` wrap in the longer runs; runs that check ids have as many
ids as records so that the premise holds throughout.

| Run | Shows |
|---|---|
| `core` | open, readdir, rename, small and large write by two callers in two directories, with the logger: buffer, ids, no loss, queue order, `DirOrder`, header before data |
| `faults` | failing and short writes, uninitialised link records: ids and order survive the losses |
| `ioctl` | bits cleared and set at every moment: no traced header without data |
| `liveness` | under fairness every queued record reaches the file and every call returns; `TrfsTrace` implements `TraceLog` |
| `mount` | no failures: mount, two callers, worker and logger, unmount at every moment, mount again; nobody but a late handler meets freed memory, nothing handled in time is lost, everything but options and device number is given back, and an unmount with no work pending ends |
| `mount_faults` | every call may fail, and every write of the trace file: no failed mount keeps the lower path or super block |
| `replay` | every trace of four operations of the ten kinds on two names and two addresses, with refusals (EPERM and another error), half opens, reported errors, lseek, pread and pwrite, duplicated descriptors and reused addresses, in all three modes, written and parsed back |
| `wrapfs` | any sequence of lookups, creations, links, removals, renames, opens, releases and evictions on three inodes, with every failure: references, names and inodes of the two layers stay in step |
| `stack` | the same for trfs, with records that cannot be allocated: and with renames in flight: no reference is missing, and the paths in the records resolve |
| `sizes` | two threads write, truncate, link, seek and read a file and a directory, with lower failures: sizes and offsets agree again whenever nothing overlapped |

The `mount` runs use a buffer of two records and four records, so that a flush by
the worker, one by the logger and the write of unmount each find a full, a partial
and an empty buffer while work is still queued.

Four records are what `RightFile` needs to matter: open, close, open again with
the descriptor of the first, use.

`wrapfs` has the root, a directory and a file (or a second directory), so that a
directory moves below another while a name in it is cached.  Four upper dentries,
the root's, two names of one inode and a negative one, are what a link or a rename
onto a third name needs.  One lasting failure at a time is allowed there, two in
`stack`, which is smaller by one lower and one upper dentry.  One open file is
enough to keep a removed dentry in use.  In `sizes` two threads give every pair of
overlapping operations, sizes from 0 to 2 give the limit, a value below it and
seeks beyond either end, and `IntLimit` 2 makes one of the three look negative.

The largest runs are `replay` (1 757 617 distinct states, under two minutes with two
workers) and `sizes` (1 579 878, a minute and a half); `stack` has 321 616,
`mount_faults` 160 306 and `mount` 28 245.  `stack` has one open file and three upper
dentries, so that a rename has a directory and a name below it to overtake;
`deep_paths.cfg`, outside the listed runs, checks `PathsResolve` with a fourth upper
and lower dentry, hence a path of three names, and no open file (642 178 states).

Runs with symmetric callers (and directories) check invariants only; those with
temporal properties use no symmetry.  The logger polls for ever, so no run of
`TrfsTrace` needs deadlock checking switched off; that callers and worker do not
block each other is `CallReturns`.  The runs of
`TrfsMount` switch it off: a mount that oopsed stops for good, and so does an
unmount that waits for a handler which freed memory has killed.  So does `replay`:
a replay ends; and `stack`, where an oops is the end.

Fairness (`FairSpec`): weak fairness of each caller inside an operation, of the
worker and of the logger, which is what a running kernel gives a runnable
thread.  No fairness makes a caller start an operation.  Weak fairness suffices
for the lock because the operations of a behaviour are bounded by `MaxOps`; with
unboundedly many, the FIFO hand-over of the kernel's mutex would be needed.
`FairSpec` of `TrfsMount` gives it to the unmount once it has begun, to the
logger and to the workers; nobody has to mount, to unmount or to submit.

Violation runs: each checks one statement of the documentation or a comment and
finds a behaviour of the code that breaks it.

| Run | Statement | What happens |
|---|---|---|
| `interleaved_payload` | the mutex "ensures sequential logging and prevents race conditions in all the cases" (`hw2/README:41`) | another caller's record between a large header and its data |
| `failed_open` | "Error filp_open" and an error return (`trfs/main.c:84`) | `trfs_umount` writes through the NULL file of the failed mount |

Further configurations, which are not among the runs of `PROJECT.json`, show more
of the same kind; each ends in a counterexample to the property it names.

| Configuration | Statement | What happens |
|---|---|---|
| `program_order` | the mutex "ensures sequential logging" (`hw2/README:41`), and operations "create the record and submit it to work queue" (`hw2/README:60`) | readdir overtakes the caller's own queued record |
| `freed_length` | "write the contents of the data buffer directly to the trace file" (`trfs/file.c:405`) | the length is read from freed memory |
| `headless_payload` | header first, data "directly written from read/write function" (`trfs/file.c:107-108`) | a bit cleared between the two tests suppresses the header only |
| `unmount_leaves_records` | "Empty out the buffer to the trace file before closing" (`trfs/main.c:233`) | a handler fills the buffer between the write and the close |
| `logger_outlives` | the logger "is destroyed when unmounted" (`hw2/README:65`) | it outlives the private data freed by a failed mount |
| `strict_in_step` | strict mode aborts "as soon as a deviation occurs" (`hw2/README:78`) | a write to another file returns what was expected |
| `lost_link` | link is traced (`hw2/README:29`) | garbage in `flush_buffer_sig` turns the record into a flush signal |
| `unmount_frees_early` | shutdown "after the tracing operations are cleaned up" (`trfs/main.c:258`) | `tr_info` is freed before the queue is drained |
| `reused_address` | the file address is "a unique ID to distinguish file" (`trfs/file.c:604`) | the map keeps the entry of a closed file, whose address another file has |
| `open_deleted` | "don't open unhashed/deleted files" (`trfs/file.c:784`) | the refused open fills in a record it has not allocated |
| `stale_size` | "update our inode times+sizes upon a successful lower write" (`trfs/file.c:466`) | a lower write extends the file and fails its sync; a queued or an overlapping write does it too |
| `far_seek` | "set both the upper and lower file offsets consistently" (`trfs/file.c:942`) | an offset of 2^31 looks negative in an int, and the lower file stays behind |
| `overtaken_open` | the path in an open's record (`trfs/file.c:827`) is the one to open (`hw2/treplay.c:110`) | a directory is renamed below but not yet above, and a file in it opened: the path leads nowhere |
| `positioned` | none: what the records do not say | a write after an lseek, or a pwrite, is replayed at another offset, and lengths differ |
| `half_open` | none: what the records do not say | an open fails after its file was created; the refused open of the replay creates none |
| `unmount_leaks` | shutdown "after the tracing operations are cleaned up" (`trfs/main.c:258`) | the options and the device number stay allocated |
| `dir_offsets` | "set both the upper and lower file offsets consistently" (`trfs/file.c:942`) | a directory has the size of the file linked into it, and `SEEK_END` goes to different places |
| `double_put` | "drop refs we took earlier" (`trfs/main.c:158`) | the root inode is put twice |
| `two_workqueues` | shutdown "after the tracing operations are cleaned up" (`trfs/main.c:258`) | two workqueues are created, one is never drained |

## 5. Proofs

`TrfsTraceProofs` proves, for every set of callers and directories, every
buffer size, record sizes and id space allowed by the `ASSUME`s of `TrfsTrace`
(in particular: a record without data is smaller than the buffer, which holds
because paths are below 1024 bytes in `dentry_path_raw`, and sizes of data
records are arbitrary):

| Theorem | States |
|---|---|
| `TypeCorrect` | `Spec => []TypeOK` |
| `BufferNeverOverflows` | `Spec => []BufferFits` |
| `IdsIncrease` | `Spec => []IncreasingIds`, write faults included |
| `LogRefinement` | `~WriteFaults => (Spec => ImplementsTraceLog)` |

`BufferFits` is not inductive.  Its strengthening `Base` adds: the lock is owned
by whoever is in the critical section (`Exclusive`); a record on its way to the
buffer is smaller than the buffer, or is a large header, which always flushes
because its test uses the full record size (`SizesFit`); between flush and
copy the buffer is empty (`Emptied`).  `IncreasingIds` needs `Numbered`: ids
equal positions until they wrap, and a record that has its id but is not in the
buffer yet is the newest and above all of the trace.  `StepKinds` reduces every
step to four kinds (an id is taken, a record is appended, a data block is
appended, or the trace stays up to a cut by a faulty write), from which both
`NumberedStep` and the step simulation `LogStepRefines` follow.

`TrfsOrderProofs` proves, for the same constants:

| Theorem | States |
|---|---|
| `TracedInQueueOrder` | `Spec => []QueueOrder` |
| `TracedInDirOrder` | `Spec => []DirOrder` |
| `HeaderKeepsItsData` | `~WriteFaults => (Spec => []HeaderHasPayload)` |
| `NothingHandledIsLost` | `Reliable => (Spec => []HandledAreTraced)` |
| `HeaderIsFirst` | `Reliable => (Spec => []HeaderBeforePayload)` |

`Reliable` says that the trace file can be written, that no ioctl clears a bit and
that no link is made.  Each part is needed: a failed write loses what it should have
written, `headless_payload` violates the conclusion when a bit is cleared and
`lost_link` when a link is made.

`QueueKinds` reduces every step to four kinds for the queue (a caller queues a record,
the worker takes one, frees one, or neither), as `TraceKinds` does for the trace.
`QueueInv` numbers the queue without gaps up to `queued`; the worker has the number
before it, and `Top`, the last number that it is done with, never falls, so that a
record that is appended is above all before it (`TraceInv`).  For directories, `Keys` has
number, execution and directories of every record queued, wherever it is now.  A caller
that has run its operation holds its directories until it has queued its record
(`LocksHeld`), so that whatever is queued on one of them ran before (`KeysEarlier`), and
the record it adds comes last (`KeysOrdered`).  `WaitInv` follows a header from the queue
through the worker to the trace while its caller waits; `QueuePromised` and
`TracePromised` follow the caller while its header waits for its data.

`TrfsMountProofs` proves, for every set of callers and workqueues, every buffer
and number of operations:

| Theorem | States |
|---|---|
| `MountTypeCorrect` | `Spec => []TypeOK` |
| `FailedMountDropsLower` | `Spec => []ErrorDropsLower` |
| `LoggerNeverUsesFreed` | `NoLateFailure => (Spec => []LoggerSafe)` |
| `WorkEndsBeforeShutdown` | `NoLateFailure /\ QueueAtMount => (Spec => []SbInfoSafe)` |
| `UnmountGivesBack` | `NoLateFailure /\ QueueAtMount => (Spec => []UnmountReleases)`, of all but `Unreleased` |

`NoLateFailure` excludes the failures of `trfs_iget` and `d_make_root`,
`QueueAtMount` a workqueue that cannot be created at mount time.  Both are needed:
`logger_outlives` and `two_workqueues` violate the conclusions without them.  The
other failures, of the path, the memory, the thread, the option, the trace file and
the root's private data, are allowed.

The inductive invariant has a part per kind of state.  `Construction` says for
each value of `at` which objects exist and which references are held.
`ThreadsLife` says where callers and workers are: outside `mounted` no caller is
in an operation.  `LockLife` says that the owner of the lock is in its critical
section or died there.  `LoggerLife` and `QueueLife`, under the assumptions, say
that the logger exists only between its creation and its join, and that there is at
most the one workqueue `eWq`, destroyed before the private data is freed.

`TrfsSizeProofs` proves, for every set of threads, every limit of sizes and
everything `lseek` may be called with:

| Theorem | States |
|---|---|
| `SizeTypeCorrect` | `Spec => []TypeOK`: no size or offset leaves the limits |
| `UpperNeverAhead` | `Spec => []UpperLags` |
| `SizesSettle` | `Spec => []SizesAgree` |
| `OffsetsSettle` | `Spec => []OffsetsAgree` |

Its invariant says what a thread may rely on between the two halves of its
operation.  `Apart`: a thread that no other clashed with is the only one of its
kind.  `Held`: what it is about to set is the lower size exactly if it is alone,
and not above it otherwise, unless a truncate has begun since.  `Seeking`: a
thread alone knows the upper offset from the lower one.

`TrfsUnmountProofs` proves, for the same constants as `TrfsMountProofs`:

| Theorem | States |
|---|---|
| `UnmountKeepsRecords` | `QueueAtMount /\ FileWritable => (Spec => []KeptByUnmount)` |

Every failure but that of the workqueue and of a write to the trace file is allowed.
`KeepLife` is the invariant: each record ever
submitted is in its caller's hands, with the workqueue or its worker, or in the
buffer or the file (`Tracked`); nothing is submitted before the mount is complete
(`NoneSubmitted`), so that whatever there is to write was made while the trace file
was open (`CanBeWritten`); and a worker past the copy has its record in the buffer or
the file (`WorkersRecord`).  Without a workqueue at mount time, two are created
later and a record may be submitted to the one that `eWq` no longer names
(`HasQueue` excludes it).

`TreplayProofs` proves, for all names, addresses, descriptors, lengths and modes, and
traces of any length:

| Theorem | States |
|---|---|
| `TreplayInvariant` | `Spec => []TreplayInv` |
| `ReplayTypeCorrect` | `Spec => []TypeOK` |
| `FindsRightFile` | `Spec => []RightFile` |
| `ReplayInStep` | `Spec => []InStep` |
| `OnlyFailuresDeviate` | `Spec => []DeviationsAreFailures` |

No variable remembers which files were open after each record of the trace, and the
replay has to be compared with that.  `TreplayInv` therefore says that such a history
`st` exists.  `Execution` makes it one: by record `j`, the file system and the open
files after record `j - 1` become those after `j`.  `Replayed` compares the target
with the traced file system of the records replayed so far: as long as no open failed
after its creation the names are the same, and with the other two premises the lengths
too.  `Kept`, for an unambiguous trace without such an open, says that the entry of an
address is its only one, and leads to the file of the last open as long as that is open
(`Serves`); its offset is then where the records put the traced file (`told`), which in
a sequential trace is the offset the next access has.  `map` never shrinks, as in the
code, so that closed files keep their entries.

Of the layout of the trace it proves:

| Theorem | States |
|---|---|
| `TraceParsesBack` | for any number of records with the fields of their types and any values in them, `RecordsOf(TraceFile(records)) = records`, and each record takes `record_size` cells |
| `ReplayParsesBack` | `Spec => []ParsesBack` |

The first is about the two programs alone.  `RecordRead` goes through the ten types:
wherever the cells of a record are in a file, `RecordAt` returns the record and the
offset behind it.  `FlattenSteps` says that the file grows by one record after the
other, `GrowthHeld` that the file holds each of these parts from its start, so
that the cells of each record are where the parts before it end.  By
`OffsetsAreStarts` these places are the offsets of the main loop, and by
`RecordsByStarts` it stops after the last.  A record with a field that its type does not
have would lose it (`WellFormed` excludes this); the second theorem therefore rests on the
invariant `TraceFields`, that no operation of trfs sets such a field.  TLC checked
`TraceFields` on the states of `replay` first.

`WrapfsProofs` proves, for any number of lower inodes, lower and upper dentries, names
and open files, and any failures:

| Theorem | States |
|---|---|
| `StackInvariant` | `Spec => []StackInv` |
| `StackTypeCorrect` | `Spec => []TypeOK` |
| `WrapfsReturnsRefs` | `Spec => []RefsReturned` |
| `WrapfsKeepsOneInode` | `Spec => []OneInode` |
| `WrapfsNamesMatch` | `Spec => []NamesMatch` |

and `TrfsStackProofs`, for the same constants and with records that cannot be
allocated:

| Theorem | States |
|---|---|
| `TrfsStackInvariant` | `TrfsSpec => []StackInv` |
| `TrfsHoldsRefs` | `TrfsSpec => []RefsHeld` |
| `TrfsKeepsStack` | `TrfsSpec => [](RefsReturned /\ OneInode /\ NamesMatch)` |
| `TrfsImplementsWrapfs` | `"record" \notin Failures => (TrfsSpec => Spec)` |
| `TrfsTreeInvariant` | `TrfsSpec => []TreeInv` |
| `TrfsPathsResolve` | `TrfsSpec => []PathsResolve` |

`StackInv` is one invariant for both.  `NamesMatch` alone is not inductive: a
directory must have one name, one lower and one upper dentry (`OneName`), or a rename
below one of two would leave names wrong under the other; the lower dentry cache must
agree with the lower directories (`LowerCache`); and a dentry for which a directory is
locked must have its place to itself (`Placed`).  The counts need `Stacked`, by which a
dentry has a parent as long as it is in use, and `InodesOfDentries`, by which an upper
inode goes when its last dentry does.  What a lasting failure breaks is the premise of
a part, not of the theorem: `SetUpOnce` supposes that no lookups raced, `OneName` and
`Placed` that no record was missed, as `OneInode` and `NamesMatch` do.  The invariant
was checked with TLC before it was proved, with renames in one step: under `TrfsNext`
with the bounds of `stack` (310 744 states), and with those of `wrapfs` and a missing
record among the failures (3 040 508 states).

The proof has one lemma per kind of change to the two layers, not per operation: a
lookup that makes a dentry, a directory's dentry that moves, an inode set up, an open,
a last put, a dentry released, a removal, a rename, a new name.  Each kind is stated by
its effect on each object and may lack its upper half, which is what an operation of
trfs does when it stops at its record.  So the same lemmas serve both modules.

A path resolves only if the walk up from its dentry ends at the root, which no part of
`StackInv` says.  `TreeInv` adds, until a record is missed: what has entries is a
directory with a name (`Filed`); no set of directories has all its names inside itself
(`NoCycle`); and an upper directory stands where the lower one does, whether it is
hashed or not (`DirsPlaced`).  `NoCycle` is where `wrapfs_rename` could go wrong: it holds
because `lock_rename` and its check refuse a target inside the directory that moves,
which `Below` states as the least set closed under subdirectories.  `TrfsSteps` reduces
the steps to the kinds above, and each kind keeps each part.  From the invariant,
`AtPath[k]` is right for one more directory with every further step as long as any is
missing (`Reached`): otherwise the directories not reached would form a cycle.  There are
at most `MaxUpper` of them, so `MaxUpper` steps are enough, the number in `PathsResolve`.
While renames are between their halves, the walk goes by `Place` instead of `d_at`; the
two differ only for the dentries in `moving`, so that whatever is not `Overtaken` has
its whole walk outside them.
TLC checked `TreeInv` before it was proved, on trees of four inodes and four dentries
without lasting failures (394 654 states), and on three inodes with one of any kind
(3 040 508 states).

Only model-checked: the liveness properties `QueuedReachesFile`, `CallReturns` and
`UnmountEnds`, as fairness and ENABLED are out of the prover's reach.  The runs and
configurations of section 4 that end in a counterexample show that the premises of the
properties are needed.

## 6. Plan

Done: the pipeline, mount and unmount, replay and the layout of the trace, upper and
lower objects of wrapfs and trfs, sizes and offsets, and the proofs of all safety
properties that the passing runs check.  Left: `trctl`, its command parsing and the
result of the ioctl.

## 7. Not modelled

mmap, times, xattr, readlink, fsync and fasync delegate and keep no state.
`remount_fs`, `statfs`, module load and unload keep none of a mount's state either.
Mount, sizes and attributes of wrapfs are the code that `TrfsMount` and `TrfsSize`
model for trfs.  Test programs and scripts are straight-line.  Object files, `.cmd`
files and `*.mod.c` are build output.
