------------------------------ MODULE Treplay ------------------------------
(***************************************************************************)
(* A traced mount and the replay of its trace by treplay on a copy of the  *)
(* file system as it was at mount time.  The first half executes traced    *)
(* operations, one record each; the second half is the main loop of        *)
(* treplay, which finds the descriptor of a record in a map from the       *)
(* kernel's addresses of struct files.                                     *)
(*                                                                         *)
(* The trace is complete and in the order of execution: what else the      *)
(* pipeline may produce is the subject of TrfsTrace.                       *)
(***************************************************************************)
EXTENDS Integers, Sequences, FileTree, TraceCodec

CONSTANTS
  Names,    (* path names                                                  *)
  Addrs,    (* addresses of struct files                                   *)
  NoName,   (* path of a record without one                                *)
  NoAddr,   (* file_address -1                                             *)
  Lengths,  (* numbers of bytes read and written                           *)
  Positions, (* offsets given to lseek, pread and pwrite                   *)
  Errors,   (* the errors with which a lower operation may fail            *)
  MaxOps,   (* bound on the traced operations                              *)
  Dups,     (* whether descriptors are duplicated, by dup or fork          *)
  Modes     (* the options with which treplay is started                   *)

ASSUME NamesAssumption == NoName \notin Names /\ NoAddr \notin Addrs

ASSUME BoundsAssumption ==
  /\ Lengths \subseteq Nat \ {0} /\ Errors \subseteq Nat \ {0}
  /\ Positions \subseteq Nat
  /\ MaxOps \in Nat /\ Dups \in BOOLEAN
  /\ Modes \subseteq {"default", "strict", "show"}

Fds == 1 .. MaxOps     (* the descriptors the replay may get, from 1       *)

VARIABLES
  lower,     (* the lower file system of the mount                         *)
  files,     (* the open struct files, by address                          *)
  trace,     (* the records of the trace file                              *)
  mode,      (* "trace" while tracing, then the mode of the replay         *)
  offset,    (* the record that the main loop has reached                  *)
  map,       (* treplay's map, a sequence of entries                       *)
  fds,       (* the descriptors of the replay                              *)
  target,    (* the file system on which the trace is replayed             *)
  deviated   (* the records whose replay deviated                          *)

traced   == <<lower, files, trace>>
replayed == <<map, fds, target>>
vars == <<traced, mode, offset, replayed, deviated>>

(* What an open file is: its object, its offset, the number of descriptors *)
(* that lead to it, and (history) the offset at which its records alone    *)
(* would put it and the record of the open that made it.                   *)
NoFile == [obj |-> 0, pos |-> 0, told |-> 0, refs |-> 0, by |-> 0]
NewFile(obj, by) == [obj |-> obj, pos |-> 0, told |-> 0, refs |-> 1, by |-> by]

IsOpen(f) == f.refs > 0

Init ==
  /\ lower = Empty(Names) /\ target = Empty(Names)
  /\ files = [a \in Addrs |-> NoFile]
  /\ trace = <<>> /\ mode = "trace" /\ offset = 1
  /\ map = <<>> /\ fds = [fd \in Fds |-> NoFile]
  /\ deviated = {}

-----------------------------------------------------------------------------
(***************************************************************************)
(* The traced operations.  Blank and the fields set on it are the record;  *)
(* fails, strays, by and fs are history: whether the lower file system     *)
(* refused the operation, whether bytes were read or written elsewhere     *)
(* than the records before tell, the open that the file comes from, and    *)
(* the lower file system after the operation.                              *)
(***************************************************************************)
Blank == [type |-> "readdir", addr |-> NoAddr, name |-> NoName, new |-> NoName,
          creat |-> FALSE, len |-> 0, ret |-> 0, fails |-> FALSE,
          strays |-> FALSE, by |-> 0]

Record(r, fs) ==
  /\ mode = "trace" /\ Len(trace) < MaxOps
  /\ lower' = fs
  /\ trace' = Append(trace, [rec |-> r, fs |-> fs])
  /\ UNCHANGED <<mode, offset, replayed, deviated>>

Here == Len(trace) + 1

(* A lower operation that fails changes nothing, and is traced.            *)
RefusedOn(fs, r) ==
  /\ \E e \in Errors : Record([r EXCEPT !.ret = -e, !.fails = TRUE], fs)
  /\ UNCHANGED files

Refused(r) == RefusedOn(lower, r)

(* The lower operation is done, and an error traced all the same.          *)
Reported(r, fs) ==
  Record(r, fs) \/ \E e \in Errors : Record([r EXCEPT !.ret = -e], fs)

(* trfs_create, when the file does not exist yet, and trfs_open; if the    *)
(* lower file cannot be opened then, the file has been created.            *)
trfs_open(a, n) ==
  LET creat == Free(lower, n)
      fs == IF creat THEN Create(lower, n) ELSE lower
      r == [Blank EXCEPT !.type = "open", !.addr = a, !.name = n,
                         !.creat = creat, !.by = Here]
  IN /\ ~IsOpen(files[a])
     /\ \/ /\ Record(r, fs)
           /\ files' = [files EXCEPT ![a] = NewFile(fs.tree[n], Here)]
        \/ RefusedOn(fs, r)

OnFile(type, a) == [Blank EXCEPT !.type = type, !.addr = a, !.by = files[a].by]

(* read and write use the offset of the file and move it, pread and pwrite *)
(* come with one of their own.  The record does not tell which.            *)
Ppos(a) == [at : {files[a].pos}, own : {TRUE}] \cup [at : Positions, own : {FALSE}]

OnData(type, a, ppos, n) ==
  [OnFile(type, a) EXCEPT !.len = n, !.ret = n, !.strays = ppos.at # files[a].told]

Moved(a, ppos, n) ==
  files' = [files EXCEPT ![a].pos = IF ppos.own THEN @ + n ELSE @,
                         ![a].told = @ + n]

(* Failed reads and writes are not traced.                                 *)
trfs_read(a) ==
  \E len \in Lengths, ppos \in Ppos(a) :
    LET n == ReadCount(lower, files[a].obj, ppos.at, len) IN
    /\ IsOpen(files[a]) /\ files[a].obj \notin lower.dirs
    /\ Record(OnData("read", a, ppos, n), lower)
    /\ Moved(a, ppos, n)

trfs_write(a) ==
  \E len \in Lengths, ppos \in Ppos(a) :
    /\ IsOpen(files[a]) /\ files[a].obj \notin lower.dirs
    /\ Record(OnData("write", a, ppos, len),
              Write(lower, files[a].obj, ppos.at, len))
    /\ Moved(a, ppos, len)

(* lseek of a file, which leaves no record.                                *)
generic_file_llseek(a) ==
  /\ mode = "trace" /\ IsOpen(files[a]) /\ files[a].obj \notin lower.dirs
  /\ \E pos \in Positions : files' = [files EXCEPT ![a].pos = pos]
  /\ UNCHANGED <<lower, trace, mode, offset, replayed, deviated>>

trfs_readdir(a) ==
  /\ IsOpen(files[a]) /\ files[a].obj \in lower.dirs
  /\ (Record(OnFile("readdir", a), lower) /\ UNCHANGED files)
     \/ Refused(OnFile("readdir", a))

(* Each close of a descriptor flushes; the last one releases the file,     *)
(* whether the lower flush fails or not.                                   *)
trfs_flush(a) ==
  /\ IsOpen(files[a])
  /\ Reported(OnFile("close", a), lower)
  /\ LET f == files[a] IN
     files' = [files EXCEPT ![a] =
                 IF f.refs = 1 THEN NoFile ELSE [f EXCEPT !.refs = f.refs - 1]]

(* dup and fork do not reach trfs.                                         *)
Duplicate(a) ==
  /\ Dups /\ mode = "trace" /\ files[a].refs = 1
  /\ files' = [files EXCEPT ![a].refs = 2]
  /\ UNCHANGED <<lower, trace, mode, offset, replayed, deviated>>

Named(type, n) == [Blank EXCEPT !.type = type, !.name = n]

trfs_mkdir(n) ==
  /\ Free(lower, n)
  /\ (Record(Named("mkdir", n), Mkdir(lower, n)) /\ UNCHANGED files)
     \/ Refused(Named("mkdir", n))

trfs_unlink(n) ==
  /\ IsFile(lower, n)
  /\ (Record(Named("unlink", n), Remove(lower, n)) /\ UNCHANGED files)
     \/ Refused(Named("unlink", n))

(* A failed lower rmdir is not traced.                                     *)
trfs_rmdir(n) ==
  /\ IsDir(lower, n)
  /\ Record(Named("rmdir", n), Remove(lower, n))
  /\ UNCHANGED files

(* Nor is a failed lower link, but that of trfs_interpose after a lower    *)
(* link is.                                                                *)
trfs_link(old, new) ==
  /\ IsFile(lower, old) /\ Free(lower, new)
  /\ Reported([Named("link", old) EXCEPT !.new = new], Link(lower, old, new))
  /\ UNCHANGED files

trfs_rename(old, new) ==
  LET r == [Named("rename", old) EXCEPT !.new = new] IN
  /\ CanRename(lower, old, new)
  /\ (Record(r, Rename(lower, old, new)) /\ UNCHANGED files) \/ Refused(r)

Traced ==
  \/ \E a \in Addrs :
       \/ \E n \in Names : trfs_open(a, n)
       \/ trfs_read(a) \/ trfs_write(a) \/ trfs_readdir(a)
       \/ generic_file_llseek(a) \/ trfs_flush(a) \/ Duplicate(a)
  \/ \E n \in Names : trfs_mkdir(n) \/ trfs_unlink(n) \/ trfs_rmdir(n)
  \/ \E old, new \in Names : trfs_link(old, new) \/ trfs_rename(old, new)

-----------------------------------------------------------------------------
(***************************************************************************)
(* treplay.  A system call that fails returns -1.                          *)
(***************************************************************************)
Start(m) ==
  /\ mode = "trace" /\ mode' = m
  /\ UNCHANGED <<traced, offset, replayed, deviated>>

More == offset <= Len(trace)
rec == trace[offset].rec

Replaying(type) == mode \in {"default", "strict"} /\ More /\ rec.type = type

(* The end of an iteration of the main loop.                               *)
Result(ret) ==
  /\ deviated' = IF ret = rec.ret THEN deviated ELSE deviated \cup {offset}
  /\ mode' = IF ret # rec.ret /\ mode = "strict" THEN "aborted" ELSE mode
  /\ offset' = offset + 1
  /\ UNCHANGED traced

NewFdOnly(addr, fd) ==   \* mutant: a descriptor that is known is not added
  map' = IF \E i \in DOMAIN map : map[i].file_d = fd THEN map
         ELSE Append(map, [file_addr |-> addr, file_d |-> fd])

map_add(addr, fd) == map' = Append(map, [file_addr |-> addr, file_d |-> fd])

Matches(addr) == {i \in DOMAIN map : map[i].file_addr = addr}

map_find_last(addr) ==   \* mutant: the search ends one entry early
  LET found == {i \in Matches(addr) : i < Len(map)} IN
  IF found = {} THEN -1
  ELSE map[CHOOSE i \in found : \A j \in found : i <= j].file_d

(* The first entry of the address counts; entries are never removed.       *)
map_find(addr) ==
  IF Matches(addr) = {} THEN -1
  ELSE map[CHOOSE i \in Matches(addr) : \A j \in Matches(addr) : i <= j].file_d

LowestFree == CHOOSE fd \in Fds :
  ~IsOpen(fds[fd]) /\ \A g \in Fds : ~IsOpen(fds[g]) => fd <= g

AddResult ==   \* mutant: the kernel's result is taken for the descriptor
  /\ Replaying("open")
  /\ map_add(rec.addr, rec.ret)
  /\ Result(0)
  /\ UNCHANGED <<target, fds>>

(* The target of an open that is not refused.                              *)
Reached == IF Free(target, rec.name) THEN Create(target, rec.name) ELSE target

(* -1 is taken for a descriptor, and a failed open for a success.  An open *)
(* that fails again may or may not create the file again.                  *)
ReplayOpen ==
  /\ Replaying("open")
  /\ IF rec.fails \/ (Free(target, rec.name) /\ ~rec.creat)
     THEN /\ map_add(rec.addr, -1) /\ UNCHANGED fds
          /\ target' = target \/ (rec.creat /\ target' = Reached)
     ELSE /\ target' = Reached
          /\ fds' = [fds EXCEPT ![LowestFree] =
                       NewFile(target'.tree[rec.name], rec.by)]
          /\ map_add(rec.addr, LowestFree)
  /\ Result(0)

BadFd(fd) == fd \notin Fds \/ ~IsOpen(fds[fd])

ReplayRead ==
  /\ Replaying("read")
  /\ LET fd == map_find(rec.addr)
         n  == ReadCount(target, fds[fd].obj, fds[fd].pos, rec.len)
     IN IF BadFd(fd) \/ fds[fd].obj \in target.dirs
        THEN Result(-1) /\ UNCHANGED fds
        ELSE Result(n) /\ fds' = [fds EXCEPT ![fd].pos = @ + n]
  /\ UNCHANGED <<map, target>>

ReplayWrite ==
  /\ Replaying("write")
  /\ LET fd == map_find(rec.addr)
     IN IF BadFd(fd) \/ fds[fd].obj \in target.dirs
        THEN Result(-1) /\ UNCHANGED <<fds, target>>
        ELSE /\ Result(rec.len)
             /\ fds' = [fds EXCEPT ![fd].pos = @ + rec.len]
             /\ target' = Write(target, fds[fd].obj, fds[fd].pos, rec.len)
  /\ UNCHANGED map

(* An error of a flush may occur again.                                    *)
ReplayClose ==
  /\ Replaying("close")
  /\ LET fd == map_find(rec.addr)
     IN IF BadFd(fd) THEN Result(-1) /\ UNCHANGED fds
        ELSE /\ Result(0) \/ (rec.ret < 0 /\ Result(-1))
             /\ fds' = [fds EXCEPT ![fd] = NoFile]
  /\ UNCHANGED <<map, target>>

ReplayReaddir == Replaying("readdir") /\ Result(0) /\ UNCHANGED replayed

(* A system call on names: its result if it is possible, -1 if not.        *)
Do(possible, fs) ==
  /\ IF possible /\ ~rec.fails THEN target' = fs /\ Result(0)
     ELSE Result(-1) /\ UNCHANGED target
  /\ UNCHANGED <<map, fds>>

ReplayMkdir ==
  Replaying("mkdir") /\ Do(Free(target, rec.name), Mkdir(target, rec.name))

ReplayUnlink ==
  Replaying("unlink") /\ Do(IsFile(target, rec.name), Remove(target, rec.name))

ReplayRmdir ==
  Replaying("rmdir") /\ Do(IsDir(target, rec.name), Remove(target, rec.name))

ReplayLink ==
  /\ Replaying("link")
  /\ Do(IsFile(target, rec.name) /\ Free(target, rec.new),
        Link(target, rec.name, rec.new))

SwappedRename ==   \* mutant: the two paths are exchanged
  /\ Replaying("rename")
  /\ Do(CanRename(target, rec.new, rec.name), Rename(target, rec.new, rec.name))

ReplayRename ==
  /\ Replaying("rename")
  /\ Do(CanRename(target, rec.name, rec.new), Rename(target, rec.name, rec.new))

(* -n: the record is only shown.                                           *)
ShowRecord ==
  /\ mode = "show" /\ More
  /\ offset' = offset + 1
  /\ UNCHANGED <<traced, mode, replayed, deviated>>

replay_record ==
  \/ ReplayOpen \/ ReplayRead \/ ReplayWrite \/ ReplayClose \/ ReplayReaddir
  \/ ReplayMkdir \/ ReplayUnlink \/ ReplayRmdir \/ ReplayLink \/ ReplayRename

Next ==
  \/ Traced
  \/ \E m \in Modes : Start(m)
  \/ replay_record \/ ShowRecord

Spec == Init /\ [][Next]_vars

-----------------------------------------------------------------------------
OnFiles == {"readdir", "read", "write", "close"}
OnNames == {"mkdir", "unlink", "link", "rename", "rmdir"}

Records ==
  [type : OnFiles \cup OnNames \cup {"open"},
   addr : Addrs \cup {NoAddr},
   name : Names \cup {NoName}, new : Names \cup {NoName},
   creat : BOOLEAN, len : Nat, ret : Int, fails : BOOLEAN, strays : BOOLEAN,
   by : 0 .. MaxOps]

FileSystems ==
  [tree : [Names -> 0 .. MaxOps], size : Seq(Nat), dirs : SUBSET (1 .. MaxOps)]

OpenFiles ==
  [obj : 0 .. MaxOps, pos : Nat, told : Nat, refs : 0 .. 2, by : 0 .. MaxOps]

TypeOK ==
  /\ lower \in FileSystems /\ target \in FileSystems
  /\ files \in [Addrs -> OpenFiles]
  /\ trace \in Seq([rec : Records, fs : FileSystems])
  /\ mode \in {"trace", "default", "strict", "show", "aborted"}
  /\ offset \in 1 .. (Len(trace) + 1)
  /\ map \in Seq([file_addr : Addrs, file_d : Fds \cup {-1}])
  /\ fds \in [Fds -> OpenFiles]
  /\ deviated \subseteq 1 .. (offset - 1)

(* A record as it is in the trace file.  Of the flags only O_CREAT         *)
(* matters, a name is one byte long and data are anything.                 *)
Bytes(n) == IF n = NoName THEN <<>> ELSE <<n>>

InFile(i) ==
  LET r == trace[i].rec IN
  [NoFields EXCEPT !.id = i, !.type = r.type, !.ret = r.ret, !.addr = r.addr,
                   !.path = Bytes(r.name), !.new_path = Bytes(r.new),
                   !.flags = IF r.type = "open" /\ r.creat THEN 1 ELSE 0,
                   !.data = [b \in 1 .. r.len |-> "byte"]]

(* Whenever treplay starts, its main loop gets out of the trace file the   *)
(* records that trfs put in, field by field, so that no error in one       *)
(* shifts all that follow; and a record takes in the buffer the room that  *)
(* its operation announced as record_size (trfs/file.c:94,                 *)
(* treplay.c:297-531).                                                     *)
ParsesBack ==
  LET records == [i \in DOMAIN trace |-> InFile(i)] IN
  offset = 1 =>
    /\ RecordsOf(TraceFile(records)) = records
    /\ \A i \in DOMAIN records : Len(Cells(records[i])) = record_size(records[i])

(* In the records up to the next one no address is opened twice, and none  *)
(* is used after a close.                                                  *)
Unambiguous ==
  \A i, j \in DOMAIN trace :
    /\ i < j /\ j <= offset
    /\ trace[i].rec.addr = trace[j].rec.addr /\ trace[i].rec.addr # NoAddr
    => trace[i].rec.type # "close" /\ trace[j].rec.type # "open"

(* No file that was created by an open which then failed: its record tells *)
(* of a refusal (trfs/file.c:802, 848).                                    *)
NoHalfOpen ==
  \A i \in DOMAIN trace : i < offset => ~(trace[i].rec.fails /\ trace[i].rec.creat)

(* Every read and write was where the records before it put the file: no   *)
(* lseek, pread or pwrite went elsewhere, which no record tells.           *)
Sequential == \A i \in DOMAIN trace : i < offset => ~trace[i].rec.strays

SameFile ==
  Replaying("read") \/ Replaying("write") \/ Replaying("close") =>
    LET fd == map_find(rec.addr) IN ~BadFd(fd) /\ fds[fd].by = rec.by

(* As long as addresses are unambiguous and the files that were created    *)
(* exist, each read, write and close goes to the descriptor of its own     *)
(* open, however many files are open and descriptors reused, and wherever  *)
(* in the file it goes (map_add and map_find, treplay.c:60-96).            *)
RightFile == Unambiguous /\ NoHalfOpen => SameFile

(* "Store file address - a unique ID to distinguish file" (trfs/file.c:374 *)
(* and 604): an address identifies an open file for as long as the trace.  *)
AddressIdentifies == SameFile

(* After each record the replayed file system is what the lower one was    *)
(* after the operation, unless an open failed after its creation: names    *)
(* always, lengths of files as long as addresses are unambiguous and every *)
(* access is where the records put it; refused operations, links and       *)
(* flushes that report an error and aborted replays included               *)
(* (replay_record, treplay.c:97-210).                                      *)
InStep ==
  mode # "show" /\ offset > 1 /\ NoHalfOpen =>
    LET before == trace[offset - 1].fs IN
    /\ target.tree = before.tree /\ target.dirs = before.dirs
    /\ Unambiguous /\ Sequential => target.size = before.size

(* What succeeded in the kernel succeeds with the same result in the       *)
(* replay, on the same premises; deviations come from failures, of which   *)
(* treplay knows no errno, of open and readdir no failure at all, and of   *)
(* link and close none that trfs reported after the lower operation was    *)
(* done (treplay.c:103-155, 180, 535-546).                                 *)
DeviationsAreFailures ==
  Unambiguous /\ Sequential /\ NoHalfOpen =>
    \A i \in deviated :
      /\ trace[i].rec.ret < 0
      /\ trace[i].rec.ret = -1 =>
           trace[i].rec.type \in {"open", "readdir", "link", "close"}

(* The lengths without the premise on positions, which does not hold: a    *)
(* pwrite or an lseek before a write is replayed elsewhere (positioned).   *)
LengthsInStep ==
  mode # "show" /\ offset > 1 /\ NoHalfOpen /\ Unambiguous =>
    target.size = trace[offset - 1].fs.size

(* The names without the premise on half opens, which does not hold        *)
(* either: an open that failed may leave a file on one side (half_open).   *)
NamesInStep ==
  mode # "show" /\ offset > 1 => target.tree = trace[offset - 1].fs.tree

(* "strict mode -- abort replaying as soon as a deviation occurs"          *)
(* (hw2/README:78): what strict mode goes on replaying is what was traced. *)
StrictInStep ==
  mode = "strict" /\ offset > 1 => target = trace[offset - 1].fs
=============================================================================
