------------------------------ MODULE TrfsSize ------------------------------
(***************************************************************************)
(* Sizes and offsets that trfs keeps twice: the size of a file and of a    *)
(* directory in the upper and in the lower inode, the offset of an open    *)
(* directory in the upper and in the lower file.  What the user sees is    *)
(* the upper size (trfs_getattr, SEEK_END) and the lower directory offset  *)
(* (trfs_readdir).                                                         *)
(*                                                                         *)
(* The lower write and the copying of the size have no common lock; the    *)
(* VFS (of Linux 4.6, for which the module was built) calls setattr and    *)
(* link with the inode lock of the file, readdir and what changes a        *)
(* directory with that of the directory, and lseek of a directory with no  *)
(* lock.  pc[t] says where thread t is and so what it holds.               *)
(***************************************************************************)
EXTENDS Integers

CONSTANTS
  Threads,
  MaxSize,   (* the limit of sizes and offsets, s_maxbytes of both layers  *)
  IntLimit,  (* the first number that is no int: 2^31                      *)
  Offsets    (* what lseek is called with                                  *)

ASSUME SizeAssumption == MaxSize \in Nat /\ IntLimit \in Nat \ {0} /\ Offsets \subseteq Int

Sizes == 0 .. MaxSize

VARIABLES
  pc,         (* where each thread is                                      *)
  arg,        (* the size, the seek or the read that it holds              *)
  upper,      (* size of the file: i_size of its upper inode               *)
  lower,      (* and of its lower inode                                    *)
  aio,        (* whether a queued write to it is not done yet              *)
  udir, ldir, (* the same of the directory                                 *)
  upos, lpos, (* f_pos of the open directory, upper and lower file         *)
  alone,      (* history: no other operation clashed with that of a thread *)
  raced,      (* history: the sizes of the file may differ                 *)
  truncated,  (* history: a truncate began since the sizes last agreed     *)
  stale,      (* history: the last directory operation did not copy ldir   *)
  adrift      (* history: the offsets may differ                           *)

file    == <<upper, lower, aio>>
dir     == <<udir, ldir>>
pos     == <<upos, lpos>>
history == <<raced, truncated, stale, adrift>>
vars    == <<pc, arg, file, dir, pos, alone, history>>

Seeks == [whence : {"set", "cur", "end", "data", "hole"}, offset : Offsets]
Reads == [pos : Sizes, ok : BOOLEAN]   \* dir_context, and whether it was read into

Init ==
  /\ pc = [t \in Threads |-> "idle"] /\ arg = [t \in Threads |-> 0]
  /\ upper \in Sizes /\ lower = upper
  /\ udir \in Sizes /\ ldir = udir
  /\ upos = 0 /\ lpos = 0
  /\ aio = FALSE /\ alone = [t \in Threads |-> TRUE]
  /\ raced = FALSE /\ truncated = FALSE /\ stale = FALSE /\ adrift = FALSE

-----------------------------------------------------------------------------
FileOps == {"written", "copy", "setattr", "link"}
DirOps  == {"change", "link"}
PosOps  == {"seek", "seekend", "readdir", "readend"}

At(S)  == {t \in Threads : pc[t] \in S}

InodeLocked == At({"setattr", "link"}) # {}
DirLocked   == At(DirOps \cup {"readdir", "readend"}) # {}

Clash(k, m) == \/ k \in FileOps /\ m \in FileOps
               \/ k \in PosOps /\ m \in PosOps
               \/ "seekend" \in {k, m} /\ {k, m} \cap DirOps # {}

(* An operation of kind k that is over at once clashes as well.            *)
Touch(k) == /\ alone' = [s \in Threads |-> alone[s] /\ ~Clash(k, pc[s])]
            /\ UNCHANGED <<pc, arg>>

Begin(t, k, x) ==
  /\ pc[t] = "idle"
  /\ pc' = [pc EXCEPT ![t] = k]
  /\ arg' = [arg EXCEPT ![t] = x]
  /\ alone' = [s \in Threads |->
                 IF s = t THEN \A r \in Threads \ {t} : ~Clash(k, pc[r])
                          ELSE alone[s] /\ ~Clash(k, pc[s])]

Goto(t, k, x) == /\ pc' = [pc EXCEPT ![t] = k]
                 /\ arg' = [arg EXCEPT ![t] = x]
                 /\ UNCHANGED alone

End(t) == /\ pc' = [pc EXCEPT ![t] = "idle"]
          /\ arg' = [arg EXCEPT ![t] = 0]
          /\ alone' = [alone EXCEPT ![t] = TRUE]

(* The end of an operation that leaves both sizes of the file the same     *)
(* when no other worked on them meanwhile.                                 *)
Settles(t) == IF alone[t] THEN raced' = FALSE /\ truncated' = FALSE
                          ELSE raced' = TRUE /\ UNCHANGED truncated

-----------------------------------------------------------------------------
(* trfs_write and trfs_write_iter: the lower write, which may extend the   *)
(* lower file or be queued (-EIOCBQUEUED), and then                        *)
(* fsstack_copy_inode_size, which reads one size and sets the other.       *)
CopyFirst(t) ==   \* mutant: the size is read before the lower write
  /\ \E n \in lower .. MaxSize : lower' = n
  /\ Begin(t, "copy", lower)
  /\ UNCHANGED <<upper, aio, dir, pos, history>>

trfs_write(t) ==
  /\ \E n \in lower .. MaxSize : lower' = n
  /\ Begin(t, "written", 0)
  /\ UNCHANGED <<upper, aio, dir, pos, history>>

CopyReads(t) ==
  /\ pc[t] = "written"
  /\ Goto(t, "copy", lower)
  /\ UNCHANGED <<file, dir, pos, history>>

CopySets(t) ==
  /\ pc[t] = "copy"
  /\ upper' = arg[t]
  /\ Settles(t) /\ End(t)
  /\ UNCHANGED <<lower, aio, dir, pos, stale, adrift>>

(* -EIOCBQUEUED: the size is copied all the same, and the lower file grows *)
(* some time later.                                                        *)
trfs_write_iter(t) ==
  \/ trfs_write(t)
  \/ /\ ~aio /\ aio' = TRUE
     /\ Begin(t, "written", 0)
     /\ UNCHANGED <<upper, lower, dir, pos, history>>

LowerGrows ==
  /\ \E n \in lower .. MaxSize : lower' = n
  /\ raced' = TRUE
  /\ Touch("written")
  /\ UNCHANGED <<upper, dir, pos, truncated, stale, adrift>>

AioDone == aio /\ aio' = FALSE /\ LowerGrows

(* The lower write extends the file and then fails to sync it (O_SYNC):    *)
(* trfs returns the error and copies no size.                              *)
WriteFails(t) == pc[t] = "idle" /\ LowerGrows /\ UNCHANGED aio

-----------------------------------------------------------------------------
(* trfs_setattr with ATTR_SIZE: truncate_setsize of the upper inode, then  *)
(* notify_change of the lower one, which may fail.                         *)
trfs_setattr(t) ==
  /\ ~InodeLocked
  /\ \E n \in Sizes : Begin(t, "setattr", n) /\ upper' = n
  /\ truncated' = TRUE
  /\ UNCHANGED <<lower, aio, dir, pos, raced, stale, adrift>>

notify_change(t) ==
  /\ pc[t] = "setattr"
  /\ \/ lower' = arg[t] /\ Settles(t)
     \/ raced' = TRUE /\ UNCHANGED <<lower, truncated>>
  /\ End(t)
  /\ UNCHANGED <<upper, aio, dir, pos, stale, adrift>>

(* The last dentry and file are gone: the upper inode is evicted, and the  *)
(* next lookup makes another.                                              *)
trfs_iget ==
  /\ At(FileOps) = {} /\ ~aio
  /\ upper' = lower /\ raced' = FALSE /\ truncated' = FALSE
  /\ UNCHANGED <<pc, arg, lower, aio, dir, pos, alone, stale, adrift>>

-----------------------------------------------------------------------------
(* create, unlink, symlink, mkdir, rmdir, mknod and rename: the lower      *)
(* operation changes the size of the lower directory, which is copied      *)
(* unless the operation ends before (no inode, no memory for the record).  *)
ChangeDir(t) ==
  /\ ~DirLocked
  /\ \E n \in Sizes : ldir' = n
  /\ Begin(t, "change", 0)
  /\ UNCHANGED <<file, udir, pos, history>>

CopyDirSize(t) ==
  /\ pc[t] = "change"
  /\ \/ udir' = ldir /\ stale' = FALSE
     \/ stale' = TRUE /\ UNCHANGED udir
  /\ End(t)
  /\ UNCHANGED <<file, ldir, pos, raced, truncated, adrift>>

(* trfs_link saves the size of the file, and after the lower link gives    *)
(* the directory the size of the lower file (sic) and the file the saved   *)
(* one; without memory for the record it does neither.                     *)
trfs_link(t) ==
  /\ ~InodeLocked /\ ~DirLocked
  /\ \E n \in Sizes : ldir' = n
  /\ Begin(t, "link", upper)
  /\ UNCHANGED <<file, udir, pos, history>>

LinkSetsDirSize(t) ==   \* mutant: the file gets what the directory gets
  /\ pc[t] = "link"
  /\ udir' = lower /\ upper' = ldir /\ stale' = TRUE
  /\ raced' = (raced \/ ~alone[t])
  /\ End(t)
  /\ UNCHANGED <<lower, aio, ldir, pos, truncated, adrift>>

LinkSetsSizes(t) ==
  /\ pc[t] = "link" /\ stale' = TRUE
  /\ \/ udir' = lower /\ upper' = arg[t] /\ raced' = (raced \/ ~alone[t])
     \/ UNCHANGED <<udir, upper, raced>>
  /\ End(t)
  /\ UNCHANGED <<lower, aio, ldir, pos, truncated, adrift>>

-----------------------------------------------------------------------------
(* lseek of the open directory: generic_file_llseek of the upper file and, *)
(* if that succeeds, of the lower one, each from its own size and offset.  *)
BySize == {"end", "data", "hole"}

Target(s, size, at) ==
  CASE s.whence \in {"set", "data"} -> s.offset
    [] s.whence = "cur"             -> at + s.offset
    [] s.whence = "end"             -> size + s.offset
    [] s.whence = "hole"            -> size

NoLimits(p) == p >= 0   \* mutant: offsets beyond s_maxbytes are let pass

vfs_setpos(p) == p \in Sizes

generic_file_llseek(s, size, at) ==   \* whether it succeeds
  /\ s.whence \in {"data", "hole"} => s.offset < size
  /\ vfs_setpos(Target(s, size, at))

(* The offset that it returns, as trfs keeps it: in an int.                *)
AsInt(p) ==
  LET r == p % (2 * IntLimit) IN IF r < IntLimit THEN r ELSE r - 2 * IntLimit

SeekKind(s) == IF s.whence \in BySize THEN "seekend" ELSE "seek"

SeekUpperOnly(t) ==   \* mutant: generic_file_llseek as the method
  /\ pc[t] = "idle"
  /\ \E s \in Seeks :
       generic_file_llseek(s, udir, upos) /\ upos' = Target(s, udir, upos)
  /\ UNCHANGED <<pc, arg, alone, file, dir, lpos, history>>

(* An offset of the upper file that looks negative as an int is returned   *)
(* for an error, and the lower file stays where it is.                     *)
trfs_file_llseek(t) ==
  /\ \E s \in Seeks :
       /\ generic_file_llseek(s, udir, upos)
       /\ upos' = Target(s, udir, upos)
       /\ \/ AsInt(upos') >= 0 /\ Begin(t, SeekKind(s), s) /\ UNCHANGED adrift
          \/ AsInt(upos') < 0 /\ pc[t] = "idle" /\ Touch("seek") /\ adrift' = TRUE
  /\ UNCHANGED <<file, dir, lpos, raced, truncated, stale>>

SeekLower(t) ==
  LET s == arg[t]
  IN /\ pc[t] \in {"seek", "seekend"}
     /\ lpos' = IF generic_file_llseek(s, ldir, lpos) THEN Target(s, ldir, lpos) ELSE lpos
     /\ adrift' = (~alone[t] \/ CASE s.whence = "set"     -> FALSE
                                  [] s.whence = "cur"     -> adrift
                                  [] s.whence \in BySize -> stale)
     /\ End(t)
     /\ UNCHANGED <<file, dir, upos, raced, truncated, stale>>

(* readdir goes on where the lower file is.  trfs gives the upper file its *)
(* offset, and so does then the upper iterate_dir, with what it has in     *)
(* ctx: still the offset of the upper file, when the lower iterate_dir     *)
(* failed before it read (a lower directory that was removed).             *)
trfs_readdir(t) ==
  /\ ~DirLocked
  /\ \/ \E p \in Sizes : lpos' = p /\ Begin(t, "readdir", [pos |-> p, ok |-> TRUE])
     \/ Begin(t, "readdir", [pos |-> upos, ok |-> FALSE]) /\ UNCHANGED lpos
  /\ UNCHANGED <<file, dir, upos, history>>

CopyPos(t) ==
  /\ pc[t] = "readdir"
  /\ upos' = lpos
  /\ Goto(t, "readend", arg[t])
  /\ UNCHANGED <<file, dir, lpos, history>>

iterate_dir(t) ==
  /\ pc[t] = "readend"
  /\ upos' = arg[t].pos
  /\ adrift' = (~alone[t] \/ (adrift /\ ~arg[t].ok))
  /\ End(t)
  /\ UNCHANGED <<file, dir, lpos, raced, truncated, stale>>

-----------------------------------------------------------------------------
Next ==
  \/ AioDone
  \/ trfs_iget
  \/ \E t \in Threads :
       \/ trfs_write_iter(t) \/ WriteFails(t) \/ CopyReads(t) \/ CopySets(t)
       \/ trfs_setattr(t) \/ notify_change(t)
       \/ ChangeDir(t) \/ CopyDirSize(t)
       \/ trfs_link(t) \/ LinkSetsSizes(t)
       \/ trfs_file_llseek(t) \/ SeekLower(t)
       \/ trfs_readdir(t) \/ CopyPos(t) \/ iterate_dir(t)

Spec == Init /\ [][Next]_vars

-----------------------------------------------------------------------------
Carried(k) == IF k \in {"seek", "seekend"} THEN Seeks
              ELSE IF k \in {"readdir", "readend"} THEN Reads ELSE Sizes

TypeOK ==
  /\ pc \in [Threads -> {"idle"} \cup FileOps \cup DirOps \cup PosOps]
  /\ DOMAIN arg = Threads
  /\ \A t \in Threads : arg[t] \in Carried(pc[t])
  /\ {upper, lower, udir, ldir, upos, lpos} \subseteq Sizes
  /\ aio \in BOOLEAN /\ alone \in [Threads -> BOOLEAN]
  /\ {raced, truncated, stale, adrift} \subseteq BOOLEAN

(* Once no operation works on the file, the size that the user sees is     *)
(* that of the lower file, unless the last of them overlapped with         *)
(* another, a truncate failed below, a queued write came in late or a      *)
(* write extended the lower file and failed all the same; one write or     *)
(* truncate on its own then sets it right.                                 *)
SizesAgree == At(FileOps) = {} /\ ~raced => upper = lower

(* Whatever the writers do to each other, the upper inode never claims     *)
(* bytes that the lower file does not have, unless it was truncated: a     *)
(* size copied late, or saved and restored by link, is too small at worst. *)
UpperLags == ~truncated => upper <= lower

(* "set both the upper and lower file offsets consistently"                *)
(* (trfs/file.c:942): between seeks and reads of an open directory both    *)
(* offsets are the same, unless one since the last SEEK_SET or successful  *)
(* readdir overlapped with another, sought to an offset that looks         *)
(* negative as an int, or went by a size (SEEK_END, SEEK_DATA, SEEK_HOLE)  *)
(* that a link or a failed operation had left behind or that was just      *)
(* changing.  A readdir that fails below, or a seek that the lower file    *)
(* refuses, takes them no further apart.                                   *)
OffsetsAgree == At(PosOps) = {} /\ ~adrift => upos = lpos

(* Two statements that do not hold.  Once all have returned the sizes are  *)
(* the same, truncates aside: not after a write that failed its sync, a    *)
(* queued one (trfs/file.c:466), or two that overlapped.                   *)
SizesFollow == At(FileOps) = {} /\ ~aio /\ ~truncated => upper = lower

(* And the offsets of a directory are the same after every seek: not when  *)
(* the sizes differ, nor when an int does not hold the offset.             *)
SeekConsistent == At(PosOps) = {} => upos = lpos
=============================================================================
