----------------------------- MODULE TrfsStack -----------------------------
(***************************************************************************)
(* The namespace operations of trfs: those of wrapfs, of which it is a     *)
(* copy, with a trace record made between the lower operation and what     *)
(* follows it above.  Without memory for the record an operation returns   *)
(* -ENOMEM from there.                                                     *)
(*                                                                         *)
(* A rename moves the name below and queues its record before the VFS, to  *)
(* which it returns, moves the upper dentry.  d_at is the place a dentry   *)
(* is given; while the rename is in moving it still has the place of the   *)
(* other one.  What needs the inode lock of one of the two directories     *)
(* waits; what happens to the moved dentry or below it does not.           *)
(***************************************************************************)
EXTENDS Wrapfs

VARIABLES
  oops,    (* a NULL pointer was written through; nothing follows          *)
  moving   (* the renames <<d, e>> whose d_move is to come                 *)

Renaming == {d \in Upper : \E m \in moving : d = m[1] \/ d = m[2]}

Unlocked(d) == \A x \in Renaming : d_at[x][1] # d   (* the inode lock of d   *)

(* Where the VFS sees a dentry.                                            *)
Place(d) ==
  LET other == {x \in Upper : <<d, x>> \in moving \/ <<x, d>> \in moving}
  IN d_at[IF other = {} THEN d ELSE CHOOSE x \in other : TRUE]

Runs == ~oops /\ UNCHANGED <<oops, moving>>

trfs_lookup(p, n)    == Runs /\ Unlocked(p) /\ wrapfs_lookup(p, n)
trfs_iget_new(d)     == Runs /\ wrapfs_iget_new(d)
trfs_create(d)       == Runs /\ wrapfs_create(d)
trfs_symlink(d)      == Runs /\ wrapfs_symlink(d)
trfs_mknod(d)        == Runs /\ wrapfs_mknod(d)
trfs_d_release(d)    == Runs /\ d \notin Renaming /\ wrapfs_d_release(d)
trfs_d_revalidate(d) == Runs /\ Unlocked(d_at[d][1]) /\ wrapfs_d_revalidate(d)
trfs_file_release(f) == Runs /\ wrapfs_file_release(f)

(* Without memory for the record: vfs_mkdir has made the directory, and    *)
(* trfs_interpose is skipped.                                              *)
trfs_mkdir(d) ==
  \/ Runs /\ wrapfs_mkdir(d)
  \/ /\ Runs /\ Negative(d) /\ MayCreate(lower_path[d]) /\ FreeInodes # {}
     /\ LowerMakes(lower_path[d], Least(FreeInodes), TRUE)
     /\ Lasts("record")
     /\ UNCHANGED <<counts, udentry, uinode, files>>

(* vfs_link has made the link and trfs_interpose has hashed the dentry.    *)
trfs_link(d, e) ==
  \/ Runs /\ wrapfs_link(d, e)
  \/ /\ Runs /\ Positive(d) /\ ~IsDir(d) /\ Negative(e) /\ MayLink(d, e)
     /\ LowerAdds(lower_path[e], LowerIno(d))
     /\ \E u \in Matching(LowerIno(d)) : interpose(e, u)
     /\ Lasts("record")
     /\ UNCHANGED <<isdir, counts, uinode, files>>

(* The name is gone below; d_drop is skipped.                              *)
KeepsRemoved(d, may) ==
  /\ Runs /\ may /\ LowerRemoves(lower_path[d])
  /\ Lasts("record")
  /\ UNCHANGED <<counts, udentry, uinode, files>>

trfs_unlink(d) ==
  /\ Unlocked(d_at[d][1])
  /\ \/ Runs /\ wrapfs_unlink(d)
     \/ Found(d) /\ ~IsDir(d) /\ KeepsRemoved(d, MayUnlink(d))

trfs_rmdir(d) ==
  /\ Unlocked(d_at[d][1])
  /\ \/ Runs /\ wrapfs_rmdir(d)
     \/ Found(d) /\ IsDir(d) /\ ~Locked(d) /\ KeepsRemoved(d, MayRmdir(d))

(* The locks a rename waits for: those of the directories and, between two *)
(* of them, s_vfs_rename_mutex.                                            *)
RenameLocks(d, e) ==
  /\ Unlocked(d_at[d][1]) /\ Unlocked(d_at[e][1])
  /\ d_at[d][1] # d_at[e][1] => \A m \in moving : d_at[m[1]][1] = d_at[m[2]][1]

(* The name has moved below, and the record is queued.  Without memory for *)
(* it the VFS gets an error and does not d_move.                           *)
trfs_rename(d, e) ==
  /\ RenameLocks(d, e)
  /\ \/ /\ ~oops /\ Renamed(d, e)
        /\ moving' = moving \cup {<<d, e>>} /\ UNCHANGED oops
     \/ Runs /\ RenameRefused(d, e)
     \/ /\ Runs /\ RenameArgs(d, e) /\ MayRename(lower_path[d], lower_path[e])
        /\ LowerMoves(lower_path[d], lower_path[e])
        /\ Lasts("record")
        /\ UNCHANGED <<counts, udentry, uinode, files>>

(* trfs_rename has returned, and the VFS moves the dentry.                 *)
vfs_rename(d, e) ==
  /\ ~oops /\ <<d, e>> \in moving
  /\ moving' = moving \ {<<d, e>>} /\ UNCHANGED <<vars, oops>>

(* Without memory for the path in the record the open fails, and the lower *)
(* file it opened stays open.                                              *)
OpenLeaks(d) ==
  /\ Runs /\ Positive(d) /\ d_hashed[d]
  /\ path_get(lower_path[d]) /\ Lasts("record")
  /\ UNCHANGED <<lowerfs, ldentry, udentry, uinode, files>>

(* The record is filled in on every path, also on those that jump to       *)
(* out_err before it is allocated: an unhashed dentry, no memory for the   *)
(* data of the file or for the record.                                     *)
OpenOops(d) ==
  /\ ~oops /\ Positive(d) /\ (~d_hashed[d] \/ "memory" \in Failures)
  /\ oops' = TRUE /\ UNCHANGED <<vars, moving>>

(* It takes no lock.  A file that is just being replaced is not opened.    *)
trfs_open(d) ==
  /\ \A m \in moving : m[2] # d
  /\ \/ Runs /\ OpensLower(d)
     \/ OpenLeaks(d)
     \/ OpenOops(d)

TrfsNext ==
  \/ \E p \in Upper, n \in Names : trfs_lookup(p, n)
  \/ \E d \in Upper :
       \/ trfs_iget_new(d) \/ trfs_create(d) \/ trfs_symlink(d) \/ trfs_mknod(d)
       \/ trfs_mkdir(d) \/ trfs_unlink(d) \/ trfs_rmdir(d) \/ trfs_open(d)
       \/ trfs_d_release(d) \/ trfs_d_revalidate(d)
  \/ \E d, e \in Upper : trfs_link(d, e) \/ trfs_rename(d, e) \/ vfs_rename(d, e)
  \/ \E f \in Files : trfs_file_release(f)

TrfsSpec == Init /\ oops = FALSE /\ moving = {} /\ [][TrfsNext]_<<vars, oops, moving>>

-----------------------------------------------------------------------------
(* The lower inode at the path of a dentry, as dentry_path_raw writes it;  *)
(* 0 when the path leads nowhere.                                          *)
Entry(i, n) == IF i # 0 /\ n \in Names THEN entry[i][n] ELSE 0

AtPath[k \in Nat] ==
  LET above == AtPath[k - 1]
  IN [d \in Upper |-> IF d = 1 \/ k = 0 THEN Root
                      ELSE IF InUse(d) THEN Entry(above[Place(d)[1]], Place(d)[2]) ELSE 0]

(* The dentries that a rename is moving or replacing, and those below them.*)
Children(S) == {x \in Upper : d_at[x][1] \in S}
Overtaken ==
  {d \in Upper : \A S \in SUBSET Upper : Renaming \cup Children(S) \subseteq S => d \in S}

(* The path that a record of trfs carries leads, when it is written, to    *)
(* the object the operation was about in the lower file system, where a    *)
(* replay looks for it: whatever was renamed, removed or looked up before, *)
(* unless a rename of the object or of a directory above it is between     *)
(* its lower and its upper half, and until an operation stops at a record  *)
(* it cannot allocate.                                                     *)
PathsResolve ==
  "record" \notin failed =>
    LET at == AtPath[MaxUpper]
    IN \A d \in Upper : IsFound(d) /\ at[d] # LowerIno(d) => d \in Overtaken

(* The same of every open, which no rename keeps out (trfs/file.c:827), is *)
(* not true: the path in its record may lead nowhere.                      *)
OpenPathsResolve ==
  [][\A f \in Files : files[f] = 0 /\ files'[f] # 0 /\ "record" \notin failed =>
       AtPath[MaxUpper][files'[f]] = LowerIno(files'[f])]_<<vars, moving>>

(* "don't open unhashed/deleted files" (trfs/file.c:784): the open of one  *)
(* is refused, it does not crash.                                          *)
DeletedNotOpened == ~oops
=============================================================================
