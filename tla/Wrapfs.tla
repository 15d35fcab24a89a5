------------------------------- MODULE Wrapfs -------------------------------
(***************************************************************************)
(* A stackable file system: every dentry, inode and file of the upper      *)
(* layer stands on one of a lower file system and holds references to it.  *)
(* The operations are those of wrapfs; trfs copies all of them and traces  *)
(* some (TrfsStack).                                                       *)
(*                                                                         *)
(* The VFS calls an operation on a directory with the inode lock of that   *)
(* directory, so each is one step.  Objects of a kind are numbered; 0 is   *)
(* no object and 1 is the root's.  An operation borrows the lower path for *)
(* its duration (get_lower_path and put_lower_path); only what it keeps    *)
(* shows in the counts.                                                    *)
(***************************************************************************)
EXTENDS Integers, FiniteSets

CONSTANTS
  Names,      (* the names in a directory                                  *)
  NoName,     (* the name of the root                                      *)
  MaxInodes,  (* inodes of the lower file system                           *)
  MaxLower,   (* lower dentries in use                                     *)
  MaxUpper,   (* upper dentries in use, and upper inodes                   *)
  MaxFiles,   (* open files                                                *)
  Failures,   (* what may go wrong                                         *)
  MaxFailed   (* how many lasting failures there are in a behaviour        *)

(* Failures that should leave nothing behind: the lower file system        *)
(* refuses; an allocation fails; the name is a mount point below.          *)
(* Lasting ones, each at most once: iget5_locked has no memory for an      *)
(* inode; a lower dentry no longer revalidates; two lookups of one lower   *)
(* inode overlap; trfs has no memory for a record.                         *)
Lasting      == {"inode", "stale", "race", "record"}
FailureKinds == {"lower", "memory", "xdev"} \cup Lasting

ASSUME StackAssumption ==
  /\ NoName \notin Names
  /\ MaxInodes \in Nat \ {0} /\ MaxLower \in Nat \ {0}
  /\ MaxUpper \in Nat \ {0} /\ MaxFiles \in Nat
  /\ Failures \subseteq FailureKinds /\ MaxFailed \in Nat

Root   == 1
Inodes == 1 .. MaxInodes     (* lower inodes                               *)
Lower  == 1 .. MaxLower      (* lower dentries                             *)
Upper  == 1 .. MaxUpper      (* upper dentries                             *)
Objs   == 1 .. MaxUpper      (* upper inodes                               *)
Files  == 1 .. MaxFiles

VARIABLES
  entry,        (* the lower directories: the inode of each name           *)
  isdir,        (* the lower inodes that are directories                   *)
  l_at,         (* directory inode and name of a lower dentry              *)
  l_inode,      (* its inode, 0 if it is negative                          *)
  l_hashed,     (* whether a lookup of the name can find it                *)
  l_count,      (* the references the upper layer holds on it              *)
  mnt_count,    (* those on the lower mount                                *)
  i_count,      (* those on each lower inode                               *)
  d_at,         (* parent dentry and name of an upper dentry               *)
  d_inode,      (* its inode                                               *)
  d_hashed,     (* whether a lookup can find it                            *)
  lower_path,   (* the lower dentry it stands on, 0 if it is not in use    *)
  i_new,        (* the dentries whose inode a lookup is still setting up   *)
  lower_inode,  (* the lower inode of each upper inode                     *)
  files,        (* the upper dentry of each open file                      *)
  failed        (* history: the lasting failures that have occurred        *)

lowerfs == <<entry, isdir>>
ldentry == <<l_at, l_inode, l_hashed>>
counts  == <<l_count, mnt_count>>
udentry == <<d_at, d_inode, d_hashed, lower_path, i_new>>
uinode  == <<lower_inode, i_count>>
stack   == <<lowerfs, ldentry, counts, udentry, uinode, files>>
vars    == <<stack, failed>>

NoPlace == <<0, NoName>>

Init ==
  /\ entry = [i \in Inodes |-> [n \in Names |-> 0]]
  /\ isdir = {Root}
  /\ l_at = [l \in Lower |-> NoPlace]
  /\ l_inode = [l \in Lower |-> IF l = 1 THEN Root ELSE 0]
  /\ l_hashed = [l \in Lower |-> l = 1]
  /\ l_count = [l \in Lower |-> IF l = 1 THEN 1 ELSE 0]
  /\ mnt_count = 1
  /\ i_count = [i \in Inodes |-> IF i = Root THEN 1 ELSE 0]
  /\ d_at = [d \in Upper |-> NoPlace]
  /\ d_inode = [d \in Upper |-> IF d = 1 THEN 1 ELSE 0]
  /\ d_hashed = [d \in Upper |-> d = 1]
  /\ lower_path = [d \in Upper |-> IF d = 1 THEN 1 ELSE 0]
  /\ i_new = {}
  /\ lower_inode = [u \in Objs |-> IF u = 1 THEN Root ELSE 0]
  /\ files = [f \in Files |-> 0]
  /\ failed = {}

-----------------------------------------------------------------------------
Least(S) == CHOOSE x \in S : \A y \in S : x <= y

(* A free number for a new object: that of the object it belongs to, to    *)
(* keep the numberings alike.                                              *)
New(S, x) == IF x \in S THEN x ELSE Least(S)

InUse(d)    == lower_path[d] # 0
Positive(d) == InUse(d) /\ d_inode[d] # 0 /\ d \notin i_new
Negative(d) == InUse(d) /\ d_inode[d] = 0

LowerIno(d) == l_inode[lower_path[d]]
IsDir(d)    == Positive(d) /\ LowerIno(d) \in isdir

(* A lookup that is not over and the creation it is for hold the inode     *)
(* lock of the directory: nothing else happens in it.                      *)
Busy(p, D) == \E d \in Upper \ D : d_at[d][1] = p /\ (Negative(d) \/ d \in i_new)
Locked(p)  == Busy(p, {})

(* Lower inodes that exist: those with a name or a reference.              *)
Named(i) == i = Root \/ \E k \in Inodes, n \in Names : entry[k][n] = i
Live(i)  == \/ Named(i) \/ i_count[i] > 0
            \/ \E l \in Lower : l_count[l] > 0 /\ l_inode[l] = i

FreeInodes == {i \in Inodes : ~Live(i)}
FreeUpper  == {d \in Upper : ~InUse(d)}
FreeObjs   == {u \in Objs : lower_inode[u] = 0 /\ \A d \in Upper : d_inode[d] # u}
FreeFiles  == {f \in Files : files[f] = 0}
FreeLower  == {l \in Lower : l_count[l] = 0}

NoMatch(j) == {}   \* mutant: wrapfs_inode_test always returns 0

(* The upper inodes wrapfs_inode_test accepts for lower inode j.  One that *)
(* wrapfs_iget has not finished has no lower inode yet, as                 *)
(* wrapfs_inode_set sets none.                                             *)
Matching(j) == {u \in Objs : lower_inode[u] = j}

(* The lower dentry of name n in directory i: the one in the cache         *)
(* (vfs_path_lookup, d_lookup) or a new one (d_alloc and d_add).           *)
Cached(i, n) == {l \in Lower : l_count[l] > 0 /\ l_hashed[l] /\ l_at[l] = <<i, n>>}
DentryFor(i, n) ==
  IF Cached(i, n) # {} THEN Cached(i, n) ELSE {New(FreeLower, Least(FreeUpper))}

Lasts(f) == /\ f \in Failures \ failed /\ Cardinality(failed) < MaxFailed
            /\ failed' = failed \cup {f}

(* The operation returns an error and has given back what it took.         *)
Refused == UNCHANGED vars
Errs(f) == f \in Failures /\ Refused
LowerRefuses(may) == (~may \/ "lower" \in Failures) /\ Refused

(* path_get and path_put of a lower path; an unused dentry is forgotten.   *)
path_get(l) == /\ l_count' = [l_count EXCEPT ![l] = @ + 1]
               /\ mnt_count' = mnt_count + 1
path_put(l) ==
  /\ l_count' = [l_count EXCEPT ![l] = @ - 1]
  /\ mnt_count' = mnt_count - 1
  /\ IF l_count[l] = 1
       THEN /\ l_at' = [l_at EXCEPT ![l] = NoPlace]
            /\ l_inode' = [l_inode EXCEPT ![l] = 0]
            /\ l_hashed' = [l_hashed EXCEPT ![l] = FALSE]
       ELSE UNCHANGED ldentry

-----------------------------------------------------------------------------
(* Lookup.  The new upper dentry d of name n in p stands on lower dentry l *)
(* and gets inode u.                                                       *)
Stands(d, p, n, l, u, hashed) ==
  /\ d_at' = [d_at EXCEPT ![d] = <<p, n>>]
  /\ d_inode' = [d_inode EXCEPT ![d] = u]
  /\ d_hashed' = [d_hashed EXCEPT ![d] = hashed]
  /\ lower_path' = [lower_path EXCEPT ![d] = l]
  /\ l_at' = [l_at EXCEPT ![l] = <<LowerIno(p), n>>]
  /\ l_inode' = [l_inode EXCEPT ![l] = entry[LowerIno(p)][n]]
  /\ l_hashed' = [l_hashed EXCEPT ![l] = TRUE]
  /\ path_get(l)

(* No such name below: a negative dentry, which the VFS hands to a         *)
(* creating operation or drops.                                            *)
LookupNegative(p, n) ==
  /\ entry[LowerIno(p)][n] = 0
  /\ FreeUpper # {}
  /\ \E l \in DentryFor(LowerIno(p), n) : Stands(Least(FreeUpper), p, n, l, 0, FALSE)
  /\ UNCHANGED <<lowerfs, i_new, uinode, files, failed>>

(* The lower inode has an upper one: d_splice_alias hashes the new dentry, *)
(* or for a directory moves the dentry it has to the name and returns      *)
(* that, and the new dentry puts its path again.                           *)
LookupCached(p, n) ==
  \E u \in Matching(entry[LowerIno(p)][n]) :
    LET alias == {e \in Upper : Positive(e) /\ d_inode[e] = u} IN
    /\ entry[LowerIno(p)][n] # 0
    /\ \/ /\ entry[LowerIno(p)][n] \notin isdir
          /\ FreeUpper # {}
          /\ \E l \in DentryFor(LowerIno(p), n) : Stands(Least(FreeUpper), p, n, l, u, TRUE)
       \/ /\ entry[LowerIno(p)][n] \in isdir
          /\ \E e \in alias : /\ d_at' = [d_at EXCEPT ![e] = <<p, n>>]
                              /\ d_hashed' = [d_hashed EXCEPT ![e] = TRUE]
          /\ UNCHANGED <<d_inode, lower_path, ldentry, counts>>
    /\ UNCHANGED <<lowerfs, i_new, uinode, files, failed>>

(* It has none: iget5_locked makes one, which wrapfs_iget then sets up     *)
(* (wrapfs_iget_new).                                                      *)
LookupNew(p, n) ==
  LET j == entry[LowerIno(p)][n]
      d == Least(FreeUpper)
  IN /\ j # 0 /\ Matching(j) = {} /\ FreeUpper # {}
     /\ \E l \in DentryFor(LowerIno(p), n) : Stands(d, p, n, l, New(FreeObjs, j), FALSE)
     /\ i_new' = i_new \cup {d}
     /\ IF \E e \in i_new : LowerIno(e) = j THEN Lasts("race") ELSE UNCHANGED failed
     /\ UNCHANGED <<lowerfs, uinode, files>>

LookupForgets(p, n) ==   \* mutant: no wrapfs_put_reset_lower_path on -EXDEV
  /\ entry[LowerIno(p)][n] # 0 /\ Cached(LowerIno(p), n) # {} /\ "xdev" \in Failures
  /\ path_get(Least(Cached(LowerIno(p), n)))
  /\ UNCHANGED <<lowerfs, ldentry, udentry, uinode, files, failed>>

(* A lookup that fails puts what it took.  One puts more: without memory   *)
(* for the inode wrapfs_iget puts the lower inode, which it had not taken. *)
LookupFails(p, n) ==
  LET j == entry[LowerIno(p)][n] IN
  \/ Errs("lower") \/ Errs("memory")
  \/ j # 0 /\ Errs("xdev")
  \/ /\ j # 0 /\ Matching(j) = {} /\ Lasts("inode")
     /\ i_count' = [i_count EXCEPT ![j] = @ - 1]
     /\ UNCHANGED <<lowerfs, ldentry, counts, udentry, lower_inode, files>>

wrapfs_lookup(p, n) ==
  /\ IsDir(p) /\ Named(LowerIno(p)) /\ ~Locked(p)
  /\ \A d \in Upper : d_hashed[d] => d_at[d] # <<p, n>>
  /\ Cached(LowerIno(p), n) \cup FreeLower # {}
  /\ \/ LookupNegative(p, n)
     \/ LookupCached(p, n)
     \/ LookupNew(p, n)
     \/ LookupFails(p, n)

IgetUngrabbed(d) ==   \* mutant: no igrab of the lower inode
  /\ d \in i_new
  /\ lower_inode' = [lower_inode EXCEPT ![d_inode[d]] = LowerIno(d)]
  /\ d_hashed' = [d_hashed EXCEPT ![d] = TRUE]
  /\ i_new' = i_new \ {d}
  /\ UNCHANGED <<lowerfs, ldentry, counts, d_at, d_inode, lower_path, i_count, files, failed>>

wrapfs_iget_new(d) ==
  /\ d \in i_new
  /\ i_count' = [i_count EXCEPT ![LowerIno(d)] = @ + 1]
  /\ lower_inode' = [lower_inode EXCEPT ![d_inode[d]] = LowerIno(d)]
  /\ d_hashed' = [d_hashed EXCEPT ![d] = TRUE]
  /\ i_new' = i_new \ {d}
  /\ UNCHANGED <<lowerfs, ldentry, counts, d_at, d_inode, lower_path, files, failed>>

-----------------------------------------------------------------------------
(* Creation, on the negative dentry of a lookup.                           *)
MayCreate(l) == /\ l_hashed[l] /\ l_inode[l] = 0 /\ Named(l_at[l][1])
                /\ entry[l_at[l][1]][l_at[l][2]] = 0

(* The lower operation: inode j gets the name of lower dentry l.           *)
LowerAdds(l, j) ==
  /\ entry' = [entry EXCEPT ![l_at[l][1]][l_at[l][2]] = j]
  /\ l_inode' = [l_inode EXCEPT ![l] = j]
  /\ UNCHANGED <<l_at, l_hashed>>

LowerMakes(l, j, dir) ==
  /\ LowerAdds(l, j)
  /\ isdir' = IF dir THEN isdir \cup {j} ELSE isdir \ {j}

(* wrapfs_interpose: dentry d gets the upper inode u of lower inode j.     *)
interpose(d, u) ==
  /\ d_inode' = [d_inode EXCEPT ![d] = u]
  /\ d_hashed' = [d_hashed EXCEPT ![d] = TRUE]
  /\ UNCHANGED <<d_at, lower_path, i_new>>

Makes(d, dir) ==
  LET l == lower_path[d]
      j == Least(FreeInodes)
      u == New(FreeObjs, Least(FreeInodes))
  IN \/ /\ Negative(d) /\ MayCreate(l) /\ FreeInodes # {}
        /\ LowerMakes(l, j, dir)
        /\ \/ /\ interpose(d, u)
              /\ lower_inode' = [lower_inode EXCEPT ![u] = j]
              /\ i_count' = [i_count EXCEPT ![j] = 1]
              /\ UNCHANGED failed
           \/ /\ Lasts("inode")
              /\ i_count' = [i_count EXCEPT ![j] = -1]
              /\ UNCHANGED <<udentry, lower_inode>>
        /\ UNCHANGED <<counts, files>>
     \/ Negative(d) /\ LowerRefuses(MayCreate(l))

wrapfs_create(d)  == Makes(d, FALSE)
wrapfs_symlink(d) == Makes(d, FALSE)
wrapfs_mknod(d)   == Makes(d, FALSE)
wrapfs_mkdir(d)   == Makes(d, TRUE)

(* vfs_link of the lower inode of d under the name of e.                   *)
MayLink(d, e) == Named(LowerIno(d)) /\ MayCreate(lower_path[e])

wrapfs_link(d, e) ==
  /\ Positive(d) /\ ~IsDir(d) /\ Negative(e)
  /\ \/ /\ MayLink(d, e)
        /\ LowerAdds(lower_path[e], LowerIno(d))
        /\ \E u \in Matching(LowerIno(d)) : interpose(e, u)
        /\ UNCHANGED <<isdir, counts, uinode, files, failed>>
     \/ LowerRefuses(MayLink(d, e))

-----------------------------------------------------------------------------
(* Removal.  The lower d_delete unhashes the lower dentry, on which the    *)
(* upper one still stands.                                                 *)
IsFound(d) == Positive(d) /\ d_hashed[d] /\ d # 1
Found(d)   == IsFound(d) /\ ~Locked(d_at[d][1])
Backed(l)  == l_hashed[l] /\ l_inode[l] # 0 /\ entry[l_at[l][1]][l_at[l][2]] = l_inode[l]
IsEmpty(i) == \A n \in Names : entry[i][n] = 0

LowerRemoves(l) ==
  /\ entry' = [entry EXCEPT ![l_at[l][1]][l_at[l][2]] = 0]
  /\ l_hashed' = [l_hashed EXCEPT ![l] = FALSE]
  /\ UNCHANGED <<isdir, l_at, l_inode>>

NoDrop(d) == UNCHANGED udentry   \* mutant: d_drop is left to the VFS

d_drop(d) == /\ d_hashed' = [d_hashed EXCEPT ![d] = FALSE]
             /\ UNCHANGED <<d_at, d_inode, lower_path, i_new>>

Removes(d, may) ==
  \/ /\ may /\ LowerRemoves(lower_path[d]) /\ d_drop(d)
     /\ UNCHANGED <<counts, uinode, files, failed>>
  \/ LowerRefuses(may)

MayUnlink(d) == Backed(lower_path[d])
MayRmdir(d)  == Backed(lower_path[d]) /\ IsEmpty(LowerIno(d))

wrapfs_unlink(d) == Found(d) /\ ~IsDir(d) /\ Removes(d, MayUnlink(d))
wrapfs_rmdir(d)  == Found(d) /\ IsDir(d) /\ ~Locked(d) /\ Removes(d, MayRmdir(d))

-----------------------------------------------------------------------------
(* Rename of d to the place of e.  Parents of an upper dentry, nearest     *)
(* first, up to the root.                                                  *)
Above[k \in Nat] ==
  [d \in Upper |-> IF k = 0 \/ d = 1 THEN d ELSE Above[k - 1][d_at[d][1]]]
Within(d, p) == \E k \in 0 .. MaxUpper : Above[k][p] = d

(* lock_rename of the VFS has refused to move a directory into itself.     *)
RenameArgs(d, e) ==
  /\ IsFound(d) /\ (Negative(e) \/ IsFound(e)) /\ d_inode[d] # d_inode[e]
  /\ ~Busy(d_at[d][1], {e}) /\ ~Busy(d_at[e][1], {e}) /\ ~Locked(e)
  /\ ~Within(d, e) /\ ~Within(e, d)

(* vfs_rename and the traps of the lower tree: a directory and those below *)
(* it, the least set that has it and the directories in its members.       *)
Subdirs(S) == {j \in isdir : \E i \in S, n \in Names : entry[i][n] = j}
Below(i)   == {j \in Inodes : \A S \in SUBSET Inodes : i \in S /\ Subdirs(S) \subseteq S => j \in S}

MayRename(o, t) ==
  /\ Backed(o) /\ (Backed(t) \/ MayCreate(t))
  /\ l_at[t][1] \notin Below(l_inode[o])
  /\ l_inode[t] # 0 => /\ l_inode[o] \in isdir <=> l_inode[t] \in isdir
                       /\ IsEmpty(l_inode[t])

(* vfs_rename and d_move: the target dentry is unhashed and gets the       *)
(* source's name.                                                          *)
LowerMoves(o, t) ==
  /\ entry' = [entry EXCEPT ![l_at[o][1]][l_at[o][2]] = 0,
                            ![l_at[t][1]][l_at[t][2]] = l_inode[o]]
  /\ l_at' = [l_at EXCEPT ![o] = l_at[t], ![t] = l_at[o]]
  /\ l_hashed' = [l_hashed EXCEPT ![t] = FALSE]
  /\ UNCHANGED <<isdir, l_inode>>

NoMove(d, e) ==   \* mutant: the VFS is told that rename does the d_move
  /\ d_hashed' = [d_hashed EXCEPT ![e] = FALSE]
  /\ UNCHANGED <<d_at, d_inode, lower_path, i_new>>

d_move(d, e) ==
  /\ d_at' = [d_at EXCEPT ![d] = d_at[e], ![e] = d_at[d]]
  /\ d_hashed' = [d_hashed EXCEPT ![e] = FALSE]
  /\ UNCHANGED <<d_inode, lower_path, i_new>>

Renamed(d, e) ==
  /\ RenameArgs(d, e) /\ MayRename(lower_path[d], lower_path[e])
  /\ LowerMoves(lower_path[d], lower_path[e]) /\ d_move(d, e)
  /\ UNCHANGED <<counts, uinode, files, failed>>

RenameRefused(d, e) ==
  RenameArgs(d, e) /\ LowerRefuses(MayRename(lower_path[d], lower_path[e]))

wrapfs_rename(d, e) == Renamed(d, e) \/ RenameRefused(d, e)

-----------------------------------------------------------------------------
(* Files.  The lower file holds its own references on the lower path.      *)
OpensTwicePut(d) ==   \* mutant: the path of the lower file is put too
  /\ files' = [files EXCEPT ![Least(FreeFiles)] = d]
  /\ UNCHANGED counts

LowerOpens(d) ==
  /\ files' = [files EXCEPT ![Least(FreeFiles)] = d]
  /\ path_get(lower_path[d])

OpensLower(d) ==
  /\ Positive(d) /\ d_hashed[d]
  /\ \/ /\ FreeFiles # {} /\ LowerOpens(d)
        /\ UNCHANGED <<lowerfs, ldentry, udentry, uinode, failed>>
     \/ Errs("lower")

wrapfs_open(d) ==
  \/ OpensLower(d)
  \/ Positive(d) /\ ~d_hashed[d] /\ Refused
  \/ Positive(d) /\ Errs("memory")

wrapfs_file_release(f) ==
  /\ files[f] # 0
  /\ files' = [files EXCEPT ![f] = 0]
  /\ path_put(lower_path[files[f]])
  /\ UNCHANGED <<lowerfs, udentry, uinode, failed>>

-----------------------------------------------------------------------------
(* The dentry cache.  A dentry with no child and no file is released; the  *)
(* inode goes with the last dentry that has it (wrapfs_evict_inode).       *)
Unused(d) ==
  /\ InUse(d) /\ d # 1 /\ d \notin i_new
  /\ \A f \in Files : files[f] # d
  /\ \A e \in Upper : d_at[e][1] # d

evict_inode(u) ==
  /\ lower_inode' = [lower_inode EXCEPT ![u] = 0]
  /\ i_count' = [i_count EXCEPT ![lower_inode[u]] = @ - 1]

wrapfs_d_release(d) ==
  /\ Unused(d)
  /\ d_at' = [d_at EXCEPT ![d] = NoPlace]
  /\ d_inode' = [d_inode EXCEPT ![d] = 0]
  /\ d_hashed' = [d_hashed EXCEPT ![d] = FALSE]
  /\ lower_path' = [lower_path EXCEPT ![d] = 0]
  /\ path_put(lower_path[d])
  /\ IF Positive(d) /\ \A e \in Upper \ {d} : d_inode[e] # d_inode[d]
       THEN evict_inode(d_inode[d])
       ELSE UNCHANGED uinode
  /\ UNCHANGED <<lowerfs, i_new, files, failed>>

(* The lower file system says that the dentry is stale, and the VFS drops  *)
(* the upper one.                                                          *)
wrapfs_d_revalidate(d) ==
  /\ Found(d)
  /\ d_drop(d) /\ Lasts("stale")
  /\ UNCHANGED <<lowerfs, ldentry, counts, uinode, files>>

-----------------------------------------------------------------------------
(* The operations trfs does not trace, and all of wrapfs's.                *)
Untraced ==
  \/ \E p \in Upper, n \in Names : wrapfs_lookup(p, n)
  \/ \E d \in Upper :
       \/ wrapfs_iget_new(d) \/ wrapfs_create(d) \/ wrapfs_symlink(d) \/ wrapfs_mknod(d)
       \/ wrapfs_d_release(d) \/ wrapfs_d_revalidate(d)
  \/ \E f \in Files : wrapfs_file_release(f)

Next ==
  \/ Untraced
  \/ \E d \in Upper : wrapfs_mkdir(d) \/ wrapfs_unlink(d) \/ wrapfs_rmdir(d) \/ wrapfs_open(d)
  \/ \E d, e \in Upper : wrapfs_link(d, e) \/ wrapfs_rename(d, e)

Spec == Init /\ [][Next]_vars

-----------------------------------------------------------------------------
TypeOK ==
  /\ entry \in [Inodes -> [Names -> Inodes \cup {0}]] /\ isdir \subseteq Inodes
  /\ l_at \in [Lower -> (Inodes \cup {0}) \X (Names \cup {NoName})]
  /\ l_inode \in [Lower -> Inodes \cup {0}] /\ l_hashed \in [Lower -> BOOLEAN]
  /\ l_count \in [Lower -> Nat] /\ mnt_count \in Nat
  /\ i_count \in [Inodes -> Int] /\ lower_inode \in [Objs -> Inodes \cup {0}]
  /\ d_at \in [Upper -> (Upper \cup {0}) \X (Names \cup {NoName})]
  /\ d_inode \in [Upper -> Objs \cup {0}] /\ d_hashed \in [Upper -> BOOLEAN]
  /\ lower_path \in [Upper -> Lower \cup {0}] /\ i_new \subseteq Upper
  /\ files \in [Files -> Upper \cup {0}]
  /\ failed \subseteq Lasting

Holders(l)  == Cardinality({d \in Upper : lower_path[d] = l})
               + Cardinality({f \in Files : files[f] # 0 /\ lower_path[files[f]] = l})
Standing    == Cardinality({d \in Upper : InUse(d)}) + Cardinality({f \in Files : files[f] # 0})
Covering(i) == Cardinality({u \in Objs : lower_inode[u] = i})

(* Every reference on the lower layer is one that an upper object will     *)
(* return, no more and no less: an operation that fails has given back     *)
(* what it took (wrapfs_put_reset_lower_path, the path_put of wrapfs_open  *)
(* and of d_release).  Two failures break it: wrapfs_iget without memory,  *)
(* and trfs_open without memory for the path in its record.                *)
RefsReturned ==
  failed \cap {"inode", "record"} = {} =>
    /\ \A l \in Lower : l_count[l] = Holders(l)
    /\ mnt_count = Standing
    /\ \A i \in Inodes : i_count[i] = Covering(i)

(* No lower dentry, mount or inode is released under an upper object that  *)
(* uses it, whatever fails but the iput of wrapfs_iget.                    *)
RefsHeld ==
  "inode" \notin failed =>
    /\ \A l \in Lower : l_count[l] >= Holders(l)
    /\ mnt_count >= Standing
    /\ \A i \in Inodes : i_count[i] >= Covering(i)

(* The cached names are those of the lower file system: a dentry that a    *)
(* lookup finds stands on the lower dentry of the same name in the same    *)
(* directory, and that name is still there, after any renames, removals    *)
(* and lookups that move a directory's dentry.                             *)
NamesMatch ==
  "record" \notin failed =>
    \A d \in Upper \ {1} : d_hashed[d] =>
      /\ l_at[lower_path[d]] = <<LowerIno(d_at[d][1]), d_at[d][2]>>
      /\ Backed(lower_path[d])

(* A lower inode has one upper inode (so one page cache and one size),     *)
(* which wrapfs_inode_test is there to find, through however many names;   *)
(* only overlapping lookups of it break that.  A dentry's inode is the     *)
(* upper one of its lower dentry's inode.                                  *)
OneInode ==
  /\ "race" \notin failed => \A i \in Inodes : Covering(i) <= 1
  /\ \A d \in Upper : Positive(d) => lower_inode[d_inode[d]] = LowerIno(d)
=============================================================================
