---------------------------- MODULE TrfsStackProofs ----------------------------
(***************************************************************************)
(* The namespace operations of trfs keep the invariant of the stack of     *)
(* WrapfsProofs: those that are wrapfs's by its lemmas, and those that     *)
(* stop at a record they cannot allocate by the lemmas on their change to  *)
(* the lower file system, which allow the upper part of it to be missing.  *)
(* TreeInv adds what paths need: the lower directories are a tree, and the *)
(* upper ones are where they are, again with a lemma for each change.      *)
(***************************************************************************)
EXTENDS TrfsStack, WrapfsProofs

(* A record that cannot be allocated is marked as missed.    *)
LEMMA NoRecord ==
  ASSUME StackInv, Lasts("record")
  PROVE  Recorded /\ "record" \in failed'
BY LastsRecorded DEF Lasting

(* vfs_mkdir has made the directory; trfs_interpose is skipped.            *)
LEMMA TrfsMkdirKeeps ==
  ASSUME StackInv, NEW d \in Upper, trfs_mkdir(d)
  PROVE  StackInv'
<1>1. CASE wrapfs_mkdir(d)
  BY <1>1, TracedKeeps
<1>2. CASE ~wrapfs_mkdir(d)
  <2>1. /\ Negative(d) /\ MayCreate(lower_path[d]) /\ FreeInodes # {}
        /\ LowerMakes(lower_path[d], Least(FreeInodes), TRUE)
        /\ Lasts("record")
        /\ UNCHANGED <<counts, udentry, uinode, files>>
    BY <1>2 DEF trfs_mkdir
  <2>2. Recorded
    BY <2>1, NoRecord
  <2>3. MakesName(d, TRUE, 0)
    BY <2>1, <2>2 DEF MakesName, counts, udentry, uinode
  <2> QED
    BY <2>3, MakeNameKeeps
<1> QED
  BY <1>1, <1>2

(* vfs_link and trfs_interpose are done.                                   *)
LEMMA TrfsLinkKeeps ==
  ASSUME StackInv, NEW d \in Upper, NEW e \in Upper, trfs_link(d, e)
  PROVE  StackInv'
<1>1. CASE wrapfs_link(d, e)
  BY <1>1, LinkKeeps
<1>2. CASE ~wrapfs_link(d, e)
  <2>1. /\ Positive(d) /\ ~IsDir(d) /\ Negative(e) /\ MayLink(d, e)
        /\ LowerAdds(lower_path[e], LowerIno(d))
        /\ \E u \in Matching(LowerIno(d)) : interpose(e, u)
        /\ Lasts("record")
        /\ UNCHANGED <<isdir, counts, uinode, files>>
    BY <1>2 DEF trfs_link
  <2>2. PICK u \in Matching(LowerIno(d)) : interpose(e, u)
    BY <2>1
  <2>3. Recorded
    BY <2>1, NoRecord
  <2>4. LinksName(d, e, u)
    BY <2>1, <2>2, <2>3 DEF LinksName, MayLink, counts, uinode
  <2> QED
    BY <2>4, LinkNameKeeps
<1> QED
  BY <1>1, <1>2

(* The name is gone below; d_drop is skipped.                              *)
LEMMA KeepsRemovedKeeps ==
  ASSUME StackInv, NEW d \in Upper, NEW may, Found(d), may => Backed(lower_path[d]),
         KeepsRemoved(d, may)
  PROVE  StackInv'
<1>1. /\ may /\ LowerRemoves(lower_path[d]) /\ Lasts("record")
      /\ UNCHANGED <<counts, udentry, uinode, files>>
  BY DEF KeepsRemoved
<1>2. Recorded /\ "record" \in failed'
  BY <1>1, NoRecord
<1>3. d_hashed' \in [Upper -> BOOLEAN]
  BY <1>1 DEF udentry, StackInv, TypeOK
<1>4. RemovesName(d)
  BY <1>1, <1>2, <1>3 DEF RemovesName, counts, udentry, uinode
<1> QED
  BY <1>4, RemoveKeeps

(* unlink and rmdir, refused, completed or stopped at the record.          *)
LEMMA TrfsRemovalKeeps ==
  ASSUME StackInv, NEW d \in Upper, trfs_unlink(d) \/ trfs_rmdir(d)
  PROVE  StackInv'
<1>1. CASE wrapfs_unlink(d) \/ wrapfs_rmdir(d)
  BY <1>1, TracedKeeps
<1>2. CASE Found(d) /\ KeepsRemoved(d, MayUnlink(d))
  <2>1. MayUnlink(d) => Backed(lower_path[d])
    BY DEF MayUnlink
  <2> QED
    BY <1>2, <2>1, KeepsRemovedKeeps
<1>3. CASE Found(d) /\ KeepsRemoved(d, MayRmdir(d))
  <2>1. MayRmdir(d) => Backed(lower_path[d])
    BY DEF MayRmdir
  <2> QED
    BY <1>3, <2>1, KeepsRemovedKeeps
<1> QED
  BY <1>1, <1>2, <1>3 DEF trfs_unlink, trfs_rmdir

(* The name has moved below; the VFS does not d_move.                      *)
LEMMA TrfsRenameKeeps ==
  ASSUME StackInv, NEW d \in Upper, NEW e \in Upper, trfs_rename(d, e)
  PROVE  StackInv'
<1>1. CASE wrapfs_rename(d, e)
  BY <1>1, RenameActionKeeps
<1>2. CASE ~wrapfs_rename(d, e)
  <2>1. /\ RenameArgs(d, e) /\ MayRename(lower_path[d], lower_path[e])
        /\ LowerMoves(lower_path[d], lower_path[e]) /\ Lasts("record")
        /\ UNCHANGED <<counts, udentry, uinode, files>>
    BY <1>2 DEF trfs_rename, wrapfs_rename
  <2>2. Recorded /\ "record" \in failed'
    BY <2>1, NoRecord
  <2>3. Renames(d, e)
    BY <2>1, <2>2 DEF RenameArgs, Renames, counts, udentry, uinode
  <2> QED
    BY <2>3, RenameKeeps
<1> QED
  BY <1>1, <1>2

(* The lower file that a failed open leaves open.                          *)
LEMMA TrfsOpenKeeps ==
  ASSUME StackInv, NEW d \in Upper, trfs_open(d)
  PROVE  StackInv'
<1>1. CASE OpensLower(d)
  BY <1>1, OpensLowerKeeps
<1>2. CASE OpenLeaks(d)
  <2>1. /\ Positive(d) /\ path_get(lower_path[d]) /\ Lasts("record")
        /\ UNCHANGED <<lowerfs, ldentry, udentry, uinode, files>>
    BY <1>2 DEF OpenLeaks
  <2>2. Recorded /\ "record" \in failed'
    BY <2>1, NoRecord
  <2>3. Opens(d)
    BY <2>1, <2>2 DEF Opens, lowerfs, ldentry, udentry, uinode
  <2> QED
    BY <2>3, OpenKeeps
<1>3. CASE OpenOops(d)
  BY <1>3, Stutters DEF OpenOops
<1> QED
  BY <1>1, <1>2, <1>3 DEF trfs_open

(* Every step of trfs keeps the invariant.                                 *)
LEMMA TrfsNextKeeps == StackInv /\ [TrfsNext]_<<vars, oops, moving>> => StackInv'
<1> SUFFICES ASSUME StackInv, [TrfsNext]_<<vars, oops, moving>>
             PROVE  StackInv'
  OBVIOUS
<1>1. CASE UNCHANGED <<vars, oops, moving>>
  BY <1>1, Stutters
<1>2. ASSUME NEW p \in Upper, NEW n \in Names, trfs_lookup(p, n)
      PROVE  StackInv'
  BY <1>2, LookupActionKeeps DEF trfs_lookup
<1>3. ASSUME NEW d \in Upper,
             \/ trfs_iget_new(d) \/ trfs_create(d) \/ trfs_symlink(d) \/ trfs_mknod(d)
             \/ trfs_d_release(d) \/ trfs_d_revalidate(d)
      PROVE  StackInv'
  <2>1. Untraced
    BY <1>3 DEF Untraced, trfs_iget_new, trfs_create, trfs_symlink, trfs_mknod, trfs_d_release,
                trfs_d_revalidate
  <2> QED
    BY <2>1, UntracedKeeps
<1>4. ASSUME NEW d \in Upper,
             trfs_mkdir(d) \/ trfs_unlink(d) \/ trfs_rmdir(d) \/ trfs_open(d)
      PROVE  StackInv'
  BY <1>4, TrfsMkdirKeeps, TrfsRemovalKeeps, TrfsOpenKeeps
<1>5. ASSUME NEW d \in Upper, NEW e \in Upper,
             trfs_link(d, e) \/ trfs_rename(d, e) \/ vfs_rename(d, e)
      PROVE  StackInv'
  BY <1>5, TrfsLinkKeeps, TrfsRenameKeeps, Stutters DEF vfs_rename
<1>6. ASSUME NEW f \in Files, trfs_file_release(f)
      PROVE  StackInv'
  BY <1>6, ReleaseKeeps DEF trfs_file_release
<1> QED
  BY <1>1, <1>2, <1>3, <1>4, <1>5, <1>6 DEF TrfsNext

-----------------------------------------------------------------------------
(* trfs keeps the invariant of the stack, with a record that cannot be     *)
(* allocated among the failures.                                           *)
THEOREM TrfsStackInvariant == TrfsSpec => []StackInv
<1> QED
  BY StackInit, TrfsNextKeeps, PTL DEF TrfsSpec

(* Under trfs no lower dentry, mount or inode is released while an upper   *)
(* object uses it, whatever fails but the iput of trfs_iget: an operation  *)
(* that stops at its record may keep a reference and never puts one twice. *)
THEOREM TrfsHoldsRefs == TrfsSpec => []RefsHeld
<1>1. StackInv => RefsHeld
  BY StackInvImplies
<1> QED
  BY <1>1, TrfsStackInvariant, PTL

(* What holds of wrapfs holds of trfs: exact references while no record    *)
(* was missed, one upper inode for a lower one, and names that match.      *)
THEOREM TrfsKeepsStack == TrfsSpec => [](RefsReturned /\ OneInode /\ NamesMatch)
<1>1. StackInv => RefsReturned /\ OneInode /\ NamesMatch
  BY StackInvImplies
<1> QED
  BY <1>1, TrfsStackInvariant, PTL

-----------------------------------------------------------------------------
(* Unless its record cannot be allocated, a step of trfs is one of wrapfs, *)
(* or the write through NULL of trfs_open, which changes no object of the  *)
(* stack.                                                                  *)
LEMMA TrfsSteps == [TrfsNext]_<<vars, oops, moving>> => [Next]_vars \/ Lasts("record")
<1> SUFFICES ASSUME [TrfsNext]_<<vars, oops, moving>>, ~Lasts("record")
             PROVE  [Next]_vars
  OBVIOUS
<1>1. CASE UNCHANGED <<vars, oops, moving>>
  BY <1>1
<1>2. ASSUME NEW p \in Upper, NEW n \in Names, trfs_lookup(p, n)
      PROVE  Next
  BY <1>2 DEF trfs_lookup, Untraced, Next
<1>3. ASSUME NEW d \in Upper,
             \/ trfs_iget_new(d) \/ trfs_create(d) \/ trfs_symlink(d) \/ trfs_mknod(d)
             \/ trfs_d_release(d) \/ trfs_d_revalidate(d)
      PROVE  Next
  BY <1>3 DEF trfs_iget_new, trfs_create, trfs_symlink, trfs_mknod, trfs_d_release,
              trfs_d_revalidate, Untraced, Next
<1>4. ASSUME NEW d \in Upper, trfs_mkdir(d) \/ trfs_unlink(d) \/ trfs_rmdir(d)
      PROVE  Next
  BY <1>4 DEF trfs_mkdir, trfs_unlink, trfs_rmdir, KeepsRemoved, Next
<1>5. ASSUME NEW d \in Upper, trfs_open(d)
      PROVE  [Next]_vars
  BY <1>5 DEF trfs_open, OpenLeaks, OpenOops, wrapfs_open, Next
<1>6. ASSUME NEW d \in Upper, NEW e \in Upper,
             trfs_link(d, e) \/ trfs_rename(d, e) \/ vfs_rename(d, e)
      PROVE  [Next]_vars
  BY <1>6 DEF trfs_link, trfs_rename, wrapfs_rename, vfs_rename, Next
<1>7. ASSUME NEW f \in Files, trfs_file_release(f)
      PROVE  Next
  BY <1>7 DEF trfs_file_release, Untraced, Next
<1> QED
  BY <1>1, <1>2, <1>3, <1>4, <1>5, <1>6, <1>7 DEF TrfsNext

(* trfs implements wrapfs, of which its namespace operations are a copy,   *)
(* as long as records can be allocated.                                    *)
THEOREM TrfsImplementsWrapfs == "record" \notin Failures => (TrfsSpec => Spec)
<1> SUFFICES ASSUME "record" \notin Failures
             PROVE  TrfsSpec => Spec
  OBVIOUS
<1>1. [TrfsNext]_<<vars, oops, moving>> => [Next]_vars
  <2>1. ~Lasts("record")
    BY DEF Lasts
  <2> QED
    BY <2>1, TrfsSteps
<1> QED
  BY <1>1, PTL DEF TrfsSpec, Spec

-----------------------------------------------------------------------------
(* The lower directories are a tree: what has entries is a directory with  *)
(* a name, and no set of directories has all its names in itself.          *)
Filed == \A i \in Inodes, n \in Names : entry[i][n] # 0 => i \in isdir /\ Named(i)

Cycle(S) == \A j \in S : j \in isdir /\ \E i \in S, n \in Names : entry[i][n] = j
NoCycle  == \A S \in SUBSET Inodes : Cycle(S) => S = {}

(* The upper directories, whether a lookup finds them or not, are where    *)
(* the lower ones are that still have a name.                              *)
DirsPlaced ==
  \A d \in Upper \ {1} : IsDir(d) /\ Named(LowerIno(d)) =>
    d_at[d][2] \in Names /\ entry[LowerIno(d_at[d][1])][d_at[d][2]] = LowerIno(d)

TreeInv == "record" \notin failed => Filed /\ NoCycle /\ DirsPlaced

(* A removal takes a leaf of the lower tree.                               *)
LEMMA RemoveKeepsTree ==
  ASSUME StackInv, TreeInv, "record" \notin failed, NEW d \in Upper, RemovesName(d),
         IsDir(d) => IsEmpty(LowerIno(d))
  PROVE  Filed' /\ NoCycle'
<1>1. PICK l \in Lower, i \in Inodes, n \in Names : RemoveEffect(d, l, i, n)
  BY RemoveSteps
<1>2. /\ entry'[i][n] = 0 /\ isdir' = isdir
      /\ \A k \in Inodes, m \in Names : k # i \/ m # n => entry'[k][m] = entry[k][m]
  BY <1>1 DEF RemoveEffect
<1>3. \A k \in Inodes, m \in Names : entry'[k][m] # 0 => entry'[k][m] = entry[k][m]
  BY <1>2
<1>4. Filed'
  <2> SUFFICES ASSUME NEW k \in Inodes, NEW m \in Names, entry'[k][m] # 0
               PROVE  k \in isdir' /\ Named(k)'
    BY DEF Filed
  <2>1. entry[k][m] # 0 /\ k \in isdir /\ Named(k)
    BY <1>3 DEF TreeInv, Filed
  <2>2. k # LowerIno(d)
    <3>1. k = LowerIno(d) => IsDir(d)
      BY <2>1 DEF IsDir, RemovesName, Found, IsFound
    <3> QED
      BY <2>1, <3>1 DEF IsEmpty
  <2>3. entry[i][n] # k
    BY <1>1, <2>2 DEF RemoveEffect, LowerIno
  <2>4. Named(k)'
    <3>1. CASE k = Root
      BY <3>1 DEF Named
    <3>2. ASSUME NEW a \in Inodes, NEW b \in Names, entry[a][b] = k
          PROVE  Named(k)'
      <4>1. entry'[a][b] = k
        BY <1>2, <2>3, <3>2
      <4> QED
        BY <4>1 DEF Named
    <3> QED
      BY <2>1, <3>1, <3>2 DEF Named
  <2> QED
    BY <1>2, <2>1, <2>4
<1>5. NoCycle'
  <2> SUFFICES ASSUME NEW S \in SUBSET Inodes, Cycle(S)'
               PROVE  S = {}
    BY DEF NoCycle
  <2>1. \A j \in S : j \in isdir /\ \E a \in S, b \in Names : entry'[a][b] = j
    BY <1>2 DEF Cycle
  <2>2. \A j \in S, a \in S, b \in Names : entry'[a][b] = j => entry[a][b] = j
    BY <1>3, Numbers
  <2>3. Cycle(S)
    BY <2>1, <2>2 DEF Cycle
  <2> QED
    BY <2>3 DEF TreeInv, NoCycle
<1> QED
  BY <1>4, <1>5

(* The directory of a dentry's lower place is its parent's lower inode.    *)
LEMMA PlaceIsDir ==
  ASSUME StackInv, "record" \notin failed, NEW d \in Upper \ {1}, Present(d),
         NEW i, NEW n, l_at[lower_path[d]] = <<i, n>>
  PROVE  i \in isdir /\ i = LowerIno(d_at[d][1]) /\ n = d_at[d][2]
<1>1. InUse(d)
  BY PresentInUse
<1>2. IsDir(d_at[d][1])
  BY <1>1, InPlace
<1>3. <<i, n>> = <<LowerIno(d_at[d][1]), d_at[d][2]>>
  BY DEF StackInv, Placed
<1> QED
  BY <1>2, <1>3 DEF IsDir

(* A new name is in a directory that has one, and is a leaf.               *)
LEMMA AddKeepsTree ==
  ASSUME StackInv, TreeInv, "record" \notin failed,
         NEW d, NEW l, NEW i, NEW n, NEW j, NEW u,
         AddEffect(d, l, i, n, j, u), AddedInode(j, u), Negative(d), Named(i)
  PROVE  Filed' /\ NoCycle'
<1>1. /\ d \in Upper \ {1} /\ l = lower_path[d] /\ l_at[l] = <<i, n>>
      /\ i \in Inodes /\ n \in Names /\ j \in Inodes
      /\ entry[i][n] = 0 /\ entry'[i][n] = j
      /\ \A k \in Inodes, m \in Names : k # i \/ m # n => entry'[k][m] = entry[k][m]
  BY DEF AddEffect
<1>2. i \in isdir
  <2>1. Present(d)
    BY DEF Present
  <2> QED
    BY <1>1, <2>1, PlaceIsDir
<1>3. /\ \A x : x # j => (x \in isdir' <=> x \in isdir)
      /\ j \in isdir \/ j \in isdir' => ~Named(j)
  BY DEF AddedInode, Unmet
<1>4. \A k \in Inodes, m \in Names : entry[k][m] # 0 => k \in isdir /\ Named(k) /\ k # j
  BY <1>3 DEF TreeInv, Filed
<1>5. \A k \in Inodes : Named(k) => Named(k)'
  <2> SUFFICES ASSUME NEW k \in Inodes, NEW a \in Inodes, NEW b \in Names, entry[a][b] = k
               PROVE  Named(k)'
    BY DEF Named
  <2>1. a # i \/ b # n
    BY <1>1, Numbers
  <2>2. entry'[a][b] = k
    BY <1>1, <2>1
  <2> QED
    BY <2>2 DEF Named
<1>6. j # i \/ j \notin isdir'
  BY <1>3
<1>7. Filed'
  <2> SUFFICES ASSUME NEW k \in Inodes, NEW m \in Names, entry'[k][m] # 0
               PROVE  k \in isdir' /\ Named(k)'
    BY DEF Filed
  <2>1. CASE k = i /\ m = n
    <3>1. i # j
      BY <1>2, <1>3
    <3> QED
      BY <1>2, <1>3, <1>5, <2>1, <3>1, <1>1
  <2>2. CASE k # i \/ m # n
    BY <1>1, <1>3, <1>4, <1>5, <2>2
  <2> QED
    BY <2>1, <2>2
<1>8. NoCycle'
  <2> SUFFICES ASSUME NEW S \in SUBSET Inodes, Cycle(S)'
               PROVE  S = {}
    BY DEF NoCycle
  <2>1. \A q \in S : q \in isdir' /\ \E a \in S, b \in Names : entry'[a][b] = q
    BY DEF Cycle
  <2>2. \A q \in S \ {j}, a \in S, b \in Names :
          entry'[a][b] = q => entry[a][b] = q /\ a \in S \ {j}
    <3> SUFFICES ASSUME NEW q \in S \ {j}, NEW a \in S, NEW b \in Names, entry'[a][b] = q
                 PROVE  entry[a][b] = q /\ a \in S \ {j}
      OBVIOUS
    <3>1. a # i \/ b # n
      BY <1>1
    <3>2. entry[a][b] = q
      BY <1>1, <3>1
    <3> QED
      BY <1>4, <3>2, Numbers
  <2>3. Cycle(S \ {j})
    BY <1>3, <2>1, <2>2 DEF Cycle
  <2>4. S \ {j} = {}
    BY <2>3 DEF TreeInv, NoCycle
  <2>5. j \notin S
    <3> SUFFICES ASSUME j \in S
                 PROVE  FALSE
      OBVIOUS
    <3>1. PICK b \in Names : entry'[j][b] = j
      BY <2>1, <2>4
    <3>2. j \in isdir'
      BY <2>1
    <3>3. j # i
      BY <1>6, <3>2
    <3>4. entry[j][b] = j
      BY <1>1, <3>1, <3>3
    <3> QED
      BY <1>1, <1>4, <3>4, Numbers
  <2> QED
    BY <2>4, <2>5
<1> QED
  BY <1>7, <1>8

(* The directories below a directory.                                      *)
LEMMA BelowIsClosed ==
  ASSUME NEW D \in Inodes, isdir \subseteq Inodes
  PROVE  /\ D \in Below(D)
         /\ \A a \in Below(D), b \in Names : entry[a][b] \in isdir => entry[a][b] \in Below(D)
<1>1. D \in Below(D)
  BY DEF Below
<1>2. ASSUME NEW a \in Below(D), NEW b \in Names, entry[a][b] \in isdir
      PROVE  entry[a][b] \in Below(D)
  <2> SUFFICES ASSUME NEW S \in SUBSET Inodes, D \in S, Subdirs(S) \subseteq S
               PROVE  entry[a][b] \in S
    BY <1>2 DEF Below
  <2>1. a \in S
    BY DEF Below
  <2>2. entry[a][b] \in Subdirs(S)
    BY <1>2, <2>1 DEF Subdirs
  <2> QED
    BY <2>2
<1> QED
  BY <1>1, <1>2

(* A directory that moves takes those below it along, and its new place is *)
(* not among them.                                                         *)
LEMMA RenameKeepsTree ==
  ASSUME StackInv, TreeInv, "record" \notin failed, StackInv', "record" \notin failed',
         NEW d \in Upper, NEW e \in Upper, Renames(d, e),
         NEW o, NEW t, NEW i, NEW n, NEW k, NEW m, RenameEffect(d, e, o, t, i, n, k, m), o # t
  PROVE  Filed' /\ NoCycle'
<1>1. PICK D \in Inodes : D = l_inode[o]
  <2>1. l_inode[o] \in Inodes \cup {0} /\ l_inode[o] # 0
    BY DEF RenameEffect, StackInv, TypeOK
  <2> QED
    BY <2>1
<1>2. /\ i \in Inodes /\ n \in Names /\ k \in Inodes /\ m \in Names
      /\ entry[i][n] = D /\ entry[k][m] = l_inode[t] /\ entry'[k][m] = D /\ entry'[i][n] = 0
      /\ \A x \in Inodes, y \in Names :
           (x # i \/ y # n) /\ (x # k \/ y # m) => entry'[x][y] = entry[x][y]
      /\ isdir' = isdir /\ D # 0
  BY <1>1, Numbers DEF RenameEffect
<1>3. k \in isdir
  <2>1. e # 1 /\ Present(e) /\ l_at[lower_path[e]] = <<k, m>>
    BY RenameArgsTake DEF RenameEffect
  <2> QED
    BY <2>1, PlaceIsDir
<1>4. /\ k \notin Below(D) /\ (l_inode[t] # 0 => IsEmpty(l_inode[t]))
      /\ entry[k][m] = 0 => Named(k)
  <2>1. MayRename(o, t) /\ l_at[t] = <<k, m>>
    BY DEF Renames, RenameEffect
  <2> QED
    BY <1>1, <1>2, <2>1, Numbers DEF MayRename, MayCreate, Backed
<1>5. Named(k)
  BY <1>2, <1>4 DEF TreeInv, Filed
<1>6. \A x \in Inodes : Named(x) /\ ~IsEmpty(x) => Named(x)'
  <2> SUFFICES ASSUME NEW x \in Inodes, ~IsEmpty(x), NEW a \in Inodes, NEW b \in Names,
                      entry[a][b] = x
               PROVE  Named(x)'
    BY DEF Named
  <2>1. CASE x = D
    BY <1>2, <2>1 DEF Named
  <2>2. CASE x # D
    <3>1. a # i \/ b # n
      BY <1>2, <2>2
    <3>2. a # k \/ b # m
      BY <1>2, <1>4, Numbers
    <3>3. entry'[a][b] = x
      BY <1>2, <3>1, <3>2
    <3> QED
      BY <3>3 DEF Named
  <2> QED
    BY <2>1, <2>2
<1>7. Named(k)'
  <2>1. CASE k = Root
    BY <2>1 DEF Named
  <2>2. CASE k # Root
    <3>1. PICK a \in Inodes, b \in Names : entry[a][b] = k
      BY <1>5, <2>2 DEF Named
    <3>2. k # D
      BY <1>2, <1>4, BelowIsClosed DEF StackInv, TypeOK
    <3>3. a # i \/ b # n
      BY <1>2, <3>1, <3>2
    <3>4. a # k \/ b # m
      <4> SUFFICES ASSUME a = k, b = m
                   PROVE  FALSE
        OBVIOUS
      <4>1. entry[k][m] = k /\ l_inode[t] = k /\ k # 0
        BY <1>2, <3>1, Numbers
      <4> QED
        BY <1>2, <1>4, <4>1 DEF IsEmpty
    <3>5. entry'[a][b] = k
      BY <1>2, <3>1, <3>3, <3>4
    <3> QED
      BY <3>5 DEF Named
  <2> QED
    BY <2>1, <2>2
<1>8. Filed'
  <2> SUFFICES ASSUME NEW x \in Inodes, NEW y \in Names, entry'[x][y] # 0
               PROVE  x \in isdir' /\ Named(x)'
    BY DEF Filed
  <2>1. CASE x = k /\ y = m
    BY <1>2, <1>3, <1>7, <2>1
  <2>2. CASE x # k \/ y # m
    <3>1. entry[x][y] # 0
      BY <1>2, <2>2
    <3>2. x \in isdir /\ Named(x) /\ ~IsEmpty(x)
      BY <3>1 DEF TreeInv, Filed, IsEmpty
    <3> QED
      BY <1>2, <1>6, <3>2
  <2> QED
    BY <2>1, <2>2
<1>9. \A q \in Inodes, a \in Inodes, b \in Names :
        entry'[a][b] = q /\ q # D => entry[a][b] = q
  BY <1>2, Numbers
<1>10. NoCycle'
  <2> SUFFICES ASSUME NEW S \in SUBSET Inodes, Cycle(S)'
               PROVE  S = {}
    BY DEF NoCycle
  <2>1. \A q \in S : q \in isdir /\ \E a \in S, b \in Names : entry'[a][b] = q
    BY <1>2 DEF Cycle
  <2>2. CASE D \notin S
    <3>1. Cycle(S)
      BY <1>9, <2>1, <2>2 DEF Cycle
    <3> QED
      BY <3>1 DEF TreeInv, NoCycle
  <2>3. CASE D \in S
    <3>1. PICK a \in S, b \in Names : entry'[a][b] = D
      BY <2>1, <2>3
    <3>2. D \in isdir'
      BY <1>2, <2>1, <2>3
    <3>3. a = k
      BY <1>2, <3>1, <3>2 DEF StackInv, OneName
    <3>4. PICK R \in SUBSET Inodes : R = S \ Below(D)
      OBVIOUS
    <3>5. /\ D \in Below(D)
          /\ \A x \in Below(D), y \in Names : entry[x][y] \in isdir => entry[x][y] \in Below(D)
      BY BelowIsClosed DEF StackInv, TypeOK
    <3>6. ASSUME NEW q \in R
          PROVE  q \in isdir /\ \E x \in R, y \in Names : entry[x][y] = q
      <4>1. PICK x \in S, y \in Names : entry'[x][y] = q
        BY <2>1, <3>4, <3>6
      <4>2. entry[x][y] = q /\ q \in isdir
        BY <1>9, <2>1, <3>4, <3>5, <3>6, <4>1
      <4>3. x \notin Below(D)
        BY <3>4, <3>5, <3>6, <4>2
      <4> QED
        BY <3>4, <4>2, <4>3
    <3>7. Cycle(R)
      BY <3>6 DEF Cycle
    <3>8. R = {}
      BY <3>7 DEF TreeInv, NoCycle
    <3> QED
      BY <1>4, <3>1, <3>3, <3>4, <3>8
  <2> QED
    BY <2>2, <2>3
<1> QED
  BY <1>8, <1>10

(* The lower dentry of an upper one is in use, after a step too.           *)
LEMMA UsedLater ==
  ASSUME StackInv', NEW d \in Upper, lower_path'[d] \in Lower
  PROVE  l_count'[lower_path'[d]] > 0
<1>1. PICK l \in Lower : l = lower_path'[d]
  OBVIOUS
<1>2. l_count'[l] \in Nat /\ l_count'[l] >= Holders(l)'
  BY DEF StackInv, TypeOK, RefsKept
<1>3. PICK lp, fl : lp = lower_path' /\ fl = files'
  OBVIOUS
<1>4. HoldersOf(lp, fl, l) >= 1 /\ HoldersOf(lp, fl, l) \in Nat
  BY <1>1, <1>3, OneHolder, CountsType
<1>5. Holders(l)' = HoldersOf(lp, fl, l)
  BY <1>3, CountsNow
<1> QED
  BY <1>1, <1>2, <1>4, <1>5

(* No step gives the dentry of a directory another lower inode, and most   *)
(* leave a directory's dentry, found or not, at its place and give its     *)
(* inode no name.                                                          *)
DirsKeep == \A y \in Upper : IsDir(y) /\ IsDir(y)' => LowerIno(y)' = LowerIno(y)

Rests(x) == /\ IsDir(x) /\ d_at'[x] = d_at[x]
            /\ \A i \in Inodes, n \in Names : entry'[i][n] = LowerIno(x) => entry[i][n] = LowerIno(x)

(* The others it leaves found, at the place of their lower dentry.         *)
LEMMA DirsFollow ==
  ASSUME StackInv, TreeInv, "record" \notin failed, StackInv', "record" \notin failed', DirsKeep,
         \A x \in Upper \ {1} : IsDir(x)' /\ Named(LowerIno(x))' => d_hashed'[x] \/ Rests(x)
  PROVE  DirsPlaced'
<1> SUFFICES ASSUME NEW x \in Upper \ {1}, IsDir(x)', Named(LowerIno(x))'
             PROVE  (/\ d_at[x][2] \in Names
                     /\ entry[LowerIno(d_at[x][1])][d_at[x][2]] = LowerIno(x))'
  BY DEF DirsPlaced
<1>1. CASE d_hashed'[x]
  <2>1. PICK l : l = lower_path'[x]
    OBVIOUS
  <2>2. /\ l_at'[l] = <<LowerIno(d_at[x][1])', d_at'[x][2]>>
        /\ l_inode'[l] # 0 /\ entry'[l_at'[l][1]][l_at'[l][2]] = l_inode'[l]
    BY <1>1, <2>1 DEF StackInv, Placed, Present, Backed
  <2>3. LowerIno(x)' = l_inode'[l]
    BY <2>1 DEF LowerIno
  <2>4. l \in Lower \ {1} /\ l_at'[l] \in Inodes \X Names
    <3>1. l \in Lower
      BY <2>1 DEF IsDir, Positive, InUse, StackInv, TypeOK
    <3>2. l # 1
      BY <2>1 DEF StackInv, RootStands
    <3>3. l_count'[l] > 0
      BY <2>1, <3>1, UsedLater
    <3> QED
      BY <3>1, <3>2, <3>3 DEF StackInv, LowerCache, Used
  <2> QED
    BY <2>2, <2>3, <2>4
<1>2. CASE Rests(x)
  <2>1. PICK p, n, i, j : /\ p = d_at[x][1] /\ n = d_at[x][2] /\ i = LowerIno(p)
                          /\ j = LowerIno(x)
    OBVIOUS
  <2>2. IsDir(x) /\ d_at'[x] = d_at[x] /\ LowerIno(x)' = j /\ j \in isdir /\ InUse(x)
    BY <1>2, <2>1 DEF Rests, DirsKeep, IsDir, Positive
  <2>3. p \in Upper /\ IsDir(p) /\ i \in isdir /\ i \in Inodes
    BY <2>1, <2>2, InPlace DEF IsDir
  <2>4. IsDir(p)'
    <3>1. InUse(x)'
      BY DEF IsDir, Positive
    <3> QED
      BY <2>1, <2>2, <3>1 DEF StackInv, Stacked
  <2>5. LowerIno(p)' = i
    BY <2>1, <2>3, <2>4 DEF DirsKeep
  <2>6. j # Root
    <3>1. d_inode[1] # 0 /\ LowerIno(1) = Root /\ d_inode[x] # 0
      BY <2>2, Numbers, InPlace DEF StackInv, RootStands, LowerIno
    <3> QED
      BY <2>1, <2>2, <3>1, Numbers DEF StackInv, OneName
  <2>7. PICK a \in Inodes, b \in Names : entry'[a][b] = j
    BY <2>2, <2>6 DEF Named
  <2>8. entry[a][b] = j
    BY <1>2, <2>1, <2>7 DEF Rests
  <2>9. n \in Names /\ entry[i][n] = j
    <3>1. Named(j)
      BY <2>8 DEF Named
    <3> QED
      BY <2>1, <2>2, <3>1 DEF TreeInv, DirsPlaced
  <2>10. a = i /\ b = n
    BY <2>2, <2>3, <2>8, <2>9 DEF StackInv, OneName
  <2> QED
    BY <2>1, <2>2, <2>5, <2>7, <2>9, <2>10
<1> QED
  BY <1>1, <1>2

(* What a step makes of the dentries of directories.                       *)
DirsRest ==
  /\ DirsKeep
  /\ \A x \in Upper \ {1} : IsDir(x)' /\ Named(LowerIno(x))' => d_hashed'[x] \/ Rests(x)

(* So a step keeps the tree if it keeps the lower part of it.              *)
LEMMA TreeFollows ==
  ASSUME StackInv, TreeInv, StackInv', Recorded,
         "record" \notin failed' => DirsRest /\ Filed' /\ NoCycle'
  PROVE  TreeInv'
<1> SUFFICES ASSUME "record" \notin failed'
             PROVE  Filed' /\ NoCycle' /\ DirsPlaced'
  BY DEF TreeInv
<1>1. "record" \notin failed /\ DirsKeep
      /\ \A x \in Upper \ {1} : IsDir(x)' /\ Named(LowerIno(x))' => d_hashed'[x] \/ Rests(x)
  BY DEF Recorded, DirsRest
<1> QED
  BY <1>1, DirsFollow

(* Steps above the lower directories.                                      *)
LEMMA SameTree ==
  ASSUME TreeInv, Recorded, UNCHANGED <<entry, isdir>>
  PROVE  "record" \notin failed' => Filed' /\ NoCycle'
BY DEF TreeInv, Recorded, Filed, Named, NoCycle, Cycle

(* The dentries stay, and no inode gets a name.                            *)
LEMMA SameRests ==
  ASSUME UNCHANGED <<d_at, d_inode, lower_path, l_inode, i_new, isdir>>,
         \A i \in Inodes, n \in Names : entry'[i][n] # 0 => entry'[i][n] = entry[i][n],
         TypeOK
  PROVE  DirsRest
<1>1. \A x \in Upper : LowerIno(x)' = LowerIno(x) /\ IsDir(x)' = IsDir(x)
  BY SameView, SameDirs
<1>2. DirsKeep
  BY <1>1 DEF DirsKeep
<1>3. ASSUME NEW x \in Upper \ {1}, IsDir(x)'
      PROVE  Rests(x)
  <2>1. IsDir(x)
    BY <1>1, <1>3
  <2>2. PICK j : j = LowerIno(x) /\ j # 0
    BY <2>1, Numbers DEF IsDir, TypeOK
  <2>3. \A i \in Inodes, n \in Names : entry'[i][n] = j => entry[i][n] = j
    BY <2>2
  <2> QED
    BY <2>1, <2>2, <2>3 DEF Rests
<1> QED
  BY <1>2, <1>3 DEF DirsRest

(* A step like that keeps the tree.                                        *)
LEMMA QuietKeepsTree ==
  ASSUME StackInv, TreeInv, StackInv', Recorded, UNCHANGED <<entry, isdir>>,
         UNCHANGED <<d_at, d_inode, lower_path, l_inode, i_new>>
  PROVE  TreeInv'
<1>1. DirsRest
  BY SameRests DEF StackInv
<1> QED
  BY <1>1, SameTree, TreeFollows

(* A new dentry of a lookup is no directory's until it is set up.          *)
LEMMA LookupKeepsTree ==
  ASSUME StackInv, TreeInv, NEW p, NEW n, NEW d, NEW l, NEW u, NEW hashed,
         LooksUp(p, n, d, l, u, hashed)
  PROVE  TreeInv'
<1>1. LookupEffect(p, n, d, l, u, hashed)
  BY LookupSteps
<1>2. LookupView(p, n, d)
  BY <1>1, LookupSees
<1>3. StackInv' /\ Recorded /\ UNCHANGED <<entry, isdir>>
  BY <1>1, LookupKeeps DEF LooksUp, LookupEffect
<1>4. \A x \in Upper : IsDir(x)' => d_hashed'[x] \/ (x # d /\ IsDir(x))
  <2>1. \A x \in Upper : x # d => IsDir(x)' = IsDir(x)
    BY <1>2 DEF LookupView
  <2>2. IsDir(d)' => d_hashed'[d]
    <3>1. d \notin i_new' /\ d_inode'[d] # 0 => hashed
      BY <1>1 DEF LooksUp, Gives, LookupEffect
    <3> QED
      BY <1>1, <3>1 DEF IsDir, Positive, LookupEffect
  <2> QED
    BY <2>1, <2>2
<1>5. \A x \in Upper : IsDir(x) => x # d /\ LowerIno(x)' = LowerIno(x)
  BY <1>2 DEF LookupView, IsDir, Positive
<1>6. DirsRest
  <2>1. DirsKeep
    BY <1>5 DEF DirsKeep
  <2>2. \A x \in Upper : IsDir(x) => Rests(x)
    BY <1>1, <1>5 DEF Rests, LookupEffect
  <2> QED
    BY <1>4, <2>1, <2>2 DEF DirsRest
<1> QED
  BY <1>3, <1>6, SameTree, TreeFollows

(* A directory's dentry that is moved is found where it is now.            *)
LEMMA MoveKeepsTree ==
  ASSUME StackInv, TreeInv, NEW p, NEW n, NEW e \in Upper, Moves(p, n, e)
  PROVE  TreeInv'
<1>1. /\ d_hashed'[e]
      /\ \A x \in Upper : x # e => d_at'[x] = d_at[x]
      /\ \A x \in Upper : LowerIno(x)' = LowerIno(x) /\ IsDir(x)' = IsDir(x)
      /\ Recorded
  BY MoveSteps
<1>2. StackInv' /\ UNCHANGED <<entry, isdir>>
  BY MoveKeeps DEF Moves
<1>3. DirsRest
  BY <1>1, <1>2 DEF DirsRest, DirsKeep, Rests
<1> QED
  BY <1>1, <1>2, <1>3, SameTree, TreeFollows

(* wrapfs_iget has the new dentry found.                                   *)
LEMMA IgetKeepsTree ==
  ASSUME StackInv, TreeInv, NEW d \in Upper, wrapfs_iget_new(d)
  PROVE  TreeInv'
<1>1. /\ UNCHANGED <<entry, isdir, l_inode, d_at, d_inode, lower_path, failed>>
      /\ d_hashed' = [d_hashed EXCEPT ![d] = TRUE] /\ i_new' = i_new \ {d}
  BY DEF wrapfs_iget_new, lowerfs, ldentry
<1>2. StackInv' /\ Recorded
  BY <1>1, IgetKeeps DEF Recorded, StackInv, TypeOK
<1>3. \A x \in Upper : LowerIno(x)' = LowerIno(x)
  BY <1>1 DEF LowerIno
<1>4. \A x \in Upper : x # d => IsDir(x)' = IsDir(x)
  BY <1>1, <1>3 DEF IsDir, Positive, InUse
<1>5. d_hashed'[d]
  BY <1>1 DEF StackInv, TypeOK
<1>6. DirsRest
  BY <1>1, <1>3, <1>4, <1>5 DEF DirsRest, DirsKeep, Rests
<1> QED
  BY <1>1, <1>2, <1>6, SameTree, TreeFollows

(* A put of a lower path forgets only a dentry that nothing stands on.     *)
LEMMA PutKeepsTree ==
  ASSUME StackInv, TreeInv, StackInv', UNCHANGED <<entry, isdir, i_new, failed>>,
         \A x \in Upper : lower_path'[x] # 0 =>
           d_at'[x] = d_at[x] /\ d_inode'[x] = d_inode[x] /\ lower_path'[x] = lower_path[x],
         \A l \in Lower : l_inode'[l] \in {l_inode[l], 0}
  PROVE  TreeInv'
<1>1. Recorded
  BY DEF Recorded, StackInv, TypeOK
<1>2. \A x \in Upper : IsDir(x)' => IsDir(x) /\ LowerIno(x)' = LowerIno(x) /\ d_at'[x] = d_at[x]
  <2> SUFFICES ASSUME NEW x \in Upper, IsDir(x)'
               PROVE  IsDir(x) /\ LowerIno(x)' = LowerIno(x) /\ d_at'[x] = d_at[x]
    OBVIOUS
  <2>1. PICK l : l = lower_path'[x]
    OBVIOUS
  <2>2. l # 0 /\ d_inode'[x] # 0 /\ x \notin i_new' /\ l_inode'[l] \in isdir'
    BY <2>1 DEF IsDir, Positive, InUse, LowerIno
  <2>3. l \in Lower /\ lower_path[x] = l /\ d_inode[x] = d_inode'[x] /\ d_at'[x] = d_at[x]
    BY <2>1, <2>2 DEF StackInv, TypeOK
  <2>4. l_inode'[l] = l_inode[l]
    BY <2>2, <2>3, Numbers DEF StackInv, TypeOK
  <2> QED
    BY <2>1, <2>2, <2>3, <2>4 DEF IsDir, Positive, InUse, LowerIno
<1>3. DirsRest
  BY <1>2 DEF DirsRest, DirsKeep, Rests
<1> QED
  BY <1>1, <1>3, SameTree, TreeFollows

(* path_put as the dentries see it.                                        *)
LEMMA PutForgets ==
  ASSUME TypeOK, NEW k \in Lower, path_put(k)
  PROVE  \A l \in Lower : l_inode'[l] \in {l_inode[l], 0}
<1>1. l_inode' = [l_inode EXCEPT ![k] = 0] \/ l_inode' = l_inode
  BY DEF path_put, ldentry
<1> QED
  BY <1>1 DEF TypeOK

(* The release of a file.                                                  *)
LEMMA FileReleaseKeepsTree ==
  ASSUME StackInv, TreeInv, NEW f \in Files, wrapfs_file_release(f)
  PROVE  TreeInv'
<1>1. /\ UNCHANGED <<entry, isdir, i_new, failed>> /\ UNCHANGED <<d_at, d_inode, lower_path>>
      /\ files[f] # 0 /\ path_put(lower_path[files[f]])
  BY DEF wrapfs_file_release, lowerfs, udentry
<1>2. StackInv'
  BY ReleaseKeeps
<1>3. lower_path[files[f]] \in Lower
  BY <1>1, FilesInUse DEF InUse, StackInv, TypeOK
<1>4. \A l \in Lower : l_inode'[l] \in {l_inode[l], 0}
  BY <1>1, <1>3, PutForgets DEF StackInv
<1> QED
  BY <1>1, <1>2, <1>4, PutKeepsTree

(* The release of a dentry.                                                *)
LEMMA DReleaseKeepsTree ==
  ASSUME StackInv, TreeInv, NEW d \in Upper, wrapfs_d_release(d)
  PROVE  TreeInv'
<1>1. /\ UNCHANGED <<entry, isdir, i_new, failed>> /\ path_put(lower_path[d]) /\ InUse(d)
      /\ d_at' = [d_at EXCEPT ![d] = NoPlace] /\ d_inode' = [d_inode EXCEPT ![d] = 0]
      /\ lower_path' = [lower_path EXCEPT ![d] = 0]
  BY DEF wrapfs_d_release, lowerfs, Unused
<1>2. StackInv'
  BY DReleaseKeeps
<1>3. lower_path[d] \in Lower
  BY <1>1 DEF InUse, StackInv, TypeOK
<1>4. \A l \in Lower : l_inode'[l] \in {l_inode[l], 0}
  BY <1>1, <1>3, PutForgets DEF StackInv
<1>5. \A x \in Upper : lower_path'[x] # 0 =>
        d_at'[x] = d_at[x] /\ d_inode'[x] = d_inode[x] /\ lower_path'[x] = lower_path[x]
  BY <1>1 DEF StackInv, TypeOK
<1> QED
  BY <1>1, <1>2, <1>4, <1>5, PutKeepsTree

(* A removal.                                                              *)
LEMMA RemovalKeepsTree ==
  ASSUME StackInv, TreeInv, NEW d \in Upper, RemovesName(d), IsDir(d) => IsEmpty(LowerIno(d))
  PROVE  TreeInv'
<1>1. PICK l \in Lower, i \in Inodes, n \in Names : RemoveEffect(d, l, i, n)
  BY RemoveSteps
<1>2. \A k \in Inodes, m \in Names : entry'[k][m] # 0 => entry'[k][m] = entry[k][m]
  BY <1>1 DEF RemoveEffect
<1>3. UNCHANGED <<d_at, d_inode, lower_path, l_inode, i_new, isdir>> /\ Recorded
  BY <1>1 DEF RemovesName, RemoveEffect
<1>4. DirsRest
  BY <1>2, <1>3, SameRests DEF StackInv
<1>5. StackInv'
  BY RemoveKeeps
<1>6. "record" \notin failed' => Filed' /\ NoCycle'
  BY <1>3, RemoveKeepsTree DEF Recorded
<1> QED
  BY <1>3, <1>4, <1>5, <1>6, TreeFollows

(* A new name: no dentry but the new one shows it.                         *)
LEMMA AdditionKeepsTree ==
  ASSUME StackInv, TreeInv, NEW d, NEW l, NEW i, NEW n, NEW j, NEW u,
         AddEffect(d, l, i, n, j, u), AddedInode(j, u), Negative(d), Named(i)
  PROVE  TreeInv'
<1>1. AddView(d, j, u) /\ StackInv'
  BY AddSees, AddKeeps
<1>2. /\ d_at' = d_at /\ i \in Inodes /\ n \in Names /\ entry'[i][n] = j /\ entry[i][n] = 0
      /\ \A k \in Inodes, m \in Names : k # i \/ m # n => entry'[k][m] = entry[k][m]
      /\ d \in Upper /\ (u # 0 => d_hashed'[d]) /\ Recorded
      /\ d_inode'[d] = u /\ l = lower_path[d] /\ d_inode[d] = 0
  BY DEF AddEffect
<1>3. \A x \in Upper : IsDir(x)' /\ x # d => IsDir(x) /\ LowerIno(x) # j
  <2> SUFFICES ASSUME NEW x \in Upper, IsDir(x)', x # d
               PROVE  IsDir(x) /\ LowerIno(x) # j
    OBVIOUS
  <2>1. Positive(x) /\ d_inode[x] # 0 /\ LowerIno(x)' = LowerIno(x)
    BY <1>1 DEF AddView, IsDir, Positive
  <2>2. PICK m : m = lower_path[x] /\ m \in Lower /\ Used(m) /\ l_inode[m] = LowerIno(x)
    BY <2>1, InPlace DEF LowerIno
  <2>3. LowerIno(x)' \in isdir'
    BY DEF IsDir
  <2>4. LowerIno(x) # j
    <3> SUFFICES ASSUME LowerIno(x) = j
                 PROVE  FALSE
      OBVIOUS
    <3>1. Unmet(j)
      BY <2>1, <2>3 DEF AddedInode
    <3> QED
      BY <2>2, <3>1 DEF Unmet
  <2>5. LowerIno(x) \in isdir
    BY <2>1, <2>3, <2>4 DEF AddedInode
  <2> QED
    BY <2>1, <2>4, <2>5 DEF IsDir
<1>4. DirsRest
  <2>1. DirsKeep
    <3>1. \A y \in Upper : IsDir(y) => LowerIno(y)' = LowerIno(y)
      BY <1>1 DEF AddView, IsDir, Positive
    <3> QED
      BY <3>1 DEF DirsKeep
  <2>2. IsDir(d)' => d_hashed'[d]
    BY <1>2 DEF IsDir, Positive
  <2>3. \A x \in Upper : IsDir(x) /\ LowerIno(x) # j => Rests(x)
    <3> SUFFICES ASSUME NEW x \in Upper, IsDir(x), LowerIno(x) # j,
                        NEW a \in Inodes, NEW b \in Names, entry'[a][b] = LowerIno(x)
                 PROVE  entry[a][b] = LowerIno(x)
      BY <1>2 DEF Rests
    <3> QED
      BY <1>2
  <2> QED
    BY <1>3, <2>1, <2>2, <2>3 DEF DirsRest
<1>5. "record" \notin failed' => Filed' /\ NoCycle'
  BY <1>2, AddKeepsTree DEF Recorded
<1> QED
  BY <1>1, <1>2, <1>4, <1>5, TreeFollows

(* A rename: the directory that moves is found where it is now, and one it *)
(* replaces has no name.                                                   *)
LEMMA MovingKeepsTree ==
  ASSUME StackInv, TreeInv, NEW d \in Upper, NEW e \in Upper, Renames(d, e)
  PROVE  TreeInv'
<1>1. PICK o, t, i, n, k, m : RenameEffect(d, e, o, t, i, n, k, m)
  BY RenameSteps
<1>2. /\ d # 1 /\ e # 1 /\ d # e /\ InUse(d) /\ InUse(e) /\ Present(d) /\ Present(e)
      /\ e \notin i_new /\ d \notin i_new
  BY RenameArgsTake
<1>3. /\ UNCHANGED <<isdir, l_inode, d_inode, lower_path, i_new>> /\ Recorded
      /\ IsFound(d) /\ (Negative(e) \/ IsFound(e)) /\ d_inode[d] # d_inode[e]
  BY <1>1 DEF Renames, RenameEffect
<1>4. StackInv'
  BY RenameKeeps
<1>5. SUFFICES ASSUME "record" \notin failed'
               PROVE  DirsRest /\ Filed' /\ NoCycle'
  BY <1>3, <1>4, TreeFollows
<1>6. "record" \notin failed
  BY <1>3, <1>5 DEF Recorded
<1>7. o # t
  <2> SUFFICES ASSUME o = t
               PROVE  FALSE
    OBVIOUS
  <2>1. l_at[lower_path[d]] = l_at[lower_path[e]]
    BY <1>1 DEF RenameEffect
  <2> QED
    BY <1>2, <1>6, <2>1, OnePlace
<1>8. Filed' /\ NoCycle'
  BY <1>1, <1>4, <1>5, <1>6, <1>7, RenameKeepsTree
<1>9. \A x \in Upper : LowerIno(x)' = LowerIno(x) /\ IsDir(x)' = IsDir(x)
  BY <1>3, SameView, SameDirs
<1>10. d_hashed'[d] /\ \A x \in Upper : x # d /\ x # e => d_at'[x] = d_at[x]
  <2>1. d_move(d, e)
    BY <1>5 DEF Renames
  <2> QED
    BY <1>2, <1>3, <2>1 DEF d_move, IsFound, StackInv, TypeOK
<1>11. PICK D : D = LowerIno(d)
  OBVIOUS
<1>12. \A x \in Upper : x # d /\ IsDir(x) => LowerIno(x) # D
  <2>1. d_inode[d] # 0
    BY <1>3 DEF IsFound, Positive
  <2> QED
    BY <1>6, <1>11, <2>1 DEF IsDir, Positive, StackInv, OneName
<1>13. \A x \in Upper : x # d /\ x # e /\ IsDir(x) => Rests(x)
  <2> SUFFICES ASSUME NEW x \in Upper, x # d, x # e, IsDir(x),
                      NEW a \in Inodes, NEW b \in Names, entry'[a][b] = LowerIno(x)
               PROVE  entry[a][b] = LowerIno(x)
    BY <1>10 DEF Rests
  <2>1. LowerIno(x) # D /\ LowerIno(x) # 0 /\ l_inode[o] = D
    BY <1>1, <1>11, <1>12, Numbers DEF RenameEffect, LowerIno, IsDir, StackInv, TypeOK
  <2> QED
    BY <1>1, <1>7, <2>1 DEF RenameEffect
<1>14. IsDir(e)' => ~Named(LowerIno(e))'
  <2> SUFFICES ASSUME IsDir(e), Named(LowerIno(e))'
               PROVE  FALSE
    BY <1>9
  <2>1. PICK E : E = LowerIno(e) /\ E = l_inode[t] /\ E \in isdir /\ entry[k][m] = E
    BY <1>1 DEF RenameEffect, LowerIno, IsDir
  <2>2. E # D /\ E # 0 /\ l_inode[o] = D
    BY <1>1, <1>2, <1>11, <1>12, <2>1, Numbers DEF RenameEffect, LowerIno, StackInv, TypeOK
  <2>3. E # Root
    <3>1. d_inode[1] # 0 /\ LowerIno(1) = Root /\ d_inode[e] # 0
      BY Numbers, InPlace DEF StackInv, RootStands, LowerIno
    <3> QED
      BY <1>2, <1>6, <2>1, <3>1, Numbers DEF StackInv, OneName
  <2>4. PICK a \in Inodes, b \in Names : entry'[a][b] = E
    BY <1>9, <2>1, <2>3 DEF Named
  <2>5. (a # k \/ b # m) /\ entry[a][b] = E
    BY <1>1, <1>7, <2>2, <2>4 DEF RenameEffect
  <2>6. k \in Inodes /\ m \in Names
    BY <1>1 DEF RenameEffect
  <2> QED
    BY <1>6, <2>1, <2>5, <2>6 DEF StackInv, OneName
<1>15. DirsRest
  BY <1>9, <1>10, <1>13, <1>14 DEF DirsRest, DirsKeep
<1> QED
  BY <1>8, <1>15

(* A step that changes nothing.                                            *)
LEMMA StutterKeepsTree ==
  ASSUME StackInv, TreeInv, UNCHANGED vars
  PROVE  TreeInv'
<1>1. StackInv'
  BY Stutters
<1>2. Recorded /\ UNCHANGED <<entry, isdir, d_at, d_inode, lower_path, l_inode, i_new>>
  BY DEF vars, stack, lowerfs, ldentry, udentry, Recorded, StackInv, TypeOK
<1> QED
  BY <1>1, <1>2, QuietKeepsTree

(* The operations, each by the change it makes, as for StackInv.           *)
LEMMA LookupActionKeepsTree ==
  ASSUME StackInv, TreeInv, NEW p \in Upper, NEW n \in Names, wrapfs_lookup(p, n)
  PROVE  TreeInv'
<1>1. CASE LookupFails(p, n)
  <2>1. CASE UNCHANGED vars
    BY <2>1, StutterKeepsTree
  <2>2. CASE /\ Lasts("inode")
             /\ UNCHANGED <<lowerfs, ldentry, counts, udentry, lower_inode, files>>
    <3>1. Recorded
      BY <2>2, LastsRecorded DEF Lasting
    <3>2. UNCHANGED <<entry, isdir, d_at, d_inode, lower_path, l_inode, i_new>>
      BY <2>2 DEF lowerfs, ldentry, udentry
    <3>3. StackInv'
      BY LookupActionKeeps
    <3> QED
      BY <3>1, <3>2, <3>3, QuietKeepsTree
  <2> QED
    BY <1>1, <2>1, <2>2 DEF LookupFails, Errs, Refused
<1> QED
  BY <1>1, LookupKinds, LookupKeepsTree, MoveKeepsTree

(* A new name.                                                             *)
LEMMA NewNameKeepsTree ==
  ASSUME StackInv, TreeInv, NEW d \in Upper, NEW j, NEW u, Adds(d, j, u), AddedInode(j, u)
  PROVE  TreeInv'
<1>1. PICK l, i, n : AddEffect(d, l, i, n, j, u)
  BY AddSteps
<1>2. Negative(d) /\ Named(i)
  <2>1. l_at[lower_path[d]] = <<i, n>>
    BY <1>1 DEF AddEffect
  <2>2. Negative(d) /\ Named(l_at[lower_path[d]][1])
    BY DEF Adds, MayCreate
  <2> QED
    BY <2>1, <2>2
<1> QED
  BY <1>1, <1>2, AdditionKeepsTree

(* The creations.                                                          *)
LEMMA MakesKeepsTree ==
  ASSUME StackInv, TreeInv, NEW d \in Upper, NEW dir, Makes(d, dir)
  PROVE  TreeInv'
BY MakesKinds, MakeNameAdds, NewNameKeepsTree, StutterKeepsTree

(* link.                                                                   *)
LEMMA LinkKeepsTree ==
  ASSUME StackInv, TreeInv, NEW d \in Upper, NEW e \in Upper, wrapfs_link(d, e)
  PROVE  TreeInv'
BY LinkKinds, LinkNameAdds, NewNameKeepsTree, StutterKeepsTree

(* unlink and rmdir.                                                       *)
LEMMA RemovesKeepsTree ==
  ASSUME StackInv, TreeInv, NEW d \in Upper, wrapfs_unlink(d) \/ wrapfs_rmdir(d)
  PROVE  TreeInv'
<1>1. CASE wrapfs_unlink(d)
  <2>1. Found(d) /\ ~IsDir(d) /\ Removes(d, MayUnlink(d)) /\ (MayUnlink(d) => Backed(lower_path[d]))
    BY <1>1 DEF wrapfs_unlink, MayUnlink
  <2>2. UNCHANGED vars \/ RemovesName(d)
    BY <2>1, RemovesKinds
  <2> QED
    BY <2>1, <2>2, StutterKeepsTree, RemovalKeepsTree
<1>2. CASE wrapfs_rmdir(d)
  <2>1. Found(d) /\ Removes(d, MayRmdir(d)) /\ (MayRmdir(d) => Backed(lower_path[d]))
    BY <1>2 DEF wrapfs_rmdir, MayRmdir
  <2>2. UNCHANGED vars \/ (MayRmdir(d) /\ RemovesName(d))
    BY <2>1, RemovesKinds
  <2>3. MayRmdir(d) => IsEmpty(LowerIno(d))
    BY DEF MayRmdir
  <2> QED
    BY <2>2, <2>3, StutterKeepsTree, RemovalKeepsTree
<1> QED
  BY <1>1, <1>2

(* rename.                                                                 *)
LEMMA RenameActionKeepsTree ==
  ASSUME StackInv, TreeInv, NEW d \in Upper, NEW e \in Upper, wrapfs_rename(d, e)
  PROVE  TreeInv'
BY RenameKinds, MovingKeepsTree, StutterKeepsTree

(* open.                                                                   *)
LEMMA OpenKeepsTree ==
  ASSUME StackInv, TreeInv, NEW d \in Upper, wrapfs_open(d)
  PROVE  TreeInv'
<1>1. UNCHANGED vars \/ Opens(d)
  BY OpensKinds DEF wrapfs_open, Errs, Refused
<1>2. CASE Opens(d)
  <2>1. /\ Recorded /\ UNCHANGED <<entry, isdir, l_inode>>
        /\ UNCHANGED <<d_at, d_inode, lower_path, i_new>>
    BY <1>2 DEF Opens
  <2> QED
    BY <1>2, <2>1, OpenKeeps, QuietKeepsTree
<1> QED
  BY <1>1, <1>2, StutterKeepsTree

(* A dentry that no longer revalidates stays where it is.                  *)
LEMMA RevalidateKeepsTree ==
  ASSUME StackInv, TreeInv, NEW d \in Upper, wrapfs_d_revalidate(d)
  PROVE  TreeInv'
<1>1. UNCHANGED <<entry, isdir, d_at, d_inode, lower_path, l_inode, i_new>> /\ Lasts("stale")
  BY DEF wrapfs_d_revalidate, d_drop, lowerfs, ldentry
<1>2. Recorded
  BY <1>1, LastsRecorded DEF Lasting
<1> QED
  BY <1>1, <1>2, RevalidateKeeps, QuietKeepsTree

(* Every step of wrapfs keeps the tree.                                    *)
LEMMA NextKeepsTree == StackInv /\ TreeInv /\ [Next]_vars => TreeInv'
<1> SUFFICES ASSUME StackInv, TreeInv, [Next]_vars
             PROVE  TreeInv'
  OBVIOUS
<1>1. CASE UNCHANGED vars
  BY <1>1, StutterKeepsTree
<1>2. ASSUME NEW p \in Upper, NEW n \in Names, wrapfs_lookup(p, n)
      PROVE  TreeInv'
  BY <1>2, LookupActionKeepsTree
<1>3. ASSUME NEW d \in Upper,
             \/ wrapfs_iget_new(d) \/ wrapfs_create(d) \/ wrapfs_symlink(d) \/ wrapfs_mknod(d)
             \/ wrapfs_mkdir(d)
      PROVE  TreeInv'
  BY <1>3, IgetKeepsTree, MakesKeepsTree
  DEF wrapfs_create, wrapfs_symlink, wrapfs_mknod, wrapfs_mkdir
<1>4. ASSUME NEW d \in Upper,
             \/ wrapfs_d_release(d) \/ wrapfs_d_revalidate(d) \/ wrapfs_open(d)
             \/ wrapfs_unlink(d) \/ wrapfs_rmdir(d)
      PROVE  TreeInv'
  BY <1>4, DReleaseKeepsTree, RevalidateKeepsTree, OpenKeepsTree, RemovesKeepsTree
<1>5. ASSUME NEW f \in Files, wrapfs_file_release(f)
      PROVE  TreeInv'
  BY <1>5, FileReleaseKeepsTree
<1>6. ASSUME NEW d \in Upper, NEW e \in Upper, wrapfs_link(d, e) \/ wrapfs_rename(d, e)
      PROVE  TreeInv'
  BY <1>6, LinkKeepsTree, RenameActionKeepsTree
<1> QED
  BY <1>1, <1>2, <1>3, <1>4, <1>5, <1>6 DEF Next, Untraced

(* The mounted file system is empty.                                       *)
LEMMA TreeInit == Init => TreeInv
<1> SUFFICES ASSUME Init
             PROVE  Filed /\ NoCycle /\ DirsPlaced
  BY DEF TreeInv
<1>1. \A i \in Inodes, n \in Names : entry[i][n] = 0
  BY DEF Init
<1>2. Filed
  BY <1>1 DEF Filed
<1>3. NoCycle
  BY <1>1, Numbers DEF NoCycle, Cycle
<1>4. \A d \in Upper \ {1} : ~IsDir(d)
  BY DEF Init, IsDir, Positive, InUse
<1> QED
  BY <1>2, <1>3, <1>4 DEF DirsPlaced

-----------------------------------------------------------------------------
(* AtPath walks down: it is defined by recursion on the length of the way, *)
(* and its first n steps determine it.                                     *)
AtRoot      == [d \in Upper |-> Root]
PathStep(p) ==
  [d \in Upper |-> IF d = 1 THEN Root
                   ELSE IF InUse(d) THEN Entry(p[Place(d)[1]], Place(d)[2]) ELSE 0]

Walks(g, n) == g[0] = AtRoot /\ \A k \in Nat : k < n => g[k + 1] = PathStep(g[k])

(* There are walks of any length.                                          *)
LEMMA WalksExist == \A n \in Nat : \E g : Walks(g, n)
<1> SUFFICES ASSUME ~ \A n \in Nat : \E g : Walks(g, n)
             PROVE  FALSE
  OBVIOUS
<1>1. PICK B : B = {n \in Nat : ~ \E g : Walks(g, n)}
  OBVIOUS
<1>2. PICK n \in B : \A m \in B : n <= m
  BY <1>1, HasLeast
<1>3. n \in Nat /\ ~ \E g : Walks(g, n)
  BY <1>1
<1>4. n # 0
  <2> SUFFICES ASSUME n = 0
               PROVE  FALSE
    OBVIOUS
  <2>1. PICK g : g = [k \in Nat |-> AtRoot]
    OBVIOUS
  <2>2. Walks(g, 0)
    BY <2>1 DEF Walks
  <2> QED
    BY <1>3, <2>2
<1>5. PICK m \in Nat : n = m + 1
  BY <1>3, <1>4
<1>6. PICK g : Walks(g, m)
  <2>1. m \notin B
    BY <1>2, <1>5
  <2> QED
    BY <1>1, <2>1
<1>7. PICK h : h = [k \in Nat |-> IF k <= m THEN g[k] ELSE PathStep(g[m])]
  OBVIOUS
<1>8. Walks(h, n)
  <2>1. h[0] = AtRoot
    BY <1>5, <1>6, <1>7 DEF Walks
  <2>2. ASSUME NEW k \in Nat, k < n
        PROVE  h[k + 1] = PathStep(h[k])
    <3>1. k <= m /\ h[k] = g[k]
      BY <1>5, <1>7, <2>2
    <3>2. CASE k = m
      <4>1. ~(k + 1 <= m) /\ k + 1 \in Nat
        BY <3>2
      <4>2. h[k + 1] = PathStep(g[m])
        BY <1>7, <4>1
      <4> QED
        BY <3>1, <3>2, <4>2
    <3>3. CASE k # m
      <4>1. k < m /\ k + 1 <= m /\ k + 1 \in Nat
        BY <3>1, <3>3
      <4>2. h[k + 1] = g[k + 1]
        BY <1>7, <4>1
      <4> QED
        BY <1>6, <3>1, <4>1, <4>2 DEF Walks
    <3> QED
      BY <3>2, <3>3
  <2> QED
    BY <2>1, <2>2 DEF Walks
<1> QED
  BY <1>3, <1>8

(* Two walks agree as far as both go.                                      *)
LEMMA WalksAgree ==
  ASSUME NEW g, NEW h, NEW n \in Nat, Walks(g, n), Walks(h, n)
  PROVE  \A k \in Nat : k <= n => g[k] = h[k]
<1> SUFFICES ASSUME ~ \A k \in Nat : k <= n => g[k] = h[k]
             PROVE  FALSE
  OBVIOUS
<1>1. PICK B : B = {k \in Nat : k <= n /\ g[k] # h[k]}
  OBVIOUS
<1>2. PICK k \in B : \A m \in B : k <= m
  BY <1>1, HasLeast
<1>3. k \in Nat /\ k <= n /\ g[k] # h[k]
  BY <1>1
<1>4. k # 0
  BY <1>3 DEF Walks
<1>5. PICK m \in Nat : k = m + 1
  BY <1>3, <1>4
<1>6. m < n /\ g[m] = h[m]
  BY <1>1, <1>2, <1>3, <1>5
<1> QED
  BY <1>3, <1>5, <1>6 DEF Walks

(* A walk goes the first steps of a longer one.                            *)
LEMMA WalksShorter ==
  ASSUME NEW g, NEW n \in Nat, NEW m \in Nat, m <= n, Walks(g, n)
  PROVE  Walks(g, m)
BY DEF Walks

(* So AtPath takes one step after the other.                               *)
LEMMA AtPathSteps == \A n \in Nat : Walks(AtPath, n)
<1>1. PICK w : w = [n \in Nat |-> CHOOSE g : Walks(g, n)]
  OBVIOUS
<1>2. \A n \in Nat : Walks(w[n], n)
  BY <1>1, WalksExist, Zenon
<1>3. PICK f : f = [k \in Nat |-> w[k][k]]
  OBVIOUS
<1>4. f[0] = AtRoot
  <2>1. w[0][0] = AtRoot
    BY <1>2 DEF Walks
  <2> QED
    BY <1>3, <2>1
<1>5. ASSUME NEW k \in Nat
      PROVE  f[k + 1] = PathStep(f[k])
  <2>1. PICK m \in Nat : m = k + 1
    OBVIOUS
  <2>2. Walks(w[m], m) /\ Walks(w[k], k)
    BY <1>2
  <2>3. Walks(w[m], k)
    BY <2>1, <2>2, WalksShorter
  <2>4. w[m][k] = w[k][k]
    BY <2>2, <2>3, WalksAgree
  <2>5. w[m][m] = PathStep(w[m][k])
    BY <2>1, <2>2 DEF Walks
  <2> QED
    BY <1>3, <2>1, <2>4, <2>5
<1>6. ASSUME NEW k \in Nat
      PROVE  f[k] = [d \in Upper |-> IF d = 1 \/ k = 0 THEN Root
                                     ELSE IF InUse(d)
                                     THEN Entry(f[k - 1][Place(d)[1]], Place(d)[2]) ELSE 0]
  <2>1. CASE k = 0
    BY <1>4, <2>1 DEF AtRoot
  <2>2. CASE k # 0
    <3>1. PICK m \in Nat : k = m + 1 /\ m = k - 1
      BY <2>2
    <3>2. f[k] = PathStep(f[m])
      BY <1>5, <3>1
    <3> QED
      BY <2>2, <3>1, <3>2 DEF PathStep
  <2> QED
    BY <2>1, <2>2
<1>7. f = [k \in Nat |-> [d \in Upper |-> IF d = 1 \/ k = 0 THEN Root
                                          ELSE IF InUse(d)
                                          THEN Entry(f[k - 1][Place(d)[1]], Place(d)[2]) ELSE 0]]
  <2>1. f = [k \in Nat |-> f[k]]
    BY <1>3
  <2> QED
    BY <1>6, <2>1
<1>8. AtPath = [k \in Nat |-> [d \in Upper |-> IF d = 1 \/ k = 0 THEN Root
                                          ELSE IF InUse(d)
                                          THEN Entry(AtPath[k - 1][Place(d)[1]], Place(d)[2]) ELSE 0]]
  BY <1>7, Zenon DEF AtPath
<1>9. AtPath[0] = AtRoot
  BY <1>8 DEF AtRoot
<1>10. ASSUME NEW k \in Nat
       PROVE  AtPath[k + 1] = PathStep(AtPath[k])
  <2>1. PICK m \in Nat : m = k + 1 /\ k = m - 1 /\ m # 0
    OBVIOUS
  <2>2. AtPath[m] = [d \in Upper |-> IF d = 1 \/ m = 0 THEN Root
                                    ELSE IF InUse(d)
                                    THEN Entry(AtPath[m - 1][Place(d)[1]], Place(d)[2]) ELSE 0]
    BY <1>8
  <2> QED
    BY <2>1, <2>2 DEF PathStep
<1> QED
  BY <1>9, <1>10 DEF Walks

(* The directories with a name, and those of them to which AtPath leads    *)
(* within k steps or which a rename overtakes.                             *)
NamedDirs  == {d \in Upper : IsDir(d) /\ Named(LowerIno(d))}
Reached(k) ==
  {d \in NamedDirs : d \in Overtaken \/ \A j \in Nat : j >= k => AtPath[j][d] = LowerIno(d)}

(* The root is reached at once.                                            *)
LEMMA RootReached ==
  ASSUME StackInv
  PROVE  1 \in NamedDirs /\ 1 \in Reached(0)
<1>1. LowerIno(1) = Root /\ IsDir(1) /\ 1 \in Upper
  BY Numbers, InPlace DEF StackInv, RootStands, LowerIno, IsDir
<1>2. 1 \in NamedDirs
  BY <1>1 DEF NamedDirs, Named
<1>3. ASSUME NEW j \in Nat
      PROVE  AtPath[j][1] = Root
  <2>1. CASE j = 0
    BY <1>1, <2>1, AtPathSteps DEF Walks, AtRoot
  <2>2. CASE j # 0
    <3>1. PICK i \in Nat : j = i + 1
      BY <2>2
    <3>2. AtPath[j] = PathStep(AtPath[i])
      BY <3>1, AtPathSteps DEF Walks
    <3> QED
      BY <1>1, <3>2 DEF PathStep
  <2> QED
    BY <2>1, <2>2
<1> QED
  BY <1>1, <1>2, <1>3 DEF Reached

(* What no rename overtakes is where it was put, and so is what it is in.  *)
LEMMA NotOvertaken ==
  ASSUME NEW d \in Upper \ Overtaken
  PROVE  Place(d) = d_at[d] /\ d_at[d][1] \notin Overtaken
<1>1. PICK S \in SUBSET Upper : Renaming \cup Children(S) \subseteq S /\ d \notin S
  BY DEF Overtaken
<1>2. d \notin Renaming
  BY <1>1
<1>3. {x \in Upper : <<d, x>> \in moving \/ <<x, d>> \in moving} = {}
  <2> SUFFICES ASSUME NEW x \in Upper, <<d, x>> \in moving \/ <<x, d>> \in moving
               PROVE  FALSE
    OBVIOUS
  <2>1. <<d, x>>[1] = d /\ <<x, d>>[2] = d
    OBVIOUS
  <2> QED
    BY <1>2, <2>1 DEF Renaming
<1>4. Place(d) = d_at[d]
  BY <1>3, Zenon DEF Place
<1>5. d_at[d][1] \notin Overtaken
  <2>1. d_at[d][1] \notin S
    BY <1>1 DEF Children
  <2> QED
    BY <1>1, <2>1 DEF Overtaken
<1> QED
  BY <1>4, <1>5

(* Where the parent is reached, the next step reaches what is in its place.*)
LEMMA StepReaches ==
  ASSUME NEW d \in Upper \ {1}, NEW k \in Nat, d_at[d][1] \in Reached(k),
         InUse(d), d \notin Overtaken,
         LowerIno(d_at[d][1]) # 0, d_at[d][2] \in Names,
         entry[LowerIno(d_at[d][1])][d_at[d][2]] = LowerIno(d)
  PROVE  \A j \in Nat : j >= k + 1 => AtPath[j][d] = LowerIno(d)
<1> SUFFICES ASSUME NEW j \in Nat, j >= k + 1
             PROVE  AtPath[j][d] = LowerIno(d)
  OBVIOUS
<1>1. PICK i \in Nat : j = i + 1 /\ i >= k
  <2>1. j - 1 \in Nat /\ j = (j - 1) + 1 /\ j - 1 >= k
    OBVIOUS
  <2> QED
    BY <2>1
<1>2. AtPath[j] = PathStep(AtPath[i])
  BY <1>1, AtPathSteps DEF Walks
<1>3. Place(d) = d_at[d] /\ d_at[d][1] \notin Overtaken
  BY NotOvertaken
<1>4. AtPath[i][d_at[d][1]] = LowerIno(d_at[d][1])
  BY <1>1, <1>3 DEF Reached
<1>5. AtPath[j][d] = Entry(AtPath[i][d_at[d][1]], d_at[d][2])
  BY <1>2, <1>3 DEF PathStep
<1> QED
  BY <1>4, <1>5 DEF Entry

(* A directory with a name is in one.                                      *)
LEMMA NamedParent ==
  ASSUME StackInv, TreeInv, "record" \notin failed, NEW d \in NamedDirs \ {1}
  PROVE  /\ d_at[d][1] \in NamedDirs
         /\ entry[LowerIno(d_at[d][1])][d_at[d][2]] = LowerIno(d)
         /\ d_at[d][2] \in Names
<1>1. d \in Upper \ {1} /\ IsDir(d) /\ Named(LowerIno(d))
  BY DEF NamedDirs
<1>2. d_at[d][2] \in Names /\ entry[LowerIno(d_at[d][1])][d_at[d][2]] = LowerIno(d)
  BY <1>1 DEF TreeInv, DirsPlaced
<1>3. PICK p : p = d_at[d][1] /\ p \in Upper /\ IsDir(p) /\ LowerIno(p) \in Inodes
  BY <1>1, InPlace
<1>4. LowerIno(d) # 0
  BY <1>1, InPlace, Numbers
<1>5. Named(LowerIno(p))
  BY <1>2, <1>3, <1>4 DEF TreeInv, Filed
<1> QED
  BY <1>2, <1>3, <1>5 DEF NamedDirs

(* Each further step reaches another directory, until all are reached: the *)
(* parents of those that never were would be among them.                   *)
LEMMA ReachesMore ==
  ASSUME StackInv, TreeInv, "record" \notin failed, NEW k \in Nat,
         ~(NamedDirs \subseteq Reached(k))
  PROVE  \E d \in Reached(k + 1) : d \notin Reached(k)
<1> SUFFICES ASSUME \A d \in Reached(k + 1) : d \in Reached(k)
             PROVE  FALSE
  OBVIOUS
<1>1. PICK B : B = NamedDirs \ Reached(k)
  OBVIOUS
<1>2. PICK S : S = {LowerIno(d) : d \in B}
  OBVIOUS
<1>3. B # {} /\ S # {}
  BY <1>1, <1>2
<1>4. \A d \in B : d \in Upper /\ IsDir(d) /\ LowerIno(d) \in isdir /\ LowerIno(d) \in Inodes
  BY <1>1, InPlace DEF NamedDirs, IsDir
<1>5. 1 \notin B
  <2>1. 1 \in Reached(k)
    BY RootReached DEF Reached
  <2> QED
    BY <1>1, <2>1
<1>6. ASSUME NEW d \in B
      PROVE  \E p \in B, n \in Names : entry[LowerIno(p)][n] = LowerIno(d)
  <2>1. d \in NamedDirs \ {1} /\ d \in Upper \ {1} /\ d \notin Reached(k)
    BY <1>1, <1>4, <1>5
  <2>2. PICK p : p = d_at[d][1]
    OBVIOUS
  <2>3. /\ p \in NamedDirs /\ d_at[d][2] \in Names
        /\ entry[LowerIno(p)][d_at[d][2]] = LowerIno(d)
    BY <2>1, <2>2, NamedParent
  <2>4. p \notin Reached(k)
    <3> SUFFICES ASSUME p \in Reached(k)
                 PROVE  FALSE
      OBVIOUS
    <3>0. /\ d \notin Overtaken /\ InUse(d)
          /\ LowerIno(p) # 0
      BY <2>1, <2>3, InPlace, Numbers DEF Reached, NamedDirs, IsDir, Positive
    <3>1. \A j \in Nat : j >= k + 1 => AtPath[j][d] = LowerIno(d)
      BY <2>1, <2>2, <2>3, <3>0, StepReaches
    <3>2. d \in Reached(k + 1)
      BY <2>1, <3>1 DEF Reached
    <3> QED
      BY <2>1, <3>2
  <2> QED
    BY <1>1, <2>3, <2>4
<1>7. \A j \in S : j \in isdir /\ \E i \in S, n \in Names : entry[i][n] = j
  <2> SUFFICES ASSUME NEW d \in B
               PROVE  LowerIno(d) \in isdir /\ \E i \in S, n \in Names : entry[i][n] = LowerIno(d)
    BY <1>2
  <2>1. PICK p \in B, n \in Names : entry[LowerIno(p)][n] = LowerIno(d)
    BY <1>6
  <2>2. LowerIno(p) \in S
    BY <1>2
  <2> QED
    BY <1>4, <2>1, <2>2
<1>8. S \in SUBSET Inodes
  BY <1>2, <1>4
<1> QED
  BY <1>3, <1>7, <1>8 DEF TreeInv, NoCycle, Cycle

(* So they are all reached within as many steps as there are dentries.     *)
LEMMA AllReached ==
  ASSUME StackInv, TreeInv, "record" \notin failed
  PROVE  NamedDirs \subseteq Reached(MaxUpper - 1)
<1>1. \A k : IsFiniteSet(Reached(k)) /\ Cardinality(Reached(k)) \in Nat /\ Reached(k) \subseteq Upper
  <2>1. \A k : Reached(k) \subseteq Upper
    BY DEF Reached, NamedDirs
  <2> QED
    BY <2>1, Finite, StackAssumption DEF Upper
<1>2. \A k \in Nat : Reached(k) \subseteq Reached(k + 1)
  BY DEF Reached
<1>3. \A k \in Nat : NamedDirs \subseteq Reached(k) \/ Cardinality(Reached(k)) >= k + 1
  <2> SUFFICES ASSUME NEW B, B = {k \in Nat : ~(\/ NamedDirs \subseteq Reached(k)
                                                \/ Cardinality(Reached(k)) >= k + 1)},
                      B # {}
               PROVE  FALSE
    OBVIOUS
  <2>1. PICK k \in B : \A m \in B : k <= m
    BY HasLeast
  <2>2. k \in Nat /\ ~(NamedDirs \subseteq Reached(k)) /\ ~(Cardinality(Reached(k)) >= k + 1)
    OBVIOUS
  <2>3. k # 0
    <3>1. 1 \in Reached(0)
      BY RootReached
    <3>2. Cardinality(Reached(0)) # 0
      BY <1>1, <3>1, FS_EmptySet
    <3> QED
      BY <1>1, <2>2, <3>2
  <2>4. PICK m \in Nat : k = m + 1
    BY <2>2, <2>3
  <2>5. m \notin B
    BY <2>1, <2>4
  <2>6. ~(NamedDirs \subseteq Reached(m))
    BY <1>2, <2>2, <2>4
  <2>7. Cardinality(Reached(m)) >= m + 1
    BY <2>5, <2>6
  <2>8. PICK d \in Reached(k) : d \notin Reached(m)
    BY <2>4, <2>6, ReachesMore
  <2>9. Reached(m) \cup {d} \in SUBSET Reached(k)
    BY <1>2, <2>4, <2>8
  <2>10. Cardinality(Reached(m) \cup {d}) = Cardinality(Reached(m)) + 1
    BY <1>1, <2>8, FS_AddElement
  <2>11. Cardinality(Reached(m) \cup {d}) <= Cardinality(Reached(k))
    BY <1>1, <2>9, FS_Subset
  <2> QED
    BY <1>1, <2>2, <2>4, <2>7, <2>10, <2>11
<1>4. MaxUpper \in Nat /\ MaxUpper - 1 \in Nat /\ Upper = 1 .. MaxUpper
  BY StackAssumption DEF Upper
<1>5. IsFiniteSet(Upper) /\ Cardinality(Upper) = MaxUpper
  BY <1>4, FS_Interval
<1>6. CASE Cardinality(Reached(MaxUpper - 1)) >= MaxUpper
  <2>1. Cardinality(Reached(MaxUpper - 1)) <= Cardinality(Upper)
    BY <1>1, <1>5, FS_Subset
  <2>2. Cardinality(Upper) = Cardinality(Reached(MaxUpper - 1))
    BY <1>1, <1>4, <1>5, <1>6, <2>1
  <2>3. Upper = Reached(MaxUpper - 1)
    BY <1>1, <1>5, <2>2, FS_Subset
  <2> QED
    BY <2>3 DEF NamedDirs
<1> QED
  BY <1>3, <1>4, <1>6

(* So the path of any dentry that is found leads to its lower inode.       *)
LEMMA PathsLead == StackInv /\ TreeInv => PathsResolve
<1> SUFFICES ASSUME StackInv, TreeInv, "record" \notin failed, NEW d \in Upper, IsFound(d),
                    d \notin Overtaken
             PROVE  AtPath[MaxUpper][d] = LowerIno(d)
  BY DEF PathsResolve
<1>1. d \in Upper \ {1} /\ d_hashed[d] /\ d_inode[d] # 0 /\ InUse(d)
  BY DEF IsFound, Positive
<1>2. PICK p, n : p = d_at[d][1] /\ n = d_at[d][2]
  OBVIOUS
<1>3. p \in Upper /\ IsDir(p) /\ LowerIno(p) \in Inodes /\ l_at[lower_path[d]] \in Inodes \X Names
  BY <1>1, <1>2, InPlace
<1>4. /\ l_at[lower_path[d]] = <<LowerIno(p), n>>
      /\ entry[l_at[lower_path[d]][1]][l_at[lower_path[d]][2]] = LowerIno(d)
  BY <1>1, <1>2 DEF StackInv, Placed, Present, Backed, LowerIno
<1>5. n \in Names /\ entry[LowerIno(p)][n] = LowerIno(d) /\ LowerIno(d) # 0
  BY <1>1, <1>3, <1>4, InPlace, Numbers
<1>6. Named(LowerIno(p))
  BY <1>3, <1>5 DEF TreeInv, Filed
<1>7. p \in Reached(MaxUpper - 1)
  BY <1>3, <1>6, AllReached DEF NamedDirs
<1>8. MaxUpper - 1 \in Nat /\ MaxUpper \in Nat /\ MaxUpper >= (MaxUpper - 1) + 1
  BY StackAssumption
<1>9. LowerIno(p) # 0
  BY <1>3, Numbers
<1> QED
  BY <1>1, <1>2, <1>5, <1>7, <1>8, <1>9, StepReaches

(* Every step of trfs keeps the tree, as one of wrapfs or because a record *)
(* was missed.                                                             *)
LEMMA TrfsNextKeepsTree == StackInv /\ TreeInv /\ [TrfsNext]_<<vars, oops, moving>> => TreeInv'
<1> SUFFICES ASSUME StackInv, TreeInv, [TrfsNext]_<<vars, oops, moving>>
             PROVE  TreeInv'
  OBVIOUS
<1>1. CASE [Next]_vars
  BY <1>1, NextKeepsTree
<1>2. CASE Lasts("record")
  BY <1>2, NoRecord DEF TreeInv
<1> QED
  BY <1>1, <1>2, TrfsSteps

(* Until a record is missed the lower directories are a tree, and every    *)
(* upper directory that still has a name below is at the place of that     *)
(* name, also while a failed revalidation has it unhashed.                 *)
THEOREM TrfsTreeInvariant == TrfsSpec => []TreeInv
<1>1. TrfsSpec => [](StackInv /\ TreeInv)
  BY StackInit, TreeInit, TrfsNextKeeps, TrfsNextKeepsTree, PTL DEF TrfsSpec
<1> QED
  BY <1>1, PTL

(* The path of a dentry that is found, as dentry_path_raw writes it into a *)
(* record, leads to its lower inode, after any renames, removals, lookups  *)
(* and failed revalidations, unless a rename of it or of a directory above *)
(* it has moved the lower name and not yet the upper dentry, and until a   *)
(* record is missed.                                                       *)
THEOREM TrfsPathsResolve == TrfsSpec => []PathsResolve
<1>1. StackInv /\ TreeInv => PathsResolve
  BY PathsLead
<1> QED
  BY <1>1, TrfsStackInvariant, TrfsTreeInvariant, PTL
=============================================================================
