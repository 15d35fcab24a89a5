----------------------------- MODULE WrapfsProofs -----------------------------
(***************************************************************************)
(* The safety of the stack, for any number of names, objects and files and *)
(* any failures.                                                           *)
(*                                                                         *)
(* StackInv, the inductive invariant, says how the upper objects, the      *)
(* lower dentry cache, the lower directories and the reference counts      *)
(* agree.  The proof has one lemma for each kind of change: a lookup that  *)
(* makes a dentry, a directory's dentry that moves, an inode that is set   *)
(* up, an open, a last put, a released dentry, a removal, a rename, a new  *)
(* name.  Each defines the change by its effect, point by point, and       *)
(* allows the upper half of it to be missing, as it is in trfs where there *)
(* is no memory for a record; the operations follow from the changes.      *)
(***************************************************************************)
EXTENDS Wrapfs, FiniteSetTheorems, WellFoundedInduction, TLAPS
-----------------------------------------------------------------------------
(* The upper objects and what they lead to.                                *)
RootStands ==
  /\ lower_path[1] = 1 /\ d_inode[1] = 1 /\ lower_inode[1] = Root /\ 1 \notin i_new
  /\ l_at[1] = NoPlace /\ l_inode[1] = Root /\ Root \in isdir
  /\ \A d \in Upper : lower_path[d] = 1 => d = 1

Unborn(d) == /\ d_inode[d] = 0 /\ d_at[d] = NoPlace /\ ~d_hashed[d] /\ d \notin i_new

Stacked ==
  /\ \A d \in Upper : ~InUse(d) => Unborn(d)
  /\ \A d \in Upper : d_hashed[d] => Positive(d)
  /\ \A d \in Upper : InUse(d) /\ d # 1 => d_at[d][1] \in Upper /\ IsDir(d_at[d][1])
  /\ \A f \in Files : files[f] # 0 => InUse(files[f])

(* An inode that a lookup has not set up belongs to its dentry alone.      *)
InodesOfDentries ==
  /\ \A d \in Upper : d_inode[d] # 0 => LowerIno(d) # 0
  /\ \A d \in Upper : Positive(d) => lower_inode[d_inode[d]] = LowerIno(d)
  /\ \A d \in i_new : /\ d_inode[d] # 0 /\ lower_inode[d_inode[d]] = 0
                      /\ \A e \in Upper : d_inode[e] = d_inode[d] => e = d
  /\ \A u \in Objs : lower_inode[u] # 0 => \E d \in Upper : Positive(d) /\ d_inode[d] = u

RefsKept ==
  /\ \A l \in Lower : /\ l_count[l] >= Holders(l)
                      /\ "record" \notin failed => l_count[l] = Holders(l)
  /\ mnt_count >= Standing
  /\ "record" \notin failed => mnt_count = Standing
  /\ "inode" \notin failed => \A i \in Inodes : i_count[i] = Covering(i)

Used(l) == l_count[l] > 0

(* The lower dentry cache agrees with the lower directories.               *)
LowerCache ==
  /\ \A l \in Lower \ {1} : Used(l) => l_at[l] \in Inodes \X Names
  /\ \A l \in Lower \ {1} : Used(l) /\ l_hashed[l] =>
       l_inode[l] = entry[l_at[l][1]][l_at[l][2]]
  /\ \A l, m \in Lower :
       Used(l) /\ Used(m) /\ l_hashed[l] /\ l_hashed[m] /\ l_at[l] = l_at[m] => l = m

(* Each lower inode is set up at most once.                                *)
SetUpOnce ==
  /\ \A u, v \in Objs : lower_inode[u] = lower_inode[v] /\ lower_inode[u] # 0 => u = v
  /\ \A d \in i_new : Matching(LowerIno(d)) = {}
  /\ \A d, e \in i_new : LowerIno(d) = LowerIno(e) => d = e

(* A directory has one name, one lower dentry and one upper dentry.        *)
OneName ==
  /\ \A i, k \in Inodes, n, m \in Names :
       entry[i][n] \in isdir /\ entry[k][m] = entry[i][n] => i = k /\ n = m
  /\ \A i \in Inodes, n \in Names : entry[i][n] # Root
  /\ \A l \in Lower \ {1} : Used(l) /\ l_inode[l] \in isdir /\ Named(l_inode[l]) => l_hashed[l]
  /\ \A d, e \in Upper :
       /\ d_inode[d] # 0 /\ d_inode[e] # 0
       /\ LowerIno(d) = LowerIno(e) /\ LowerIno(d) \in isdir
       => d = e

(* A dentry that is found, or for which its directory is locked, has its   *)
(* place to itself and stands on the lower dentry of that place.           *)
Present(d) == d_hashed[d] \/ Negative(d) \/ d \in i_new

Placed ==
  /\ \A d \in Upper \ {1} : Present(d) =>
       l_at[lower_path[d]] = <<LowerIno(d_at[d][1]), d_at[d][2]>>
  /\ \A d, e \in Upper : Present(d) /\ Present(e) /\ d_at[d] = d_at[e] => d = e
  /\ \A d \in Upper \ {1} : d_hashed[d] \/ d \in i_new => Backed(lower_path[d])

StackInv ==
  /\ TypeOK /\ RootStands /\ Stacked /\ InodesOfDentries /\ RefsKept /\ LowerCache
  /\ "race" \notin failed => SetUpOnce
  /\ "record" \notin failed => OneName /\ Placed

-----------------------------------------------------------------------------
(* A set of numbers has a least one.                                       *)
LEMMA HasLeast ==
  ASSUME NEW S, S \subseteq Nat, S # {}
  PROVE  \E x \in S : \A y \in S : x <= y
<1>1. PICK R : IsWellFoundedOn(R, Nat) /\ \A x, y \in Nat : x < y => <<x, y>> \in R
  <2>1. \A x, y \in Nat : x < y => <<x, y>> \in OpToRel(<, Nat)
    BY Zenon DEF OpToRel
  <2> QED
    BY <2>1, NatLessThanWellFounded, Zenon
<1>2. IsWellFoundedOn(R, Nat)
  BY <1>1
<1>3. PICK x \in S : \A y \in S : ~(<<y, x>> \in R)
  BY <1>2, WFMin, Zenon
<1>4. \A y \in S : x <= y
  <2>1. \A y \in S : x \in Nat /\ y \in Nat /\ ~(y < x)
    BY <1>1, <1>3
  <2> QED
    BY <2>1
<1> QED
  BY <1>4

(* The least of a set of numbers, and a free number.                       *)
LEMMA LeastIn ==
  ASSUME NEW S, S \subseteq Nat, S # {}
  PROVE  Least(S) \in S /\ \A x : New(S, x) \in S
<1>1. \E z \in S : \A y \in S : z <= y
  BY HasLeast
<1>2. Least(S) \in S
  BY <1>1, Zenon DEF Least
<1> QED
  BY <1>2 DEF New

(* Counting the upper objects on a lower one.                              *)
LEMMA Finite ==
  ASSUME NEW n \in Nat, NEW S, S \subseteq 1 .. n
  PROVE  IsFiniteSet(S) /\ Cardinality(S) \in Nat
<1>1. IsFiniteSet(1 .. n)
  BY FS_Interval
<1>2. S \in SUBSET (1 .. n)
  OBVIOUS
<1>3. IsFiniteSet(S)
  BY <1>1, <1>2, FS_Subset
<1> QED
  BY <1>3, FS_CardinalityType

(* S and T differ in x only, which is counted in T.                        *)
LEMMA CountMore ==
  ASSUME NEW n \in Nat, NEW S, NEW T, S \subseteq 1 .. n, T \subseteq 1 .. n,
         NEW x, x \notin S, x \in T,
         \A y \in 1 .. n : y # x => (y \in S <=> y \in T)
  PROVE  /\ Cardinality(S) \in Nat /\ Cardinality(T) \in Nat
         /\ Cardinality(T) = Cardinality(S) + 1
<1>1. T = S \cup {x}
  OBVIOUS
<1>2. IsFiniteSet(S) /\ Cardinality(S) \in Nat /\ Cardinality(T) \in Nat
  BY Finite
<1> QED
  BY <1>1, <1>2, FS_AddElement

(* The counts as functions of lower_path, files and lower_inode.           *)
DentriesOn(lp, l) == Cardinality({d \in Upper : lp[d] = l})
FilesOn(lp, fl, l) == Cardinality({f \in Files : fl[f] # 0 /\ lp[fl[f]] = l})
DentriesUsed(lp) == Cardinality({d \in Upper : lp[d] # 0})
FilesUsed(fl) == Cardinality({f \in Files : fl[f] # 0})
HoldersOf(lp, fl, l) == DentriesOn(lp, l) + FilesOn(lp, fl, l)
StandingOf(lp, fl) == DentriesUsed(lp) + FilesUsed(fl)
CoveringOf(li, i) == Cardinality({u \in Objs : li[u] = i})

(* The sets that are counted are finite.                                   *)
LEMMA Sizes ==
  ASSUME NEW S, S \subseteq Upper \/ S \subseteq Files \/ S \subseteq Objs
  PROVE  Cardinality(S) \in Nat
BY Finite, StackAssumption DEF Upper, Files, Objs

(* Every count is a natural number.                                        *)
LEMMA CountsType ==
  ASSUME NEW lp, NEW fl, NEW k
  PROVE  /\ DentriesOn(lp, k) \in Nat /\ FilesOn(lp, fl, k) \in Nat
         /\ DentriesUsed(lp) \in Nat /\ FilesUsed(fl) \in Nat
         /\ HoldersOf(lp, fl, k) \in Nat /\ StandingOf(lp, fl) \in Nat
         /\ CoveringOf(lp, k) \in Nat
<1>1. /\ DentriesOn(lp, k) \in Nat /\ FilesOn(lp, fl, k) \in Nat
      /\ DentriesUsed(lp) \in Nat /\ FilesUsed(fl) \in Nat
      /\ CoveringOf(lp, k) \in Nat
  BY Sizes DEF DentriesOn, FilesOn, DentriesUsed, FilesUsed, CoveringOf
<1> QED
  BY <1>1 DEF HoldersOf, StandingOf

(* One upper dentry more: lp1 is lp but for d, which now stands on l.      *)
LEMMA DentryStands ==
  ASSUME NEW lp, NEW lp1, NEW fl, NEW d \in Upper, NEW l \in Lower,
         lp[d] = 0, lp1[d] = l, \A e \in Upper : e # d => lp1[e] = lp[e],
         \A f \in Files : fl[f] # 0 => fl[f] \in Upper /\ fl[f] # d
  PROVE  /\ \A k \in Lower : k # l => HoldersOf(lp1, fl, k) = HoldersOf(lp, fl, k)
         /\ HoldersOf(lp1, fl, l) = HoldersOf(lp, fl, l) + 1
         /\ StandingOf(lp1, fl) = StandingOf(lp, fl) + 1
<1>1. MaxUpper \in Nat /\ Upper = 1 .. MaxUpper /\ 0 \notin Lower
  BY StackAssumption DEF Upper, Lower
<1>2. \A k : FilesOn(lp1, fl, k) = FilesOn(lp, fl, k)
  <2>1. \A k : {f \in Files : fl[f] # 0 /\ lp1[fl[f]] = k}
                = {f \in Files : fl[f] # 0 /\ lp[fl[f]] = k}
    OBVIOUS
  <2> QED
    BY <2>1 DEF FilesOn
<1>3. \A k \in Lower : k # l => DentriesOn(lp1, k) = DentriesOn(lp, k)
  <2>1. \A k \in Lower : k # l => {e \in Upper : lp1[e] = k} = {e \in Upper : lp[e] = k}
    BY <1>1
  <2> QED
    BY <2>1 DEF DentriesOn
<1>4. DentriesOn(lp1, l) = DentriesOn(lp, l) + 1
  <2>1. PICK S, T : S = {e \in Upper : lp[e] = l} /\ T = {e \in Upper : lp1[e] = l}
    OBVIOUS
  <2>2. /\ S \subseteq 1 .. MaxUpper /\ T \subseteq 1 .. MaxUpper /\ d \notin S /\ d \in T
        /\ \A y \in 1 .. MaxUpper : y # d => (y \in S <=> y \in T)
    BY <1>1, <2>1
  <2>3. Cardinality(T) = Cardinality(S) + 1
    BY <1>1, <2>2, CountMore
  <2> QED
    BY <2>1, <2>3 DEF DentriesOn
<1>5. DentriesUsed(lp1) = DentriesUsed(lp) + 1
  <2>1. PICK S, T : S = {e \in Upper : lp[e] # 0} /\ T = {e \in Upper : lp1[e] # 0}
    OBVIOUS
  <2>2. /\ S \subseteq 1 .. MaxUpper /\ T \subseteq 1 .. MaxUpper /\ d \notin S /\ d \in T
        /\ \A y \in 1 .. MaxUpper : y # d => (y \in S <=> y \in T)
    BY <1>1, <2>1
  <2>3. Cardinality(T) = Cardinality(S) + 1
    BY <1>1, <2>2, CountMore
  <2> QED
    BY <2>1, <2>3 DEF DentriesUsed
<1> QED
  BY <1>2, <1>3, <1>4, <1>5, CountsType DEF HoldersOf, StandingOf

(* One file more, on the upper dentry that stands on l.                    *)
LEMMA FileStands ==
  ASSUME NEW lp, NEW fl, NEW fl1, NEW g \in Files, NEW l \in Lower,
         fl[g] = 0, fl1[g] \in Upper, lp[fl1[g]] = l,
         \A f \in Files : f # g => fl1[f] = fl[f]
  PROVE  /\ \A k \in Lower : k # l => HoldersOf(lp, fl1, k) = HoldersOf(lp, fl, k)
         /\ HoldersOf(lp, fl1, l) = HoldersOf(lp, fl, l) + 1
         /\ StandingOf(lp, fl1) = StandingOf(lp, fl) + 1
<1>1. MaxFiles \in Nat /\ Files = 1 .. MaxFiles /\ fl1[g] # 0
  BY StackAssumption DEF Files, Upper
<1>2. \A k \in Lower : k # l => FilesOn(lp, fl1, k) = FilesOn(lp, fl, k)
  <2>1. \A k \in Lower : k # l =>
          {f \in Files : fl1[f] # 0 /\ lp[fl1[f]] = k} = {f \in Files : fl[f] # 0 /\ lp[fl[f]] = k}
    BY <1>1
  <2> QED
    BY <2>1 DEF FilesOn
<1>3. FilesOn(lp, fl1, l) = FilesOn(lp, fl, l) + 1
  <2>1. PICK S, T : /\ S = {f \in Files : fl[f] # 0 /\ lp[fl[f]] = l}
                    /\ T = {f \in Files : fl1[f] # 0 /\ lp[fl1[f]] = l}
    OBVIOUS
  <2>2. /\ S \subseteq 1 .. MaxFiles /\ T \subseteq 1 .. MaxFiles /\ g \notin S /\ g \in T
        /\ \A y \in 1 .. MaxFiles : y # g => (y \in S <=> y \in T)
    BY <1>1, <2>1
  <2>3. Cardinality(T) = Cardinality(S) + 1
    BY <1>1, <2>2, CountMore
  <2> QED
    BY <2>1, <2>3 DEF FilesOn
<1>4. FilesUsed(fl1) = FilesUsed(fl) + 1
  <2>1. PICK S, T : S = {f \in Files : fl[f] # 0} /\ T = {f \in Files : fl1[f] # 0}
    OBVIOUS
  <2>2. /\ S \subseteq 1 .. MaxFiles /\ T \subseteq 1 .. MaxFiles /\ g \notin S /\ g \in T
        /\ \A y \in 1 .. MaxFiles : y # g => (y \in S <=> y \in T)
    BY <1>1, <2>1
  <2>3. Cardinality(T) = Cardinality(S) + 1
    BY <1>1, <2>2, CountMore
  <2> QED
    BY <2>1, <2>3 DEF FilesUsed
<1> QED
  BY <1>2, <1>3, <1>4, CountsType DEF HoldersOf, StandingOf

(* One upper inode more, on the lower inode j.                             *)
LEMMA InodeCovers ==
  ASSUME NEW li, NEW li1, NEW u \in Objs, NEW j \in Inodes,
         li[u] = 0, li1[u] = j, \A v \in Objs : v # u => li1[v] = li[v]
  PROVE  /\ \A k \in Inodes : k # j => CoveringOf(li1, k) = CoveringOf(li, k)
         /\ CoveringOf(li1, j) = CoveringOf(li, j) + 1
<1>1. MaxUpper \in Nat /\ Objs = 1 .. MaxUpper /\ 0 \notin Inodes
  BY StackAssumption DEF Objs, Inodes
<1>2. \A k \in Inodes : k # j => {v \in Objs : li1[v] = k} = {v \in Objs : li[v] = k}
  BY <1>1
<1>3. PICK S, T : S = {v \in Objs : li[v] = j} /\ T = {v \in Objs : li1[v] = j}
  OBVIOUS
<1>4. /\ S \subseteq 1 .. MaxUpper /\ T \subseteq 1 .. MaxUpper /\ u \notin S /\ u \in T
      /\ \A y \in 1 .. MaxUpper : y # u => (y \in S <=> y \in T)
  BY <1>1, <1>3
<1>5. Cardinality(T) = Cardinality(S) + 1
  BY <1>1, <1>4, CountMore
<1> QED
  BY <1>2, <1>3, <1>5 DEF CoveringOf

(* The counts of the specification are those of its variables.             *)
LEMMA CountsNow ==
  /\ \A l : Holders(l) = HoldersOf(lower_path, files, l)
  /\ \A l : Holders(l)' = HoldersOf(lower_path', files', l)
  /\ Standing = StandingOf(lower_path, files)
  /\ Standing' = StandingOf(lower_path', files')
  /\ \A i : Covering(i) = CoveringOf(lower_inode, i)
  /\ \A i : Covering(i)' = CoveringOf(lower_inode', i)
BY DEF Holders, HoldersOf, DentriesOn, FilesOn, Standing, StandingOf, DentriesUsed, FilesUsed,
       InUse, Covering, CoveringOf

(* An upper dentry holds the lower one it stands on.                       *)
LEMMA OneHolder ==
  ASSUME NEW lp, NEW fl, NEW d \in Upper
  PROVE  HoldersOf(lp, fl, lp[d]) >= 1 /\ (lp[d] # 0 => StandingOf(lp, fl) >= 1)
<1>1. \A S : S \subseteq Upper /\ d \in S => Cardinality(S) >= 1
  <2> SUFFICES ASSUME NEW S, S \subseteq Upper, d \in S
               PROVE  Cardinality(S) >= 1
    OBVIOUS
  <2>1. IsFiniteSet(S) /\ Cardinality(S) \in Nat
    BY Finite, StackAssumption DEF Upper
  <2>2. Cardinality(S) # 0
    BY <2>1, FS_EmptySet
  <2> QED
    BY <2>1, <2>2
<1>2. DentriesOn(lp, lp[d]) >= 1
  BY <1>1 DEF DentriesOn
<1>3. lp[d] # 0 => DentriesUsed(lp) >= 1
  BY <1>1 DEF DentriesUsed
<1> QED
  BY <1>2, <1>3, CountsType DEF HoldersOf, StandingOf

(* 0 numbers no object, 1 is the root's.                                   *)
LEMMA Numbers ==
  /\ 1 \in Upper /\ 1 \in Lower /\ 1 \in Objs /\ 1 \in Inodes
  /\ 0 \notin Upper /\ 0 \notin Lower /\ 0 \notin Objs /\ 0 \notin Inodes /\ 0 \notin Files
  /\ Upper \subseteq Nat /\ Lower \subseteq Nat /\ Objs \subseteq Nat
  /\ Inodes \subseteq Nat /\ Files \subseteq Nat
  /\ Root = 1 /\ Objs = Upper /\ NoName \notin Names
BY StackAssumption DEF Upper, Lower, Objs, Inodes, Files, Root

(* What the objects in use are.                                            *)
LEMMA InPlace ==
  ASSUME StackInv
  PROVE  /\ \A d \in Upper : InUse(d) => lower_path[d] \in Lower /\ Used(lower_path[d])
         /\ \A d \in Upper : InUse(d) => LowerIno(d) \in Inodes \cup {0}
         /\ \A d \in Upper : d_inode[d] # 0 =>
              InUse(d) /\ d_inode[d] \in Objs /\ LowerIno(d) \in Inodes
         /\ \A d \in Upper : d \in i_new => d_inode[d] # 0
         /\ \A d \in Upper : lower_path[d] = 1 => d = 1
         /\ \A d \in Upper : InUse(d) /\ d # 1 =>
              /\ d_at[d][1] \in Upper /\ IsDir(d_at[d][1]) /\ InUse(d_at[d][1])
              /\ d_inode[d_at[d][1]] # 0
              /\ l_at[lower_path[d]] \in Inodes \X Names
         /\ InUse(1) /\ Positive(1) /\ Used(1)
         /\ \A d \in Upper : IsDir(d) => d_inode[d] # 0 /\ InUse(d)
<1>1. \A d \in Upper : InUse(d) => lower_path[d] \in Lower /\ Used(lower_path[d])
  <2> SUFFICES ASSUME NEW d \in Upper, InUse(d)
               PROVE  lower_path[d] \in Lower /\ Used(lower_path[d])
    OBVIOUS
  <2>1. lower_path[d] \in Lower
    BY DEF InUse, StackInv, TypeOK
  <2>2. l_count[lower_path[d]] \in Nat /\ l_count[lower_path[d]] >= Holders(lower_path[d])
    BY <2>1 DEF StackInv, TypeOK, RefsKept
  <2>3. Holders(lower_path[d]) >= 1 /\ Holders(lower_path[d]) \in Nat
    BY CountsNow, OneHolder, CountsType
  <2> QED
    BY <2>1, <2>2, <2>3 DEF Used
<1>2. \A d \in Upper : InUse(d) => LowerIno(d) \in Inodes \cup {0}
  BY <1>1 DEF LowerIno, StackInv, TypeOK
<1>3. \A d \in Upper : d_inode[d] # 0 =>
        InUse(d) /\ d_inode[d] \in Objs /\ LowerIno(d) \in Inodes
  BY <1>2 DEF StackInv, TypeOK, Stacked, Unborn, InodesOfDentries
<1>4. \A d \in Upper : d \in i_new => d_inode[d] # 0
  BY DEF StackInv, InodesOfDentries
<1>5. \A d \in Upper : lower_path[d] = 1 => d = 1
  BY DEF StackInv, RootStands
<1>6. InUse(1) /\ Positive(1) /\ Used(1)
  BY <1>1, Numbers DEF InUse, Positive, StackInv, RootStands
<1>7. \A d \in Upper : IsDir(d) => d_inode[d] # 0 /\ InUse(d)
  BY DEF IsDir, Positive
<1>8. \A d \in Upper : InUse(d) /\ d # 1 =>
        /\ d_at[d][1] \in Upper /\ IsDir(d_at[d][1]) /\ InUse(d_at[d][1])
        /\ d_inode[d_at[d][1]] # 0
        /\ l_at[lower_path[d]] \in Inodes \X Names
  BY <1>1, <1>5, <1>7 DEF StackInv, Stacked, LowerCache
<1> QED
  BY <1>1, <1>2, <1>3, <1>4, <1>5, <1>6, <1>7, <1>8

(* A dentry that is found or that a lookup made is in use.                 *)
LEMMA PresentInUse ==
  ASSUME StackInv
  PROVE  \A d \in Upper : Present(d) => InUse(d)
<1>1. \A d \in Upper : d_hashed[d] => InUse(d)
  BY DEF StackInv, Stacked, Positive
<1>2. \A d \in Upper : d \in i_new => InUse(d)
  BY InPlace
<1> QED
  BY <1>1, <1>2 DEF Present, Negative

(* Two dentries that are found, or for which their directory is locked,    *)
(* have two places in the lower file system.                               *)
LEMMA OnePlace ==
  ASSUME StackInv, "record" \notin failed, NEW d \in Upper \ {1}, NEW e \in Upper \ {1},
         Present(d), Present(e), l_at[lower_path[d]] = l_at[lower_path[e]]
  PROVE  d = e
<1>1. InUse(d) /\ InUse(e)
  BY PresentInUse
<1>2. /\ LowerIno(d_at[d][1]) = LowerIno(d_at[e][1]) /\ d_at[d][2] = d_at[e][2]
  BY DEF StackInv, Placed
<1>3. /\ d_at[d][1] \in Upper /\ d_inode[d_at[d][1]] # 0 /\ LowerIno(d_at[d][1]) \in isdir
      /\ d_at[e][1] \in Upper /\ d_inode[d_at[e][1]] # 0
  BY <1>1, InPlace DEF IsDir
<1>4. d_at[d][1] = d_at[e][1]
  BY <1>2, <1>3 DEF StackInv, OneName
<1>5. d_at[d] = d_at[e]
  BY <1>2, <1>4 DEF StackInv, TypeOK
<1> QED
  BY <1>5 DEF StackInv, Placed

(* An upper dentry that is not in use leaves a number for an upper inode.  *)
LEMMA ObjIsFree ==
  ASSUME StackInv, NEW d \in Upper, d_inode[d] = 0
  PROVE  FreeObjs # {}
<1> SUFFICES ASSUME FreeObjs = {}
             PROVE  FALSE
  OBVIOUS
<1>1. \A u \in Objs : \E e \in Upper : d_inode[e] = u
  BY DEF FreeObjs, StackInv, InodesOfDentries
<1>2. PICK g : g = [u \in Objs |-> CHOOSE e \in Upper : d_inode[e] = u]
  OBVIOUS
<1>3. \A u \in Objs : g[u] \in Upper /\ d_inode[g[u]] = u
  BY <1>1, <1>2
<1>4. \A u \in Objs : g[u] # d
  BY <1>3, Numbers
<1>5. g \in [Objs -> Upper \ {d}]
  BY <1>2, <1>3, <1>4
<1>6. \A u, v \in Objs : g[u] = g[v] => u = v
  BY <1>3
<1>7. IsFiniteSet(Objs) /\ IsFiniteSet(Upper \ {d}) /\ Cardinality(Objs) \in Nat
  BY Finite, StackAssumption DEF Objs, Upper
<1>8. Cardinality(Upper \ {d}) \in Nat /\ Cardinality(Objs) = Cardinality(Upper \ {d}) + 1
  <2>1. MaxUpper \in Nat /\ Upper = 1 .. MaxUpper /\ Objs = Upper
    BY StackAssumption, Numbers DEF Upper
  <2>2. PICK S : S = Upper \ {d}
    OBVIOUS
  <2>3. /\ S \subseteq 1 .. MaxUpper /\ d \notin S /\ d \in 1 .. MaxUpper
        /\ \A y \in 1 .. MaxUpper : y # d => (y \in S <=> y \in 1 .. MaxUpper)
    BY <2>1, <2>2
  <2>4. Cardinality(S) \in Nat /\ Cardinality(1 .. MaxUpper) = Cardinality(S) + 1
    BY <2>1, <2>3, CountMore
  <2> QED
    BY <2>1, <2>2, <2>4
<1> QED
  BY <1>5, <1>6, <1>7, <1>8, FS_PigeonHole

-----------------------------------------------------------------------------
(* What an action may add to the history.                                  *)
Recorded == failed \subseteq failed' /\ failed' \subseteq Lasting

(* A lasting failure is added to the history.                              *)
LEMMA LastsRecorded ==
  ASSUME StackInv, NEW f \in Lasting, Lasts(f)
  PROVE  Recorded /\ f \in failed'
BY DEF Lasts, Recorded, StackInv, TypeOK

(* The least free number of a kind is free.                                *)
LEMMA LeastFree ==
  /\ FreeUpper # {} => Least(FreeUpper) \in FreeUpper
  /\ FreeFiles # {} => Least(FreeFiles) \in FreeFiles
  /\ FreeInodes # {} => Least(FreeInodes) \in FreeInodes
  /\ FreeObjs # {} => \A x : New(FreeObjs, x) \in FreeObjs
  /\ FreeLower # {} => \A x : New(FreeLower, x) \in FreeLower
<1>1. /\ FreeUpper \subseteq Nat /\ FreeFiles \subseteq Nat /\ FreeInodes \subseteq Nat
      /\ FreeObjs \subseteq Nat /\ FreeLower \subseteq Nat
  BY Numbers DEF FreeUpper, FreeFiles, FreeInodes, FreeObjs, FreeLower
<1> QED
  BY <1>1, LeastIn

-----------------------------------------------------------------------------
(* A lookup of name n in p that gives a new dentry d, on lower dentry l,   *)
(* the upper inode u: none, one that is there, or one to be set up.        *)
Looks(p, n, d) ==
  /\ p \in Upper /\ n \in Names /\ IsDir(p) /\ Named(LowerIno(p)) /\ ~Locked(p)
  /\ \A e \in Upper : d_hashed[e] => d_at[e] # <<p, n>>
  /\ Cached(LowerIno(p), n) \cup FreeLower # {}
  /\ d \in FreeUpper

Gives(d, j, u, hashed) ==
  \/ j = 0 /\ u = 0 /\ hashed = FALSE /\ i_new' = i_new
  \/ j # 0 /\ j \notin isdir /\ u \in Matching(j) /\ hashed = TRUE /\ i_new' = i_new
  \/ /\ j # 0 /\ Matching(j) = {} /\ u \in FreeObjs /\ hashed = FALSE
     /\ i_new' = i_new \cup {d}
     /\ (\E e \in i_new : LowerIno(e) = j) => "race" \in failed'

LooksUp(p, n, d, l, u, hashed) ==
  /\ Looks(p, n, d) /\ l \in DentryFor(LowerIno(p), n)
  /\ Stands(d, p, n, l, u, hashed)
  /\ Gives(d, entry[LowerIno(p)][n], u, hashed)
  /\ UNCHANGED <<lowerfs, uinode, files>> /\ Recorded

(* The lower dentry of the name is new, or in the cache as the lower       *)
(* directory has it.                                                       *)
LEMMA LowerFound ==
  ASSUME StackInv, NEW p, NEW n, NEW d, Looks(p, n, d), NEW l \in DentryFor(LowerIno(p), n)
  PROVE  /\ l \in Lower \ {1} /\ LowerIno(p) \in Inodes
         /\ entry[LowerIno(p)][n] \in Inodes \cup {0}
         /\ \/ ~Used(l)
            \/ /\ Used(l) /\ l_hashed[l] /\ l_at[l] = <<LowerIno(p), n>>
               /\ l_inode[l] = entry[LowerIno(p)][n]
         /\ \A m \in Lower : Used(m) /\ l_hashed[m] /\ l_at[m] = <<LowerIno(p), n>> => m = l
<1> DEFINE i == LowerIno(p)
<1>1. i \in Inodes /\ n \in Names /\ p \in Upper
  BY InPlace DEF Looks
<1>2. entry[i][n] \in Inodes \cup {0}
  BY <1>1 DEF StackInv, TypeOK
<1>3. \A m \in Cached(i, n) :
        m \in Lower \ {1} /\ Used(m) /\ l_hashed[m] /\ l_at[m] = <<i, n>> /\ l_inode[m] = entry[i][n]
  <2> SUFFICES ASSUME NEW m \in Cached(i, n)
               PROVE  /\ m \in Lower \ {1} /\ Used(m) /\ l_hashed[m] /\ l_at[m] = <<i, n>>
                      /\ l_inode[m] = entry[i][n]
    OBVIOUS
  <2>1. m \in Lower /\ Used(m) /\ l_hashed[m] /\ l_at[m] = <<i, n>>
    BY DEF Cached, Used
  <2>2. m # 1
    BY <1>1, <2>1, Numbers DEF StackInv, RootStands, NoPlace
  <2>3. l_inode[m] = entry[l_at[m][1]][l_at[m][2]]
    BY <2>1, <2>2 DEF StackInv, LowerCache
  <2> QED
    BY <2>1, <2>2, <2>3
<1>4. \A m \in Lower : Used(m) /\ l_hashed[m] /\ l_at[m] = <<i, n>> => m \in Cached(i, n)
  BY DEF Cached, Used
<1>5. \A m, k \in Cached(i, n) : m = k
  BY <1>3 DEF StackInv, LowerCache
<1>6. CASE Cached(i, n) # {}
  BY <1>1, <1>2, <1>3, <1>4, <1>5, <1>6 DEF DentryFor
<1>7. CASE Cached(i, n) = {}
  <2>1. FreeLower # {}
    BY <1>7 DEF Looks
  <2>2. l \in FreeLower
    BY <1>7, <2>1, LeastFree DEF DentryFor
  <2>3. l \in Lower /\ ~Used(l) /\ l # 1
    BY <2>2, InPlace DEF FreeLower, Used
  <2> QED
    BY <1>1, <1>2, <1>4, <1>7, <2>3
<1> QED
  BY <1>6, <1>7

(* What changes.                                                           *)
LookupEffect(p, n, d, l, u, hashed) ==
  /\ p \in Upper /\ n \in Names /\ d \in Upper /\ ~InUse(d) /\ d # 1 /\ d # p /\ l \in Lower \ {1}
  /\ u \in Objs \cup {0} /\ hashed \in BOOLEAN
  /\ d_at'[d] = <<p, n>> /\ d_inode'[d] = u /\ d_hashed'[d] = hashed /\ lower_path'[d] = l
  /\ l_at'[l] = <<LowerIno(p), n>> /\ l_inode'[l] = entry[LowerIno(p)][n] /\ l_hashed'[l]
  /\ l_count'[l] = l_count[l] + 1 /\ mnt_count' = mnt_count + 1
  /\ \A e \in Upper : e # d =>
       /\ d_at'[e] = d_at[e] /\ d_inode'[e] = d_inode[e] /\ d_hashed'[e] = d_hashed[e]
       /\ lower_path'[e] = lower_path[e] /\ (e \in i_new' <=> e \in i_new)
  /\ \A m \in Lower : m # l =>
       /\ l_at'[m] = l_at[m] /\ l_inode'[m] = l_inode[m] /\ l_hashed'[m] = l_hashed[m]
       /\ l_count'[m] = l_count[m]
  /\ \A m \in Lower : Used(m) =>
       /\ l_at'[m] = l_at[m] /\ l_inode'[m] = l_inode[m] /\ l_hashed'[m] = l_hashed[m]
  /\ entry' = entry /\ isdir' = isdir /\ lower_inode' = lower_inode /\ i_count' = i_count
  /\ files' = files

(* A lookup has that effect.                                               *)
LEMMA LookupSteps ==
  ASSUME StackInv, NEW p, NEW n, NEW d, NEW l, NEW u, NEW hashed,
         LooksUp(p, n, d, l, u, hashed)
  PROVE  LookupEffect(p, n, d, l, u, hashed)
<1>1. p \in Upper /\ n \in Names /\ d \in Upper /\ ~InUse(d) /\ IsDir(p)
  BY DEF LooksUp, Looks, FreeUpper
<1>2. d # 1 /\ d # p
  BY <1>1, InPlace
<1>3. /\ l \in Lower \ {1}
      /\ \/ ~Used(l)
         \/ /\ Used(l) /\ l_hashed[l] /\ l_at[l] = <<LowerIno(p), n>>
            /\ l_inode[l] = entry[LowerIno(p)][n]
  BY LowerFound DEF LooksUp
<1>4. u \in Objs \cup {0} /\ hashed \in BOOLEAN
  BY DEF LooksUp, Gives, Matching, FreeObjs
<1>5. \A e \in Upper : e # d => (e \in i_new' <=> e \in i_new)
  BY DEF LooksUp, Gives
<1>6. /\ d_at'[d] = <<p, n>> /\ d_inode'[d] = u /\ d_hashed'[d] = hashed /\ lower_path'[d] = l
      /\ \A e \in Upper : e # d =>
              /\ d_at'[e] = d_at[e] /\ d_inode'[e] = d_inode[e] /\ d_hashed'[e] = d_hashed[e]
              /\ lower_path'[e] = lower_path[e]
  BY <1>1 DEF LooksUp, Stands, StackInv, TypeOK
<1>7. /\ l_at'[l] = <<LowerIno(p), n>> /\ l_inode'[l] = entry[LowerIno(p)][n] /\ l_hashed'[l]
      /\ l_count'[l] = l_count[l] + 1 /\ mnt_count' = mnt_count + 1
      /\ \A m \in Lower : m # l =>
              /\ l_at'[m] = l_at[m] /\ l_inode'[m] = l_inode[m] /\ l_hashed'[m] = l_hashed[m]
              /\ l_count'[m] = l_count[m]
  BY <1>3 DEF LooksUp, Stands, path_get, StackInv, TypeOK
<1>8. \A m \in Lower : Used(m) =>
              /\ l_at'[m] = l_at[m] /\ l_inode'[m] = l_inode[m] /\ l_hashed'[m] = l_hashed[m]
  <2>1. Used(l) => l_hashed'[l] = l_hashed[l]
    BY <1>3, <1>7 DEF StackInv, TypeOK, LooksUp, Stands
  <2> QED
    BY <1>3, <1>7, <2>1
<1>9. /\ entry' = entry /\ isdir' = isdir /\ lower_inode' = lower_inode /\ i_count' = i_count
      /\ files' = files
  BY DEF LooksUp, lowerfs, uinode
<1> QED
  BY <1>1, <1>2, <1>3, <1>4, <1>5, <1>6, <1>7, <1>8, <1>9 DEF LookupEffect

(* The dentries there were are as they were.                               *)
LookupView(p, n, d) ==
  /\ \A e \in Upper : e # d =>
       /\ InUse(e)' = InUse(e) /\ Positive(e)' = Positive(e) /\ Negative(e)' = Negative(e)
       /\ IsDir(e)' = IsDir(e) /\ Present(e)' = Present(e)
       /\ InUse(e) => LowerIno(e)' = LowerIno(e)
       /\ InUse(e) /\ Backed(lower_path[e]) => Backed(lower_path[e])'
  /\ InUse(d)' /\ LowerIno(d)' = entry[LowerIno(p)][n]
  /\ d_inode[d] = 0 /\ d \notin i_new
  /\ \A e \in Upper : InUse(e) /\ e # 1 => d_at[e][1] # d

(* It changes nothing that the dentries there were show.                   *)
LEMMA LookupSees ==
  ASSUME StackInv, NEW p, NEW n, NEW d, NEW l, NEW u, NEW hashed,
         LookupEffect(p, n, d, l, u, hashed)
  PROVE  LookupView(p, n, d)
<1>1. \A e \in Upper : e # d /\ InUse(e) =>
        lower_path[e] \in Lower /\ lower_path'[e] = lower_path[e]
        /\ l_at'[lower_path[e]] = l_at[lower_path[e]] /\ l_inode'[lower_path[e]] = l_inode[lower_path[e]]
        /\ l_hashed'[lower_path[e]] = l_hashed[lower_path[e]]
  BY InPlace DEF LookupEffect
<1>2. \A e \in Upper : e # d =>
        /\ d_at'[e] = d_at[e] /\ d_inode'[e] = d_inode[e] /\ d_hashed'[e] = d_hashed[e]
        /\ lower_path'[e] = lower_path[e] /\ (e \in i_new' <=> e \in i_new)
  BY DEF LookupEffect
<1>3. entry' = entry /\ isdir' = isdir /\ ~InUse(d) /\ d \in Upper /\ lower_path'[d] = l
      /\ l \in Lower /\ l_inode'[l] = entry[LowerIno(p)][n]
  BY DEF LookupEffect
<1>4. \A e \in Upper : e # d =>
        /\ InUse(e)' = InUse(e) /\ Positive(e)' = Positive(e) /\ Negative(e)' = Negative(e)
        /\ InUse(e) => LowerIno(e)' = LowerIno(e)
  BY <1>1, <1>2 DEF InUse, Positive, Negative, LowerIno
<1>5. \A e \in Upper : e # d => IsDir(e)' = IsDir(e)
  BY <1>3, <1>4 DEF IsDir, Positive
<1>6. \A e \in Upper : e # d => Present(e)' = Present(e)
  BY <1>2, <1>4 DEF Present
<1>7. \A e \in Upper : e # d /\ InUse(e) /\ Backed(lower_path[e]) => Backed(lower_path[e])'
  BY <1>1, <1>3 DEF Backed
<1>8. InUse(d)' /\ LowerIno(d)' = entry[LowerIno(p)][n]
  BY <1>3, Numbers DEF InUse, LowerIno
<1>9. d_inode[d] = 0 /\ d \notin i_new
  BY <1>3 DEF StackInv, Stacked, Unborn
<1>10. \A e \in Upper : InUse(e) /\ e # 1 => d_at[e][1] # d
  BY <1>3, InPlace
<1> QED
  BY <1>4, <1>5, <1>6, <1>7, <1>8, <1>9, <1>10 DEF LookupView

(* A lookup keeps the upper part of the invariant.                         *)
LEMMA LookupKeepsUpper ==
  ASSUME StackInv, NEW p, NEW n, NEW d, NEW l, NEW u, NEW hashed,
         LooksUp(p, n, d, l, u, hashed),
         LookupEffect(p, n, d, l, u, hashed), LookupView(p, n, d)
  PROVE  TypeOK' /\ RootStands' /\ Stacked' /\ InodesOfDentries'
<1> DEFINE j == entry[LowerIno(p)][n]
<1>1. TypeOK'
  <2>1. LowerIno(p) \in Inodes /\ j \in Inodes \cup {0}
    BY LowerFound DEF LooksUp
  <2>2. /\ l_count[l] + 1 \in Nat /\ mnt_count + 1 \in Nat
    BY DEF LookupEffect, StackInv, TypeOK
  <2>3. /\ d_at' \in [Upper -> (Upper \cup {0}) \X (Names \cup {NoName})]
        /\ d_inode' \in [Upper -> Objs \cup {0}] /\ d_hashed' \in [Upper -> BOOLEAN]
        /\ lower_path' \in [Upper -> Lower \cup {0}]
    BY DEF LookupEffect, LooksUp, Stands, StackInv, TypeOK
  <2>4. /\ l_at' \in [Lower -> (Inodes \cup {0}) \X (Names \cup {NoName})]
        /\ l_inode' \in [Lower -> Inodes \cup {0}] /\ l_hashed' \in [Lower -> BOOLEAN]
    BY <2>1 DEF LookupEffect, LooksUp, Stands, StackInv, TypeOK
  <2>5. l_count' \in [Lower -> Nat] /\ mnt_count' \in Nat
    BY <2>2 DEF LookupEffect, LooksUp, Stands, path_get, StackInv, TypeOK
  <2>6. i_new' \subseteq Upper
    BY DEF LookupEffect, LooksUp, Gives, StackInv, TypeOK
  <2>7. failed' \subseteq Lasting
    BY DEF LooksUp, Recorded
  <2> QED
    BY <2>3, <2>4, <2>5, <2>6, <2>7 DEF LookupEffect, StackInv, TypeOK
<1>2. RootStands'
  BY Numbers DEF LookupEffect, StackInv, RootStands
<1>3. Stacked'
  <2>1. \A e \in Upper : (~InUse(e))' => Unborn(e)'
    <3> SUFFICES ASSUME NEW e \in Upper, (~InUse(e))'
                 PROVE  Unborn(e)'
      OBVIOUS
    <3>1. e # d /\ Unborn(e)
      BY DEF LookupView, StackInv, Stacked
    <3> QED
      BY <3>1 DEF LookupEffect, Unborn
  <2>2. d_hashed'[d] => Positive(d)'
    <3>1. d_hashed'[d] => u \in Objs /\ i_new' = i_new
      BY DEF LookupEffect, LooksUp, Gives, Matching
    <3> QED
      BY <3>1, Numbers DEF LookupEffect, LookupView, Positive
  <2>3. \A e \in Upper : d_hashed'[e] => Positive(e)'
    BY <2>2 DEF LookupEffect, LookupView, StackInv, Stacked
  <2>4. (d_at[d][1] \in Upper /\ IsDir(d_at[d][1]))'
    BY DEF LookupEffect, LookupView, LooksUp, Looks
  <2>5. \A e \in Upper : e # d /\ InUse(e) /\ e # 1 => (d_at[e][1] \in Upper /\ IsDir(d_at[e][1]))'
    <3> SUFFICES ASSUME NEW e \in Upper, e # d, InUse(e), e # 1
                 PROVE  (d_at[e][1] \in Upper /\ IsDir(d_at[e][1]))'
      OBVIOUS
    <3>1. PICK x : x = d_at[e][1]
      OBVIOUS
    <3>2. x \in Upper /\ IsDir(x) /\ x # d
      BY <3>1, InPlace DEF LookupView
    <3>3. IsDir(x)' /\ d_at'[e][1] = x
      BY <3>1, <3>2 DEF LookupEffect, LookupView
    <3> QED
      BY <3>2, <3>3
  <2>6. \A f \in Files : (files[f] # 0 => InUse(files[f]))'
    <3> SUFFICES ASSUME NEW f \in Files, files[f] # 0
                 PROVE  InUse(files[f])'
      BY DEF LookupEffect
    <3>1. files[f] \in Upper /\ InUse(files[f])
      BY DEF StackInv, TypeOK, Stacked
    <3> QED
      BY <3>1 DEF LookupEffect, LookupView
  <2> QED
    BY <2>1, <2>3, <2>4, <2>5, <2>6 DEF LookupView, Stacked
<1>4. InodesOfDentries'
  <2>1. \A e \in Upper : d_inode'[e] # 0 => (LowerIno(e) # 0)'
    <3>1. d_inode'[d] # 0 => (LowerIno(d) # 0)'
      BY DEF LookupEffect, LookupView, LooksUp, Gives
    <3>2. \A e \in Upper : e # d /\ d_inode[e] # 0 => (LowerIno(e) # 0)'
      BY InPlace DEF LookupView, StackInv, InodesOfDentries
    <3> QED
      BY <3>1, <3>2 DEF LookupEffect
  <2>2. \A e \in Upper : Positive(e)' => (lower_inode[d_inode[e]] = LowerIno(e))'
    <3>1. Positive(d)' => (lower_inode[d_inode[d]] = LowerIno(d))'
      <4>1. Positive(d)' => lower_inode[u] = j
        BY DEF LookupEffect, LooksUp, Gives, Matching, Positive
      <4> QED
        BY <4>1 DEF LookupEffect, LookupView
    <3>2. \A e \in Upper : e # d /\ Positive(e) => (lower_inode[d_inode[e]] = LowerIno(e))'
      BY InPlace DEF LookupEffect, LookupView, StackInv, InodesOfDentries, Positive
    <3> QED
      BY <3>1, <3>2 DEF LookupView
  <2>3. \A e \in Upper : e \in i_new' =>
          /\ d_inode'[e] # 0 /\ lower_inode'[d_inode'[e]] = 0
          /\ \A x \in Upper : d_inode'[x] = d_inode'[e] => x = e
    <3>1. u # 0 => \A e \in i_new : d_inode[e] # u
      <4>1. u # 0 => (u \in Matching(j) /\ j # 0) \/ u \in FreeObjs
        BY DEF LooksUp, Gives
      <4>2. \A e \in i_new : lower_inode[d_inode[e]] = 0 /\ e \in Upper
        BY DEF StackInv, InodesOfDentries, TypeOK
      <4> QED
        BY <4>1, <4>2 DEF Matching, FreeObjs
    <3>2. d \in i_new' => /\ u # 0 /\ lower_inode[u] = 0
                          /\ \A x \in Upper : d_inode[x] # u
      <4>1. d \in i_new' => u \in FreeObjs
        BY DEF LookupView, LooksUp, Gives
      <4> QED
        BY <4>1, Numbers DEF FreeObjs
    <3>3. \A e \in Upper : e \in i_new => d_inode[e] # 0 /\ lower_inode[d_inode[e]] = 0
            /\ \A x \in Upper : d_inode[x] = d_inode[e] => x = e
      BY DEF StackInv, InodesOfDentries
    <3> QED
      BY <3>1, <3>2, <3>3 DEF LookupEffect, LookupView
  <2>4. \A v \in Objs : lower_inode'[v] # 0 => \E e \in Upper : Positive(e)' /\ d_inode'[e] = v
    <3> SUFFICES ASSUME NEW v \in Objs, lower_inode[v] # 0
                 PROVE  \E e \in Upper : Positive(e)' /\ d_inode'[e] = v
      BY DEF LookupEffect
    <3>1. PICK e \in Upper : Positive(e) /\ d_inode[e] = v
      BY DEF StackInv, InodesOfDentries
    <3>2. e # d
      BY <3>1 DEF LookupView, Positive
    <3> QED
      BY <3>1, <3>2 DEF LookupEffect, LookupView
  <2>5. i_new' \subseteq Upper
    BY <1>1 DEF TypeOK
  <2> QED
    BY <2>1, <2>2, <2>3, <2>4, <2>5 DEF InodesOfDentries
<1> QED
  BY <1>1, <1>2, <1>3, <1>4

(* A lookup takes the references of its dentry and sets up no inode twice. *)
LEMMA LookupKeepsLower ==
  ASSUME StackInv, NEW p, NEW n, NEW d, NEW l, NEW u, NEW hashed,
         LooksUp(p, n, d, l, u, hashed),
         LookupEffect(p, n, d, l, u, hashed), LookupView(p, n, d)
  PROVE  RefsKept' /\ LowerCache' /\ ("race" \notin failed' => SetUpOnce')
<1> DEFINE j == entry[LowerIno(p)][n]
<1>0. failed \subseteq failed'
  BY DEF LooksUp, Recorded
<1>1. RefsKept'
  <2>1. /\ d \in Upper /\ l \in Lower /\ lower_path[d] = 0 /\ lower_path'[d] = l
        /\ \A e \in Upper : e # d => lower_path'[e] = lower_path[e]
        /\ \A f \in Files : files[f] # 0 => files[f] \in Upper /\ files[f] # d
    BY DEF LookupEffect, InUse, StackInv, TypeOK, Stacked
  <2>2. /\ \A k \in Lower : k # l =>
             HoldersOf(lower_path', files, k) = HoldersOf(lower_path, files, k)
        /\ HoldersOf(lower_path', files, l) = HoldersOf(lower_path, files, l) + 1
        /\ StandingOf(lower_path', files) = StandingOf(lower_path, files) + 1
    <3>1. PICK lp, lp1, fl : lp = lower_path /\ lp1 = lower_path' /\ fl = files
      OBVIOUS
    <3>2. /\ d \in Upper /\ l \in Lower /\ lp[d] = 0 /\ lp1[d] = l
          /\ \A e \in Upper : e # d => lp1[e] = lp[e]
          /\ \A f \in Files : fl[f] # 0 => fl[f] \in Upper /\ fl[f] # d
      BY <2>1, <3>1
    <3>3. /\ \A k \in Lower : k # l => HoldersOf(lp1, fl, k) = HoldersOf(lp, fl, k)
          /\ HoldersOf(lp1, fl, l) = HoldersOf(lp, fl, l) + 1
          /\ StandingOf(lp1, fl) = StandingOf(lp, fl) + 1
      BY <3>2, DentryStands
    <3> QED
      BY <3>1, <3>3
  <2>3. /\ \A k \in Lower : k # l => Holders(k)' = Holders(k)
        /\ Holders(l)' = Holders(l) + 1 /\ Standing' = Standing + 1
        /\ \A k \in Lower : Holders(k) \in Nat
        /\ Standing \in Nat
    BY <2>2, CountsNow, CountsType DEF LookupEffect
  <2>4. \A i \in Inodes : Covering(i)' = Covering(i)
    BY CountsNow DEF LookupEffect
  <2>5. \A k \in Lower : l_count[k] \in Nat
    BY DEF StackInv, TypeOK
  <2>6. mnt_count \in Nat
    BY DEF StackInv, TypeOK
  <2>7. \A k \in Lower : (/\ l_count[k] >= Holders(k)
                          /\ "record" \notin failed => l_count[k] = Holders(k))'
    BY <1>0, <2>1, <2>3, <2>5 DEF StackInv, RefsKept, LookupEffect
  <2>8. (/\ mnt_count >= Standing
         /\ "record" \notin failed => mnt_count = Standing)'
    BY <1>0, <2>3, <2>6 DEF StackInv, RefsKept, LookupEffect
  <2>9. ("inode" \notin failed => \A i \in Inodes : i_count[i] = Covering(i))'
    BY <1>0, <2>4 DEF StackInv, RefsKept, LookupEffect
  <2> QED
    BY <2>7, <2>8, <2>9 DEF RefsKept
<1>2. LowerCache'
  <2>1. /\ LowerIno(p) \in Inodes /\ n \in Names
        /\ \A m \in Lower : Used(m) /\ l_hashed[m] /\ l_at[m] = <<LowerIno(p), n>> => m = l
    <3>1. Looks(p, n, d) /\ l \in DentryFor(LowerIno(p), n) /\ n \in Names
      BY DEF LooksUp, Looks
    <3> QED
      BY <3>1, LowerFound
  <2>2. \A m \in Lower : m # l => (Used(m)' <=> Used(m))
    BY DEF LookupEffect, Used
  <2>3. \A m \in Lower \ {1} : (Used(m) => l_at[m] \in Inodes \X Names)'
    <3>1. l_at'[l] \in Inodes \X Names
      BY <2>1 DEF LookupEffect
    <3>2. \A m \in Lower \ {1} : m # l => l_at'[m] = l_at[m] /\ (Used(m) => l_at[m] \in Inodes \X Names)
      BY DEF LookupEffect, StackInv, LowerCache
    <3> QED
      BY <2>2, <3>1, <3>2
  <2>4. \A m \in Lower \ {1} : (Used(m) /\ l_hashed[m] => l_inode[m] = entry[l_at[m][1]][l_at[m][2]])'
    BY <2>1, <2>2 DEF LookupEffect, StackInv, LowerCache
  <2>5. \A m, k \in Lower :
          (Used(m) /\ Used(k) /\ l_hashed[m] /\ l_hashed[k] /\ l_at[m] = l_at[k] => m = k)'
    BY <2>1, <2>2 DEF LookupEffect, StackInv, LowerCache
  <2> QED
    BY <2>3, <2>4, <2>5 DEF LowerCache
<1>3. ASSUME "race" \notin failed'
      PROVE  SetUpOnce'
  <2>1. SetUpOnce
    BY <1>0, <1>3 DEF StackInv
  <2>2. \A e \in Upper : e \in i_new => e # d /\ InUse(e)
    BY InPlace DEF LookupView
  <2>3. \A e \in i_new : e \in Upper /\ LowerIno(e)' = LowerIno(e)
    BY <2>2 DEF LookupView, StackInv, TypeOK
  <2>4. i_new' = i_new
        \/ /\ i_new' = i_new \cup {d} /\ Matching(j) = {}
           /\ \A e \in i_new : LowerIno(e) # j
    BY <1>3 DEF LooksUp, Gives
  <2>5. \A x : Matching(x)' = Matching(x)
    BY DEF Matching, LookupEffect
  <2>6. LowerIno(d)' = j
    BY DEF LookupView
  <2>7. \A e \in i_new' : (Matching(LowerIno(e)) = {})'
    <3> SUFFICES ASSUME NEW e \in i_new'
                 PROVE  (Matching(LowerIno(e)) = {})'
      OBVIOUS
    <3>1. PICK x : x = LowerIno(e)'
      OBVIOUS
    <3>2. Matching(x) = {}
      BY <2>1, <2>3, <2>4, <2>6, <3>1 DEF SetUpOnce
    <3> QED
      BY <2>5, <3>1, <3>2 DEF Matching
  <2>8. \A e, x \in i_new' : LowerIno(e)' = LowerIno(x)' => e = x
    BY <2>1, <2>3, <2>4, <2>6 DEF SetUpOnce
  <2> QED
    BY <2>1, <2>7, <2>8 DEF SetUpOnce, LookupEffect
<1> QED
  BY <1>1, <1>2, <1>3

(* While no lookup of it is under way, no dentry of a lower directory that *)
(* has no upper inode is being set up.                                     *)
LEMMA NoOtherName ==
  ASSUME StackInv, "record" \notin failed, NEW p, NEW n, NEW d, Looks(p, n, d),
         Matching(entry[LowerIno(p)][n]) = {}, entry[LowerIno(p)][n] \in isdir,
         NEW e \in Upper, d_inode[e] # 0
  PROVE  LowerIno(e) # entry[LowerIno(p)][n]
<1> DEFINE i == LowerIno(p)
           j == entry[i][n]
<1> SUFFICES ASSUME LowerIno(e) = j
             PROVE  FALSE
  OBVIOUS
<1>1. p \in Upper /\ IsDir(p) /\ n \in Names /\ i \in Inodes /\ j \in Inodes /\ j # Root
  BY LowerFound, InPlace DEF Looks, StackInv, OneName, TypeOK
<1>2. e \in i_new
  <2>1. ~Positive(e)
    BY InPlace DEF StackInv, InodesOfDentries, Matching
  <2> QED
    BY <2>1, InPlace DEF Positive
<1>3. e # 1 /\ Present(e) /\ InUse(e)
  BY <1>2, InPlace DEF Positive, Present
<1>4. /\ Backed(lower_path[e])
      /\ l_at[lower_path[e]] = <<LowerIno(d_at[e][1]), d_at[e][2]>>
  BY <1>2, <1>3 DEF StackInv, Placed
<1>5. l_at[lower_path[e]] \in Inodes \X Names
  BY <1>3, InPlace
<1>6. PICK k \in Inodes, m \in Names : l_at[lower_path[e]] = <<k, m>>
  BY <1>5
<1>7. entry[k][m] = j /\ k = LowerIno(d_at[e][1])
  BY <1>4, <1>6 DEF Backed, LowerIno
<1>8. k = i
  BY <1>1, <1>7 DEF StackInv, OneName
<1>9. d_at[e][1] = p
  BY <1>1, <1>3, <1>7, <1>8, InPlace DEF StackInv, OneName, IsDir
<1>10. Locked(p)
  BY <1>2, <1>9 DEF Locked, Busy
<1> QED
  BY <1>10 DEF Looks

(* The dentry of a lookup has its place to itself.                         *)
LEMMA LookupKeepsNames ==
  ASSUME StackInv, NEW p, NEW n, NEW d, NEW l, NEW u, NEW hashed,
         LooksUp(p, n, d, l, u, hashed),
         LookupEffect(p, n, d, l, u, hashed), LookupView(p, n, d),
         "record" \notin failed'
  PROVE  OneName' /\ Placed'
<1> DEFINE j == entry[LowerIno(p)][n]
<1>0. "record" \notin failed /\ OneName /\ Placed
  BY DEF LooksUp, Recorded, StackInv
<1>1. OneName'
  <2>1. (\A i, k \in Inodes, x, m \in Names :
          entry[i][x] \in isdir /\ entry[k][m] = entry[i][x] => i = k /\ x = m)'
    BY <1>0 DEF OneName, LookupEffect
  <2>2. (\A i \in Inodes, x \in Names : entry[i][x] # Root)'
    BY <1>0 DEF OneName, LookupEffect
  <2>3. \A m \in Lower \ {1} : (Used(m) /\ l_inode[m] \in isdir /\ Named(l_inode[m]) => l_hashed[m])'
    <3>1. \A m \in Lower : m # l => (Used(m)' <=> Used(m))
      BY DEF LookupEffect, Used
    <3>2. \A x : Named(x)' = Named(x)
      BY DEF LookupEffect, Named
    <3> QED
      BY <1>0, <3>1, <3>2 DEF OneName, LookupEffect
  <2>4. u # 0 /\ j \in isdir => \A e \in Upper : d_inode[e] # 0 => LowerIno(e) # j
    <3>1. u # 0 /\ j \in isdir => Matching(j) = {}
      BY Numbers DEF LooksUp, Gives
    <3>2. Looks(p, n, d)
      BY DEF LooksUp
    <3> QED
      BY <1>0, <3>1, <3>2, NoOtherName
  <2>5. \A e \in Upper : d_inode[e] # 0 => e # d /\ LowerIno(e)' = LowerIno(e)
    BY InPlace DEF LookupView
  <2>6. \A x, e \in Upper :
          /\ d_inode'[x] # 0 /\ d_inode'[e] # 0
          /\ LowerIno(x)' = LowerIno(e)' /\ LowerIno(x)' \in isdir
          => x = e
    <3> SUFFICES ASSUME NEW x \in Upper, NEW e \in Upper,
                        d_inode'[x] # 0, d_inode'[e] # 0,
                        LowerIno(x)' = LowerIno(e)', LowerIno(x)' \in isdir, x # e
                 PROVE  FALSE
      OBVIOUS
    <3>1. CASE x # d /\ e # d
      BY <1>0, <2>5, <3>1 DEF OneName, LookupEffect
    <3>2. CASE x = d
      BY <2>4, <2>5, <3>2 DEF LookupEffect, LookupView
    <3>3. CASE e = d
      BY <2>4, <2>5, <3>3 DEF LookupEffect, LookupView
    <3> QED
      BY <3>1, <3>2, <3>3
  <2> QED
    BY <2>1, <2>2, <2>3, <2>6 DEF OneName, LookupEffect
<1>2. \A e \in Upper : Present(e) => InUse(e) /\ e # d
  BY PresentInUse DEF LookupEffect
<1>3. l_at'[lower_path'[d]] = <<LowerIno(d_at[d][1])', d_at'[d][2]>>
  <2>1. LowerIno(p)' = LowerIno(p)
    BY InPlace DEF LookupView, LookupEffect, LooksUp, Looks
  <2> QED
    BY <2>1 DEF LookupEffect
<1>4. \A e \in Upper \ {1} : e # d /\ Present(e) =>
        (l_at[lower_path[e]] = <<LowerIno(d_at[e][1]), d_at[e][2]>>)'
  <2> SUFFICES ASSUME NEW e \in Upper \ {1}, e # d, Present(e)
               PROVE  (l_at[lower_path[e]] = <<LowerIno(d_at[e][1]), d_at[e][2]>>)'
    OBVIOUS
  <2>1. PICK x, m : x = d_at[e][1] /\ m = lower_path[e]
    OBVIOUS
  <2>2. InUse(e) /\ l_at[m] = <<LowerIno(x), d_at[e][2]>>
    BY <1>0, <1>2, <2>1 DEF Placed
  <2>3. m \in Lower /\ Used(m) /\ x \in Upper /\ InUse(x)
    BY <2>1, <2>2, InPlace
  <2>4. l_at'[m] = l_at[m] /\ LowerIno(x)' = LowerIno(x)
    BY <2>1, <2>2, <2>3 DEF LookupEffect, LookupView
  <2>5. d_at'[e] = d_at[e] /\ lower_path'[e] = m
    BY <2>1 DEF LookupEffect
  <2> QED
    BY <2>1, <2>2, <2>4, <2>5
<1>5. \A e \in Upper : Present(e) => d_at[e] # <<p, n>>
  <2> SUFFICES ASSUME NEW e \in Upper, Present(e), d_at[e] = <<p, n>>
               PROVE  FALSE
    OBVIOUS
  <2>1. ~d_hashed[e] /\ ~Locked(p)
    BY DEF LooksUp, Looks
  <2>2. Negative(e) \/ e \in i_new
    BY <2>1 DEF Present
  <2> QED
    BY <2>1, <2>2 DEF Locked, Busy
<1>6. (\A x, e \in Upper : Present(x) /\ Present(e) /\ d_at[x] = d_at[e] => x = e)'
  <2>1. \A e \in Upper : e # d => (Present(e)' <=> Present(e)) /\ d_at'[e] = d_at[e]
    BY DEF LookupEffect, LookupView
  <2>2. d_at'[d] = <<p, n>>
    BY DEF LookupEffect
  <2>3. \A x, e \in Upper : Present(x)' /\ Present(e)' /\ d_at'[x] = d_at'[e] => x = e
    BY <1>0, <1>5, <2>1, <2>2 DEF Placed
  <2> QED
    BY <2>3
<1>7. \A e \in Upper \ {1} : e # d => (d_hashed[e] \/ e \in i_new => Backed(lower_path[e]))'
  BY <1>0, <1>2 DEF Placed, Present, LookupEffect, LookupView
<1>8. (d_hashed[d] \/ d \in i_new => Backed(lower_path[d]))'
  <2>1. (d_hashed[d] \/ d \in i_new)' => j # 0
    BY DEF LookupEffect, LookupView, LooksUp, Gives
  <2> QED
    BY <2>1 DEF Backed, LookupEffect
<1>9. Placed'
  <2>1. \A e \in Upper : e # d => (Present(e)' <=> Present(e))
    BY DEF LookupView
  <2> QED
    BY <1>3, <1>4, <1>6, <1>7, <1>8, <2>1 DEF Placed
<1> QED
  BY <1>1, <1>9

(* So a lookup that makes a dentry keeps the invariant.                    *)
LEMMA LookupKeeps ==
  ASSUME StackInv, NEW p, NEW n, NEW d, NEW l, NEW u, NEW hashed,
         LooksUp(p, n, d, l, u, hashed)
  PROVE  StackInv'
<1>1. LookupEffect(p, n, d, l, u, hashed)
  BY LookupSteps
<1>2. LookupView(p, n, d)
  BY <1>1, LookupSees
<1>3. TypeOK' /\ RootStands' /\ Stacked' /\ InodesOfDentries'
  BY <1>1, <1>2, LookupKeepsUpper
<1>4. RefsKept' /\ LowerCache' /\ ("race" \notin failed' => SetUpOnce')
  BY <1>1, <1>2, LookupKeepsLower
<1>5. "record" \notin failed' => OneName' /\ Placed'
  BY <1>1, <1>2, LookupKeepsNames
<1> QED
  BY <1>3, <1>4, <1>5 DEF StackInv

-----------------------------------------------------------------------------
(* The parts of the invariant that an action leaves alone.                 *)
(* What the dentries show.                                                 *)
LEMMA SameView ==
  ASSUME UNCHANGED <<d_inode, lower_path, l_inode, i_new>>
  PROVE  \A d \in Upper : /\ LowerIno(d)' = LowerIno(d) /\ InUse(d)' = InUse(d)
                          /\ Positive(d)' = Positive(d) /\ Negative(d)' = Negative(d)
BY DEF LowerIno, InUse, Positive, Negative

(* Which of them are directories.                                          *)
LEMMA SameDirs ==
  ASSUME UNCHANGED <<d_inode, lower_path, l_inode, i_new, isdir>>
  PROVE  \A d \in Upper : IsDir(d)' = IsDir(d)
BY DEF LowerIno, InUse, Positive, IsDir

(* The root.                                                               *)
LEMMA SameRoot ==
  ASSUME StackInv, UNCHANGED <<lower_path, d_inode, lower_inode, i_new, l_at, l_inode, isdir>>
  PROVE  RootStands'
BY DEF StackInv, RootStands

(* The inodes of the dentries.                                             *)
LEMMA SameInodes ==
  ASSUME StackInv, UNCHANGED <<d_inode, lower_path, l_inode, i_new, lower_inode>>
  PROVE  InodesOfDentries'
BY DEF StackInv, InodesOfDentries, LowerIno, InUse, Positive

(* The references, with the same objects and counts.                       *)
LEMMA SameRefs ==
  ASSUME StackInv, Recorded, UNCHANGED <<l_count, mnt_count, lower_path, files, lower_inode>>,
         "inode" \notin failed' => i_count' = i_count
  PROVE  RefsKept'
<1>1. \A l : Holders(l)' = Holders(l)
  BY DEF Holders
<1>2. Standing' = Standing
  BY DEF Standing, InUse
<1>3. \A i : Covering(i)' = Covering(i)
  BY DEF Covering
<1> QED
  BY <1>1, <1>2, <1>3 DEF StackInv, RefsKept, Recorded

(* The lower cache, where at most uses of it end.                          *)
LEMMA SameLower ==
  ASSUME StackInv, UNCHANGED <<l_at, l_inode, l_hashed, entry>>,
         \A l \in Lower : l_count'[l] > 0 => Used(l)
  PROVE  LowerCache'
BY DEF StackInv, LowerCache, Used

(* The inodes that are set up.                                             *)
LEMMA SameSetUp ==
  ASSUME StackInv, Recorded, UNCHANGED <<lower_inode, i_new, l_inode, lower_path>>
  PROVE  "race" \notin failed' => SetUpOnce'
BY DEF StackInv, SetUpOnce, Recorded, Matching, LowerIno

(* The names of directories.                                               *)
LEMMA SameNames ==
  ASSUME StackInv, Recorded,
         UNCHANGED <<entry, isdir, l_inode, l_hashed, d_inode, lower_path>>,
         \A l \in Lower : l_count'[l] > 0 => Used(l)
  PROVE  "record" \notin failed' => OneName'
BY DEF StackInv, OneName, Recorded, Named, Used, LowerIno

(* Dentries that keep their place and are no longer found.                 *)
LEMMA SamePlaces ==
  ASSUME StackInv, Recorded,
         UNCHANGED <<entry, l_at, l_inode, l_hashed, d_at, d_inode, lower_path, i_new>>,
         \A d \in Upper : d_hashed'[d] => d_hashed[d]
  PROVE  "record" \notin failed' => Placed'
<1> SUFFICES ASSUME "record" \notin failed'
             PROVE  Placed'
  OBVIOUS
<1>1. Placed
  BY DEF StackInv, Recorded
<1>2. \A d \in Upper : Present(d)' => Present(d)
  BY DEF Present, Negative, InUse
<1>3. \A d \in Upper : LowerIno(d)' = LowerIno(d)
  BY DEF LowerIno
<1>4. \A l : Backed(l)' = Backed(l)
  BY DEF Backed
<1>5. \A d \in Upper \ {1} : Present(d) =>
        (l_at[lower_path[d]] = <<LowerIno(d_at[d][1]), d_at[d][2]>>)'
  BY <1>1 DEF Placed, LowerIno
<1>6. \A d, e \in Upper : Present(d)' /\ Present(e)' /\ d_at'[d] = d_at'[e] => d = e
  BY <1>1, <1>2 DEF Placed
<1>7. \A d \in Upper \ {1} : d_hashed'[d] \/ d \in i_new' => Backed(lower_path[d])'
  BY <1>1 DEF Placed, Backed
<1> QED
  BY <1>2, <1>5, <1>6, <1>7 DEF Placed

(* The dentry of an open file is in use.                                   *)
LEMMA FilesInUse ==
  ASSUME StackInv
  PROVE  \A f \in Files : files[f] # 0 => InUse(files[f])
BY DEF StackInv, Stacked

(* What stays stacked while dentries are only unhashed.                    *)
LEMMA SameStacked ==
  ASSUME StackInv, UNCHANGED <<d_at, d_inode, lower_path, l_inode, i_new, isdir>>,
         \A d \in Upper : d_hashed'[d] => d_hashed[d],
         \A f \in Files : files'[f] # 0 => InUse(files'[f])
  PROVE  Stacked'
<1>1. \A d \in Upper : /\ InUse(d)' = InUse(d) /\ Positive(d)' = Positive(d)
                       /\ IsDir(d)' = IsDir(d)
  BY SameView, SameDirs
<1>2. \A d \in Upper : Unborn(d) => Unborn(d)'
  BY DEF Unborn
<1>3. \A d \in Upper : (InUse(d) /\ d # 1 => d_at[d][1] \in Upper /\ IsDir(d_at[d][1]))'
  <2> SUFFICES ASSUME NEW d \in Upper, InUse(d), d # 1
               PROVE  (d_at[d][1] \in Upper /\ IsDir(d_at[d][1]))'
    BY <1>1
  <2>1. PICK x : x = d_at[d][1]
    OBVIOUS
  <2>2. x \in Upper /\ IsDir(x)
    BY <2>1 DEF StackInv, Stacked
  <2>3. IsDir(x)' /\ d_at'[d][1] = x
    BY <1>1, <2>1, <2>2
  <2> QED
    BY <2>2, <2>3
<1>4. \A f \in Files : (files[f] # 0 => InUse(files[f]))'
  BY DEF StackInv, Stacked, InUse
<1> QED
  BY <1>1, <1>2, <1>3, <1>4 DEF StackInv, Stacked

(* A step that changes nothing.                                            *)
LEMMA Stutters ==
  ASSUME StackInv, UNCHANGED vars
  PROVE  StackInv'
<1>0. /\ UNCHANGED <<entry, isdir, l_at, l_inode, l_hashed, l_count, mnt_count, i_count>>
      /\ UNCHANGED <<d_at, d_inode, d_hashed, lower_path, i_new, lower_inode, files, failed>>
      /\ Recorded
  BY DEF vars, stack, lowerfs, ldentry, counts, udentry, uinode, Recorded, StackInv, TypeOK
<1>1. TypeOK'
  BY <1>0 DEF StackInv, TypeOK
<1>2. RootStands' /\ Stacked' /\ InodesOfDentries'
  BY <1>0, SameRoot, SameStacked, SameInodes, FilesInUse
<1>3. RefsKept' /\ LowerCache'
  BY <1>0, SameRefs, SameLower DEF Used
<1>4. /\ "race" \notin failed' => SetUpOnce'
      /\ "record" \notin failed' => OneName' /\ Placed'
  BY <1>0, SameSetUp, SameNames, SamePlaces DEF Used
<1> QED
  BY <1>1, <1>2, <1>3, <1>4 DEF StackInv

(* The iput that wrapfs_iget owes nobody.                                  *)
LEMMA LookupFailsKeeps ==
  ASSUME StackInv, NEW p \in Upper, NEW n \in Names, IsDir(p), LookupFails(p, n)
  PROVE  StackInv'
<1>1. CASE UNCHANGED vars
  BY <1>1, Stutters
<1>2. ASSUME NEW j \in Inodes, Lasts("inode"), i_count' = [i_count EXCEPT ![j] = @ - 1],
             UNCHANGED <<lowerfs, ldentry, counts, udentry, lower_inode, files>>
      PROVE  StackInv'
  <2>0. /\ UNCHANGED <<entry, isdir, l_at, l_inode, l_hashed, l_count, mnt_count>>
        /\ UNCHANGED <<d_at, d_inode, d_hashed, lower_path, i_new, lower_inode, files>>
    BY <1>2 DEF lowerfs, ldentry, counts, udentry
  <2>1. Recorded /\ "inode" \in failed'
    BY <1>2, LastsRecorded DEF Lasting
  <2>2. TypeOK'
    <3>1. i_count' \in [Inodes -> Int]
      BY <1>2 DEF StackInv, TypeOK
    <3> QED
      BY <2>0, <2>1, <3>1 DEF StackInv, TypeOK, Recorded
  <2>3. RootStands' /\ Stacked' /\ InodesOfDentries'
    BY <2>0, SameRoot, SameStacked, SameInodes, FilesInUse
  <2>4. RefsKept' /\ LowerCache'
    BY <2>0, <2>1, SameRefs, SameLower DEF Used
  <2>5. /\ "race" \notin failed' => SetUpOnce'
        /\ "record" \notin failed' => OneName' /\ Placed'
    BY <2>0, <2>1, SameSetUp, SameNames, SamePlaces DEF Used
  <2> QED
    BY <2>2, <2>3, <2>4, <2>5 DEF StackInv
<1>3. entry[LowerIno(p)][n] # 0 => entry[LowerIno(p)][n] \in Inodes
  BY InPlace DEF StackInv, TypeOK
<1> QED
  BY <1>1, <1>2, <1>3 DEF LookupFails, Errs, Refused

(* A dentry that no longer revalidates.                                    *)
LEMMA RevalidateKeeps ==
  ASSUME StackInv, NEW d \in Upper, wrapfs_d_revalidate(d)
  PROVE  StackInv'
<1>0. /\ UNCHANGED <<entry, isdir, l_at, l_inode, l_hashed, l_count, mnt_count, i_count>>
      /\ UNCHANGED <<d_at, d_inode, lower_path, i_new, lower_inode, files>>
      /\ d_hashed' = [d_hashed EXCEPT ![d] = FALSE] /\ Lasts("stale")
  BY DEF wrapfs_d_revalidate, d_drop, lowerfs, ldentry, counts, uinode
<1>1. Recorded
  BY <1>0, LastsRecorded DEF Lasting
<1>2. d_hashed' \in [Upper -> BOOLEAN] /\ \A e \in Upper : d_hashed'[e] => d_hashed[e]
  BY <1>0 DEF StackInv, TypeOK
<1>3. TypeOK'
  BY <1>0, <1>1, <1>2 DEF StackInv, TypeOK, Recorded
<1>4. RootStands' /\ Stacked' /\ InodesOfDentries'
  BY <1>0, <1>2, SameRoot, SameStacked, SameInodes, FilesInUse
<1>5. RefsKept' /\ LowerCache'
  BY <1>0, <1>1, SameRefs, SameLower DEF Used
<1>6. /\ "race" \notin failed' => SetUpOnce'
      /\ "record" \notin failed' => OneName' /\ Placed'
  BY <1>0, <1>1, <1>2, SameSetUp, SameNames, SamePlaces DEF Used
<1> QED
  BY <1>3, <1>4, <1>5, <1>6 DEF StackInv

-----------------------------------------------------------------------------
(* d_splice_alias moves the dentry e of a directory to name n of p.        *)
Moves(p, n, e) ==
  /\ p \in Upper /\ n \in Names /\ IsDir(p) /\ Named(LowerIno(p)) /\ ~Locked(p)
  /\ \A x \in Upper : d_hashed[x] => d_at[x] # <<p, n>>
  /\ entry[LowerIno(p)][n] \in isdir /\ Positive(e)
  /\ lower_inode[d_inode[e]] = entry[LowerIno(p)][n]
  /\ d_at' = [d_at EXCEPT ![e] = <<p, n>>] /\ d_hashed' = [d_hashed EXCEPT ![e] = TRUE]
  /\ UNCHANGED <<entry, isdir, l_at, l_inode, l_hashed, l_count, mnt_count, i_count>>
  /\ UNCHANGED <<d_inode, lower_path, i_new, lower_inode, files, failed>>

(* The effect of the move.                                                 *)
LEMMA MoveSteps ==
  ASSUME StackInv, NEW p, NEW n, NEW e \in Upper, Moves(p, n, e)
  PROVE  /\ d_at'[e] = <<p, n>> /\ d_hashed'[e]
         /\ \A x \in Upper : x # e => d_at'[x] = d_at[x] /\ d_hashed'[x] = d_hashed[x]
         /\ \A x \in Upper : /\ LowerIno(x)' = LowerIno(x) /\ InUse(x)' = InUse(x)
                             /\ Positive(x)' = Positive(x) /\ Negative(x)' = Negative(x)
                             /\ IsDir(x)' = IsDir(x)
         /\ \A m : Backed(m)' = Backed(m)
         /\ Recorded
<1>1. /\ d_at'[e] = <<p, n>> /\ d_hashed'[e]
      /\ \A x \in Upper : x # e => d_at'[x] = d_at[x] /\ d_hashed'[x] = d_hashed[x]
  BY DEF Moves, StackInv, TypeOK
<1>2. \A x \in Upper : /\ LowerIno(x)' = LowerIno(x) /\ InUse(x)' = InUse(x)
                       /\ Positive(x)' = Positive(x) /\ Negative(x)' = Negative(x)
                       /\ IsDir(x)' = IsDir(x)
  BY SameView, SameDirs DEF Moves
<1>3. \A m : Backed(m)' = Backed(m)
  BY DEF Backed, Moves
<1>4. Recorded
  BY DEF Moves, Recorded, StackInv, TypeOK
<1> QED
  BY <1>1, <1>2, <1>3, <1>4

(* The directory's one name is the one the lookup found, so its dentry     *)
(* belongs there.                                                          *)
LEMMA MoveKeeps ==
  ASSUME StackInv, NEW p, NEW n, NEW e \in Upper, Moves(p, n, e)
  PROVE  StackInv'
<1> DEFINE i == LowerIno(p)
           j == entry[i][n]
           m == lower_path[e]
<1>1. /\ d_at'[e] = <<p, n>> /\ d_hashed'[e]
      /\ \A x \in Upper : x # e => d_at'[x] = d_at[x] /\ d_hashed'[x] = d_hashed[x]
      /\ \A x \in Upper : /\ LowerIno(x)' = LowerIno(x) /\ InUse(x)' = InUse(x)
                          /\ Positive(x)' = Positive(x) /\ Negative(x)' = Negative(x)
                          /\ IsDir(x)' = IsDir(x)
      /\ \A k : Backed(k)' = Backed(k)
      /\ Recorded
  BY MoveSteps
<1>2. TypeOK'
  <2>1. /\ d_at' \in [Upper -> (Upper \cup {0}) \X (Names \cup {NoName})]
        /\ d_hashed' \in [Upper -> BOOLEAN]
    BY DEF Moves, StackInv, TypeOK
  <2> QED
    BY <2>1 DEF Moves, StackInv, TypeOK
<1>3. RootStands' /\ InodesOfDentries' /\ RefsKept' /\ LowerCache'
  BY <1>1, SameRoot, SameInodes, SameRefs, SameLower DEF Moves, Used
<1>4. /\ "race" \notin failed' => SetUpOnce'
      /\ "record" \notin failed' => OneName'
  BY <1>1, SameSetUp, SameNames DEF Moves, Used
<1>5. Stacked'
  <2>1. \A x \in Upper : Unborn(x) /\ x # e => Unborn(x)'
    BY <1>1 DEF Unborn, Moves
  <2>2. InUse(e) /\ Positive(e)
    BY DEF Moves, Positive
  <2>3. \A x \in Upper : x # e => (InUse(x) /\ x # 1 => d_at[x][1] \in Upper /\ IsDir(d_at[x][1]))'
    <3> SUFFICES ASSUME NEW x \in Upper, x # e, InUse(x), x # 1
                 PROVE  (d_at[x][1] \in Upper /\ IsDir(d_at[x][1]))'
      BY <1>1
    <3>1. PICK y : y = d_at[x][1]
      OBVIOUS
    <3>2. y \in Upper /\ IsDir(y)
      BY <3>1 DEF StackInv, Stacked
    <3> QED
      BY <1>1, <3>1, <3>2
  <2>4. (d_at[e][1] \in Upper /\ IsDir(d_at[e][1]))'
    BY <1>1 DEF Moves
  <2>5. \A f \in Files : (files[f] # 0 => InUse(files[f]))'
    BY DEF StackInv, Stacked, InUse, Moves
  <2>6. \A x \in Upper : (d_hashed[x] => Positive(x))'
    BY <1>1, <2>2 DEF StackInv, Stacked
  <2>7. \A x \in Upper : (~InUse(x))' => Unborn(x)'
    BY <1>1, <2>1, <2>2 DEF StackInv, Stacked
  <2> QED
    BY <2>3, <2>4, <2>5, <2>6, <2>7 DEF Stacked
<1>6. ASSUME "record" \notin failed'
      PROVE  Placed'
  <2>0. "record" \notin failed /\ OneName /\ Placed
    BY <1>6 DEF Moves, StackInv
  <2>1. /\ p \in Upper /\ n \in Names /\ i \in Inodes /\ j \in isdir /\ j \in Inodes
        /\ Positive(e) /\ InUse(e)
    BY InPlace DEF Moves, Positive, StackInv, TypeOK
  <2>2. LowerIno(e) = j /\ j # Root
    BY <2>0, <2>1 DEF Moves, StackInv, InodesOfDentries, OneName
  <2>3. m \in Lower /\ Used(m) /\ l_inode[m] = j /\ m # 1
    BY <2>1, <2>2, InPlace DEF LowerIno, StackInv, RootStands
  <2>4. Named(j)
    BY <2>1 DEF Named
  <2>5. l_hashed[m]
    BY <2>0, <2>1, <2>3, <2>4 DEF OneName
  <2>6. PICK k \in Inodes, c \in Names : l_at[m] = <<k, c>>
    BY <2>3 DEF StackInv, LowerCache
  <2>7. entry[k][c] = j
    BY <2>3, <2>5, <2>6 DEF StackInv, LowerCache
  <2>8. l_at[m] = <<i, n>>
    BY <2>0, <2>1, <2>6, <2>7 DEF OneName
  <2>9. Backed(m)
    BY <2>1, <2>3, <2>5, <2>8, Numbers DEF Backed
  <2>10. \A x \in Upper : Present(x) => d_at[x] # <<p, n>>
    <3> SUFFICES ASSUME NEW x \in Upper, Present(x), d_at[x] = <<p, n>>
                 PROVE  FALSE
      OBVIOUS
    <3>1. ~d_hashed[x] /\ ~Locked(p)
      BY DEF Moves
    <3>2. Negative(x) \/ x \in i_new
      BY <3>1 DEF Present
    <3> QED
      BY <3>1, <3>2 DEF Locked, Busy
  <2>11. \A x \in Upper : x # e => (Present(x)' <=> Present(x))
    BY <1>1 DEF Present, Moves
  <2>12. \A x \in Upper \ {1} : x # e /\ Present(x) =>
           (l_at[lower_path[x]] = <<LowerIno(d_at[x][1]), d_at[x][2]>>)'
    <3> SUFFICES ASSUME NEW x \in Upper \ {1}, x # e, Present(x)
                 PROVE  (l_at[lower_path[x]] = <<LowerIno(d_at[x][1]), d_at[x][2]>>)'
      OBVIOUS
    <3>1. PICK y : y = d_at[x][1]
      OBVIOUS
    <3>2. y \in Upper /\ l_at[lower_path[x]] = <<LowerIno(y), d_at[x][2]>>
      BY <2>0, <3>1, InPlace, PresentInUse DEF Placed
    <3> QED
      BY <1>1, <3>1, <3>2 DEF Moves
  <2>13. (l_at[lower_path[e]] = <<LowerIno(d_at[e][1]), d_at[e][2]>>)'
    <3>1. LowerIno(p)' = i
      BY <1>1, <2>1
    <3> QED
      BY <1>1, <2>8, <3>1 DEF Moves
  <2>14. \A x, y \in Upper : Present(x)' /\ Present(y)' /\ d_at'[x] = d_at'[y] => x = y
    BY <1>1, <2>0, <2>10, <2>11 DEF Placed
  <2>15. \A x \in Upper \ {1} : d_hashed'[x] \/ x \in i_new' => Backed(lower_path[x])'
    BY <1>1, <2>0, <2>9 DEF Placed, Moves, Backed
  <2> QED
    BY <2>11, <2>12, <2>13, <2>14, <2>15 DEF Placed
<1> QED
  BY <1>2, <1>3, <1>4, <1>5, <1>6 DEF StackInv

(* Each outcome of wrapfs_lookup is one of these changes.                  *)
LEMMA LookupKinds ==
  ASSUME StackInv, NEW p \in Upper, NEW n \in Names, wrapfs_lookup(p, n)
  PROVE  \/ \E d, l, u, hashed : LooksUp(p, n, d, l, u, hashed)
         \/ \E e \in Upper : Moves(p, n, e)
         \/ LookupFails(p, n)
<1> DEFINE i == LowerIno(p)
           j == entry[i][n]
           d == Least(FreeUpper)
<1>1. /\ IsDir(p) /\ Named(i) /\ ~Locked(p)
      /\ \A e \in Upper : d_hashed[e] => d_at[e] # <<p, n>>
      /\ Cached(i, n) \cup FreeLower # {}
  BY DEF wrapfs_lookup
<1>2. FreeUpper # {} => Looks(p, n, d)
  BY <1>1, LeastFree DEF Looks
<1>3. UNCHANGED failed => Recorded
  BY DEF Recorded, StackInv, TypeOK
<1>4. CASE LookupNegative(p, n)
  <2>1. PICK l \in DentryFor(i, n) : Stands(d, p, n, l, 0, FALSE)
    BY <1>4 DEF LookupNegative
  <2>2. Gives(d, j, 0, FALSE)
    BY <1>4 DEF LookupNegative, Gives
  <2>3. LooksUp(p, n, d, l, 0, FALSE)
    BY <1>2, <1>3, <1>4, <2>1, <2>2 DEF LookupNegative, LooksUp
  <2> QED
    BY <2>3
<1>5. CASE LookupCached(p, n)
  <2>1. PICK u \in Matching(j) :
          /\ j # 0
          /\ \/ /\ j \notin isdir /\ FreeUpper # {}
                /\ \E l \in DentryFor(i, n) : Stands(d, p, n, l, u, TRUE)
             \/ /\ j \in isdir
                /\ \E e \in Upper :
                     /\ Positive(e) /\ d_inode[e] = u
                     /\ d_at' = [d_at EXCEPT ![e] = <<p, n>>]
                     /\ d_hashed' = [d_hashed EXCEPT ![e] = TRUE]
                /\ UNCHANGED <<d_inode, lower_path, ldentry, counts>>
          /\ UNCHANGED <<lowerfs, i_new, uinode, files, failed>>
    BY <1>5 DEF LookupCached
  <2>2. ASSUME j \notin isdir, FreeUpper # {}, NEW l \in DentryFor(i, n),
               Stands(d, p, n, l, u, TRUE)
        PROVE  LooksUp(p, n, d, l, u, TRUE)
    <3>1. Gives(d, j, u, TRUE)
      BY <2>1, <2>2 DEF Gives
    <3> QED
      BY <1>2, <1>3, <2>1, <2>2, <3>1 DEF LooksUp
  <2>3. ASSUME j \in isdir, UNCHANGED <<d_inode, lower_path, ldentry, counts>>,
               NEW e \in Upper, Positive(e), d_inode[e] = u,
               d_at' = [d_at EXCEPT ![e] = <<p, n>>], d_hashed' = [d_hashed EXCEPT ![e] = TRUE]
        PROVE  Moves(p, n, e)
    <3>1. lower_inode[d_inode[e]] = j
      BY <2>1, <2>3 DEF Matching
    <3> QED
      BY <1>1, <2>1, <2>3, <3>1 DEF Moves, lowerfs, ldentry, counts, uinode
  <2> QED
    BY <2>1, <2>2, <2>3
<1>6. CASE LookupNew(p, n)
  <2>1. /\ j # 0 /\ Matching(j) = {} /\ FreeUpper # {}
        /\ \E l \in DentryFor(i, n) : Stands(d, p, n, l, New(FreeObjs, j), FALSE)
        /\ i_new' = i_new \cup {d}
        /\ IF \E e \in i_new : LowerIno(e) = j THEN Lasts("race") ELSE UNCHANGED failed
        /\ UNCHANGED <<lowerfs, uinode, files>>
    BY <1>6 DEF LookupNew
  <2>2. PICK l \in DentryFor(i, n) : Stands(d, p, n, l, New(FreeObjs, j), FALSE)
    BY <2>1
  <2>3. Recorded /\ ((\E e \in i_new : LowerIno(e) = j) => "race" \in failed')
    BY <1>3, <2>1, LastsRecorded DEF Lasting
  <2>4. New(FreeObjs, j) \in FreeObjs
    <3>1. d \in Upper /\ d_inode[d] = 0
      BY <2>1, LeastFree DEF FreeUpper, StackInv, Stacked, Unborn
    <3> QED
      BY <3>1, ObjIsFree, LeastFree
  <2>5. Gives(d, j, New(FreeObjs, j), FALSE)
    BY <2>1, <2>3, <2>4 DEF Gives
  <2>6. LooksUp(p, n, d, l, New(FreeObjs, j), FALSE)
    BY <1>2, <2>1, <2>2, <2>3, <2>5 DEF LooksUp
  <2> QED
    BY <2>6
<1> QED
  BY <1>4, <1>5, <1>6 DEF wrapfs_lookup

(* So a lookup keeps the invariant.                                        *)
LEMMA LookupActionKeeps ==
  ASSUME StackInv, NEW p \in Upper, NEW n \in Names, wrapfs_lookup(p, n)
  PROVE  StackInv'
<1>1. IsDir(p)
  BY DEF wrapfs_lookup
<1> QED
  BY <1>1, LookupKinds, LookupKeeps, MoveKeeps, LookupFailsKeeps

-----------------------------------------------------------------------------
(* wrapfs_iget has the lower inode and the new dentry is hashed.           *)
LEMMA IgetKeeps ==
  ASSUME StackInv, NEW d \in Upper, wrapfs_iget_new(d)
  PROVE  StackInv'
<1> DEFINE u == d_inode[d]
           j == LowerIno(d)
<1>0. /\ UNCHANGED <<entry, isdir, l_at, l_inode, l_hashed, l_count, mnt_count>>
      /\ UNCHANGED <<d_at, d_inode, lower_path, files, failed>> /\ Recorded
  BY DEF wrapfs_iget_new, lowerfs, ldentry, counts, Recorded, StackInv, TypeOK
<1>1. /\ d \in i_new /\ u \in Objs /\ j \in Inodes /\ InUse(d) /\ lower_inode[u] = 0
      /\ \A e \in Upper : d_inode[e] = u => e = d
      /\ ~Positive(d) /\ d # 1
  <2>1. d \in i_new
    BY DEF wrapfs_iget_new
  <2>2. u # 0 /\ lower_inode[u] = 0 /\ \A e \in Upper : d_inode[e] = u => e = d
    BY <2>1 DEF StackInv, InodesOfDentries
  <2>3. u \in Objs /\ j \in Inodes /\ InUse(d)
    BY <2>2, InPlace
  <2>4. ~Positive(d) /\ d # 1
    BY <2>1 DEF Positive, StackInv, RootStands
  <2> QED
    BY <2>1, <2>2, <2>3, <2>4
<1>2. /\ i_count' = [i_count EXCEPT ![j] = @ + 1]
      /\ lower_inode' = [lower_inode EXCEPT ![u] = j]
      /\ d_hashed' = [d_hashed EXCEPT ![d] = TRUE]
      /\ i_new' = i_new \ {d}
  BY DEF wrapfs_iget_new
<1>3. /\ d_hashed'[d] /\ \A e \in Upper : e # d => d_hashed'[e] = d_hashed[e]
      /\ lower_inode'[u] = j /\ \A v \in Objs : v # u => lower_inode'[v] = lower_inode[v]
  BY <1>1, <1>2 DEF StackInv, TypeOK
<1>4. \A e \in Upper : /\ LowerIno(e)' = LowerIno(e) /\ InUse(e)' = InUse(e)
                       /\ Negative(e)' = Negative(e) /\ Present(e)' = Present(e)
                       /\ e # d => Positive(e)' = Positive(e) /\ IsDir(e)' = IsDir(e)
                       /\ IsDir(e) => e # d
  <2>1. \A e \in Upper : LowerIno(e)' = LowerIno(e) /\ InUse(e)' = InUse(e)
    BY <1>0 DEF LowerIno, InUse
  <2>2. \A e \in Upper : Negative(e)' = Negative(e) /\ (e # d => Positive(e)' = Positive(e))
    BY <1>0, <1>2, <2>1 DEF Negative, Positive
  <2>3. \A e \in Upper : e # d => Present(e)' = Present(e)
    BY <1>2, <1>3, <2>2 DEF Present
  <2>4. Present(d)' = Present(d)
    BY <1>1, <1>3 DEF Present
  <2>5. \A e \in Upper : (e # d => IsDir(e)' = IsDir(e)) /\ (IsDir(e) => e # d)
    BY <1>0, <1>1, <2>1, <2>2 DEF IsDir
  <2> QED
    BY <2>1, <2>2, <2>3, <2>4, <2>5
<1>5. Positive(d)'
  BY <1>0, <1>1, <1>2, Numbers DEF Positive, InUse
<1>6. TypeOK'
  <2>1. /\ i_count' \in [Inodes -> Int] /\ lower_inode' \in [Objs -> Inodes \cup {0}]
        /\ d_hashed' \in [Upper -> BOOLEAN] /\ i_new' \subseteq Upper
    BY <1>1, <1>2 DEF StackInv, TypeOK
  <2> QED
    BY <1>0, <2>1 DEF StackInv, TypeOK
<1>7. RootStands'
  <2>1. u # 1
    BY <1>1, Numbers DEF StackInv, RootStands
  <2> QED
    BY <1>0, <1>2, <1>3, <2>1, Numbers DEF StackInv, RootStands
<1>8. Stacked'
  <2>1. \A e \in Upper : (~InUse(e))' => Unborn(e)'
    BY <1>0, <1>1, <1>2, <1>3, <1>4 DEF StackInv, Stacked, Unborn
  <2>2. \A e \in Upper : d_hashed'[e] => Positive(e)'
    BY <1>3, <1>4, <1>5 DEF StackInv, Stacked
  <2>3. \A e \in Upper : InUse(e) /\ e # 1 => (d_at[e][1] \in Upper /\ IsDir(d_at[e][1]))'
    <3> SUFFICES ASSUME NEW e \in Upper, InUse(e), e # 1
                 PROVE  (d_at[e][1] \in Upper /\ IsDir(d_at[e][1]))'
      OBVIOUS
    <3>1. PICK x : x = d_at[e][1]
      OBVIOUS
    <3>2. x \in Upper /\ IsDir(x)
      BY <3>1 DEF StackInv, Stacked
    <3> QED
      BY <1>0, <1>4, <3>1, <3>2
  <2>4. \A f \in Files : (files[f] # 0 => InUse(files[f]))'
    BY <1>0 DEF StackInv, Stacked, InUse
  <2> QED
    BY <1>4, <2>1, <2>2, <2>3, <2>4 DEF Stacked
<1>9. InodesOfDentries'
  <2>1. \A e \in Upper : d_inode'[e] # 0 => LowerIno(e)' # 0
    BY <1>0, <1>4 DEF StackInv, InodesOfDentries
  <2>2. \A e \in Upper : Positive(e)' => lower_inode'[d_inode'[e]] = LowerIno(e)'
    <3>1. \A e \in Upper : e # d /\ Positive(e) => d_inode[e] \in Objs /\ d_inode[e] # u
      BY <1>1, InPlace DEF Positive
    <3> QED
      BY <1>0, <1>3, <1>4, <3>1 DEF StackInv, InodesOfDentries
  <2>3. \A e \in i_new' : /\ d_inode'[e] # 0 /\ lower_inode'[d_inode'[e]] = 0
                          /\ \A x \in Upper : d_inode'[x] = d_inode'[e] => x = e
    <3>1. \A e \in i_new' : e \in i_new /\ e # d /\ e \in Upper
      BY <1>2 DEF StackInv, TypeOK
    <3>2. \A e \in i_new' : d_inode[e] \in Objs /\ d_inode[e] # u
      BY <1>1, <3>1, InPlace
    <3> QED
      BY <1>0, <1>3, <3>1, <3>2 DEF StackInv, InodesOfDentries
  <2>4. \A v \in Objs : lower_inode'[v] # 0 => \E e \in Upper : Positive(e)' /\ d_inode'[e] = v
    <3> SUFFICES ASSUME NEW v \in Objs, lower_inode'[v] # 0
                 PROVE  \E e \in Upper : Positive(e)' /\ d_inode'[e] = v
      OBVIOUS
    <3>1. CASE v = u
      BY <1>0, <1>5, <3>1
    <3>2. CASE v # u
      <4>1. PICK e \in Upper : Positive(e) /\ d_inode[e] = v
        BY <1>3, <3>2 DEF StackInv, InodesOfDentries
      <4> QED
        BY <1>0, <1>1, <1>4, <4>1
    <3> QED
      BY <3>1, <3>2
  <2> QED
    BY <2>1, <2>2, <2>3, <2>4 DEF InodesOfDentries
<1>10. RefsKept'
  <2>1. /\ \A l : Holders(l)' = Holders(l)
        /\ Standing' = Standing
    BY <1>0 DEF Holders, Standing, InUse
  <2>2. PICK i : i = j
    OBVIOUS
  <2>3. /\ \A k \in Inodes : k # i => Covering(k)' = Covering(k)
        /\ Covering(i)' = Covering(i) + 1
    <3>1. PICK li, li1 : li = lower_inode /\ li1 = lower_inode'
      OBVIOUS
    <3>2. u \in Objs /\ i \in Inodes /\ li[u] = 0 /\ li1[u] = i
          /\ \A v \in Objs : v # u => li1[v] = li[v]
      BY <1>1, <1>3, <2>2, <3>1
    <3>3. /\ \A k \in Inodes : k # i => CoveringOf(li1, k) = CoveringOf(li, k)
          /\ CoveringOf(li1, i) = CoveringOf(li, i) + 1
      BY <3>2, InodeCovers
    <3> QED
      BY <3>1, <3>3, CountsNow
  <2>4. /\ i_count'[i] = i_count[i] + 1
        /\ \A k \in Inodes : k # i => i_count'[k] = i_count[k]
    BY <1>1, <1>2, <2>2 DEF StackInv, TypeOK
  <2>5. ("inode" \notin failed)' => \A k \in Inodes : i_count'[k] = Covering(k)'
    BY <1>0, <2>3, <2>4 DEF StackInv, RefsKept
  <2> QED
    BY <1>0, <2>1, <2>5 DEF StackInv, RefsKept
<1>11. LowerCache' /\ ("record" \notin failed' => OneName')
  BY <1>0, SameLower, SameNames DEF Used
<1>12. ASSUME "race" \notin failed'
       PROVE  SetUpOnce'
  <2>0. SetUpOnce
    BY <1>0, <1>12 DEF StackInv
  <2>1. \A v \in Objs : lower_inode[v] # j
    BY <1>1, <2>0 DEF SetUpOnce, Matching
  <2>2. \A v, w \in Objs : lower_inode'[v] = lower_inode'[w] /\ lower_inode'[v] # 0 => v = w
    BY <1>1, <1>3, <2>0, <2>1 DEF SetUpOnce
  <2>3. \A e \in i_new' : e \in i_new /\ e # d /\ e \in Upper
    BY <1>2 DEF StackInv, TypeOK
  <2>4. \A e \in i_new' : Matching(LowerIno(e))' = {}
    <3> SUFFICES ASSUME NEW e \in i_new', NEW v \in Objs, lower_inode'[v] = LowerIno(e)'
                 PROVE  FALSE
      BY DEF Matching
    <3>1. LowerIno(e)' = LowerIno(e) /\ LowerIno(e) # j
      BY <1>1, <1>4, <2>0, <2>3 DEF SetUpOnce
    <3>2. lower_inode[v] = LowerIno(e)
      BY <1>3, <3>1
    <3> QED
      BY <2>0, <2>3, <3>2 DEF SetUpOnce, Matching
  <2>5. \A e, x \in i_new' : LowerIno(e)' = LowerIno(x)' => e = x
    BY <1>4, <2>0, <2>3 DEF SetUpOnce
  <2> QED
    BY <2>2, <2>4, <2>5 DEF SetUpOnce
<1>13. ASSUME "record" \notin failed'
       PROVE  Placed'
  <2>0. Placed
    BY <1>0, <1>13 DEF StackInv
  <2>1. \A e \in Upper \ {1} : Present(e) =>
          (l_at[lower_path[e]] = <<LowerIno(d_at[e][1]), d_at[e][2]>>)'
    BY <1>0, <2>0 DEF Placed, LowerIno
  <2>2. \A e, x \in Upper : Present(e)' /\ Present(x)' /\ d_at'[e] = d_at'[x] => e = x
    BY <1>0, <1>4, <2>0 DEF Placed
  <2>3. \A e \in Upper \ {1} : d_hashed'[e] \/ e \in i_new' => d_hashed[e] \/ e \in i_new
    BY <1>1, <1>2, <1>3
  <2>4. \A e \in Upper \ {1} : d_hashed'[e] \/ e \in i_new' => Backed(lower_path[e])'
    BY <1>0, <2>0, <2>3 DEF Placed, Backed
  <2> QED
    BY <1>4, <2>1, <2>2, <2>4 DEF Placed
<1> QED
  BY <1>6, <1>7, <1>8, <1>9, <1>10, <1>11, <1>12, <1>13 DEF StackInv

-----------------------------------------------------------------------------
(* An open takes the lower path of d, for a file or, without memory for    *)
(* the path in its record, for nothing.                                    *)
Opens(d) ==
  /\ Positive(d) /\ path_get(lower_path[d]) /\ Recorded
  /\ UNCHANGED <<entry, isdir, l_at, l_inode, l_hashed, i_count>>
  /\ UNCHANGED <<d_at, d_inode, d_hashed, lower_path, i_new, lower_inode>>
  /\ \/ FreeFiles # {} /\ files' = [files EXCEPT ![Least(FreeFiles)] = d]
     \/ files' = files /\ "record" \in failed'

(* An open takes one reference for its file, or for nothing once a record  *)
(* failed.                                                                 *)
LEMMA OpenKeeps ==
  ASSUME StackInv, NEW d \in Upper, Opens(d)
  PROVE  StackInv'
<1> DEFINE l == lower_path[d]
<1>1. /\ Recorded
      /\ UNCHANGED <<entry, isdir, l_at, l_inode, l_hashed, i_count>>
      /\ UNCHANGED <<d_at, d_inode, d_hashed, lower_path, i_new, lower_inode>>
  BY DEF Opens
<1>2. InUse(d) /\ d # 0 /\ l \in Lower /\ Used(l)
  BY InPlace, Numbers DEF Opens, Positive
<1>3. /\ l_count' = [l_count EXCEPT ![l] = @ + 1] /\ mnt_count' = mnt_count + 1
  BY DEF Opens, path_get
<1>4. /\ l_count'[l] = l_count[l] + 1 /\ l_count[l] \in Nat /\ mnt_count \in Nat
      /\ \A m \in Lower : m # l => l_count'[m] = l_count[m]
      /\ \A m \in Lower : l_count[m] \in Nat
  BY <1>2, <1>3 DEF StackInv, TypeOK
<1>5. \A m \in Lower : l_count'[m] > 0 => Used(m)
  BY <1>2, <1>4 DEF Used
<1>6. \/ files' = files /\ "record" \in failed'
      \/ \E g \in Files : /\ files[g] = 0 /\ files'[g] = d
                          /\ \A f \in Files : f # g => files'[f] = files[f]
                          /\ files' \in [Files -> Upper \cup {0}]
  <2>1. CASE FreeFiles # {} /\ files' = [files EXCEPT ![Least(FreeFiles)] = d]
    <3>1. PICK g : g = Least(FreeFiles)
      OBVIOUS
    <3>2. g \in Files /\ files[g] = 0
      BY <2>1, <3>1, LeastFree DEF FreeFiles
    <3>3. /\ files'[g] = d /\ \A f \in Files : f # g => files'[f] = files[f]
          /\ files' \in [Files -> Upper \cup {0}]
      BY <2>1, <3>1, <3>2 DEF StackInv, TypeOK
    <3> QED
      BY <3>2, <3>3
  <2> QED
    BY <2>1 DEF Opens
<1>7. TypeOK'
  <2>1. l_count' \in [Lower -> Nat]
    BY <1>2, <1>3, <1>4 DEF StackInv, TypeOK
  <2>2. mnt_count' \in Nat /\ files' \in [Files -> Upper \cup {0}]
    BY <1>3, <1>4, <1>6 DEF StackInv, TypeOK
  <2> QED
    BY <1>1, <2>1, <2>2 DEF StackInv, TypeOK, Recorded
<1>8. Stacked'
  <2>1. \A f \in Files : files'[f] # 0 => InUse(files'[f])
    BY <1>1, <1>2, <1>6, FilesInUse
  <2> QED
    BY <1>1, <2>1, SameStacked
<1>9. RefsKept'
  <2>1. /\ \A k \in Lower : Holders(k) \in Nat
        /\ Standing \in Nat
    BY CountsNow, CountsType
  <2>2. \A i : Covering(i)' = Covering(i)
    BY <1>1 DEF Covering
  <2>3. CASE files' = files /\ "record" \in failed'
    <3>1. \A k : Holders(k)' = Holders(k)
      BY <1>1, <2>3 DEF Holders
    <3>2. Standing' = Standing
      BY <1>1, <2>3 DEF Standing, InUse
    <3> QED
      BY <1>1, <1>3, <1>4, <2>1, <2>2, <2>3, <3>1, <3>2 DEF StackInv, RefsKept, Recorded
  <2>4. ASSUME NEW g \in Files, files[g] = 0, files'[g] = d,
               \A f \in Files : f # g => files'[f] = files[f]
        PROVE  RefsKept'
    <3>1. PICK m : m = l
      OBVIOUS
    <3>2. /\ \A k \in Lower : k # m => Holders(k)' = Holders(k)
          /\ Holders(m)' = Holders(m) + 1 /\ Standing' = Standing + 1
      <4>1. PICK lp, fl, fl1 : lp = lower_path /\ fl = files /\ fl1 = files'
        OBVIOUS
      <4>2. /\ fl[g] = 0 /\ fl1[g] \in Upper /\ lp[fl1[g]] = m /\ m \in Lower
            /\ \A f \in Files : f # g => fl1[f] = fl[f]
        BY <1>2, <2>4, <3>1, <4>1
      <4>3. /\ \A k \in Lower : k # m => HoldersOf(lp, fl1, k) = HoldersOf(lp, fl, k)
            /\ HoldersOf(lp, fl1, m) = HoldersOf(lp, fl, m) + 1
            /\ StandingOf(lp, fl1) = StandingOf(lp, fl) + 1
        BY <4>2, FileStands
      <4> QED
        BY <1>1, <1>2, <3>1, <4>1, <4>3, CountsNow
    <3>3. /\ m \in Lower /\ l_count'[m] = l_count[m] + 1
          /\ \A k \in Lower : k # m => l_count'[k] = l_count[k]
      BY <1>2, <1>4, <3>1
    <3>4. \A k \in Lower : (/\ l_count[k] >= Holders(k)
                            /\ "record" \notin failed => l_count[k] = Holders(k))'
      BY <1>1, <1>4, <2>1, <3>2, <3>3 DEF StackInv, RefsKept, Recorded
    <3>5. (/\ mnt_count >= Standing
           /\ "record" \notin failed => mnt_count = Standing)'
      BY <1>1, <1>3, <1>4, <2>1, <3>2 DEF StackInv, RefsKept, Recorded
    <3>6. ("inode" \notin failed => \A i \in Inodes : i_count[i] = Covering(i))'
      BY <1>1, <2>2 DEF StackInv, RefsKept, Recorded
    <3> QED
      BY <3>4, <3>5, <3>6 DEF RefsKept
  <2> QED
    BY <1>6, <2>3, <2>4
<1>10. RootStands' /\ InodesOfDentries' /\ LowerCache'
  BY <1>1, <1>5, SameRoot, SameInodes, SameLower
<1>11. /\ "race" \notin failed' => SetUpOnce'
       /\ "record" \notin failed' => OneName' /\ Placed'
  BY <1>1, <1>5, SameSetUp, SameNames, SamePlaces
<1> QED
  BY <1>7, <1>8, <1>9, <1>10, <1>11 DEF StackInv

-----------------------------------------------------------------------------
(* The last put of a file: its dentry still stands on the lower path.      *)
LEMMA ReleaseKeeps ==
  ASSUME StackInv, NEW g \in Files, wrapfs_file_release(g)
  PROVE  StackInv'
<1> DEFINE d == files[g]
<1>1. /\ d # 0 /\ d \in Upper /\ InUse(d) /\ files' = [files EXCEPT ![g] = 0]
      /\ files'[g] = 0 /\ \A f \in Files : f # g => files'[f] = files[f]
      /\ files' \in [Files -> Upper \cup {0}]
  BY DEF wrapfs_file_release, StackInv, TypeOK, Stacked
<1>2. PICK l : l = lower_path[d] /\ l \in Lower /\ Used(l) /\ path_put(l)
  BY <1>1, InPlace DEF wrapfs_file_release
<1>3. /\ UNCHANGED <<entry, isdir, i_count, failed>>
      /\ UNCHANGED <<d_at, d_inode, d_hashed, lower_path, i_new, lower_inode>>
      /\ Recorded
  BY DEF wrapfs_file_release, lowerfs, udentry, uinode, Recorded, StackInv, TypeOK
<1>4. /\ \A k \in Lower : k # l => Holders(k)' = Holders(k)
      /\ Holders(l) = Holders(l)' + 1 /\ Standing = Standing' + 1
      /\ Holders(l)' >= 1 /\ Standing' >= 1
  <2>1. PICK lp, fl, fl1 : lp = lower_path /\ fl = files' /\ fl1 = files
    OBVIOUS
  <2>2. /\ fl[g] = 0 /\ fl1[g] \in Upper /\ lp[fl1[g]] = l /\ l \in Lower
        /\ \A f \in Files : f # g => fl1[f] = fl[f]
    BY <1>1, <1>2, <2>1
  <2>3. /\ \A k \in Lower : k # l => HoldersOf(lp, fl1, k) = HoldersOf(lp, fl, k)
        /\ HoldersOf(lp, fl1, l) = HoldersOf(lp, fl, l) + 1
        /\ StandingOf(lp, fl1) = StandingOf(lp, fl) + 1
    BY <2>2, FileStands
  <2>4. HoldersOf(lp, fl, l) >= 1 /\ StandingOf(lp, fl) >= 1
    <3>1. PICK e \in Upper : lp[e] = l
      BY <2>2
    <3> QED
      BY <2>2, <3>1, OneHolder, Numbers
  <2> QED
    BY <1>3, <2>1, <2>3, <2>4, CountsNow
<1>5. /\ \A k \in Lower : Holders(k) \in Nat /\ Holders(k)' \in Nat
      /\ Standing \in Nat
      /\ Standing' \in Nat
  BY CountsNow, CountsType
<1>6. /\ \A k \in Lower : l_count[k] \in Nat
      /\ mnt_count \in Nat
      /\ l_count[l] >= Holders(l) /\ mnt_count >= Standing
  BY <1>2 DEF StackInv, TypeOK, RefsKept
<1>7. l_count[l] # 1 /\ l_count[l] > 1 /\ mnt_count >= 1
  <2>1. PICK c, h, h1, m, s, s1 : /\ c = l_count[l] /\ h = Holders(l) /\ h1 = Holders(l)'
                                  /\ m = mnt_count /\ s = Standing /\ s1 = Standing'
    OBVIOUS
  <2>2. /\ c \in Nat /\ h \in Nat /\ h1 \in Nat /\ m \in Nat /\ s \in Nat /\ s1 \in Nat
        /\ c >= h /\ h = h1 + 1 /\ h1 >= 1 /\ m >= s /\ s = s1 + 1 /\ s1 >= 1
    BY <1>2, <1>4, <1>5, <1>6, <2>1
  <2>3. c # 1 /\ c > 1 /\ m >= 1
    BY <2>2
  <2> QED
    BY <2>1, <2>3
<1>8. /\ l_count' = [l_count EXCEPT ![l] = @ - 1] /\ mnt_count' = mnt_count - 1
      /\ UNCHANGED <<l_at, l_inode, l_hashed>>
  BY <1>2, <1>7 DEF path_put, ldentry
<1>9. /\ l_count'[l] = l_count[l] - 1
      /\ \A m \in Lower : m # l => l_count'[m] = l_count[m]
  BY <1>2, <1>8 DEF StackInv, TypeOK
<1>10. \A m \in Lower : l_count'[m] > 0 => Used(m)
  BY <1>2, <1>9 DEF Used
<1>11. TypeOK'
  <2>1. l_count[l] - 1 \in Nat /\ mnt_count' \in Nat
    BY <1>2, <1>6, <1>7, <1>8
  <2>2. l_count' \in [Lower -> Nat]
    BY <1>2, <1>8, <2>1 DEF StackInv, TypeOK
  <2> QED
    BY <1>1, <1>3, <1>8, <2>1, <2>2 DEF StackInv, TypeOK
<1>12. Stacked'
  <2>1. \A f \in Files : files'[f] # 0 => InUse(files'[f])
    BY <1>1, <1>3, FilesInUse
  <2> QED
    BY <1>3, <1>8, <2>1, SameStacked
<1>13. RefsKept'
  <2>1. \A i : Covering(i)' = Covering(i)
    BY <1>3 DEF Covering
  <2>2. \A k \in Lower : (/\ l_count[k] >= Holders(k)
                          /\ "record" \notin failed => l_count[k] = Holders(k))'
    BY <1>2, <1>3, <1>4, <1>5, <1>6, <1>9 DEF StackInv, RefsKept
  <2>3. (/\ mnt_count >= Standing
         /\ "record" \notin failed => mnt_count = Standing)'
    <3>1. PICK s, s1 : s = Standing /\ s1 = Standing'
      OBVIOUS
    <3>2. /\ s \in Nat /\ s1 \in Nat /\ s = s1 + 1 /\ mnt_count \in Nat /\ mnt_count >= s
          /\ "record" \notin failed => mnt_count = s
      BY <1>4, <1>5, <1>6, <3>1 DEF StackInv, RefsKept
    <3>3. mnt_count - 1 >= s1 /\ ("record" \notin failed => mnt_count - 1 = s1)
      BY <3>2
    <3> QED
      BY <1>3, <1>8, <3>1, <3>3
  <2>4. ("inode" \notin failed => \A i \in Inodes : i_count[i] = Covering(i))'
    BY <1>3, <2>1 DEF StackInv, RefsKept
  <2> QED
    BY <2>2, <2>3, <2>4 DEF RefsKept
<1>14. RootStands' /\ InodesOfDentries' /\ LowerCache'
  BY <1>3, <1>8, <1>10, SameRoot, SameInodes, SameLower
<1>15. /\ "race" \notin failed' => SetUpOnce'
       /\ "record" \notin failed' => OneName' /\ Placed'
  BY <1>3, <1>8, <1>10, SameSetUp, SameNames, SamePlaces
<1> QED
  BY <1>11, <1>12, <1>13, <1>14, <1>15 DEF StackInv

-----------------------------------------------------------------------------
(* d_release: what changes.  The lower dentry is forgotten when no other   *)
(* object holds it, the upper inode when no other dentry has it.           *)
LastOf(d) == Positive(d) /\ \A e \in Upper \ {d} : d_inode[e] # d_inode[d]

ReleaseEffect(d, l) ==
  /\ d \in Upper /\ InUse(d) /\ d # 1 /\ d \notin i_new /\ l \in Lower /\ l = lower_path[d]
  /\ \A f \in Files : files[f] # d
  /\ \A e \in Upper : d_at[e][1] # d
  /\ d_at'[d] = NoPlace /\ d_inode'[d] = 0 /\ ~d_hashed'[d] /\ lower_path'[d] = 0
  /\ \A e \in Upper : e # d =>
       /\ d_at'[e] = d_at[e] /\ d_inode'[e] = d_inode[e] /\ d_hashed'[e] = d_hashed[e]
       /\ lower_path'[e] = lower_path[e]
  /\ entry' = entry /\ isdir' = isdir /\ i_new' = i_new /\ files' = files /\ failed' = failed
  /\ l_count'[l] = l_count[l] - 1 /\ mnt_count' = mnt_count - 1
  /\ l_count[l] >= 1 /\ mnt_count >= 1
  /\ \A m \in Lower : m # l => l_count'[m] = l_count[m]
  /\ \A m \in Lower : l_count'[m] > 0 =>
       /\ Used(m) /\ l_at'[m] = l_at[m] /\ l_inode'[m] = l_inode[m] /\ l_hashed'[m] = l_hashed[m]
  /\ \A e \in Upper : e # d /\ InUse(e) =>
       lower_path[e] \in Lower /\ l_count'[lower_path[e]] > 0
  /\ \A m \in Lower : l_count[m] \in Nat
  /\ \A m \in Lower : m # l => Holders(m)' = Holders(m)
  /\ Holders(l) = Holders(l)' + 1 /\ Standing = Standing' + 1

(* The release has that effect.                                            *)
LEMMA ReleaseSteps ==
  ASSUME StackInv, NEW d \in Upper, wrapfs_d_release(d)
  PROVE  \E l \in Lower : ReleaseEffect(d, l)
<1>1. /\ InUse(d) /\ d # 1 /\ d \notin i_new
      /\ \A f \in Files : files[f] # d
      /\ \A e \in Upper : d_at[e][1] # d
  BY DEF wrapfs_d_release, Unused
<1>2. PICK l : l = lower_path[d] /\ l \in Lower /\ Used(l) /\ path_put(l)
  BY <1>1, InPlace DEF wrapfs_d_release
<1>3. /\ d_at'[d] = NoPlace /\ d_inode'[d] = 0 /\ ~d_hashed'[d] /\ lower_path'[d] = 0
      /\ \A e \in Upper : e # d =>
           /\ d_at'[e] = d_at[e] /\ d_inode'[e] = d_inode[e] /\ d_hashed'[e] = d_hashed[e]
           /\ lower_path'[e] = lower_path[e]
  BY DEF wrapfs_d_release, StackInv, TypeOK
<1>4. entry' = entry /\ isdir' = isdir /\ i_new' = i_new /\ files' = files /\ failed' = failed
  BY DEF wrapfs_d_release, lowerfs
<1>5. /\ \A m \in Lower : l_count[m] \in Nat /\ l_count[m] >= Holders(m)
      /\ mnt_count \in Nat /\ mnt_count >= Standing
  BY DEF StackInv, TypeOK, RefsKept
<1>6. /\ l_count'[l] = l_count[l] - 1 /\ mnt_count' = mnt_count - 1
      /\ \A m \in Lower : m # l => l_count'[m] = l_count[m]
  BY <1>2 DEF path_put, StackInv, TypeOK
<1>7. /\ \A m \in Lower : Holders(m) \in Nat /\ Holders(m)' \in Nat
      /\ Standing \in Nat
      /\ Standing' \in Nat
  BY CountsNow, CountsType
<1>8. /\ \A m \in Lower : m # l => Holders(m)' = Holders(m)
      /\ Holders(l) = Holders(l)' + 1 /\ Standing = Standing' + 1
  <2>1. PICK lp, lp1, fl : lp = lower_path' /\ lp1 = lower_path /\ fl = files
    OBVIOUS
  <2>2. /\ d \in Upper /\ l \in Lower /\ lp[d] = 0 /\ lp1[d] = l
        /\ \A e \in Upper : e # d => lp1[e] = lp[e]
        /\ \A f \in Files : fl[f] # 0 => fl[f] \in Upper /\ fl[f] # d
    <3>1. \A f \in Files : files[f] # 0 => files[f] \in Upper
      BY DEF StackInv, TypeOK
    <3> QED
      BY <1>1, <1>2, <1>3, <2>1, <3>1
  <2>3. /\ \A k \in Lower : k # l => HoldersOf(lp1, fl, k) = HoldersOf(lp, fl, k)
        /\ HoldersOf(lp1, fl, l) = HoldersOf(lp, fl, l) + 1
        /\ StandingOf(lp1, fl) = StandingOf(lp, fl) + 1
    BY <2>2, DentryStands, SMTT(30)
  <2> QED
    BY <1>2, <1>4, <2>1, <2>3, CountsNow
<1>9. l_count[l] >= 1 /\ mnt_count >= 1
  <2>1. Standing >= 1
    <3>1. PICK lp, fl : lp = lower_path /\ fl = files
      OBVIOUS
    <3>2. StandingOf(lp, fl) >= 1
      BY <1>1, <3>1, OneHolder DEF InUse
    <3> QED
      BY <3>1, <3>2, CountsNow
  <2>2. l_count[l] \in Nat /\ l_count[l] > 0
    BY <1>2, <1>5 DEF Used
  <2> QED
    BY <1>5, <1>7, <2>1, <2>2
<1>10. \A m \in Lower : l_count'[m] > 0 =>
         /\ Used(m) /\ l_at'[m] = l_at[m] /\ l_inode'[m] = l_inode[m] /\ l_hashed'[m] = l_hashed[m]
  <2>1. CASE l_count[l] = 1
    <3>1. \A m \in Lower : m # l =>
            l_at'[m] = l_at[m] /\ l_inode'[m] = l_inode[m] /\ l_hashed'[m] = l_hashed[m]
      BY <1>2, <2>1 DEF path_put, StackInv, TypeOK
    <3>2. ~(l_count'[l] > 0)
      BY <1>6, <2>1
    <3> QED
      BY <1>6, <3>1, <3>2 DEF Used
  <2>2. CASE l_count[l] # 1
    <3>1. UNCHANGED <<l_at, l_inode, l_hashed>>
      BY <1>2, <2>2 DEF path_put, ldentry
    <3> QED
      BY <1>2, <1>6, <3>1 DEF Used
  <2> QED
    BY <2>1, <2>2
<1>11. \A e \in Upper : e # d /\ InUse(e) =>
         lower_path[e] \in Lower /\ l_count'[lower_path[e]] > 0
  <2> SUFFICES ASSUME NEW e \in Upper, e # d, InUse(e)
               PROVE  lower_path[e] \in Lower /\ l_count'[lower_path[e]] > 0
    OBVIOUS
  <2>1. PICK m : m = lower_path[e]
    OBVIOUS
  <2>2. m \in Lower /\ lower_path'[e] = m /\ l_count[m] > 0
    BY <1>3, <2>1, InPlace DEF Used
  <2>3. Holders(m)' >= 1
    <3>1. PICK lp, fl : lp = lower_path' /\ fl = files'
      OBVIOUS
    <3>2. HoldersOf(lp, fl, lp[e]) >= 1
      BY OneHolder
    <3> QED
      BY <2>2, <3>1, <3>2, CountsNow
  <2>4. l_count'[m] > 0
    <3>1. CASE m # l
      BY <1>6, <2>2, <3>1
    <3>2. CASE m = l
      <4>1. Holders(l)' >= 1 /\ l_count[l] >= Holders(l)
        BY <1>2, <1>5, <2>3, <3>2
      <4>2. PICK h, h1, c : h = Holders(l) /\ h1 = Holders(l)' /\ c = l_count[l]
        OBVIOUS
      <4>3. h \in Nat /\ h1 \in Nat /\ c \in Nat /\ h = h1 + 1 /\ h1 >= 1 /\ c >= h
        BY <1>2, <1>5, <1>7, <1>8, <4>1, <4>2
      <4>4. c - 1 > 0
        BY <4>3
      <4> QED
        BY <1>6, <3>2, <4>2, <4>4
    <3> QED
      BY <3>1, <3>2
  <2> QED
    BY <2>1, <2>2, <2>4
<1> QED
  <2>1. \A m \in Lower : l_count[m] \in Nat
    BY <1>5
  <2> QED
    BY <1>1, <1>2, <1>3, <1>4, <1>6, <1>8, <1>9, <1>10, <1>11, <2>1 DEF ReleaseEffect

(* The inode: evicted with its last dentry, kept otherwise.                *)
InodeEffect(d) ==
  \/ /\ LastOf(d) /\ lower_inode'[d_inode[d]] = 0
     /\ \A v \in Objs : v # d_inode[d] => lower_inode'[v] = lower_inode[v]
     /\ i_count'[LowerIno(d)] = i_count[LowerIno(d)] - 1
     /\ \A i \in Inodes : i # LowerIno(d) => i_count'[i] = i_count[i]
  \/ /\ ~LastOf(d) /\ lower_inode' = lower_inode /\ i_count' = i_count

(* The inode goes with the last dentry that has it.                        *)
LEMMA EvictSteps ==
  ASSUME StackInv, NEW d \in Upper, wrapfs_d_release(d)
  PROVE  /\ InodeEffect(d)
         /\ LastOf(d) => /\ d_inode[d] \in Objs /\ LowerIno(d) \in Inodes
                         /\ lower_inode[d_inode[d]] = LowerIno(d)
                         /\ d_inode[d] # 1
         /\ i_count' \in [Inodes -> Int] /\ lower_inode' \in [Objs -> Inodes \cup {0}]
<1>1. LastOf(d) => /\ d_inode[d] \in Objs /\ LowerIno(d) \in Inodes
                   /\ lower_inode[d_inode[d]] = LowerIno(d)
                   /\ d_inode[d] # 1
  <2> SUFFICES ASSUME LastOf(d)
               PROVE  /\ d_inode[d] \in Objs /\ LowerIno(d) \in Inodes
                      /\ lower_inode[d_inode[d]] = LowerIno(d)
                      /\ d_inode[d] # 1
    OBVIOUS
  <2>1. d_inode[d] \in Objs /\ LowerIno(d) \in Inodes
    BY InPlace DEF LastOf, Positive
  <2>2. lower_inode[d_inode[d]] = LowerIno(d)
    BY DEF LastOf, StackInv, InodesOfDentries
  <2>3. d # 1
    BY DEF wrapfs_d_release, Unused
  <2>4. d_inode[d] # 1
    BY <2>3, Numbers DEF LastOf, StackInv, RootStands
  <2> QED
    BY <2>1, <2>2, <2>4
<1>2. CASE LastOf(d)
  <2>1. /\ lower_inode' = [lower_inode EXCEPT ![d_inode[d]] = 0]
        /\ i_count' = [i_count EXCEPT ![LowerIno(d)] = @ - 1]
    BY <1>1, <1>2 DEF wrapfs_d_release, LastOf, evict_inode
  <2>2. i_count' \in [Inodes -> Int] /\ lower_inode' \in [Objs -> Inodes \cup {0}]
    BY <1>1, <1>2, <2>1 DEF StackInv, TypeOK
  <2>3. InodeEffect(d)
    BY <1>1, <1>2, <2>1 DEF InodeEffect, StackInv, TypeOK
  <2> QED
    BY <1>1, <2>2, <2>3
<1>3. CASE ~LastOf(d)
  <2>1. lower_inode' = lower_inode /\ i_count' = i_count
    BY <1>3 DEF wrapfs_d_release, LastOf, uinode
  <2> QED
    BY <1>1, <1>3, <2>1 DEF InodeEffect, StackInv, TypeOK
<1> QED
  BY <1>2, <1>3

ReleaseView(d) ==
  /\ \A e \in Upper : e # d =>
       /\ InUse(e)' = InUse(e) /\ Positive(e)' = Positive(e) /\ Negative(e)' = Negative(e)
       /\ IsDir(e)' = IsDir(e) /\ Present(e)' = Present(e)
       /\ InUse(e) => /\ LowerIno(e)' = LowerIno(e)
                      /\ Backed(lower_path[e])' = Backed(lower_path[e])
                      /\ l_at'[lower_path'[e]] = l_at[lower_path[e]]
  /\ ~InUse(d)' /\ ~Present(d)' /\ ~Positive(d)'
  /\ \A e \in Upper : InUse(e) /\ e # 1 => d_at[e][1] # d

(* It changes nothing that the other dentries show.                        *)
LEMMA ReleaseSees ==
  ASSUME StackInv, NEW d, NEW l, ReleaseEffect(d, l)
  PROVE  ReleaseView(d)
<1>1. \A e \in Upper : e # d /\ InUse(e) =>
        /\ lower_path'[e] = lower_path[e]
        /\ l_at'[lower_path[e]] = l_at[lower_path[e]]
        /\ l_inode'[lower_path[e]] = l_inode[lower_path[e]]
        /\ l_hashed'[lower_path[e]] = l_hashed[lower_path[e]]
  BY DEF ReleaseEffect
<1>2. /\ \A e \in Upper : e # d =>
           /\ d_at'[e] = d_at[e] /\ d_inode'[e] = d_inode[e] /\ d_hashed'[e] = d_hashed[e]
           /\ lower_path'[e] = lower_path[e]
      /\ entry' = entry /\ isdir' = isdir /\ i_new' = i_new
      /\ d_at'[d] = NoPlace /\ d_inode'[d] = 0 /\ ~d_hashed'[d] /\ lower_path'[d] = 0
      /\ d \notin i_new
      /\ \A e \in Upper : d_at[e][1] # d
  BY DEF ReleaseEffect
<1>3. \A e \in Upper : e # d =>
        /\ InUse(e)' = InUse(e) /\ Positive(e)' = Positive(e) /\ Negative(e)' = Negative(e)
        /\ InUse(e) => LowerIno(e)' = LowerIno(e)
  BY <1>1, <1>2 DEF InUse, Positive, Negative, LowerIno
<1>4. \A e \in Upper : e # d => IsDir(e)' = IsDir(e)
  BY <1>2, <1>3 DEF IsDir, Positive
<1>5. \A e \in Upper : e # d => Present(e)' = Present(e)
  BY <1>2, <1>3 DEF Present
<1>6. \A e \in Upper : e # d /\ InUse(e) =>
        /\ Backed(lower_path[e])' = Backed(lower_path[e])
        /\ l_at'[lower_path'[e]] = l_at[lower_path[e]]
  BY <1>1, <1>2 DEF Backed
<1>7. ~InUse(d)' /\ ~Present(d)' /\ ~Positive(d)'
  BY <1>2 DEF InUse, Present, Positive, Negative
<1> QED
  BY <1>2, <1>3, <1>4, <1>5, <1>6, <1>7 DEF ReleaseView

(* A release keeps the upper part of the invariant.                        *)
LEMMA ReleaseKeepsUpper ==
  ASSUME StackInv, NEW d \in Upper, wrapfs_d_release(d), NEW l \in Lower,
         ReleaseEffect(d, l), ReleaseView(d)
  PROVE  TypeOK' /\ RootStands' /\ Stacked' /\ InodesOfDentries'
<1>0. /\ InodeEffect(d)
      /\ LastOf(d) => /\ d_inode[d] \in Objs /\ LowerIno(d) \in Inodes
                      /\ lower_inode[d_inode[d]] = LowerIno(d)
                      /\ d_inode[d] # 1
      /\ i_count' \in [Inodes -> Int] /\ lower_inode' \in [Objs -> Inodes \cup {0}]
  BY EvictSteps
<1>1. TypeOK'
  <2>1. /\ d_at' \in [Upper -> (Upper \cup {0}) \X (Names \cup {NoName})]
        /\ d_inode' \in [Upper -> Objs \cup {0}] /\ d_hashed' \in [Upper -> BOOLEAN]
        /\ lower_path' \in [Upper -> Lower \cup {0}]
    <3>1. NoPlace \in (Upper \cup {0}) \X (Names \cup {NoName})
      BY DEF NoPlace
    <3>2. /\ d_at' = [d_at EXCEPT ![d] = NoPlace]
          /\ d_inode' = [d_inode EXCEPT ![d] = 0]
          /\ d_hashed' = [d_hashed EXCEPT ![d] = FALSE]
          /\ lower_path' = [lower_path EXCEPT ![d] = 0]
      BY DEF wrapfs_d_release
    <3> QED
      BY <3>1, <3>2 DEF StackInv, TypeOK
  <2>2. path_put(l)
    BY DEF wrapfs_d_release, ReleaseEffect
  <2>3. /\ l_at' \in [Lower -> (Inodes \cup {0}) \X (Names \cup {NoName})]
        /\ l_inode' \in [Lower -> Inodes \cup {0}] /\ l_hashed' \in [Lower -> BOOLEAN]
    <3>1. NoPlace \in (Inodes \cup {0}) \X (Names \cup {NoName})
      BY DEF NoPlace
    <3>2. CASE l_count[l] = 1
      BY <2>2, <3>1, <3>2 DEF path_put, StackInv, TypeOK
    <3>3. CASE l_count[l] # 1
      BY <2>2, <3>3 DEF path_put, ldentry, StackInv, TypeOK
    <3> QED
      BY <3>2, <3>3
  <2>4. l_count[l] - 1 \in Nat /\ mnt_count' \in Nat
    BY DEF ReleaseEffect, StackInv, TypeOK
  <2>5. l_count' \in [Lower -> Nat]
    BY <2>2, <2>4 DEF path_put, StackInv, TypeOK
  <2> QED
    BY <1>0, <2>1, <2>3, <2>4, <2>5 DEF ReleaseEffect, StackInv, TypeOK
<1>2. RootStands'
  <2>1. 1 \in Upper /\ 1 # d /\ lower_path[1] = 1 /\ InUse(1)
    BY Numbers, InPlace DEF ReleaseEffect, StackInv, RootStands
  <2>2. /\ lower_path'[1] = 1 /\ d_inode'[1] = 1 /\ 1 \notin i_new' /\ isdir' = isdir
        /\ l_at'[1] = l_at[1] /\ l_inode'[1] = l_inode[1]
    BY <2>1 DEF ReleaseEffect, StackInv, RootStands
  <2>3. lower_inode'[1] = lower_inode[1]
    BY <1>0, Numbers DEF InodeEffect
  <2>4. \A e \in Upper : lower_path'[e] = 1 => e = 1
    BY DEF ReleaseEffect, StackInv, RootStands
  <2> QED
    BY <2>2, <2>3, <2>4 DEF StackInv, RootStands
<1>3. Stacked'
  <2>1. \A e \in Upper : (~InUse(e))' => Unborn(e)'
    <3>1. Unborn(d)'
      BY DEF ReleaseEffect, Unborn
    <3>2. \A e \in Upper : e # d /\ ~InUse(e) => Unborn(e)'
      BY DEF ReleaseEffect, StackInv, Stacked, Unborn
    <3> QED
      BY <3>1, <3>2 DEF ReleaseView
  <2>2. \A e \in Upper : d_hashed'[e] => Positive(e)'
    BY DEF ReleaseEffect, ReleaseView, StackInv, Stacked
  <2>3. \A e \in Upper : e # d /\ InUse(e) /\ e # 1 => (d_at[e][1] \in Upper /\ IsDir(d_at[e][1]))'
    <3> SUFFICES ASSUME NEW e \in Upper, e # d, InUse(e), e # 1
                 PROVE  (d_at[e][1] \in Upper /\ IsDir(d_at[e][1]))'
      OBVIOUS
    <3>1. PICK x : x = d_at[e][1]
      OBVIOUS
    <3>2. x \in Upper /\ IsDir(x) /\ x # d
      BY <3>1 DEF StackInv, Stacked, ReleaseView
    <3>3. IsDir(x)' /\ d_at'[e][1] = x
      BY <3>1, <3>2 DEF ReleaseEffect, ReleaseView
    <3> QED
      BY <3>2, <3>3
  <2>4. \A f \in Files : (files[f] # 0 => InUse(files[f]))'
    <3> SUFFICES ASSUME NEW f \in Files, files[f] # 0
                 PROVE  InUse(files[f])'
      BY DEF ReleaseEffect
    <3>1. files[f] \in Upper /\ InUse(files[f]) /\ files[f] # d /\ files' = files
      BY DEF StackInv, TypeOK, Stacked, ReleaseEffect
    <3>2. lower_path'[files[f]] # 0
      BY <3>1 DEF ReleaseEffect, InUse
    <3> QED
      BY <3>1, <3>2 DEF InUse
  <2> QED
    BY <2>1, <2>2, <2>3, <2>4 DEF ReleaseView, Stacked
<1>4. InodesOfDentries'
  <2>1. \A e \in Upper : d_inode'[e] # 0 => LowerIno(e)' # 0
    BY InPlace DEF ReleaseEffect, ReleaseView, StackInv, InodesOfDentries
  <2>2. \A e \in Upper : d_inode'[e] # 0 => e # d /\ d_inode'[e] = d_inode[e] /\ d_inode[e] \in Objs
    BY InPlace DEF ReleaseEffect
  <2>3. \A e \in Upper : e # d /\ d_inode[e] # 0 => lower_inode'[d_inode[e]] = lower_inode[d_inode[e]]
    BY <1>0, InPlace DEF InodeEffect, LastOf
  <2>4. \A e \in Upper : Positive(e)' => lower_inode'[d_inode'[e]] = LowerIno(e)'
    <3> SUFFICES ASSUME NEW e \in Upper, Positive(e)'
                 PROVE  lower_inode'[d_inode'[e]] = LowerIno(e)'
      OBVIOUS
    <3>1. e # d /\ Positive(e) /\ InUse(e) /\ d_inode[e] # 0
      BY DEF ReleaseView, Positive
    <3>2. LowerIno(e)' = LowerIno(e) /\ lower_inode[d_inode[e]] = LowerIno(e)
      BY <3>1 DEF ReleaseView, StackInv, InodesOfDentries
    <3> QED
      BY <2>3, <3>1, <3>2 DEF ReleaseEffect
  <2>5. \A e \in i_new' : /\ d_inode'[e] # 0 /\ lower_inode'[d_inode'[e]] = 0
                          /\ \A x \in Upper : d_inode'[x] = d_inode'[e] => x = e
    <3> SUFFICES ASSUME NEW e \in i_new'
                 PROVE  /\ d_inode'[e] # 0 /\ lower_inode'[d_inode'[e]] = 0
                        /\ \A x \in Upper : d_inode'[x] = d_inode'[e] => x = e
      OBVIOUS
    <3>1. e \in i_new /\ e \in Upper /\ e # d
      BY DEF ReleaseEffect, StackInv, TypeOK
    <3>2. /\ d_inode[e] # 0 /\ lower_inode[d_inode[e]] = 0
          /\ \A x \in Upper : d_inode[x] = d_inode[e] => x = e
      BY <3>1 DEF StackInv, InodesOfDentries
    <3> QED
      BY <2>3, <3>1, <3>2 DEF ReleaseEffect
  <2>6. \A v \in Objs : lower_inode'[v] # 0 => \E e \in Upper : Positive(e)' /\ d_inode'[e] = v
    <3> SUFFICES ASSUME NEW v \in Objs, lower_inode'[v] # 0
                 PROVE  \E e \in Upper : Positive(e)' /\ d_inode'[e] = v
      OBVIOUS
    <3>1. lower_inode[v] # 0 /\ (LastOf(d) => v # d_inode[d])
      BY <1>0 DEF InodeEffect
    <3>2. PICK e \in Upper : Positive(e) /\ d_inode[e] = v
      BY <3>1 DEF StackInv, InodesOfDentries
    <3>3. CASE e # d
      BY <3>2, <3>3 DEF ReleaseEffect, ReleaseView
    <3>4. CASE e = d
      <4>1. PICK x \in Upper : x # d /\ d_inode[x] = v
        BY <3>1, <3>2, <3>4 DEF LastOf
      <4>2. v # 0 /\ InUse(x) /\ x \notin i_new
        BY <3>1, <4>1, Numbers, InPlace DEF StackInv, InodesOfDentries
      <4>3. Positive(x)
        BY <4>1, <4>2 DEF Positive
      <4> QED
        BY <4>1, <4>3 DEF ReleaseEffect, ReleaseView
    <3> QED
      BY <3>3, <3>4
  <2> QED
    BY <2>1, <2>4, <2>5, <2>6 DEF InodesOfDentries
<1> QED
  BY <1>1, <1>2, <1>3, <1>4

(* It returns the references of the dentry and of the inode that goes.     *)
LEMMA ReleaseKeepsLower ==
  ASSUME StackInv, NEW d \in Upper, wrapfs_d_release(d), NEW l \in Lower,
         ReleaseEffect(d, l), ReleaseView(d)
  PROVE  RefsKept' /\ LowerCache' /\ ("race" \notin failed' => SetUpOnce')
<1>0. /\ InodeEffect(d)
      /\ LastOf(d) => /\ d_inode[d] \in Objs /\ LowerIno(d) \in Inodes
                      /\ lower_inode[d_inode[d]] = LowerIno(d)
                      /\ d_inode[d] # 1
      /\ i_count' \in [Inodes -> Int] /\ lower_inode' \in [Objs -> Inodes \cup {0}]
  BY EvictSteps
<1>1. RefsKept'
  <2>1. /\ \A k \in Lower : Holders(k) \in Nat /\ Holders(k)' \in Nat
        /\ Standing \in Nat
        /\ Standing' \in Nat
        /\ \A i : Covering(i) \in Nat /\ Covering(i)' \in Nat
    BY CountsNow, CountsType
  <2>2. \A k \in Lower : (/\ l_count[k] >= Holders(k)
                          /\ "record" \notin failed => l_count[k] = Holders(k))'
    <3>1. \A k \in Lower : k # l => (/\ l_count[k] >= Holders(k)
                                     /\ "record" \notin failed => l_count[k] = Holders(k))'
      BY DEF ReleaseEffect, StackInv, RefsKept
    <3>2. (/\ l_count[l] >= Holders(l)
           /\ "record" \notin failed => l_count[l] = Holders(l))'
      <4>1. PICK h, h1, c : h = Holders(l) /\ h1 = Holders(l)' /\ c = l_count[l]
        OBVIOUS
      <4>2. /\ h \in Nat /\ h1 \in Nat /\ c \in Nat /\ h = h1 + 1 /\ c >= h
            /\ "record" \notin failed => c = h
        BY <2>1, <4>1 DEF ReleaseEffect, StackInv, RefsKept
      <4>3. c - 1 >= h1 /\ ("record" \notin failed => c - 1 = h1)
        BY <4>2
      <4> QED
        BY <4>1, <4>3 DEF ReleaseEffect
    <3> QED
      BY <3>1, <3>2
  <2>3. (/\ mnt_count >= Standing
         /\ "record" \notin failed => mnt_count = Standing)'
    <3>1. PICK s, s1, c : s = Standing /\ s1 = Standing' /\ c = mnt_count
      OBVIOUS
    <3>2. /\ s \in Nat /\ s1 \in Nat /\ c \in Nat /\ s = s1 + 1 /\ c >= s
          /\ "record" \notin failed => c = s
      BY <2>1, <3>1 DEF ReleaseEffect, StackInv, RefsKept, TypeOK
    <3>3. c - 1 >= s1 /\ ("record" \notin failed => c - 1 = s1)
      BY <3>2
    <3> QED
      BY <3>1, <3>3 DEF ReleaseEffect
  <2>4. ("inode" \notin failed => \A i \in Inodes : i_count[i] = Covering(i))'
    <3>1. CASE ~LastOf(d)
      <4>1. \A i : Covering(i)' = Covering(i)
        BY <1>0, <3>1 DEF InodeEffect, Covering
      <4> QED
        BY <1>0, <3>1, <4>1 DEF InodeEffect, ReleaseEffect, StackInv, RefsKept
    <3>2. CASE LastOf(d)
      <4>1. PICK u, j : u = d_inode[d] /\ j = LowerIno(d)
        OBVIOUS
      <4>2. /\ \A k \in Inodes : k # j => Covering(k)' = Covering(k)
            /\ Covering(j) = Covering(j)' + 1
        <5>1. PICK li, li1 : li = lower_inode' /\ li1 = lower_inode
          OBVIOUS
        <5>2. u \in Objs /\ j \in Inodes /\ li[u] = 0 /\ li1[u] = j
              /\ \A v \in Objs : v # u => li1[v] = li[v]
          BY <1>0, <3>2, <4>1, <5>1 DEF InodeEffect
        <5>3. /\ \A k \in Inodes : k # j => CoveringOf(li1, k) = CoveringOf(li, k)
              /\ CoveringOf(li1, j) = CoveringOf(li, j) + 1
          BY <5>2, InodeCovers
        <5> QED
          BY <5>1, <5>3, CountsNow
      <4>3. /\ j \in Inodes /\ i_count'[j] = i_count[j] - 1
            /\ \A i \in Inodes : i # j => i_count'[i] = i_count[i]
        BY <1>0, <3>2, <4>1 DEF InodeEffect
      <4>4. "inode" \notin failed => i_count[j] - 1 = Covering(j)'
        <5>1. PICK c, c1 : c = Covering(j) /\ c1 = Covering(j)'
          OBVIOUS
        <5>2. c \in Nat /\ c1 \in Nat /\ c = c1 + 1
          BY <2>1, <4>2, <5>1
        <5>3. c - 1 = c1
          BY <5>2
        <5> QED
          BY <4>3, <5>1, <5>3 DEF StackInv, RefsKept
      <4> QED
        BY <4>2, <4>3, <4>4 DEF ReleaseEffect, StackInv, RefsKept
    <3> QED
      BY <3>1, <3>2
  <2> QED
    BY <2>2, <2>3, <2>4 DEF RefsKept
<1>2. LowerCache'
  <2>1. \A m \in Lower : Used(m)' =>
          /\ Used(m) /\ l_at'[m] = l_at[m] /\ l_inode'[m] = l_inode[m] /\ l_hashed'[m] = l_hashed[m]
    BY DEF ReleaseEffect, Used
  <2>2. entry' = entry
    BY DEF ReleaseEffect
  <2> QED
    BY <2>1, <2>2 DEF StackInv, LowerCache
<1>3. ASSUME "race" \notin failed'
      PROVE  SetUpOnce'
  <2>0. SetUpOnce /\ i_new' = i_new
    BY <1>3 DEF ReleaseEffect, StackInv
  <2>1. \A v \in Objs : lower_inode'[v] # 0 => lower_inode'[v] = lower_inode[v]
    BY <1>0 DEF InodeEffect
  <2>2. \A e \in i_new : /\ e \in Upper /\ LowerIno(e)' = LowerIno(e) /\ LowerIno(e) # 0
    <3> SUFFICES ASSUME NEW e \in i_new
                 PROVE  /\ e \in Upper /\ LowerIno(e)' = LowerIno(e) /\ LowerIno(e) # 0
      OBVIOUS
    <3>1. e \in Upper /\ e # d
      BY DEF ReleaseEffect, StackInv, TypeOK
    <3>2. InUse(e) /\ LowerIno(e) \in Inodes
      BY <3>1, InPlace
    <3> QED
      BY <3>1, <3>2, Numbers DEF ReleaseView
  <2>3. \A e \in i_new' : Matching(LowerIno(e))' = {}
    <3> SUFFICES ASSUME NEW e \in i_new', NEW v \in Objs, lower_inode'[v] = LowerIno(e)'
                 PROVE  FALSE
      BY DEF Matching
    <3>1. LowerIno(e)' = LowerIno(e) /\ lower_inode[v] = LowerIno(e) /\ e \in i_new
      BY <2>0, <2>1, <2>2
    <3> QED
      BY <2>0, <3>1 DEF SetUpOnce, Matching
  <2>4. \A e, x \in i_new' : LowerIno(e)' = LowerIno(x)' => e = x
    BY <2>0, <2>2 DEF SetUpOnce
  <2>5. \A u, v \in Objs : lower_inode'[u] = lower_inode'[v] /\ lower_inode'[u] # 0 => u = v
    BY <2>0, <2>1 DEF SetUpOnce
  <2> QED
    BY <2>3, <2>4, <2>5 DEF SetUpOnce
<1> QED
  BY <1>1, <1>2, <1>3

(* The other dentries keep their places.                                   *)
LEMMA ReleaseKeepsNames ==
  ASSUME StackInv, NEW d \in Upper, NEW l \in Lower, ReleaseEffect(d, l), ReleaseView(d),
         "record" \notin failed'
  PROVE  OneName' /\ Placed'
<1>0. /\ OneName /\ Placed /\ entry' = entry /\ isdir' = isdir /\ i_new' = i_new
      /\ \A e \in Upper : e # d => d_at'[e] = d_at[e] /\ d_hashed'[e] = d_hashed[e]
      /\ \A e \in Upper : d_inode'[e] # 0 => e # d /\ d_inode[e] # 0
  BY DEF ReleaseEffect, StackInv
<1>1. OneName'
  <2>1. \A m \in Lower \ {1} : (Used(m) /\ l_inode[m] \in isdir /\ Named(l_inode[m]) => l_hashed[m])'
    <3>1. \A m \in Lower : Used(m)' =>
            /\ Used(m) /\ l_inode'[m] = l_inode[m] /\ l_hashed'[m] = l_hashed[m]
      BY DEF ReleaseEffect, Used
    <3> QED
      BY <1>0, <3>1 DEF OneName, Named
  <2>2. \A e \in Upper : d_inode'[e] # 0 => e # d /\ d_inode[e] # 0 /\ LowerIno(e)' = LowerIno(e)
    BY <1>0, InPlace DEF ReleaseView
  <2>3. \A e, x \in Upper :
          /\ d_inode'[e] # 0 /\ d_inode'[x] # 0
          /\ LowerIno(e)' = LowerIno(x)' /\ LowerIno(e)' \in isdir'
          => e = x
    BY <1>0, <2>2 DEF OneName
  <2>4. /\ \A i, k \in Inodes, n, m \in Names :
             entry'[i][n] \in isdir' /\ entry'[k][m] = entry'[i][n] => i = k /\ n = m
        /\ \A i \in Inodes, n \in Names : entry'[i][n] # Root
    BY <1>0 DEF OneName
  <2> QED
    BY <2>1, <2>3, <2>4 DEF OneName
<1>2. \A e \in Upper : Present(e)' => e # d /\ Present(e) /\ InUse(e)
  BY PresentInUse DEF ReleaseView
<1>3. \A e \in Upper \ {1} : Present(e)' =>
        (l_at[lower_path[e]] = <<LowerIno(d_at[e][1]), d_at[e][2]>>)'
  <2> SUFFICES ASSUME NEW e \in Upper \ {1}, Present(e)'
               PROVE  (l_at[lower_path[e]] = <<LowerIno(d_at[e][1]), d_at[e][2]>>)'
    OBVIOUS
  <2>1. e # d /\ Present(e) /\ InUse(e)
    BY <1>2
  <2>2. PICK x : x = d_at[e][1]
    OBVIOUS
  <2>3. x \in Upper /\ InUse(x) /\ x # d /\ l_at[lower_path[e]] = <<LowerIno(x), d_at[e][2]>>
    BY <1>0, <2>1, <2>2, InPlace DEF Placed, ReleaseView
  <2>4. LowerIno(x)' = LowerIno(x) /\ l_at'[lower_path'[e]] = l_at[lower_path[e]]
        /\ d_at'[e] = d_at[e]
    BY <1>0, <2>1, <2>3 DEF ReleaseView
  <2> QED
    BY <2>2, <2>3, <2>4
<1>4. \A e, x \in Upper : Present(e)' /\ Present(x)' /\ d_at'[e] = d_at'[x] => e = x
  BY <1>0, <1>2 DEF Placed
<1>5. \A e \in Upper \ {1} : d_hashed'[e] \/ e \in i_new' => Backed(lower_path[e])'
  <2> SUFFICES ASSUME NEW e \in Upper \ {1}, d_hashed'[e] \/ e \in i_new'
               PROVE  Backed(lower_path[e])'
    OBVIOUS
  <2>1. Present(e)'
    BY DEF Present
  <2>2. e # d /\ InUse(e) /\ (d_hashed[e] \/ e \in i_new)
    BY <1>0, <1>2, <2>1
  <2> QED
    BY <1>0, <2>2 DEF Placed, ReleaseView
<1> QED
  BY <1>1, <1>3, <1>4, <1>5 DEF Placed

(* So wrapfs_d_release keeps the invariant.                                *)
LEMMA DReleaseKeeps ==
  ASSUME StackInv, NEW d \in Upper, wrapfs_d_release(d)
  PROVE  StackInv'
<1>1. PICK l \in Lower : ReleaseEffect(d, l)
  BY ReleaseSteps
<1>2. ReleaseView(d)
  BY <1>1, ReleaseSees
<1>3. TypeOK' /\ RootStands' /\ Stacked' /\ InodesOfDentries'
  BY <1>1, <1>2, ReleaseKeepsUpper
<1>4. RefsKept' /\ LowerCache' /\ ("race" \notin failed' => SetUpOnce')
  BY <1>1, <1>2, ReleaseKeepsLower
<1>5. "record" \notin failed' => OneName' /\ Placed'
  BY <1>1, <1>2, ReleaseKeepsNames
<1> QED
  BY <1>3, <1>4, <1>5 DEF StackInv

-----------------------------------------------------------------------------
(* The lower directories after a change of one name.                       *)
LEMMA EntrySet ==
  ASSUME NEW en \in [Inodes -> [Names -> Inodes \cup {0}]], NEW i \in Inodes, NEW n \in Names,
         NEW j \in Inodes \cup {0}, NEW at, at = <<i, n>>,
         NEW en1, en1 = [en EXCEPT ![at[1]][at[2]] = j]
  PROVE  /\ en1 \in [Inodes -> [Names -> Inodes \cup {0}]]
         /\ en1[i][n] = j
         /\ \A k \in Inodes, m \in Names : k # i \/ m # n => en1[k][m] = en[k][m]
<1>1. en1 = [en EXCEPT ![i] = [en[i] EXCEPT ![n] = j]]
  OBVIOUS
<1>2. [en[i] EXCEPT ![n] = j] \in [Names -> Inodes \cup {0}]
  OBVIOUS
<1>3. en1 \in [Inodes -> [Names -> Inodes \cup {0}]]
  BY <1>1, <1>2
<1>4. en1[i] = [en[i] EXCEPT ![n] = j] /\ \A k \in Inodes : k # i => en1[k] = en[k]
  BY <1>1
<1> QED
  BY <1>3, <1>4

(* A removal: the name of d is gone below, and d is not found any more     *)
(* unless trfs had no memory for the record.                               *)
RemovesName(d) ==
  /\ Found(d) /\ Backed(lower_path[d]) /\ LowerRemoves(lower_path[d]) /\ Recorded
  /\ UNCHANGED <<l_count, mnt_count, i_count, lower_inode, files>>
  /\ UNCHANGED <<d_at, d_inode, lower_path, i_new>>
  /\ d_hashed' \in [Upper -> BOOLEAN] /\ \A e \in Upper : d_hashed'[e] => d_hashed[e]
  /\ "record" \notin failed' => ~d_hashed'[d]

RemoveEffect(d, l, i, n) ==
  /\ l = lower_path[d] /\ l \in Lower \ {1} /\ Used(l) /\ l_hashed[l]
  /\ i \in Inodes /\ n \in Names
  /\ l_at[l] = <<i, n>> /\ entry[i][n] = l_inode[l] /\ l_inode[l] # 0
  /\ entry' \in [Inodes -> [Names -> Inodes \cup {0}]] /\ entry'[i][n] = 0
  /\ \A k \in Inodes, m \in Names : k # i \/ m # n => entry'[k][m] = entry[k][m]
  /\ l_hashed' \in [Lower -> BOOLEAN] /\ ~l_hashed'[l]
  /\ \A m \in Lower : m # l => l_hashed'[m] = l_hashed[m]
  /\ isdir' = isdir /\ l_at' = l_at /\ l_inode' = l_inode

(* A removal has that effect.                                              *)
LEMMA RemoveSteps ==
  ASSUME StackInv, NEW d \in Upper, RemovesName(d)
  PROVE  \E l \in Lower, i \in Inodes, n \in Names : RemoveEffect(d, l, i, n)
<1>1. d # 1 /\ InUse(d) /\ Backed(lower_path[d]) /\ LowerRemoves(lower_path[d])
  BY DEF RemovesName, Found, IsFound, Positive
<1>2. PICK l : l = lower_path[d] /\ l \in Lower \ {1} /\ Used(l) /\ l_at[l] \in Inodes \X Names
  BY <1>1, InPlace
<1>3. PICK i \in Inodes, n \in Names : l_at[l] = <<i, n>>
  BY <1>2
<1>4. l_hashed[l] /\ entry[i][n] = l_inode[l] /\ l_inode[l] # 0
  BY <1>1, <1>2, <1>3 DEF Backed
<1>5. /\ entry' = [entry EXCEPT ![l_at[l][1]][l_at[l][2]] = 0]
      /\ l_hashed' = [l_hashed EXCEPT ![l] = FALSE]
      /\ isdir' = isdir /\ l_at' = l_at /\ l_inode' = l_inode
  BY <1>1, <1>2 DEF LowerRemoves
<1>6. /\ entry' \in [Inodes -> [Names -> Inodes \cup {0}]] /\ entry'[i][n] = 0
      /\ \A k \in Inodes, m \in Names : k # i \/ m # n => entry'[k][m] = entry[k][m]
  <2>1. PICK en, en1, at : en = entry /\ en1 = entry' /\ at = l_at[l]
    OBVIOUS
  <2>2. en \in [Inodes -> [Names -> Inodes \cup {0}]] /\ at = <<i, n>> /\ 0 \in Inodes \cup {0}
        /\ en1 = [en EXCEPT ![at[1]][at[2]] = 0]
    BY <1>3, <1>5, <2>1 DEF StackInv, TypeOK
  <2>3. /\ en1 \in [Inodes -> [Names -> Inodes \cup {0}]] /\ en1[i][n] = 0
        /\ \A k \in Inodes, m \in Names : k # i \/ m # n => en1[k][m] = en[k][m]
    BY <2>2, EntrySet
  <2> QED
    BY <2>1, <2>3
<1>7. /\ l_hashed' \in [Lower -> BOOLEAN] /\ ~l_hashed'[l]
      /\ \A m \in Lower : m # l => l_hashed'[m] = l_hashed[m]
  BY <1>2, <1>5 DEF StackInv, TypeOK
<1>8. RemoveEffect(d, l, i, n)
  BY <1>2, <1>3, <1>4, <1>5, <1>6, <1>7 DEF RemoveEffect
<1> QED
  BY <1>2, <1>8

(* The lower dentry it unhashes had the name to itself.                    *)
LEMMA RemoveKeepsLower ==
  ASSUME StackInv, NEW d \in Upper, RemovesName(d),
         NEW l \in Lower, NEW i \in Inodes, NEW n \in Names, RemoveEffect(d, l, i, n)
  PROVE  LowerCache' /\ ("record" \notin failed' => OneName')
<1>1. \A m \in Lower : Used(m)' = Used(m)
  BY DEF RemovesName, Used
<1>2. LowerCache'
  <2>1. \A m \in Lower \ {1} : Used(m)' => l_at'[m] \in Inodes \X Names
    BY <1>1 DEF RemoveEffect, StackInv, LowerCache
  <2>2. \A m \in Lower : m # l /\ Used(m) /\ l_hashed[m] => l_at[m] # <<i, n>>
    BY DEF RemoveEffect, StackInv, LowerCache
  <2>3. \A m \in Lower \ {1} : Used(m)' /\ l_hashed'[m] => l_inode'[m] = entry'[l_at'[m][1]][l_at'[m][2]]
    <3> SUFFICES ASSUME NEW m \in Lower \ {1}, Used(m), l_hashed'[m]
                 PROVE  l_inode[m] = entry'[l_at[m][1]][l_at[m][2]]
      BY <1>1 DEF RemoveEffect
    <3>1. m # l /\ l_hashed[m]
      BY DEF RemoveEffect
    <3>2. PICK k \in Inodes, x \in Names : l_at[m] = <<k, x>>
      BY DEF StackInv, LowerCache
    <3>3. l_inode[m] = entry[k][x]
      BY <3>1, <3>2 DEF StackInv, LowerCache
    <3>4. k # i \/ x # n
      BY <2>2, <3>1, <3>2
    <3> QED
      BY <3>2, <3>3, <3>4 DEF RemoveEffect
  <2>4. \A k, m \in Lower :
          Used(k)' /\ Used(m)' /\ l_hashed'[k] /\ l_hashed'[m] /\ l_at'[k] = l_at'[m] => k = m
    BY <1>1 DEF RemoveEffect, StackInv, LowerCache
  <2> QED
    BY <2>1, <2>3, <2>4 DEF LowerCache
<1>3. ASSUME "record" \notin failed'
      PROVE  OneName'
  <2>0. OneName
    BY <1>3 DEF RemovesName, Recorded, StackInv
  <2>1. \A k \in Inodes, x \in Names : entry'[k][x] = entry[k][x] \/ entry'[k][x] = 0
    BY DEF RemoveEffect
  <2>2. 0 \notin isdir
    BY Numbers DEF StackInv, TypeOK
  <2>3. \A k1, k2 \in Inodes, x1, x2 \in Names :
          entry'[k1][x1] \in isdir' /\ entry'[k2][x2] = entry'[k1][x1] => k1 = k2 /\ x1 = x2
    <3> SUFFICES ASSUME NEW k1 \in Inodes, NEW k2 \in Inodes, NEW x1 \in Names, NEW x2 \in Names,
                        entry'[k1][x1] \in isdir, entry'[k2][x2] = entry'[k1][x1]
                 PROVE  k1 = k2 /\ x1 = x2
      BY DEF RemoveEffect
    <3>1. entry[k1][x1] \in isdir /\ entry[k2][x2] = entry[k1][x1]
      BY <2>1, <2>2
    <3> QED
      BY <2>0, <3>1 DEF OneName
  <2>4. \A k \in Inodes, x \in Names : entry'[k][x] # Root
    BY <2>0, <2>1, Numbers DEF OneName
  <2>5. \A j : Named(j)' /\ j # 0 => Named(j)
    BY <2>1 DEF Named
  <2>6. l_inode[l] \in isdir => ~Named(l_inode[l])'
    <3> SUFFICES ASSUME l_inode[l] \in isdir, Named(l_inode[l])'
                 PROVE  FALSE
      OBVIOUS
    <3>0. PICK j : j = l_inode[l] /\ l_inode' = l_inode
      BY DEF RemoveEffect
    <3>1. entry[i][n] = j /\ j # Root /\ j \in isdir
      BY <2>0, <3>0 DEF RemoveEffect, OneName
    <3>2. PICK k \in Inodes, x \in Names : entry'[k][x] = j
      BY <3>0, <3>1 DEF Named
    <3>3. entry[k][x] = j
      BY <2>1, <2>2, <3>1, <3>2
    <3>4. k = i /\ x = n
      BY <2>0, <3>1, <3>3 DEF OneName
    <3> QED
      BY <2>2, <3>1, <3>2, <3>4 DEF RemoveEffect
  <2>7. \A m \in Lower \ {1} : (Used(m) /\ l_inode[m] \in isdir /\ Named(l_inode[m]) => l_hashed[m])'
    <3> SUFFICES ASSUME NEW m \in Lower \ {1}, Used(m), l_inode[m] \in isdir, Named(l_inode[m])'
                 PROVE  l_hashed'[m]
      BY <1>1 DEF RemoveEffect
    <3>1. m # l
      BY <2>6
    <3>2. PICK j : j = l_inode[m] /\ l_inode' = l_inode
      BY DEF RemoveEffect
    <3>3. Named(j)
      BY <2>2, <2>5, <3>2
    <3> QED
      BY <2>0, <3>1, <3>2, <3>3 DEF OneName, RemoveEffect
  <2>8. \A e, x \in Upper :
          /\ d_inode'[e] # 0 /\ d_inode'[x] # 0
          /\ LowerIno(e)' = LowerIno(x)' /\ LowerIno(e)' \in isdir'
          => e = x
    BY <2>0 DEF OneName, RemoveEffect, RemovesName, LowerIno
  <2> QED
    BY <2>3, <2>4, <2>7, <2>8 DEF OneName
<1> QED
  BY <1>2, <1>3

(* No other dentry has the place that is gone.                             *)
LEMMA RemoveKeepsPlaces ==
  ASSUME StackInv, NEW d \in Upper, RemovesName(d),
         NEW l \in Lower, NEW i \in Inodes, NEW n \in Names, RemoveEffect(d, l, i, n),
         "record" \notin failed'
  PROVE  Placed'
<1>0. "record" \notin failed /\ Placed /\ d # 1 /\ Present(d) /\ ~d_hashed'[d]
  BY DEF RemovesName, Recorded, StackInv, Found, IsFound, Present
<1>1. /\ d_at' = d_at /\ d_inode' = d_inode /\ lower_path' = lower_path /\ i_new' = i_new
      /\ l_at' = l_at /\ l_inode' = l_inode
      /\ \A e \in Upper : d_hashed'[e] => d_hashed[e]
  BY DEF RemovesName, RemoveEffect
<1>2. \A e \in Upper : Present(e)' => Present(e)
  BY <1>1 DEF Present, Negative, InUse
<1>3. \A e \in Upper \ {1} : Present(e)' =>
        (l_at[lower_path[e]] = <<LowerIno(d_at[e][1]), d_at[e][2]>>)'
  BY <1>0, <1>1, <1>2 DEF Placed, LowerIno
<1>4. \A e, x \in Upper : Present(e)' /\ Present(x)' /\ d_at'[e] = d_at'[x] => e = x
  BY <1>0, <1>1, <1>2 DEF Placed
<1>5. \A e \in Upper \ {1} : d_hashed'[e] \/ e \in i_new' => Backed(lower_path[e])'
  <2> SUFFICES ASSUME NEW e \in Upper \ {1}, d_hashed'[e] \/ e \in i_new'
               PROVE  Backed(lower_path[e])'
    OBVIOUS
  <2>1. Present(e) /\ (d_hashed[e] \/ e \in i_new)
    BY <1>1 DEF Present
  <2>2. e # d
    BY <1>0, <1>1 DEF RemovesName, Found, IsFound, Positive
  <2>3. l_at[lower_path[e]] # l_at[lower_path[d]]
    BY <1>0, <2>1, <2>2, OnePlace
  <2>4. PICK m : m = lower_path[e] /\ m \in Lower /\ Backed(m) /\ m # l /\ l_at[m] # <<i, n>>
                 /\ l_at[m] \in Inodes \X Names
    BY <1>0, <2>1, <2>3, InPlace, PresentInUse DEF Placed, RemoveEffect
  <2>5. PICK k \in Inodes, x \in Names : l_at[m] = <<k, x>>
    BY <2>4
  <2>6. entry'[k][x] = entry[k][x] /\ l_hashed'[m] = l_hashed[m]
    BY <2>4, <2>5 DEF RemoveEffect
  <2> QED
    BY <1>1, <2>4, <2>5, <2>6 DEF Backed
<1> QED
  BY <1>3, <1>4, <1>5 DEF Placed

(* So a removal keeps the invariant.                                       *)
LEMMA RemoveKeeps ==
  ASSUME StackInv, NEW d \in Upper, RemovesName(d)
  PROVE  StackInv'
<1>1. PICK l \in Lower, i \in Inodes, n \in Names : RemoveEffect(d, l, i, n)
  BY RemoveSteps
<1>2. /\ UNCHANGED <<isdir, l_at, l_inode, l_count, mnt_count, i_count>>
      /\ UNCHANGED <<d_at, d_inode, lower_path, i_new, lower_inode, files>>
      /\ d_hashed' \in [Upper -> BOOLEAN] /\ \A e \in Upper : d_hashed'[e] => d_hashed[e]
      /\ Recorded
  BY <1>1 DEF RemovesName, RemoveEffect
<1>3. TypeOK'
  <2>1. entry' \in [Inodes -> [Names -> Inodes \cup {0}]] /\ l_hashed' \in [Lower -> BOOLEAN]
    BY <1>1 DEF RemoveEffect
  <2> QED
    BY <1>2, <2>1 DEF StackInv, TypeOK, Recorded
<1>4. RootStands' /\ Stacked' /\ InodesOfDentries'
  BY <1>2, SameRoot, SameStacked, SameInodes, FilesInUse
<1>5. RefsKept' /\ ("race" \notin failed' => SetUpOnce')
  BY <1>2, SameRefs, SameSetUp
<1>6. LowerCache' /\ ("record" \notin failed' => OneName' /\ Placed')
  BY <1>1, RemoveKeepsLower, RemoveKeepsPlaces
<1> QED
  BY <1>3, <1>4, <1>5, <1>6 DEF StackInv

-----------------------------------------------------------------------------
(* A rename: the lower dentries have moved, and the upper ones follow      *)
(* unless trfs had no memory for the record.                               *)
Renames(d, e) ==
  /\ IsFound(d) /\ (Negative(e) \/ IsFound(e)) /\ d_inode[d] # d_inode[e]
  /\ MayRename(lower_path[d], lower_path[e])
  /\ LowerMoves(lower_path[d], lower_path[e]) /\ Recorded
  /\ UNCHANGED <<l_count, mnt_count, i_count, lower_inode, files>>
  /\ UNCHANGED <<d_inode, lower_path, i_new>>
  /\ \/ d_move(d, e)
     \/ d_at' = d_at /\ d_hashed' = d_hashed /\ "record" \in failed'

(* Lower dentry o at <<i, n>> takes the place <<k, m>> of t.               *)
RenameEffect(d, e, o, t, i, n, k, m) ==
  /\ o = lower_path[d] /\ o \in Lower \ {1} /\ Used(o) /\ l_hashed[o] /\ l_at[o] = <<i, n>>
  /\ t = lower_path[e] /\ t \in Lower \ {1} /\ Used(t) /\ l_hashed[t] /\ l_at[t] = <<k, m>>
  /\ i \in Inodes /\ n \in Names /\ k \in Inodes /\ m \in Names
  /\ l_inode[o] # 0 /\ entry[i][n] = l_inode[o] /\ entry[k][m] = l_inode[t]
  /\ (i = k /\ n = m) <=> o = t
  /\ entry' \in [Inodes -> [Names -> Inodes \cup {0}]]
  /\ entry'[k][m] = l_inode[o] /\ (o # t => entry'[i][n] = 0)
  /\ \A x \in Inodes, y \in Names :
       (x # i \/ y # n) /\ (x # k \/ y # m) => entry'[x][y] = entry[x][y]
  /\ l_at'[o] = <<k, m>> /\ l_at'[t] = <<i, n>>
  /\ \A x \in Lower : x # o /\ x # t => l_at'[x] = l_at[x]
  /\ ~l_hashed'[t] /\ \A x \in Lower : x # t => l_hashed'[x] = l_hashed[x]
  /\ isdir' = isdir /\ l_inode' = l_inode
  /\ l_at' \in [Lower -> (Inodes \cup {0}) \X (Names \cup {NoName})]
  /\ l_hashed' \in [Lower -> BOOLEAN]

(* Both dentries of a rename are in use and present.                       *)
LEMMA RenameArgsTake ==
  ASSUME StackInv, NEW d \in Upper, NEW e \in Upper, Renames(d, e)
  PROVE  /\ d # 1 /\ e # 1 /\ d # e /\ InUse(d) /\ InUse(e) /\ Present(d) /\ Present(e)
         /\ e \notin i_new /\ d \notin i_new
<1>1. d # 1 /\ d # e /\ InUse(d) /\ Present(d) /\ d \notin i_new
  BY DEF Renames, IsFound, Positive, Present
<1>2. InUse(e) /\ Present(e)
  BY DEF Renames, IsFound, Positive, Negative, Present
<1>3. e # 1 /\ e \notin i_new
  BY InPlace DEF Renames, IsFound, Positive, Negative
<1> QED
  BY <1>1, <1>2, <1>3

(* A rename has that effect.                                               *)
LEMMA RenameSteps ==
  ASSUME StackInv, NEW d \in Upper, NEW e \in Upper, Renames(d, e)
  PROVE  \E o, t \in Lower, i, k \in Inodes, n, m \in Names : RenameEffect(d, e, o, t, i, n, k, m)
<1>1. PICK o : o = lower_path[d] /\ o \in Lower \ {1} /\ Used(o) /\ l_at[o] \in Inodes \X Names
  BY RenameArgsTake, InPlace
<1>2. PICK t : t = lower_path[e] /\ t \in Lower \ {1} /\ Used(t) /\ l_at[t] \in Inodes \X Names
  BY RenameArgsTake, InPlace
<1>3. PICK i \in Inodes, n \in Names : l_at[o] = <<i, n>>
  BY <1>1
<1>4. PICK k \in Inodes, m \in Names : l_at[t] = <<k, m>>
  BY <1>2
<1>5. Backed(o) /\ (Backed(t) \/ MayCreate(t)) /\ LowerMoves(o, t)
  BY <1>1, <1>2 DEF Renames, MayRename
<1>6. /\ l_hashed[o] /\ l_inode[o] # 0 /\ entry[i][n] = l_inode[o]
      /\ l_hashed[t] /\ entry[k][m] = l_inode[t]
  BY <1>3, <1>4, <1>5 DEF Backed, MayCreate
<1>7. (i = k /\ n = m) <=> o = t
  <2>1. l_at[o] = l_at[t] => o = t
    BY <1>1, <1>2, <1>6 DEF StackInv, LowerCache
  <2> QED
    BY <1>3, <1>4, <2>1
<1>8. /\ entry' = [entry EXCEPT ![l_at[o][1]][l_at[o][2]] = 0, ![l_at[t][1]][l_at[t][2]] = l_inode[o]]
      /\ l_at' = [l_at EXCEPT ![o] = l_at[t], ![t] = l_at[o]]
      /\ l_hashed' = [l_hashed EXCEPT ![t] = FALSE]
      /\ isdir' = isdir /\ l_inode' = l_inode
  BY <1>5 DEF LowerMoves
<1>9. /\ entry' \in [Inodes -> [Names -> Inodes \cup {0}]]
      /\ entry'[k][m] = l_inode[o] /\ (o # t => entry'[i][n] = 0)
      /\ \A x \in Inodes, y \in Names :
           (x # i \/ y # n) /\ (x # k \/ y # m) => entry'[x][y] = entry[x][y]
  <2>1. PICK en, j, a1, a2 : en = entry /\ j = l_inode[o] /\ a1 = l_at[o] /\ a2 = l_at[t]
    OBVIOUS
  <2>2. PICK en1 : en1 = [en EXCEPT ![a1[1]][a1[2]] = 0]
    OBVIOUS
  <2>3. PICK en2 : en2 = entry'
    OBVIOUS
  <2>4. en2 = [en1 EXCEPT ![a2[1]][a2[2]] = j]
    BY <1>8, <2>1, <2>2, <2>3
  <2>5. /\ en \in [Inodes -> [Names -> Inodes \cup {0}]] /\ j \in Inodes \cup {0}
        /\ a1 = <<i, n>> /\ a2 = <<k, m>> /\ 0 \in Inodes \cup {0}
    BY <1>1, <1>3, <1>4, <2>1 DEF StackInv, TypeOK
  <2>6. /\ en1 \in [Inodes -> [Names -> Inodes \cup {0}]] /\ en1[i][n] = 0
        /\ \A x \in Inodes, y \in Names : x # i \/ y # n => en1[x][y] = en[x][y]
    BY <2>2, <2>5, EntrySet
  <2>7. /\ en2 \in [Inodes -> [Names -> Inodes \cup {0}]] /\ en2[k][m] = j
        /\ \A x \in Inodes, y \in Names : x # k \/ y # m => en2[x][y] = en1[x][y]
    BY <2>4, <2>5, <2>6, EntrySet
  <2> QED
    BY <1>7, <2>1, <2>3, <2>6, <2>7
<1>10. /\ l_at'[o] = <<k, m>> /\ l_at'[t] = <<i, n>>
       /\ \A x \in Lower : x # o /\ x # t => l_at'[x] = l_at[x]
       /\ l_at' \in [Lower -> (Inodes \cup {0}) \X (Names \cup {NoName})]
  <2>1. l_at[o] = <<k, m>> => o = t
    BY <1>3, <1>7
  <2> QED
    BY <1>1, <1>2, <1>3, <1>4, <1>7, <1>8, <2>1 DEF StackInv, TypeOK
<1>11. /\ ~l_hashed'[t] /\ \A x \in Lower : x # t => l_hashed'[x] = l_hashed[x]
       /\ l_hashed' \in [Lower -> BOOLEAN]
  BY <1>2, <1>8 DEF StackInv, TypeOK
<1>12. RenameEffect(d, e, o, t, i, n, k, m)
  BY <1>1, <1>2, <1>3, <1>4, <1>6, <1>7, <1>8, <1>9, <1>10, <1>11 DEF RenameEffect
<1> QED
  BY <1>1, <1>2, <1>12

(* The lower dentries agree with the lower directories after the move.     *)
LEMMA RenameKeepsLower ==
  ASSUME StackInv, NEW d \in Upper, NEW e \in Upper, Renames(d, e),
         NEW o, NEW t, NEW i, NEW n, NEW k, NEW m, RenameEffect(d, e, o, t, i, n, k, m)
  PROVE  LowerCache'
<1>1. \A x \in Lower : Used(x)' = Used(x)
  BY DEF Renames, Used
<1>2. \A x \in Lower : x # o /\ x # t /\ Used(x) /\ l_hashed[x] => l_at[x] # <<i, n>> /\ l_at[x] # <<k, m>>
  BY DEF RenameEffect, StackInv, LowerCache
<1>3. \A x \in Lower \ {1} : Used(x)' => l_at'[x] \in Inodes \X Names
  <2>1. <<i, n>> \in Inodes \X Names /\ <<k, m>> \in Inodes \X Names
    BY DEF RenameEffect
  <2>2. \A x \in Lower \ {1} : x # o /\ x # t => l_at'[x] = l_at[x] /\ (Used(x) => l_at[x] \in Inodes \X Names)
    BY DEF RenameEffect, StackInv, LowerCache
  <2>3. l_at'[o] = <<k, m>> /\ l_at'[t] = <<i, n>>
    BY DEF RenameEffect
  <2> QED
    BY <1>1, <2>1, <2>2, <2>3
<1>4. \A x \in Lower \ {1} : Used(x)' /\ l_hashed'[x] => l_inode'[x] = entry'[l_at'[x][1]][l_at'[x][2]]
  <2> SUFFICES ASSUME NEW x \in Lower \ {1}, Used(x), l_hashed'[x]
               PROVE  l_inode[x] = entry'[l_at'[x][1]][l_at'[x][2]]
    BY <1>1 DEF RenameEffect
  <2>1. x # t /\ l_hashed[x]
    BY DEF RenameEffect
  <2>2. CASE x = o
    BY <2>1, <2>2 DEF RenameEffect
  <2>3. CASE x # o
    <3>1. PICK y \in Inodes, z \in Names : l_at[x] = <<y, z>>
      BY DEF StackInv, LowerCache
    <3>2. l_inode[x] = entry[y][z]
      BY <2>1, <3>1 DEF StackInv, LowerCache
    <3>3. (y # i \/ z # n) /\ (y # k \/ z # m)
      BY <1>2, <2>1, <2>3, <3>1
    <3> QED
      BY <2>1, <2>3, <3>1, <3>2, <3>3 DEF RenameEffect
  <2> QED
    BY <2>2, <2>3
<1>5. \A x, y \in Lower :
        Used(x)' /\ Used(y)' /\ l_hashed'[x] /\ l_hashed'[y] /\ l_at'[x] = l_at'[y] => x = y
  <2> SUFFICES ASSUME NEW x \in Lower, NEW y \in Lower, Used(x), Used(y),
                      l_hashed'[x], l_hashed'[y], l_at'[x] = l_at'[y]
               PROVE  x = y
    BY <1>1
  <2>1. x # t /\ y # t /\ l_hashed[x] /\ l_hashed[y]
    BY DEF RenameEffect
  <2>2. \A z \in Lower : z # o /\ z # t /\ Used(z) /\ l_hashed[z] => l_at'[z] = l_at[z] /\ l_at[z] # <<k, m>>
    BY <1>2 DEF RenameEffect
  <2>3. l_at'[o] = <<k, m>>
    BY DEF RenameEffect
  <2>4. CASE x = o \/ y = o
    BY <2>1, <2>2, <2>3, <2>4
  <2>5. CASE x # o /\ y # o
    BY <2>1, <2>2, <2>5 DEF StackInv, LowerCache
  <2> QED
    BY <2>4, <2>5
<1> QED
  BY <1>3, <1>4, <1>5 DEF LowerCache

(* A directory that moves has its new name only.                           *)
LEMMA RenameKeepsOneName ==
  ASSUME StackInv, NEW d \in Upper, NEW e \in Upper, Renames(d, e),
         NEW o, NEW t, NEW i, NEW n, NEW k, NEW m, RenameEffect(d, e, o, t, i, n, k, m),
         "record" \notin failed', o # t
  PROVE  OneName'
<1>0. OneName /\ 0 \notin isdir /\ 0 # Root
  BY Numbers DEF Renames, Recorded, StackInv, TypeOK
<1>1. PICK j, c : /\ j = l_inode[o] /\ c = l_inode[t]
                  /\ entry[i][n] = j /\ entry[k][m] = c /\ entry'[k][m] = j /\ entry'[i][n] = 0
                  /\ i \in Inodes /\ n \in Names /\ k \in Inodes /\ m \in Names
                  /\ ~(i = k /\ n = m) /\ j # 0
                  /\ \A x \in Inodes, y \in Names :
                       (x # i \/ y # n) /\ (x # k \/ y # m) => entry'[x][y] = entry[x][y]
  BY DEF RenameEffect
<1>2. \A x1, x2 \in Inodes, y1, y2 \in Names :
        entry'[x1][y1] \in isdir' /\ entry'[x2][y2] = entry'[x1][y1] => x1 = x2 /\ y1 = y2
  <2>1. ASSUME NEW x \in Inodes, NEW y \in Names, entry'[x][y] \in isdir
        PROVE  \/ x = k /\ y = m /\ entry'[x][y] = j
               \/ (x # k \/ y # m) /\ (x # i \/ y # n) /\ entry'[x][y] = entry[x][y]
    BY <1>0, <1>1, <2>1
  <2> SUFFICES ASSUME NEW x1 \in Inodes, NEW x2 \in Inodes, NEW y1 \in Names, NEW y2 \in Names,
                      entry'[x1][y1] \in isdir, entry'[x2][y2] = entry'[x1][y1]
               PROVE  x1 = x2 /\ y1 = y2
    BY DEF RenameEffect
  <2>2. CASE x1 = k /\ y1 = m /\ x2 = k /\ y2 = m
    BY <2>2
  <2>3. CASE x1 = k /\ y1 = m /\ ~(x2 = k /\ y2 = m)
    <3>1. entry[x2][y2] = j /\ entry[i][n] = j /\ j \in isdir /\ (x2 # i \/ y2 # n)
      BY <1>1, <2>1, <2>3
    <3> QED
      BY <1>0, <1>1, <3>1 DEF OneName
  <2>4. CASE ~(x1 = k /\ y1 = m) /\ x2 = k /\ y2 = m
    <3>1. entry[x1][y1] = j /\ entry[i][n] = j /\ j \in isdir /\ (x1 # i \/ y1 # n)
      BY <1>1, <2>1, <2>4
    <3> QED
      BY <1>0, <1>1, <3>1 DEF OneName
  <2>5. CASE ~(x1 = k /\ y1 = m) /\ ~(x2 = k /\ y2 = m)
    <3>1. entry[x1][y1] \in isdir /\ entry[x2][y2] = entry[x1][y1]
      BY <2>1, <2>5
    <3> QED
      BY <1>0, <3>1 DEF OneName
  <2> QED
    BY <2>2, <2>3, <2>4, <2>5
<1>3. \A x \in Inodes, y \in Names : entry'[x][y] # Root
  BY <1>0, <1>1 DEF OneName
<1>4. \A z : Named(z)' /\ z # 0 => Named(z)
  BY <1>1 DEF Named
<1>5. c \in isdir => ~Named(c)'
  <2> SUFFICES ASSUME c \in isdir, Named(c)'
               PROVE  FALSE
    OBVIOUS
  <2>1. c # Root /\ c # 0 /\ c # j
    BY <1>0, <1>1 DEF OneName
  <2>2. PICK x \in Inodes, y \in Names : entry'[x][y] = c
    BY <2>1 DEF Named
  <2>3. entry[x][y] = c /\ (x # k \/ y # m)
    BY <1>1, <2>1, <2>2
  <2> QED
    BY <1>0, <1>1, <2>3 DEF OneName
<1>6. \A x \in Lower \ {1} : (Used(x) /\ l_inode[x] \in isdir /\ Named(l_inode[x]) => l_hashed[x])'
  <2>1. Used(t)' /\ c \in isdir /\ Named(c)' => l_hashed'[t]
    BY <1>5
  <2> SUFFICES ASSUME NEW x \in Lower \ {1}, Used(x), l_inode[x] \in isdir, Named(l_inode[x])'
               PROVE  l_hashed'[x]
    BY DEF RenameEffect, Renames, Used
  <2>2. PICK z : z = l_inode[x] /\ l_inode' = l_inode
    BY DEF RenameEffect
  <2>3. z \in isdir /\ Named(z)'
    BY <2>2
  <2>4. x # t
    BY <1>1, <1>5, <2>2, <2>3
  <2>5. Named(z)
    BY <1>0, <1>4, <2>3
  <2> QED
    BY <1>0, <2>2, <2>3, <2>4, <2>5 DEF OneName, RenameEffect
<1>7. \A x, y \in Upper :
        /\ d_inode'[x] # 0 /\ d_inode'[y] # 0
        /\ LowerIno(x)' = LowerIno(y)' /\ LowerIno(x)' \in isdir'
        => x = y
  BY <1>0 DEF OneName, RenameEffect, Renames, LowerIno
<1> QED
  BY <1>2, <1>3, <1>6, <1>7 DEF OneName

(* The two dentries exchange places as the lower ones do.                  *)
LEMMA RenameKeepsPlaces ==
  ASSUME StackInv, NEW d \in Upper, NEW e \in Upper, Renames(d, e),
         NEW o, NEW t, NEW i, NEW n, NEW k, NEW m, RenameEffect(d, e, o, t, i, n, k, m),
         "record" \notin failed', o # t
  PROVE  Placed'
<1>0. /\ "record" \notin failed /\ Placed /\ d_move(d, e)
      /\ d # 1 /\ e # 1 /\ d # e /\ Present(d) /\ Present(e) /\ e \notin i_new
      /\ lower_path' = lower_path /\ l_inode' = l_inode /\ d_inode' = d_inode /\ i_new' = i_new
  BY RenameArgsTake DEF Renames, Recorded, StackInv, RenameEffect
<1>1. /\ d_at'[d] = d_at[e] /\ d_at'[e] = d_at[d] /\ ~d_hashed'[e]
      /\ \A x \in Upper : x # d /\ x # e => d_at'[x] = d_at[x]
      /\ \A x \in Upper : x # e => d_hashed'[x] = d_hashed[x]
  BY <1>0 DEF d_move, StackInv, TypeOK
<1>2. \A x \in Upper : Present(x)' => Present(x)
  BY <1>0, <1>1 DEF Present, Negative, InUse
<1>3. \A x \in Upper \ {1} : Present(x) /\ x # d /\ x # e =>
        /\ lower_path[x] \in Lower /\ l_at[lower_path[x]] # <<i, n>> /\ l_at[lower_path[x]] # <<k, m>>
        /\ lower_path[x] # o /\ lower_path[x] # t
        /\ l_at[lower_path[x]] \in Inodes \X Names
  <2> SUFFICES ASSUME NEW x \in Upper \ {1}, Present(x), x # d, x # e
               PROVE  /\ lower_path[x] \in Lower
                      /\ l_at[lower_path[x]] # <<i, n>> /\ l_at[lower_path[x]] # <<k, m>>
                      /\ lower_path[x] # o /\ lower_path[x] # t
                      /\ l_at[lower_path[x]] \in Inodes \X Names
    OBVIOUS
  <2>1. l_at[lower_path[x]] # l_at[lower_path[d]]
    BY <1>0, OnePlace
  <2>2. l_at[lower_path[x]] # l_at[lower_path[e]]
    BY <1>0, OnePlace
  <2>3. lower_path[x] \in Lower /\ l_at[lower_path[x]] \in Inodes \X Names
    BY PresentInUse, InPlace
  <2> QED
    BY <2>1, <2>2, <2>3 DEF RenameEffect
<1>4. /\ \A x \in Upper \ {1} : Present(x) =>
           l_at[lower_path[x]] = <<LowerIno(d_at[x][1]), d_at[x][2]>>
      /\ \A x \in Upper : LowerIno(x)' = LowerIno(x)
      /\ \A x \in Upper \ {1} : Present(x) => d_at[x][1] \in Upper
  BY <1>0, PresentInUse, InPlace DEF Placed, LowerIno
<1>5. \A x \in Upper \ {1} : Present(x) =>
        (l_at[lower_path[x]] = <<LowerIno(d_at[x][1]), d_at[x][2]>>)'
  <2> SUFFICES ASSUME NEW x \in Upper \ {1}, Present(x)
               PROVE  (l_at[lower_path[x]] = <<LowerIno(d_at[x][1]), d_at[x][2]>>)'
    OBVIOUS
  <2>1. PICK w \in Upper \ {1} : /\ Present(w) /\ d_at'[x] = d_at[w]
                                 /\ l_at'[lower_path[x]] = l_at[lower_path[w]]
    <3>1. CASE x = d
      BY <1>0, <1>1, <3>1 DEF RenameEffect
    <3>2. CASE x = e
      BY <1>0, <1>1, <3>2 DEF RenameEffect
    <3>3. CASE x # d /\ x # e
      BY <1>1, <1>3, <3>3 DEF RenameEffect
    <3> QED
      BY <3>1, <3>2, <3>3
  <2>2. PICK p : p = d_at[w][1]
    OBVIOUS
  <2>3. l_at[lower_path[w]] = <<LowerIno(p), d_at[w][2]>> /\ LowerIno(p)' = LowerIno(p)
    <3>1. p \in Upper
      BY <1>4, <2>1, <2>2
    <3>2. l_at[lower_path[w]] = <<LowerIno(d_at[w][1]), d_at[w][2]>>
      BY <1>4, <2>1
    <3>3. LowerIno(p) = LowerIno(d_at[w][1])
      BY <2>2
    <3> QED
      BY <1>4, <3>1, <3>2, <3>3
  <2>4. lower_path'[x] = lower_path[x] /\ d_at'[x][1] = p /\ d_at'[x][2] = d_at[w][2]
    BY <1>0, <2>1, <2>2
  <2>5. l_at'[lower_path'[x]] = <<LowerIno(p), d_at[w][2]>>
    BY <2>1, <2>3, <2>4
  <2>6. l_inode'[lower_path'[p]] = LowerIno(p)
    BY <2>3 DEF LowerIno
  <2> QED
    BY <2>4, <2>5, <2>6 DEF LowerIno
<1>6. \A x, y \in Upper : Present(x)' /\ Present(y)' /\ d_at'[x] = d_at'[y] => x = y
  <2>1. \A x, y \in Upper : Present(x) /\ Present(y) /\ d_at[x] = d_at[y] => x = y
    BY <1>0 DEF Placed
  <2> QED
    BY <1>0, <1>1, <1>2, <2>1
<1>7. \A x \in Upper \ {1} : d_hashed'[x] \/ x \in i_new' => Backed(lower_path[x])'
  <2> SUFFICES ASSUME NEW x \in Upper \ {1}, d_hashed'[x] \/ x \in i_new'
               PROVE  Backed(lower_path[x])'
    OBVIOUS
  <2>1. x # e /\ Present(x) /\ (d_hashed[x] \/ x \in i_new)
    BY <1>0, <1>1 DEF Present
  <2>2. CASE x = d
    <3>1. /\ lower_path'[x] = o /\ l_hashed'[o] /\ l_inode'[o] # 0 /\ l_at'[o] = <<k, m>>
          /\ entry'[k][m] = l_inode'[o]
      BY <1>0, <2>2 DEF RenameEffect
    <3> QED
      BY <3>1 DEF Backed
  <2>3. CASE x # d
    <3>1. PICK l : l = lower_path[x] /\ Backed(l)
      BY <1>0, <2>1 DEF Placed
    <3>2. PICK a \in Inodes, b \in Names : l_at[l] = <<a, b>>
      BY <1>3, <2>1, <2>3, <3>1
    <3>3. /\ l \in Lower /\ l # o /\ l # t /\ (a # i \/ b # n) /\ (a # k \/ b # m)
      BY <1>3, <2>1, <2>3, <3>1, <3>2
    <3>4. /\ l_at'[l] = l_at[l] /\ l_hashed'[l] = l_hashed[l] /\ l_inode'[l] = l_inode[l]
          /\ entry'[a][b] = entry[a][b]
      BY <3>3 DEF RenameEffect
    <3> QED
      BY <1>0, <3>1, <3>2, <3>4 DEF Backed
  <2> QED
    BY <2>2, <2>3
<1> QED
  BY <1>2, <1>5, <1>6, <1>7 DEF Placed

(* So a rename keeps the invariant.                                        *)
LEMMA RenameKeeps ==
  ASSUME StackInv, NEW d \in Upper, NEW e \in Upper, Renames(d, e)
  PROVE  StackInv'
<1>1. PICK o, t, i, n, k, m : RenameEffect(d, e, o, t, i, n, k, m)
  BY RenameSteps
<1>2. /\ d # 1 /\ e # 1 /\ d # e /\ InUse(d) /\ InUse(e) /\ Present(d) /\ Present(e)
      /\ e \notin i_new /\ d \notin i_new
  BY RenameArgsTake
<1>3. /\ UNCHANGED <<isdir, l_inode, l_count, mnt_count, i_count>>
      /\ UNCHANGED <<d_inode, lower_path, i_new, lower_inode, files>> /\ Recorded
  BY <1>1 DEF Renames, RenameEffect
<1>4. /\ d_at' \in [Upper -> (Upper \cup {0}) \X (Names \cup {NoName})]
      /\ d_hashed' \in [Upper -> BOOLEAN] /\ \A x \in Upper : d_hashed'[x] => d_hashed[x]
      /\ \A x \in Upper : \E w \in Upper :
           /\ d_at'[x] = d_at[w]
           /\ x = w \/ (x \in {d, e} /\ w \in {d, e})
  <2>1. CASE d_at' = d_at /\ d_hashed' = d_hashed
    BY <2>1 DEF StackInv, TypeOK
  <2>2. CASE d_move(d, e)
    BY <1>2, <2>2 DEF d_move, StackInv, TypeOK
  <2> QED
    BY <2>1, <2>2 DEF Renames
<1>5. TypeOK'
  <2>1. /\ entry' \in [Inodes -> [Names -> Inodes \cup {0}]]
        /\ l_at' \in [Lower -> (Inodes \cup {0}) \X (Names \cup {NoName})]
        /\ l_hashed' \in [Lower -> BOOLEAN]
    BY <1>1 DEF RenameEffect
  <2> QED
    BY <1>3, <1>4, <2>1 DEF StackInv, TypeOK, Recorded
<1>6. RootStands'
  <2>1. l_at'[1] = l_at[1]
    BY <1>1, Numbers DEF RenameEffect
  <2> QED
    BY <1>3, <2>1 DEF StackInv, RootStands
<1>7. Stacked'
  <2>1. \A x \in Upper : /\ InUse(x)' = InUse(x) /\ Positive(x)' = Positive(x)
                         /\ IsDir(x)' = IsDir(x)
    BY <1>3, SameView, SameDirs
  <2>2. \A x \in Upper : (~InUse(x))' => Unborn(x)'
    <3> SUFFICES ASSUME NEW x \in Upper, ~InUse(x)
                 PROVE  Unborn(x)'
      BY <2>1
    <3>1. d_at'[x] = d_at[x]
      BY <1>2, <1>4
    <3> QED
      BY <1>3, <1>4, <3>1 DEF StackInv, Stacked, Unborn
  <2>3. \A x \in Upper : InUse(x) /\ x # 1 => (d_at[x][1] \in Upper /\ IsDir(d_at[x][1]))'
    <3> SUFFICES ASSUME NEW x \in Upper, InUse(x), x # 1
                 PROVE  (d_at[x][1] \in Upper /\ IsDir(d_at[x][1]))'
      OBVIOUS
    <3>1. PICK w \in Upper : d_at'[x] = d_at[w] /\ InUse(w) /\ w # 1
      BY <1>2, <1>4
    <3>2. PICK y : y = d_at[w][1]
      OBVIOUS
    <3>3. y \in Upper /\ IsDir(y)
      BY <3>1, <3>2 DEF StackInv, Stacked
    <3> QED
      BY <2>1, <3>1, <3>2, <3>3
  <2>4. \A f \in Files : (files[f] # 0 => InUse(files[f]))'
    BY <1>3 DEF StackInv, Stacked, InUse
  <2>5. \A x \in Upper : d_hashed'[x] => Positive(x)'
    BY <1>4, <2>1 DEF StackInv, Stacked
  <2> QED
    BY <2>1, <2>2, <2>3, <2>4, <2>5 DEF Stacked
<1>8. InodesOfDentries' /\ RefsKept' /\ ("race" \notin failed' => SetUpOnce')
  BY <1>3, SameInodes, SameRefs, SameSetUp
<1>9. LowerCache'
  BY <1>1, RenameKeepsLower
<1>10. "record" \notin failed' => o # t
  <2> SUFFICES ASSUME "record" \notin failed', o = t
               PROVE  FALSE
    OBVIOUS
  <2>1. "record" \notin failed /\ lower_path[d] = lower_path[e]
    BY <1>1, <1>3 DEF Recorded, RenameEffect
  <2>2. l_at[lower_path[d]] = l_at[lower_path[e]]
    BY <2>1
  <2> QED
    BY <1>2, <2>1, <2>2, OnePlace
<1>11. "record" \notin failed' => OneName' /\ Placed'
  BY <1>1, <1>10, RenameKeepsOneName, RenameKeepsPlaces
<1> QED
  BY <1>5, <1>6, <1>7, <1>8, <1>9, <1>11 DEF StackInv

-----------------------------------------------------------------------------
(* A new name, for a new lower inode or for one there is: inode j gets the *)
(* place <<i, n>> of lower dentry l, on which d stands; d gets the upper   *)
(* inode u, or none where the operation stopped before.                    *)
AddEffect(d, l, i, n, j, u) ==
  /\ d \in Upper \ {1} /\ InUse(d) /\ d_inode[d] = 0 /\ d \notin i_new /\ ~d_hashed[d]
  /\ l = lower_path[d] /\ l \in Lower \ {1} /\ l_hashed[l] /\ l_inode[l] = 0
  /\ i \in Inodes /\ n \in Names /\ l_at[l] = <<i, n>> /\ entry[i][n] = 0
  /\ j \in Inodes \ {Root} /\ u \in Objs \cup {0}
  /\ entry' \in [Inodes -> [Names -> Inodes \cup {0}]] /\ entry'[i][n] = j
  /\ \A k \in Inodes, m \in Names : k # i \/ m # n => entry'[k][m] = entry[k][m]
  /\ l_inode' \in [Lower -> Inodes \cup {0}] /\ l_inode'[l] = j
  /\ \A m \in Lower : m # l => l_inode'[m] = l_inode[m]
  /\ l_at' = l_at /\ l_hashed' = l_hashed /\ l_count' = l_count /\ mnt_count' = mnt_count
  /\ d_at' = d_at /\ lower_path' = lower_path /\ i_new' = i_new /\ files' = files
  /\ d_inode' \in [Upper -> Objs \cup {0}] /\ d_hashed' \in [Upper -> BOOLEAN]
  /\ d_inode'[d] = u /\ (d_hashed'[d] <=> u # 0)
  /\ \A e \in Upper : e # d => d_inode'[e] = d_inode[e] /\ d_hashed'[e] = d_hashed[e]
  /\ Recorded

Unmet(j) == ~Named(j) /\ Matching(j) = {} /\ \A m \in Lower : Used(m) => l_inode[m] # j

AddedInode(j, u) ==
  /\ isdir' \subseteq Inodes /\ \A x : x # j => (x \in isdir' <=> x \in isdir)
  /\ j \in isdir \/ j \in isdir' => Unmet(j)
  /\ lower_inode' \in [Objs -> Inodes \cup {0}] /\ i_count' \in [Inodes -> Int]
  /\ u # 0 => lower_inode'[u] = j
  /\ \A v \in Objs : v # u => lower_inode'[v] = lower_inode[v]
  /\ \A e \in Upper : d_inode[e] # 0 => lower_inode'[d_inode[e]] = lower_inode[d_inode[e]]
  /\ \A e \in Upper : e \in i_new => d_inode[e] # u
  /\ lower_inode' = lower_inode \/ Unmet(j)
  /\ "inode" \notin failed' => \A k \in Inodes : i_count'[k] = Covering(k)'

(* What the dentries show of it.                                           *)
AddView(d, j, u) ==
  /\ \A e \in Upper : /\ InUse(e)' = InUse(e)
                      /\ e # d => Positive(e)' = Positive(e) /\ Negative(e)' = Negative(e)
                      /\ IsDir(e) => IsDir(e)' /\ e # d
                      /\ d_inode[e] # 0 => e # d /\ LowerIno(e)' = LowerIno(e)
                      /\ Present(e)' => Present(e)
  /\ LowerIno(d)' = j /\ (Positive(d)' <=> u # 0)

(* A new name changes nothing that the other dentries show.                *)
LEMMA AddSees ==
  ASSUME StackInv, NEW d, NEW l, NEW i, NEW n, NEW j, NEW u,
         AddEffect(d, l, i, n, j, u), AddedInode(j, u)
  PROVE  AddView(d, j, u)
<1>1. /\ lower_path' = lower_path /\ i_new' = i_new /\ d \in Upper /\ InUse(d)
      /\ d_inode[d] = 0 /\ d \notin i_new /\ d_inode'[d] = u
      /\ \A e \in Upper : e # d => d_inode'[e] = d_inode[e] /\ d_hashed'[e] = d_hashed[e]
  BY DEF AddEffect
<1>2. \A e \in Upper : InUse(e)' = InUse(e)
  BY <1>1 DEF InUse
<1>3. \A e \in Upper : e # d => Positive(e)' = Positive(e) /\ Negative(e)' = Negative(e)
  BY <1>1, <1>2 DEF Positive, Negative
<1>4. \A e \in Upper : d_inode[e] # 0 =>
        e # d /\ LowerIno(e)' = LowerIno(e) /\ lower_path[e] \in Lower /\ Used(lower_path[e])
  <2> SUFFICES ASSUME NEW e \in Upper, d_inode[e] # 0
               PROVE  /\ e # d /\ LowerIno(e)' = LowerIno(e)
                      /\ lower_path[e] \in Lower /\ Used(lower_path[e])
    OBVIOUS
  <2>1. lower_path[e] \in Lower /\ LowerIno(e) # 0 /\ Used(lower_path[e])
    BY InPlace DEF StackInv, InodesOfDentries
  <2>2. lower_path[e] # l
    BY <2>1 DEF LowerIno, AddEffect
  <2> QED
    BY <1>1, <2>1, <2>2 DEF LowerIno, AddEffect
<1>5. \A e \in Upper : IsDir(e) => IsDir(e)' /\ e # d
  <2> SUFFICES ASSUME NEW e \in Upper, IsDir(e)
               PROVE  IsDir(e)' /\ e # d
    OBVIOUS
  <2>1. d_inode[e] # 0 /\ Positive(e) /\ LowerIno(e) \in isdir
    BY DEF IsDir, Positive
  <2>2. /\ e # d /\ LowerIno(e)' = LowerIno(e) /\ lower_path[e] \in Lower
        /\ Used(lower_path[e])
    BY <1>4, <2>1
  <2>3. LowerIno(e) # j
    BY <2>1, <2>2 DEF AddedInode, Unmet, LowerIno
  <2>4. LowerIno(e) \in isdir'
    BY <2>1, <2>3 DEF AddedInode
  <2> QED
    BY <1>3, <2>1, <2>2, <2>4 DEF IsDir
<1>6. \A e \in Upper : Present(e)' => Present(e)
  BY <1>1, <1>2, <1>3 DEF Present, Negative
<1>7. LowerIno(d)' = j /\ (Positive(d)' <=> u # 0)
  BY <1>1, <1>2 DEF LowerIno, Positive, AddEffect
<1> QED
  BY <1>2, <1>3, <1>4, <1>5, <1>6, <1>7 DEF AddView

(* The upper part of the invariant, with the dentry's inode or without.    *)
LEMMA AddKeepsUpper ==
  ASSUME StackInv, NEW d, NEW l, NEW i, NEW n, NEW j, NEW u,
         AddEffect(d, l, i, n, j, u), AddedInode(j, u), AddView(d, j, u)
  PROVE  TypeOK' /\ RootStands' /\ Stacked' /\ InodesOfDentries'
<1>1. TypeOK'
  BY DEF AddEffect, AddedInode, Recorded, StackInv, TypeOK
<1>2. RootStands'
  <2>1. lower_inode'[1] = Root
    BY Numbers DEF AddedInode, StackInv, RootStands
  <2> QED
    BY <2>1, Numbers DEF AddEffect, AddedInode, StackInv, RootStands
<1>3. Stacked'
  <2>1. \A e \in Upper : (~InUse(e))' => Unborn(e)'
    BY DEF AddEffect, AddView, StackInv, Stacked, Unborn
  <2>2. \A e \in Upper : d_hashed'[e] => Positive(e)'
    BY DEF AddEffect, AddView, StackInv, Stacked
  <2>3. \A e \in Upper : (InUse(e) /\ e # 1 => d_at[e][1] \in Upper /\ IsDir(d_at[e][1]))'
    <3> SUFFICES ASSUME NEW e \in Upper, InUse(e), e # 1
                 PROVE  (d_at[e][1] \in Upper /\ IsDir(d_at[e][1]))'
      BY DEF AddView
    <3>1. PICK x : x = d_at[e][1]
      OBVIOUS
    <3>2. x \in Upper /\ IsDir(x)
      BY <3>1, InPlace
    <3>3. IsDir(x)' /\ d_at'[e][1] = x
      BY <3>1, <3>2 DEF AddEffect, AddView
    <3> QED
      BY <3>2, <3>3
  <2>4. \A f \in Files : (files[f] # 0 => InUse(files[f]))'
    BY DEF AddEffect, StackInv, Stacked, InUse
  <2> QED
    BY <2>1, <2>2, <2>3, <2>4 DEF Stacked
<1>4. InodesOfDentries'
  <2>1. \A e \in Upper : (d_inode[e] # 0 => LowerIno(e) # 0)'
    <3>1. j # 0
      BY Numbers DEF AddEffect
    <3>2. \A e \in Upper : d_inode[e] # 0 => (LowerIno(e) # 0)'
      BY DEF AddView, StackInv, InodesOfDentries
    <3> QED
      BY <3>1, <3>2 DEF AddEffect, AddView
  <2>2. \A e \in Upper : (Positive(e) => lower_inode[d_inode[e]] = LowerIno(e))'
    <3>1. Positive(d)' => (lower_inode[d_inode[d]] = LowerIno(d))'
      BY DEF AddEffect, AddedInode, AddView
    <3>2. \A e \in Upper : Positive(e) => d_inode[e] # 0
      BY DEF Positive
    <3>3. \A e \in Upper : e # d /\ Positive(e) => (lower_inode[d_inode[e]] = LowerIno(e))'
      BY <3>2 DEF AddEffect, AddedInode, AddView, StackInv, InodesOfDentries
    <3> QED
      BY <3>1, <3>3 DEF AddView
  <2>3. i_new' \subseteq Upper /\ i_new' = i_new
    BY <1>1 DEF TypeOK, AddEffect
  <2>4. \A e \in Upper : e \in i_new =>
          /\ d_inode[e] # 0 /\ lower_inode[d_inode[e]] = 0 /\ e # d /\ d_inode[e] # u
          /\ \A x \in Upper : d_inode[x] = d_inode[e] => x = e
    BY DEF AddEffect, AddedInode, StackInv, InodesOfDentries
  <2>5. \A e \in Upper : e \in i_new =>
          /\ d_inode'[e] # 0 /\ lower_inode'[d_inode'[e]] = 0
          /\ \A x \in Upper : d_inode'[x] = d_inode'[e] => x = e
    <3> SUFFICES ASSUME NEW e \in Upper, e \in i_new
                 PROVE  /\ d_inode'[e] # 0 /\ lower_inode'[d_inode'[e]] = 0
                        /\ \A x \in Upper : d_inode'[x] = d_inode'[e] => x = e
      OBVIOUS
    <3>1. d_inode'[e] = d_inode[e] /\ d_inode[e] # 0
      BY <2>4 DEF AddEffect
    <3>2. lower_inode'[d_inode[e]] = 0
      BY <2>4, <3>1 DEF AddedInode
    <3>3. \A x \in Upper : d_inode'[x] = d_inode[e] => x = e
      BY <2>4 DEF AddEffect
    <3> QED
      BY <3>1, <3>2, <3>3
  <2>6. \A v \in Objs : lower_inode'[v] # 0 => \E e \in Upper : Positive(e)' /\ d_inode'[e] = v
    <3> SUFFICES ASSUME NEW v \in Objs, lower_inode'[v] # 0
                 PROVE  \E e \in Upper : Positive(e)' /\ d_inode'[e] = v
      OBVIOUS
    <3>1. CASE v = u
      BY <3>1, Numbers DEF AddEffect, AddView
    <3>2. CASE v # u
      <4>1. PICK e \in Upper : Positive(e) /\ d_inode[e] = v
        BY <3>2 DEF AddedInode, StackInv, InodesOfDentries
      <4>2. e # d /\ Positive(e)' /\ d_inode'[e] = v
        BY <4>1 DEF AddEffect, AddView, Positive
      <4> QED
        BY <4>2
    <3> QED
      BY <3>1, <3>2
  <2> QED
    BY <2>1, <2>2, <2>3, <2>5, <2>6 DEF InodesOfDentries
<1> QED
  BY <1>1, <1>2, <1>3, <1>4

(* The lower dentry gets the inode of its name; an inode is set up only if *)
(* it is new.                                                              *)
LEMMA AddKeepsLower ==
  ASSUME StackInv, NEW d, NEW l, NEW i, NEW n, NEW j, NEW u,
         AddEffect(d, l, i, n, j, u), AddedInode(j, u), AddView(d, j, u)
  PROVE  RefsKept' /\ LowerCache' /\ ("race" \notin failed' => SetUpOnce')
<1>1. RefsKept'
  <2>1. /\ \A k : Holders(k)' = Holders(k)
        /\ Standing' = Standing
    BY DEF AddEffect, Holders, Standing, InUse
  <2>2. (\A k \in Lower : /\ l_count[k] >= Holders(k)
                          /\ "record" \notin failed => l_count[k] = Holders(k))'
    BY <2>1 DEF AddEffect, Recorded, StackInv, RefsKept
  <2>3. (/\ mnt_count >= Standing
         /\ "record" \notin failed => mnt_count = Standing)'
    BY <2>1 DEF AddEffect, Recorded, StackInv, RefsKept
  <2>4. ("inode" \notin failed => \A k \in Inodes : i_count[k] = Covering(k))'
    BY DEF AddedInode
  <2> QED
    BY <2>2, <2>3, <2>4 DEF RefsKept
<1>2. LowerCache'
  <2>1. \A m \in Lower : Used(m)' = Used(m)
    BY DEF AddEffect, Used
  <2>2. Used(l)
    BY InPlace DEF AddEffect
  <2>3. \A m \in Lower \ {1} : (Used(m) => l_at[m] \in Inodes \X Names)'
    BY <2>1 DEF AddEffect, StackInv, LowerCache
  <2>4. \A m \in Lower \ {1} : (Used(m) /\ l_hashed[m] => l_inode[m] = entry[l_at[m][1]][l_at[m][2]])'
    <3> SUFFICES ASSUME NEW m \in Lower \ {1}, Used(m), l_hashed[m]
                 PROVE  l_inode'[m] = entry'[l_at[m][1]][l_at[m][2]]
      BY <2>1 DEF AddEffect
    <3>1. CASE m = l
      BY <3>1 DEF AddEffect
    <3>2. CASE m # l
      <4>1. PICK k \in Inodes, x \in Names : l_at[m] = <<k, x>>
        BY DEF StackInv, LowerCache
      <4>2. l_inode[m] = entry[k][x]
        BY <4>1 DEF StackInv, LowerCache
      <4>3. k # i \/ x # n
        BY <2>2, <3>2, <4>1 DEF AddEffect, StackInv, LowerCache
      <4> QED
        BY <3>2, <4>1, <4>2, <4>3 DEF AddEffect
    <3> QED
      BY <3>1, <3>2
  <2>5. \A m, k \in Lower :
          (Used(m) /\ Used(k) /\ l_hashed[m] /\ l_hashed[k] /\ l_at[m] = l_at[k] => m = k)'
    BY <2>1 DEF AddEffect, StackInv, LowerCache
  <2> QED
    BY <2>3, <2>4, <2>5 DEF LowerCache
<1>3. ASSUME "race" \notin failed'
      PROVE  SetUpOnce'
  <2>0. SetUpOnce /\ i_new' = i_new
    BY <1>3 DEF AddEffect, Recorded, StackInv
  <2>1. \A v, w \in Objs : lower_inode'[v] = lower_inode'[w] /\ lower_inode'[v] # 0 => v = w
    <3>1. \A v, w \in Objs : lower_inode[v] = lower_inode[w] /\ lower_inode[v] # 0 => v = w
      BY <2>0 DEF SetUpOnce
    <3>2. CASE lower_inode' = lower_inode
      BY <3>1, <3>2
    <3>3. CASE Unmet(j)
      <4>1. \A v \in Objs : lower_inode[v] # j
        BY <3>3 DEF Unmet, Matching
      <4>2. \A v \in Objs :
              (v = u /\ lower_inode'[v] = j) \/ (v # u /\ lower_inode'[v] = lower_inode[v])
        BY Numbers DEF AddedInode
      <4> QED
        BY <3>1, <4>1, <4>2
    <3> QED
      BY <3>2, <3>3 DEF AddedInode
  <2>2. \A e \in i_new : /\ e \in Upper /\ LowerIno(e)' = LowerIno(e)
                         /\ lower_path[e] \in Lower /\ Used(lower_path[e])
    BY InPlace DEF AddView, StackInv, TypeOK
  <2>3. \A e \in i_new' : Matching(LowerIno(e))' = {}
    <3> SUFFICES ASSUME NEW e \in i_new, NEW v \in Objs, lower_inode'[v] = LowerIno(e)'
                 PROVE  FALSE
      BY <2>0 DEF Matching
    <3>1. lower_inode'[v] = LowerIno(e) /\ lower_inode[v] # LowerIno(e)
      BY <2>0, <2>2 DEF SetUpOnce, Matching
    <3>2. v = u /\ Unmet(j) /\ LowerIno(e) = j
      BY <3>1, Numbers DEF AddedInode
    <3> QED
      BY <2>2, <3>2 DEF Unmet, LowerIno
  <2>4. \A e, x \in i_new' : LowerIno(e)' = LowerIno(x)' => e = x
    BY <2>0, <2>2 DEF SetUpOnce
  <2> QED
    BY <2>1, <2>3, <2>4 DEF SetUpOnce
<1> QED
  BY <1>1, <1>2, <1>3

(* A directory that is made had no name.                                   *)
LEMMA AddKeepsOneName ==
  ASSUME StackInv, NEW d, NEW l, NEW i, NEW n, NEW j, NEW u,
         AddEffect(d, l, i, n, j, u), AddedInode(j, u), AddView(d, j, u),
         "record" \notin failed'
  PROVE  OneName'
<1>0. OneName /\ 0 \notin isdir /\ 0 \notin isdir'
  BY Numbers DEF AddEffect, AddedInode, Recorded, StackInv, TypeOK
<1>1. \A k \in Inodes, x \in Names :
        entry'[k][x] = entry[k][x] \/ (k = i /\ x = n /\ entry'[k][x] = j)
  BY DEF AddEffect
<1>2. j \in isdir' => \A k \in Inodes, x \in Names : entry[k][x] # j
  BY DEF AddedInode, Unmet, Named
<1>3. \A z : z \in isdir' => z = j \/ z \in isdir
  BY DEF AddedInode
<1>4. \A i1, i2 \in Inodes, n1, n2 \in Names :
        entry'[i1][n1] \in isdir' /\ entry'[i2][n2] = entry'[i1][n1] => i1 = i2 /\ n1 = n2
  <2> SUFFICES ASSUME NEW i1 \in Inodes, NEW i2 \in Inodes, NEW n1 \in Names, NEW n2 \in Names,
                      entry'[i1][n1] \in isdir', entry'[i2][n2] = entry'[i1][n1]
               PROVE  i1 = i2 /\ n1 = n2
    OBVIOUS
  <2>1. CASE entry'[i1][n1] = j
    BY <1>1, <1>2, <2>1
  <2>2. CASE entry'[i1][n1] # j
    <3>1. entry[i1][n1] \in isdir /\ entry[i2][n2] = entry[i1][n1]
      BY <1>1, <1>3, <2>2
    <3> QED
      BY <1>0, <3>1 DEF OneName
  <2> QED
    BY <2>1, <2>2
<1>5. \A k \in Inodes, x \in Names : entry'[k][x] # Root
  <2>1. j # Root /\ \A k \in Inodes, x \in Names : entry[k][x] # Root
    BY <1>0 DEF OneName, AddEffect
  <2> QED
    BY <1>1, <2>1
<1>6. \A z : Named(z)' /\ z # j => Named(z)
  BY <1>1 DEF Named
<1>7. \A m \in Lower \ {1} : (Used(m) /\ l_inode[m] \in isdir /\ Named(l_inode[m]) => l_hashed[m])'
  <2> SUFFICES ASSUME NEW m \in Lower \ {1}, Used(m), (l_inode[m] \in isdir)', Named(l_inode[m])'
               PROVE  l_hashed'[m]
    BY DEF AddEffect, Used
  <2>1. CASE m = l
    BY <2>1 DEF AddEffect
  <2>2. CASE m # l
    <3>1. PICK z : z = l_inode[m] /\ z = l_inode'[m]
      BY <2>2 DEF AddEffect
    <3>2. z \in isdir' /\ Named(z)'
      BY <3>1
    <3>3. z # j
      BY <3>1, <3>2 DEF AddedInode, Unmet
    <3>4. z \in isdir /\ Named(z)
      BY <1>3, <1>6, <3>2, <3>3
    <3> QED
      BY <1>0, <3>1, <3>4 DEF OneName, AddEffect
  <2> QED
    BY <2>1, <2>2
<1>8. \A e \in Upper : d_inode[e] # 0 /\ j \in isdir' => LowerIno(e) # j
  BY InPlace DEF AddedInode, Unmet, LowerIno
<1>9. \A e, x \in Upper :
        /\ d_inode'[e] # 0 /\ d_inode'[x] # 0
        /\ LowerIno(e)' = LowerIno(x)' /\ LowerIno(e)' \in isdir'
        => e = x
  <2> SUFFICES ASSUME NEW e \in Upper, NEW x \in Upper, d_inode'[e] # 0, d_inode'[x] # 0,
                      LowerIno(e)' = LowerIno(x)', LowerIno(e)' \in isdir', e # x
               PROVE  FALSE
    OBVIOUS
  <2>1. CASE e # d /\ x # d
    <3>1. /\ d_inode[e] # 0 /\ d_inode[x] # 0
          /\ LowerIno(e)' = LowerIno(e) /\ LowerIno(x)' = LowerIno(x)
      BY <2>1 DEF AddEffect, AddView
    <3>2. LowerIno(e) \in isdir
      BY <1>3, <1>8, <3>1
    <3> QED
      BY <1>0, <3>1, <3>2 DEF OneName
  <2>2. CASE e = d
    BY <1>8, <2>2 DEF AddEffect, AddView
  <2>3. CASE x = d
    BY <1>8, <2>3 DEF AddEffect, AddView
  <2> QED
    BY <2>1, <2>2, <2>3
<1> QED
  BY <1>4, <1>5, <1>7, <1>9 DEF OneName

(* The dentry had its place already, and no other one does.                *)
LEMMA AddKeepsPlaces ==
  ASSUME StackInv, NEW d, NEW l, NEW i, NEW n, NEW j, NEW u,
         AddEffect(d, l, i, n, j, u), AddedInode(j, u), AddView(d, j, u),
         "record" \notin failed'
  PROVE  Placed'
<1>0. /\ Placed /\ d_at' = d_at /\ lower_path' = lower_path /\ i_new' = i_new
      /\ l_at' = l_at /\ l_hashed' = l_hashed
  BY DEF AddEffect, Recorded, StackInv
<1>1. \A e \in Upper : Present(e)' => Present(e)
  BY DEF AddView
<1>2. \A e \in Upper \ {1} : Present(e)' =>
        (l_at[lower_path[e]] = <<LowerIno(d_at[e][1]), d_at[e][2]>>)'
  <2> SUFFICES ASSUME NEW e \in Upper \ {1}, Present(e)
               PROVE  (l_at[lower_path[e]] = <<LowerIno(d_at[e][1]), d_at[e][2]>>)'
    BY <1>1
  <2>1. PICK x : x = d_at[e][1]
    OBVIOUS
  <2>2. x \in Upper /\ d_inode[x] # 0 /\ l_at[lower_path[e]] = <<LowerIno(x), d_at[e][2]>>
    BY <1>0, <2>1, InPlace, PresentInUse DEF Placed
  <2>3. LowerIno(x)' = LowerIno(x)
    BY <2>2 DEF AddView
  <2> QED
    BY <1>0, <2>1, <2>2, <2>3
<1>3. \A e, x \in Upper : Present(e)' /\ Present(x)' /\ d_at'[e] = d_at'[x] => e = x
  BY <1>0, <1>1 DEF Placed
<1>4. \A e \in Upper \ {1} : d_hashed'[e] \/ e \in i_new' => Backed(lower_path[e])'
  <2> SUFFICES ASSUME NEW e \in Upper \ {1}, d_hashed'[e] \/ e \in i_new'
               PROVE  Backed(lower_path[e])'
    OBVIOUS
  <2>1. CASE e = d
    BY <2>1, Numbers DEF AddEffect, Backed
  <2>2. CASE e # d
    <3>1. (d_hashed[e] \/ e \in i_new) /\ Present(e) /\ InUse(e)
      BY <2>2, PresentInUse DEF AddEffect, Present
    <3>2. PICK m : m = lower_path[e]
      OBVIOUS
    <3>3. Backed(m) /\ l_at[m] \in Inodes \X Names /\ m \in Lower
      BY <1>0, <3>1, <3>2, InPlace DEF Placed
    <3>4. PICK a \in Inodes, b \in Names : l_at[m] = <<a, b>>
      BY <3>3
    <3>5. l_hashed[m] /\ l_inode[m] # 0 /\ entry[a][b] = l_inode[m]
      BY <3>3, <3>4 DEF Backed
    <3>6. m # l /\ (a # i \/ b # n)
      BY <3>5 DEF AddEffect
    <3>7. l_inode'[m] = l_inode[m] /\ entry'[a][b] = entry[a][b]
      BY <3>3, <3>6 DEF AddEffect
    <3> QED
      BY <1>0, <3>2, <3>4, <3>5, <3>7 DEF Backed
  <2> QED
    BY <2>1, <2>2
<1> QED
  BY <1>2, <1>3, <1>4 DEF Placed

(* So a new name keeps the invariant.                                      *)
LEMMA AddKeeps ==
  ASSUME StackInv, NEW d, NEW l, NEW i, NEW n, NEW j, NEW u,
         AddEffect(d, l, i, n, j, u), AddedInode(j, u)
  PROVE  StackInv'
<1>1. AddView(d, j, u)
  BY AddSees
<1>2. TypeOK' /\ RootStands' /\ Stacked' /\ InodesOfDentries'
  BY <1>1, AddKeepsUpper
<1>3. RefsKept' /\ LowerCache' /\ ("race" \notin failed' => SetUpOnce')
  BY <1>1, AddKeepsLower
<1>4. "record" \notin failed' => OneName' /\ Placed'
  BY <1>1, AddKeepsOneName, AddKeepsPlaces
<1> QED
  BY <1>2, <1>3, <1>4 DEF StackInv

-----------------------------------------------------------------------------
(* The operations that add a name.                                         *)
Adds(d, j, u) ==
  /\ Negative(d) /\ MayCreate(lower_path[d]) /\ LowerAdds(lower_path[d], j)
  /\ j \in Inodes \ {Root} /\ Recorded
  /\ \/ u \in Objs /\ interpose(d, u)
     \/ u = 0 /\ UNCHANGED <<d_at, d_inode, d_hashed, lower_path, i_new>>
  /\ UNCHANGED <<l_count, mnt_count, files>>

(* Such an operation has that effect.                                      *)
LEMMA AddSteps ==
  ASSUME StackInv, NEW d \in Upper, NEW j, NEW u, Adds(d, j, u)
  PROVE  \E l, i, n : AddEffect(d, l, i, n, j, u)
<1>1. InUse(d) /\ d_inode[d] = 0 /\ d # 1 /\ d \notin i_new /\ ~d_hashed[d]
  <2>1. InUse(d) /\ d_inode[d] = 0
    BY DEF Adds, Negative
  <2> QED
    BY <2>1, Numbers DEF StackInv, RootStands, Stacked, Positive, InodesOfDentries
<1>2. PICK l : l = lower_path[d]
  OBVIOUS
<1>3. l \in Lower \ {1} /\ l_at[l] \in Inodes \X Names
  BY <1>1, <1>2, InPlace
<1>4. PICK i \in Inodes, n \in Names : l_at[l] = <<i, n>>
  BY <1>3
<1>5. l_hashed[l] /\ l_inode[l] = 0 /\ entry[i][n] = 0
  BY <1>2, <1>4 DEF Adds, MayCreate
<1>6. /\ entry' = [entry EXCEPT ![l_at[l][1]][l_at[l][2]] = j]
      /\ l_inode' = [l_inode EXCEPT ![l] = j] /\ l_at' = l_at /\ l_hashed' = l_hashed
      /\ j \in Inodes \ {Root} /\ u \in Objs \cup {0} /\ Recorded
      /\ l_count' = l_count /\ mnt_count' = mnt_count /\ files' = files
      /\ d_at' = d_at /\ lower_path' = lower_path /\ i_new' = i_new
  BY <1>2 DEF Adds, LowerAdds, interpose
<1>7. /\ entry' \in [Inodes -> [Names -> Inodes \cup {0}]] /\ entry'[i][n] = j
      /\ \A k \in Inodes, m \in Names : k # i \/ m # n => entry'[k][m] = entry[k][m]
  <2>1. PICK en, en1, at : en = entry /\ en1 = entry' /\ at = l_at[l]
    OBVIOUS
  <2>2. en \in [Inodes -> [Names -> Inodes \cup {0}]] /\ at = <<i, n>> /\ j \in Inodes \cup {0}
        /\ en1 = [en EXCEPT ![at[1]][at[2]] = j]
    BY <1>4, <1>6, <2>1 DEF StackInv, TypeOK
  <2>3. /\ en1 \in [Inodes -> [Names -> Inodes \cup {0}]] /\ en1[i][n] = j
        /\ \A k \in Inodes, m \in Names : k # i \/ m # n => en1[k][m] = en[k][m]
    BY <2>2, EntrySet
  <2> QED
    BY <2>1, <2>3
<1>8. /\ l_inode' \in [Lower -> Inodes \cup {0}] /\ l_inode'[l] = j
      /\ \A m \in Lower : m # l => l_inode'[m] = l_inode[m]
  BY <1>3, <1>6 DEF StackInv, TypeOK
<1>9. /\ d_inode' \in [Upper -> Objs \cup {0}] /\ d_hashed' \in [Upper -> BOOLEAN]
      /\ d_inode'[d] = u /\ (d_hashed'[d] <=> u # 0)
      /\ \A e \in Upper : e # d => d_inode'[e] = d_inode[e] /\ d_hashed'[e] = d_hashed[e]
  <2>1. CASE u \in Objs /\ interpose(d, u)
    BY <2>1, Numbers DEF interpose, StackInv, TypeOK
  <2>2. CASE u = 0 /\ UNCHANGED <<d_at, d_inode, d_hashed, lower_path, i_new>>
    BY <1>1, <2>2 DEF StackInv, TypeOK
  <2> QED
    BY <2>1, <2>2 DEF Adds
<1>10. AddEffect(d, l, i, n, j, u)
  BY <1>1, <1>2, <1>3, <1>4, <1>5, <1>6, <1>7, <1>8, <1>9 DEF AddEffect
<1> QED
  BY <1>10

(* A free lower inode has no name, no lower dentry and no upper inode.     *)
LEMMA FreeIsUnmet ==
  ASSUME StackInv, NEW j \in FreeInodes
  PROVE  j \in Inodes \ {Root} /\ Unmet(j)
<1>1. j \in Inodes /\ ~Named(j) /\ \A m \in Lower : Used(m) => l_inode[m] # j
  BY DEF FreeInodes, Live, Used
<1>2. Matching(j) = {}
  <2> SUFFICES ASSUME NEW v \in Objs, lower_inode[v] = j
               PROVE  FALSE
    BY DEF Matching
  <2>1. PICK e \in Upper : Positive(e) /\ d_inode[e] = v
    BY <1>1, Numbers DEF StackInv, InodesOfDentries
  <2>2. LowerIno(e) = j /\ lower_path[e] \in Lower /\ Used(lower_path[e])
    BY <2>1, InPlace DEF StackInv, InodesOfDentries, Positive
  <2> QED
    BY <1>1, <2>2 DEF LowerIno
<1> QED
  BY <1>1, <1>2 DEF Unmet, Named

(* An inode just made is no other dentry's.                                *)
LEMMA FreshAdded ==
  ASSUME StackInv, NEW j \in Inodes \ {Root}, Unmet(j), NEW u, Recorded,
         isdir' = isdir \cup {j} \/ isdir' = isdir \ {j},
         \/ /\ u \in FreeObjs /\ lower_inode' = [lower_inode EXCEPT ![u] = j]
            /\ i_count' = [i_count EXCEPT ![j] = 1]
         \/ /\ u = 0 /\ lower_inode' = lower_inode
            /\ \/ i_count' = i_count
               \/ "inode" \in failed' /\ i_count' = [i_count EXCEPT ![j] = -1]
  PROVE  AddedInode(j, u)
<1>1. isdir' \subseteq Inodes /\ \A x : x # j => (x \in isdir' <=> x \in isdir)
  BY DEF StackInv, TypeOK
<1>2. CASE /\ u \in FreeObjs /\ lower_inode' = [lower_inode EXCEPT ![u] = j]
           /\ i_count' = [i_count EXCEPT ![j] = 1]
  <2>1. /\ u \in Objs /\ lower_inode[u] = 0 /\ lower_inode'[u] = j
        /\ \A e \in Upper : d_inode[e] # u
        /\ \A v \in Objs : v # u => lower_inode'[v] = lower_inode[v]
        /\ lower_inode' \in [Objs -> Inodes \cup {0}] /\ i_count' \in [Inodes -> Int]
        /\ i_count'[j] = 1 /\ \A k \in Inodes : k # j => i_count'[k] = i_count[k]
    BY <1>2 DEF FreeObjs, StackInv, TypeOK
  <2>2. \A e \in Upper : d_inode[e] # 0 => lower_inode'[d_inode[e]] = lower_inode[d_inode[e]]
    BY <2>1, InPlace
  <2>3. Covering(j)' = 1 /\ \A k \in Inodes : k # j => Covering(k)' = Covering(k)
    <3>1. Covering(j) = 0
      <4>1. {x \in Objs : lower_inode[x] = j} = {}
        BY DEF Unmet, Matching
      <4> QED
        BY <4>1, FS_EmptySet DEF Covering
    <3>2. PICK li, li1 : li = lower_inode /\ li1 = lower_inode'
      OBVIOUS
    <3>3. u \in Objs /\ j \in Inodes /\ li[u] = 0 /\ li1[u] = j
          /\ \A v \in Objs : v # u => li1[v] = li[v]
      BY <2>1, <3>2
    <3>4. /\ \A k \in Inodes : k # j => CoveringOf(li1, k) = CoveringOf(li, k)
          /\ CoveringOf(li1, j) = CoveringOf(li, j) + 1
      BY <3>3, InodeCovers
    <3> QED
      BY <3>1, <3>2, <3>4, CountsNow
  <2>4. "inode" \notin failed' => \A k \in Inodes : i_count'[k] = Covering(k)'
    BY <2>1, <2>3 DEF Recorded, StackInv, RefsKept
  <2> QED
    BY <1>1, <2>1, <2>2, <2>4 DEF AddedInode
<1>3. CASE /\ u = 0 /\ lower_inode' = lower_inode
           /\ \/ i_count' = i_count
              \/ "inode" \in failed' /\ i_count' = [i_count EXCEPT ![j] = -1]
  <2>1. \A k : Covering(k)' = Covering(k)
    BY <1>3 DEF Covering
  <2>2. "inode" \notin failed' => \A k \in Inodes : i_count'[k] = Covering(k)'
    BY <1>3, <2>1 DEF Recorded, StackInv, RefsKept
  <2>3. i_count' \in [Inodes -> Int] /\ lower_inode' \in [Objs -> Inodes \cup {0}]
    BY <1>3 DEF StackInv, TypeOK
  <2>4. \A e \in Upper : e \in i_new => d_inode[e] # u
    BY <1>3, InPlace
  <2> QED
    BY <1>1, <1>3, <2>2, <2>3, <2>4 DEF AddedInode
<1> QED
  BY <1>2, <1>3

(* A creation: the lower inode is made, and the upper one unless wrapfs or *)
(* trfs has no memory for what comes next.                                 *)
MakesName(d, dir, u) ==
  /\ Negative(d) /\ MayCreate(lower_path[d]) /\ FreeInodes # {}
  /\ LowerMakes(lower_path[d], Least(FreeInodes), dir) /\ Recorded
  /\ \/ /\ u \in FreeObjs /\ interpose(d, u)
        /\ lower_inode' = [lower_inode EXCEPT ![u] = Least(FreeInodes)]
        /\ i_count' = [i_count EXCEPT ![Least(FreeInodes)] = 1]
     \/ /\ u = 0 /\ UNCHANGED <<d_at, d_inode, d_hashed, lower_path, i_new, lower_inode>>
        /\ \/ i_count' = i_count
           \/ "inode" \in failed' /\ i_count' = [i_count EXCEPT ![Least(FreeInodes)] = -1]
  /\ UNCHANGED <<l_count, mnt_count, files>>

(* A creation adds the name of a new lower inode.                          *)
LEMMA MakeNameAdds ==
  ASSUME StackInv, NEW d \in Upper, NEW dir, NEW u, MakesName(d, dir, u)
  PROVE  \E j : Adds(d, j, u) /\ AddedInode(j, u)
<1>1. PICK j : j = Least(FreeInodes)
  OBVIOUS
<1>2. j \in Inodes \ {Root} /\ Unmet(j)
  BY <1>1, LeastFree, FreeIsUnmet DEF MakesName
<1>3. AddedInode(j, u)
  <2>1. isdir' = isdir \cup {j} \/ isdir' = isdir \ {j}
    BY <1>1 DEF MakesName, LowerMakes
  <2>2. \/ /\ u \in FreeObjs /\ lower_inode' = [lower_inode EXCEPT ![u] = j]
           /\ i_count' = [i_count EXCEPT ![j] = 1]
        \/ /\ u = 0 /\ lower_inode' = lower_inode
           /\ \/ i_count' = i_count
              \/ "inode" \in failed' /\ i_count' = [i_count EXCEPT ![j] = -1]
    BY <1>1 DEF MakesName
  <2>3. Recorded
    BY DEF MakesName
  <2> QED
    BY <1>2, <2>1, <2>2, <2>3, FreshAdded
<1>4. Adds(d, j, u)
  BY <1>1, <1>2 DEF MakesName, LowerMakes, Adds, FreeObjs
<1> QED
  BY <1>3, <1>4

(* It keeps the invariant, whatever failed after the lower operation.      *)
LEMMA MakeNameKeeps ==
  ASSUME StackInv, NEW d \in Upper, NEW dir, NEW u, MakesName(d, dir, u)
  PROVE  StackInv'
<1>1. PICK j : Adds(d, j, u) /\ AddedInode(j, u)
  BY MakeNameAdds
<1>2. PICK l, i, n : AddEffect(d, l, i, n, j, u)
  BY <1>1, AddSteps
<1> QED
  BY <1>1, <1>2, AddKeeps

(* Each outcome of wrapfs_create, _symlink, _mknod and _mkdir is such a    *)
(* creation or a refusal.                                                  *)
LEMMA MakesKinds ==
  ASSUME StackInv, NEW d \in Upper, NEW dir, Makes(d, dir)
  PROVE  UNCHANGED vars \/ \E u : MakesName(d, dir, u)
<1>1. CASE Negative(d) /\ LowerRefuses(MayCreate(lower_path[d]))
  BY <1>1 DEF LowerRefuses, Refused
<1>2. CASE ~(Negative(d) /\ LowerRefuses(MayCreate(lower_path[d])))
  <2> DEFINE j == Least(FreeInodes)
             v == New(FreeObjs, j)
  <2>1. /\ Negative(d) /\ MayCreate(lower_path[d]) /\ FreeInodes # {}
        /\ LowerMakes(lower_path[d], j, dir)
        /\ \/ /\ interpose(d, v)
              /\ lower_inode' = [lower_inode EXCEPT ![v] = j]
              /\ i_count' = [i_count EXCEPT ![j] = 1]
              /\ UNCHANGED failed
           \/ /\ Lasts("inode")
              /\ i_count' = [i_count EXCEPT ![j] = -1]
              /\ UNCHANGED <<udentry, lower_inode>>
        /\ UNCHANGED <<counts, files>>
    BY <1>2 DEF Makes
  <2>2. CASE /\ interpose(d, v) /\ lower_inode' = [lower_inode EXCEPT ![v] = j]
             /\ i_count' = [i_count EXCEPT ![j] = 1] /\ UNCHANGED failed
    <3>1. v \in FreeObjs
      BY <2>1, ObjIsFree, LeastFree DEF Negative
    <3>2. Recorded
      BY <2>2 DEF Recorded, StackInv, TypeOK
    <3>3. MakesName(d, dir, v)
      BY <2>1, <2>2, <3>1, <3>2 DEF MakesName, counts
    <3> QED
      BY <3>3
  <2>3. CASE /\ Lasts("inode") /\ i_count' = [i_count EXCEPT ![j] = -1]
             /\ UNCHANGED <<udentry, lower_inode>>
    <3>1. Recorded /\ "inode" \in failed'
      BY <2>3, LastsRecorded DEF Lasting
    <3>2. MakesName(d, dir, 0)
      BY <2>1, <2>3, <3>1 DEF MakesName, counts, udentry
    <3> QED
      BY <3>2
  <2> QED
    BY <2>1, <2>2, <2>3
<1> QED
  BY <1>1, <1>2

(* So they keep the invariant.                                             *)
LEMMA MakesKeeps ==
  ASSUME StackInv, NEW d \in Upper, NEW dir, Makes(d, dir)
  PROVE  StackInv'
BY MakesKinds, MakeNameKeeps, Stutters

(* A link: the dentry gets the upper inode the lower one has.              *)
LinksName(d, e, u) ==
  /\ Positive(d) /\ ~IsDir(d) /\ Negative(e) /\ MayCreate(lower_path[e])
  /\ LowerAdds(lower_path[e], LowerIno(d)) /\ u \in Matching(LowerIno(d)) /\ interpose(e, u)
  /\ Recorded /\ UNCHANGED <<isdir, l_count, mnt_count, lower_inode, i_count, files>>

(* The inode of a link is no directory, so it may have several names.      *)
LEMMA LinkNameAdds ==
  ASSUME StackInv, NEW d \in Upper, NEW e \in Upper, NEW u, LinksName(d, e, u)
  PROVE  \E j : Adds(e, j, u) /\ AddedInode(j, u)
<1>1. PICK j : j = LowerIno(d)
  OBVIOUS
<1>2. j \in Inodes /\ j \notin isdir /\ j # Root /\ j # 0
  <2>1. j \in Inodes
    BY <1>1, InPlace DEF LinksName, Positive
  <2>2. j \notin isdir
    BY <1>1 DEF LinksName, IsDir
  <2> QED
    BY <2>1, <2>2, Numbers DEF StackInv, RootStands
<1>3. u \in Objs /\ lower_inode[u] = j
  BY <1>1 DEF LinksName, Matching
<1>4. AddedInode(j, u)
  <2>1. isdir' = isdir /\ lower_inode' = lower_inode /\ i_count' = i_count /\ Recorded
    BY DEF LinksName
  <2>2. \A k \in Inodes : Covering(k)' = Covering(k)
    BY <2>1 DEF Covering
  <2>3. "inode" \notin failed' => \A k \in Inodes : i_count'[k] = Covering(k)'
    BY <2>1, <2>2 DEF Recorded, StackInv, RefsKept
  <2>4. \A x \in Upper : x \in i_new => d_inode[x] # u
    BY <1>2, <1>3 DEF StackInv, InodesOfDentries
  <2> QED
    BY <1>2, <1>3, <2>1, <2>3, <2>4 DEF AddedInode, StackInv, TypeOK
<1>5. Adds(e, j, u)
  BY <1>1, <1>2, <1>3 DEF LinksName, Adds
<1> QED
  BY <1>4, <1>5

(* So a link keeps the invariant.                                          *)
LEMMA LinkNameKeeps ==
  ASSUME StackInv, NEW d \in Upper, NEW e \in Upper, NEW u, LinksName(d, e, u)
  PROVE  StackInv'
<1>1. PICK j : Adds(e, j, u) /\ AddedInode(j, u)
  BY LinkNameAdds
<1>2. PICK l, i, n : AddEffect(e, l, i, n, j, u)
  BY <1>1, AddSteps
<1> QED
  BY <1>1, <1>2, AddKeeps

(* Each outcome of wrapfs_link is such a link or a refusal.                *)
LEMMA LinkKinds ==
  ASSUME StackInv, NEW d \in Upper, NEW e \in Upper, wrapfs_link(d, e)
  PROVE  UNCHANGED vars \/ \E u : LinksName(d, e, u)
<1>1. CASE LowerRefuses(MayLink(d, e))
  BY <1>1 DEF LowerRefuses, Refused
<1>2. CASE ~LowerRefuses(MayLink(d, e))
  <2>1. PICK u \in Matching(LowerIno(d)) : interpose(e, u)
    BY <1>2 DEF wrapfs_link
  <2>2. Recorded
    BY <1>2 DEF wrapfs_link, Recorded, StackInv, TypeOK
  <2>3. LinksName(d, e, u)
    BY <1>2, <2>1, <2>2 DEF wrapfs_link, LinksName, MayLink, counts, uinode
  <2> QED
    BY <2>3
<1> QED
  BY <1>1, <1>2

(* So wrapfs_link keeps the invariant.                                     *)
LEMMA LinkKeeps ==
  ASSUME StackInv, NEW d \in Upper, NEW e \in Upper, wrapfs_link(d, e)
  PROVE  StackInv'
BY LinkKinds, LinkNameKeeps, Stutters

-----------------------------------------------------------------------------
(* The other operations, each by the change it makes.                      *)
LEMMA RefusedKeeps ==
  ASSUME StackInv, Refused
  PROVE  StackInv'
BY Stutters DEF Refused

(* wrapfs_unlink and wrapfs_rmdir are removals.                            *)
LEMMA RemovesKinds ==
  ASSUME StackInv, NEW d \in Upper, NEW may, Found(d), may => Backed(lower_path[d]),
         Removes(d, may)
  PROVE  UNCHANGED vars \/ (may /\ RemovesName(d))
<1>1. CASE LowerRefuses(may)
  BY <1>1 DEF LowerRefuses, Refused
<1>2. CASE ~LowerRefuses(may)
  <2>1. /\ may /\ LowerRemoves(lower_path[d]) /\ d_drop(d)
        /\ UNCHANGED <<counts, uinode, files, failed>>
    BY <1>2 DEF Removes
  <2>2. /\ d_hashed' \in [Upper -> BOOLEAN] /\ \A e \in Upper : d_hashed'[e] => d_hashed[e]
        /\ ~d_hashed'[d] /\ UNCHANGED <<d_at, d_inode, lower_path, i_new>>
    BY <2>1 DEF d_drop, StackInv, TypeOK
  <2>3. Recorded
    BY <2>1 DEF Recorded, StackInv, TypeOK
  <2>4. RemovesName(d)
    BY <2>1, <2>2, <2>3 DEF RemovesName, counts, uinode
  <2> QED
    BY <2>1, <2>4
<1> QED
  BY <1>1, <1>2

(* So they keep the invariant.                                             *)
LEMMA RemovesKeeps ==
  ASSUME StackInv, NEW d \in Upper, NEW may, Found(d), may => Backed(lower_path[d]),
         Removes(d, may)
  PROVE  StackInv'
BY RemovesKinds, RemoveKeeps, Stutters

(* wrapfs_rename is a rename.                                              *)
LEMMA RenameKinds ==
  ASSUME StackInv, NEW d \in Upper, NEW e \in Upper, wrapfs_rename(d, e)
  PROVE  UNCHANGED vars \/ Renames(d, e)
<1> DEFINE may == MayRename(lower_path[d], lower_path[e])
<1>1. CASE LowerRefuses(may)
  BY <1>1 DEF LowerRefuses, Refused
<1>2. CASE ~LowerRefuses(may)
  <2>1. /\ RenameArgs(d, e) /\ may
        /\ LowerMoves(lower_path[d], lower_path[e]) /\ d_move(d, e)
        /\ UNCHANGED <<counts, uinode, files, failed>>
    BY <1>2 DEF wrapfs_rename, Renamed, RenameRefused
  <2>2. Recorded
    BY <2>1 DEF Recorded, StackInv, TypeOK
  <2>3. UNCHANGED <<d_inode, lower_path, i_new>>
    BY <2>1 DEF d_move
  <2>4. Renames(d, e)
    BY <2>1, <2>2, <2>3 DEF RenameArgs, Renames, counts, uinode
  <2> QED
    BY <2>4
<1> QED
  BY <1>1, <1>2

(* So it keeps the invariant.                                              *)
LEMMA RenameActionKeeps ==
  ASSUME StackInv, NEW d \in Upper, NEW e \in Upper, wrapfs_rename(d, e)
  PROVE  StackInv'
BY RenameKinds, RenameKeeps, Stutters

(* wrapfs_open takes the lower path for its file.                          *)
LEMMA OpensKinds ==
  ASSUME StackInv, NEW d \in Upper, OpensLower(d)
  PROVE  UNCHANGED vars \/ Opens(d)
<1>1. CASE Errs("lower")
  BY <1>1 DEF Errs, Refused
<1>2. CASE ~Errs("lower")
  <2>1. /\ Positive(d) /\ FreeFiles # {} /\ LowerOpens(d)
        /\ UNCHANGED <<lowerfs, ldentry, udentry, uinode, failed>>
    BY <1>2 DEF OpensLower
  <2>2. Recorded
    BY <2>1 DEF Recorded, StackInv, TypeOK
  <2>3. Opens(d)
    BY <2>1, <2>2 DEF LowerOpens, Opens, lowerfs, ldentry, udentry, uinode
  <2> QED
    BY <2>3
<1> QED
  BY <1>1, <1>2

(* So it keeps the invariant.                                              *)
LEMMA OpensLowerKeeps ==
  ASSUME StackInv, NEW d \in Upper, OpensLower(d)
  PROVE  StackInv'
BY OpensKinds, OpenKeeps, Stutters

(* One step of the operations trfs does not trace; those it traces follow. *)
LEMMA UntracedKeeps ==
  ASSUME StackInv, Untraced
  PROVE  StackInv'
<1>1. ASSUME NEW p \in Upper, NEW n \in Names, wrapfs_lookup(p, n)
      PROVE  StackInv'
  BY <1>1, LookupActionKeeps
<1>2. ASSUME NEW d \in Upper, wrapfs_iget_new(d)
      PROVE  StackInv'
  BY <1>2, IgetKeeps
<1>3. ASSUME NEW d \in Upper, wrapfs_create(d) \/ wrapfs_symlink(d) \/ wrapfs_mknod(d)
      PROVE  StackInv'
  BY <1>3, MakesKeeps DEF wrapfs_create, wrapfs_symlink, wrapfs_mknod
<1>4. ASSUME NEW d \in Upper, wrapfs_d_release(d)
      PROVE  StackInv'
  BY <1>4, DReleaseKeeps
<1>5. ASSUME NEW d \in Upper, wrapfs_d_revalidate(d)
      PROVE  StackInv'
  BY <1>5, RevalidateKeeps
<1>6. ASSUME NEW f \in Files, wrapfs_file_release(f)
      PROVE  StackInv'
  BY <1>6, ReleaseKeeps
<1> QED
  BY <1>1, <1>2, <1>3, <1>4, <1>5, <1>6 DEF Untraced

(* The operations on one dentry that trfs traces.                          *)
LEMMA TracedKeeps ==
  ASSUME StackInv, NEW d \in Upper
  PROVE  /\ wrapfs_mkdir(d) => StackInv'
         /\ wrapfs_unlink(d) => StackInv'
         /\ wrapfs_rmdir(d) => StackInv'
         /\ wrapfs_open(d) => StackInv'
<1>1. ASSUME wrapfs_mkdir(d)
      PROVE  StackInv'
  BY <1>1, MakesKeeps DEF wrapfs_mkdir
<1>2. ASSUME wrapfs_unlink(d)
      PROVE  StackInv'
  <2>1. Found(d) /\ Removes(d, MayUnlink(d)) /\ (MayUnlink(d) => Backed(lower_path[d]))
    BY <1>2 DEF wrapfs_unlink, MayUnlink
  <2> QED
    BY <2>1, RemovesKeeps
<1>3. ASSUME wrapfs_rmdir(d)
      PROVE  StackInv'
  <2>1. Found(d) /\ Removes(d, MayRmdir(d)) /\ (MayRmdir(d) => Backed(lower_path[d]))
    BY <1>3 DEF wrapfs_rmdir, MayRmdir
  <2> QED
    BY <2>1, RemovesKeeps
<1>4. ASSUME wrapfs_open(d)
      PROVE  StackInv'
  BY <1>4, OpensLowerKeeps, RefusedKeeps DEF wrapfs_open, Errs
<1> QED
  BY <1>1, <1>2, <1>3, <1>4

(* The mounted root.                                                       *)
LEMMA StackInit == Init => StackInv
<1> SUFFICES ASSUME Init
             PROVE  StackInv
  OBVIOUS
<1>1. TypeOK
  BY Numbers DEF Init, TypeOK, NoPlace, Lasting
<1>2. /\ \A d \in Upper : /\ InUse(d) <=> d = 1
                          /\ d_inode[d] # 0 <=> d = 1
                          /\ d_hashed[d] <=> d = 1
      /\ \A l \in Lower : /\ Used(l) <=> l = 1
                          /\ l_inode[l] # 0 <=> l = 1
      /\ \A u \in Objs : lower_inode[u] # 0 <=> u = 1
      /\ lower_path[1] = 1 /\ l_inode[1] = Root /\ lower_inode[1] = Root /\ d_inode[1] = 1
      /\ i_new = {} /\ isdir = {Root}
      /\ \A f \in Files : files[f] = 0
      /\ \A i \in Inodes, n \in Names : entry[i][n] = 0
  <2>1. /\ \A d \in Upper : /\ InUse(d) <=> d = 1
                            /\ d_inode[d] # 0 <=> d = 1
                            /\ d_hashed[d] <=> d = 1
        /\ lower_path[1] = 1 /\ d_inode[1] = 1 /\ i_new = {}
    BY Numbers DEF Init, InUse
  <2>2. /\ \A l \in Lower : /\ Used(l) <=> l = 1
                            /\ l_inode[l] # 0 <=> l = 1
        /\ l_inode[1] = Root
    BY Numbers DEF Init, Used
  <2>3. /\ \A u \in Objs : lower_inode[u] # 0 <=> u = 1
        /\ lower_inode[1] = Root
    BY Numbers DEF Init
  <2>4. /\ \A f \in Files : files[f] = 0
        /\ \A i \in Inodes, n \in Names : entry[i][n] = 0
        /\ isdir = {Root}
    BY DEF Init
  <2> QED
    BY <2>1, <2>2, <2>3, <2>4
<1>3. Positive(1) /\ LowerIno(1) = Root /\ IsDir(1)
  BY <1>2, Numbers DEF Positive, LowerIno, IsDir
<1>4. RootStands
  BY <1>2, Numbers DEF Init, RootStands, InUse
<1>5. Stacked
  BY <1>2, <1>3, Numbers DEF Init, Stacked, Unborn
<1>6. InodesOfDentries
  BY <1>2, <1>3, Numbers DEF InodesOfDentries, Positive
<1>7. RefsKept
  <2>1. \A l \in Lower : Holders(l) = IF l = 1 THEN 1 ELSE 0
    <3> SUFFICES ASSUME NEW l \in Lower
                 PROVE  Holders(l) = IF l = 1 THEN 1 ELSE 0
      OBVIOUS
    <3>1. {f \in Files : files[f] # 0 /\ lower_path[files[f]] = l} = {}
      BY <1>2
    <3>2. {d \in Upper : lower_path[d] = l} = IF l = 1 THEN {1} ELSE {}
      BY Numbers DEF Init
    <3>3. Cardinality({}) = 0 /\ Cardinality({1}) = 1
      BY FS_EmptySet, FS_Singleton, Zenon
    <3>4. PICK A, B : /\ A = {d \in Upper : lower_path[d] = l}
                      /\ B = {f \in Files : files[f] # 0 /\ lower_path[files[f]] = l}
      OBVIOUS
    <3>5. Holders(l) = Cardinality(A) + Cardinality(B)
      BY <3>4, Zenon DEF Holders
    <3>6. Cardinality(B) = 0 /\ Cardinality(A) = IF l = 1 THEN 1 ELSE 0
      BY <3>1, <3>2, <3>3, <3>4
    <3> QED
      BY <3>5, <3>6
  <2>2. Standing = 1
    <3>1. {d \in Upper : InUse(d)} = {1}
      <4>1. 1 \in Upper /\ \A d \in Upper : InUse(d) <=> d = 1
        BY <1>2, Numbers
      <4> QED
        BY <4>1, Zenon
    <3>2. {f \in Files : files[f] # 0} = {}
      BY <1>2, Zenon
    <3>3. Cardinality({}) = 0 /\ Cardinality({1}) = 1
      BY FS_EmptySet, FS_Singleton, Zenon
    <3> QED
      BY <3>1, <3>2, <3>3 DEF Standing
  <2>3. \A i \in Inodes : Covering(i) = IF i = Root THEN 1 ELSE 0
    <3> SUFFICES ASSUME NEW i \in Inodes
                 PROVE  Covering(i) = IF i = Root THEN 1 ELSE 0
      OBVIOUS
    <3>1. {u \in Objs : lower_inode[u] = i} = IF i = Root THEN {1} ELSE {}
      BY Numbers DEF Init
    <3>2. Cardinality({}) = 0 /\ Cardinality({1}) = 1
      BY FS_EmptySet, FS_Singleton, Zenon
    <3>3. PICK A : A = {u \in Objs : lower_inode[u] = i}
      OBVIOUS
    <3>4. Covering(i) = Cardinality(A)
      BY <3>3, Zenon DEF Covering
    <3> QED
      BY <3>1, <3>2, <3>3, <3>4
  <2> QED
    BY <2>1, <2>2, <2>3 DEF Init, RefsKept
<1>8. LowerCache
  BY <1>2 DEF LowerCache
<1>9. SetUpOnce
  BY <1>2 DEF SetUpOnce
<1>10. OneName
  BY <1>2, Numbers DEF OneName
<1>11. Placed
  <2>1. \A d \in Upper : Present(d) => d = 1
    BY <1>2 DEF Present, Negative
  <2> QED
    BY <1>2, <2>1 DEF Placed
<1> QED
  BY <1>1, <1>4, <1>5, <1>6, <1>7, <1>8, <1>9, <1>10, <1>11 DEF StackInv

(* Every step of wrapfs keeps the invariant.                               *)
LEMMA NextKeeps == StackInv /\ [Next]_vars => StackInv'
<1> SUFFICES ASSUME StackInv, [Next]_vars
             PROVE  StackInv'
  OBVIOUS
<1>1. CASE UNCHANGED vars
  BY <1>1, Stutters
<1>2. CASE Untraced
  BY <1>2, UntracedKeeps
<1>3. ASSUME NEW d \in Upper,
             wrapfs_mkdir(d) \/ wrapfs_unlink(d) \/ wrapfs_rmdir(d) \/ wrapfs_open(d)
      PROVE  StackInv'
  BY <1>3, TracedKeeps
<1>4. ASSUME NEW d \in Upper, NEW e \in Upper, wrapfs_link(d, e)
      PROVE  StackInv'
  BY <1>4, LinkKeeps
<1>5. ASSUME NEW d \in Upper, NEW e \in Upper, wrapfs_rename(d, e)
      PROVE  StackInv'
  BY <1>5, RenameActionKeeps
<1> QED
  BY <1>1, <1>2, <1>3, <1>4, <1>5 DEF Next

(* What the invariant says of the references, the inodes and the names.    *)
LEMMA StackInvImplies ==
  ASSUME StackInv
  PROVE  TypeOK /\ RefsReturned /\ RefsHeld /\ NamesMatch /\ OneInode
<1>1. TypeOK
  BY DEF StackInv
<1>2. RefsReturned
  BY DEF StackInv, RefsKept, RefsReturned
<1>3. RefsHeld
  <2>1. \A i \in Inodes : Covering(i) \in Nat
    BY CountsNow, CountsType
  <2> QED
    BY <2>1 DEF StackInv, RefsKept, RefsHeld
<1>4. NamesMatch
  BY DEF StackInv, Placed, Present, NamesMatch
<1>5. OneInode
  <2>1. ASSUME "race" \notin failed, NEW i \in Inodes
        PROVE  Covering(i) <= 1
    <3>1. i # 0
      BY Numbers
    <3>2. CASE {u \in Objs : lower_inode[u] = i} = {}
      BY <3>2, FS_EmptySet DEF Covering
    <3>3. CASE {u \in Objs : lower_inode[u] = i} # {}
      <4>1. PICK v \in Objs : lower_inode[v] = i
        BY <3>3
      <4>2. {u \in Objs : lower_inode[u] = i} = {v}
        BY <2>1, <3>1, <4>1 DEF StackInv, SetUpOnce
      <4>3. Covering(i) = Cardinality({v})
        BY <4>2 DEF Covering
      <4>4. Cardinality({v}) = 1
        BY FS_Singleton
      <4> QED
        BY <4>3, <4>4
    <3> QED
      BY <3>2, <3>3
  <2> QED
    BY <2>1 DEF StackInv, InodesOfDentries, OneInode
<1> QED
  BY <1>1, <1>2, <1>3, <1>4, <1>5

-----------------------------------------------------------------------------
(* Every state of a stack of wrapfs on a lower file system keeps the       *)
(* agreement between the upper objects, the lower dentries, the lower      *)
(* directories and the reference counts that StackInv states, for any      *)
(* number of objects and any failures.                                     *)
THEOREM StackInvariant == Spec => []StackInv
<1> QED
  BY StackInit, NextKeeps, PTL DEF Spec

(* Type correctness: in particular no reference count of a lower dentry or *)
(* of the lower mount falls below zero (path_put).                         *)
THEOREM StackTypeCorrect == Spec => []TypeOK
<1>1. StackInv => TypeOK
  BY StackInvImplies
<1> QED
  BY <1>1, StackInvariant, PTL

(* The operations of wrapfs keep exactly the lower references that its     *)
(* objects will return, unless wrapfs_iget runs out of memory              *)
(* (wrapfs_put_reset_lower_path, path_put of wrapfs_open and d_release).   *)
THEOREM WrapfsReturnsRefs == Spec => []RefsReturned
<1>1. StackInv => RefsReturned
  BY StackInvImplies
<1> QED
  BY <1>1, StackInvariant, PTL

(* A lower inode has one upper inode unless lookups of it overlap          *)
(* (wrapfs_inode_test and iget5_locked), and a dentry's inode stands on    *)
(* the inode of its lower dentry.                                          *)
THEOREM WrapfsKeepsOneInode == Spec => []OneInode
<1>1. StackInv => OneInode
  BY StackInvImplies
<1> QED
  BY <1>1, StackInvariant, PTL

(* A dentry that a lookup finds stands on the lower dentry of its name,    *)
(* which is still there, through renames, removals, links and              *)
(* d_splice_alias.                                                         *)
THEOREM WrapfsNamesMatch == Spec => []NamesMatch
<1>1. StackInv => NamesMatch
  BY StackInvImplies
<1> QED
  BY <1>1, StackInvariant, PTL
=============================================================================
