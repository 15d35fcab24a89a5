--------------------------- MODULE TrfsSizeProofs ---------------------------
(***************************************************************************)
(* Theorems about TrfsSize, for every set of threads, every limit of sizes *)
(* and offsets and everything lseek may be called with.                    *)
(***************************************************************************)
EXTENDS TrfsSize, TLAPS

(* A thread that no other has clashed with clashes with none.              *)
Apart ==
  \A t, s \in Threads : t # s /\ alone[t] => ~Clash(pc[t], pc[s])

(* The threads that end by setting raced or by making the sizes equal.     *)
Changing == {"written", "copy", "setattr"}

(* What a thread holds of the sizes of the file.  On its own it knows them *)
(* exactly; otherwise what it is going to set is too small at worst, or a  *)
(* truncate is to blame.                                                   *)
Held(t) ==
  /\ pc[t] = "setattr" => truncated
  /\ pc[t] \in {"copy", "link"} /\ ~truncated => arg[t] <= lower
  /\ alone[t] => /\ pc[t] = "copy" => arg[t] = lower
                 /\ pc[t] \in {"setattr", "link"} => arg[t] = upper

Quiet(S) == \A t \in Threads : pc[t] \notin S

FileInv ==
  /\ ~truncated => upper <= lower
  /\ Quiet(Changing) /\ ~raced => upper = lower
  /\ \A t \in Threads : Held(t)

DirInv == Quiet(DirOps) /\ ~stale => udir = ldir

(* What a thread on its own knows of the offsets while it seeks or reads.  *)
Seeking(t) ==
  /\ pc[t] = "seek" => arg[t].whence \in {"set", "cur"}
  /\ pc[t] = "seekend" => arg[t].whence \in BySize
  /\ alone[t] =>
       /\ pc[t] = "seek" /\ arg[t].whence = "set" => upos = arg[t].offset
       /\ pc[t] = "seek" /\ arg[t].whence = "cur" /\ ~adrift => upos = lpos + arg[t].offset
       /\ pc[t] = "seekend" /\ ~stale =>
            /\ generic_file_llseek(arg[t], ldir, lpos)
            /\ upos = Target(arg[t], ldir, lpos)
       /\ pc[t] \in {"readdir", "readend"} /\ (arg[t].ok \/ ~adrift) => lpos = arg[t].pos

PosInv ==
  /\ Quiet(PosOps) /\ ~adrift => upos = lpos
  /\ \A t \in Threads : Seeking(t)

Inv == TypeOK /\ Apart /\ FileInv /\ DirInv /\ PosInv

-----------------------------------------------------------------------------
LEMMA ClashSymmetric ==
  ASSUME NEW k, NEW m
  PROVE  Clash(k, m) <=> Clash(m, k)
BY DEF Clash

-----------------------------------------------------------------------------
(* Types.  What a thread does to pc, arg and alone, whatever the rest of   *)
(* its step is.                                                            *)
Kinds == {"idle"} \cup FileOps \cup DirOps \cup PosOps

Fits(k, x) == x \in Carried(k)

ThreadsOK ==
  /\ pc \in [Threads -> Kinds]
  /\ DOMAIN arg = Threads
  /\ \A t \in Threads : Fits(pc[t], arg[t])
  /\ alone \in [Threads -> BOOLEAN]

ValuesOK ==
  /\ upper \in Sizes /\ lower \in Sizes /\ udir \in Sizes /\ ldir \in Sizes
  /\ upos \in Sizes /\ lpos \in Sizes /\ aio \in BOOLEAN
  /\ raced \in BOOLEAN /\ truncated \in BOOLEAN /\ stale \in BOOLEAN /\ adrift \in BOOLEAN

LEMMA TypeParts == TypeOK <=> ThreadsOK /\ ValuesOK
BY DEF TypeOK, ThreadsOK, ValuesOK, Kinds, Fits, Carried

LEMMA TypePartsNext == TypeOK' <=> ThreadsOK' /\ ValuesOK'
BY DEF TypeOK, ThreadsOK, ValuesOK, Kinds, Fits, Carried

LEMMA BeginOK ==
  ASSUME ThreadsOK, NEW t \in Threads, NEW k \in Kinds, NEW x, Fits(k, x), Begin(t, k, x)
  PROVE  ThreadsOK'
<1>1. alone' \in [Threads -> BOOLEAN]
  BY Zenon DEF Begin, ThreadsOK
<1>2. QED
  BY <1>1 DEF Begin, ThreadsOK, Fits, Carried

LEMMA GotoOK ==
  ASSUME ThreadsOK, NEW t \in Threads, NEW k \in Kinds, NEW x, Fits(k, x), Goto(t, k, x)
  PROVE  ThreadsOK'
BY DEF Goto, ThreadsOK, Fits, Carried

LEMMA EndOK ==
  ASSUME ThreadsOK, NEW t \in Threads, End(t)
  PROVE  ThreadsOK'
<1>1. 0 \in Sizes
  BY SizeAssumption DEF Sizes
<1>2. QED
  BY <1>1 DEF End, ThreadsOK, Fits, Carried, Kinds

(* A step of an operation that is over at once moves no thread.            *)
LEMMA TouchKeeps ==
  ASSUME NEW k, Touch(k)
  PROVE  /\ pc' = pc /\ arg' = arg
         /\ \A t \in Threads : alone'[t] => alone[t] /\ ~Clash(k, pc[t])
<1>1. pc' = pc /\ arg' = arg
  BY DEF Touch
<1>2. \A t \in Threads : alone'[t] => alone[t] /\ ~Clash(k, pc[t])
  BY Zenon DEF Touch
<1>3. QED
  BY <1>1, <1>2

LEMMA TouchOK ==
  ASSUME ThreadsOK, NEW k, Touch(k)
  PROVE  ThreadsOK'
<1>1. alone' \in [Threads -> BOOLEAN]
  BY Zenon DEF Touch
<1>2. QED
  BY <1>1 DEF Touch, ThreadsOK

LEMMA TypeStep == TypeOK /\ [Next]_vars => TypeOK'
<1> USE SizeAssumption
<1> SUFFICES ASSUME ThreadsOK, ValuesOK, [Next]_vars PROVE ThreadsOK' /\ ValuesOK'
  BY TypeParts, TypePartsNext
<1>z. 0 \in Sizes
  BY DEF Sizes
<1>k. /\ {"written", "copy", "setattr", "link", "change", "seek", "seekend", "readdir", "readend"}
         \subseteq Kinds
      /\ \A x \in Sizes, k \in {"written", "copy", "setattr", "link", "change"} : Fits(k, x)
      /\ \A x \in Reads : Fits("readdir", x) /\ Fits("readend", x)
      /\ \A x \in Seeks : Fits("seek", x) /\ Fits("seekend", x)
  BY DEF Kinds, FileOps, DirOps, PosOps, Fits, Carried
<1>g. lower .. MaxSize \subseteq Sizes
  BY DEF ValuesOK, Sizes
<1>1. CASE LowerGrows /\ aio' \in BOOLEAN
  <2>1. ThreadsOK'
    BY <1>1, TouchOK DEF LowerGrows
  <2>2. ValuesOK'
    BY <1>1, <1>g DEF LowerGrows, ValuesOK, dir, pos
  <2>3. QED
    BY <2>1, <2>2
<1>0. AioDone \/ (\E t \in Threads : WriteFails(t)) => LowerGrows /\ aio' \in BOOLEAN
  BY DEF AioDone, WriteFails, ValuesOK
<1>2. CASE trfs_iget
  BY <1>2 DEF trfs_iget, ThreadsOK, ValuesOK, dir, pos
<1>3. ASSUME NEW t \in Threads, trfs_write_iter(t) PROVE ThreadsOK' /\ ValuesOK'
  <2>1. Begin(t, "written", 0)
    BY <1>3 DEF trfs_write_iter, trfs_write
  <2>2. ValuesOK'
    BY <1>3, <1>g DEF trfs_write_iter, trfs_write, ValuesOK, dir, pos, history
  <2>3. QED
    BY <2>1, <2>2, <1>k, <1>z, BeginOK
<1>4. ASSUME NEW t \in Threads, CopyReads(t) PROVE ThreadsOK' /\ ValuesOK'
  <2>1. Goto(t, "copy", lower) /\ lower \in Sizes
    BY <1>4 DEF CopyReads, ValuesOK
  <2>2. ValuesOK'
    BY <1>4 DEF CopyReads, ValuesOK, file, dir, pos, history
  <2>3. QED
    BY <2>1, <2>2, <1>k, GotoOK
<1>5. ASSUME NEW t \in Threads, CopySets(t) PROVE ThreadsOK' /\ ValuesOK'
  <2>1. arg[t] \in Sizes
    BY <1>5 DEF CopySets, ThreadsOK, Fits, Carried
  <2>2. ValuesOK'
    BY <1>5, <2>1 DEF CopySets, Settles, ValuesOK, dir, pos
  <2>3. QED
    BY <1>5, <2>2, EndOK DEF CopySets
<1>6. ASSUME NEW t \in Threads, trfs_setattr(t) PROVE ThreadsOK' /\ ValuesOK'
  <2>1. PICK n \in Sizes : Begin(t, "setattr", n) /\ upper' = n
    BY <1>6 DEF trfs_setattr
  <2>2. ValuesOK'
    BY <1>6, <2>1 DEF trfs_setattr, ValuesOK, dir, pos
  <2>3. QED
    BY <2>1, <2>2, <1>k, BeginOK
<1>7. ASSUME NEW t \in Threads, notify_change(t) PROVE ThreadsOK' /\ ValuesOK'
  <2>1. arg[t] \in Sizes
    BY <1>7 DEF notify_change, ThreadsOK, Fits, Carried
  <2>2. ValuesOK'
    BY <1>7, <2>1 DEF notify_change, Settles, ValuesOK, dir, pos
  <2>3. QED
    BY <1>7, <2>2, EndOK DEF notify_change
<1>8. ASSUME NEW t \in Threads, ChangeDir(t) PROVE ThreadsOK' /\ ValuesOK'
  <2>1. ValuesOK'
    BY <1>8 DEF ChangeDir, ValuesOK, file, pos, history
  <2>2. QED
    BY <1>8, <2>1, <1>k, <1>z, BeginOK DEF ChangeDir
<1>9. ASSUME NEW t \in Threads, CopyDirSize(t) PROVE ThreadsOK' /\ ValuesOK'
  <2>1. ValuesOK'
    BY <1>9 DEF CopyDirSize, ValuesOK, file, pos
  <2>2. QED
    BY <1>9, <2>1, EndOK DEF CopyDirSize
<1>10. ASSUME NEW t \in Threads, trfs_link(t) PROVE ThreadsOK' /\ ValuesOK'
  <2>1. upper \in Sizes
    BY DEF ValuesOK
  <2>2. ValuesOK'
    BY <1>10 DEF trfs_link, ValuesOK, file, pos, history
  <2>3. QED
    BY <1>10, <2>1, <2>2, <1>k, BeginOK DEF trfs_link
<1>11. ASSUME NEW t \in Threads, LinkSetsSizes(t) PROVE ThreadsOK' /\ ValuesOK'
  <2>1. arg[t] \in Sizes
    BY <1>11 DEF LinkSetsSizes, ThreadsOK, Fits, Carried
  <2>2. alone[t] \in BOOLEAN
    BY DEF ThreadsOK
  <2>3. ValuesOK'
    BY <1>11, <2>1, <2>2 DEF LinkSetsSizes, ValuesOK, pos
  <2>4. QED
    BY <1>11, <2>3, EndOK DEF LinkSetsSizes
<1>12. ASSUME NEW t \in Threads, trfs_file_llseek(t) PROVE ThreadsOK' /\ ValuesOK'
  <2>1. PICK s \in Seeks :
          /\ generic_file_llseek(s, udir, upos) /\ upos' = Target(s, udir, upos)
          /\ \/ Begin(t, SeekKind(s), s) /\ UNCHANGED adrift
             \/ Touch("seek") /\ adrift' = TRUE
    BY <1>12, Zenon DEF trfs_file_llseek
  <2>2. ValuesOK'
    BY <1>12, <2>1 DEF trfs_file_llseek, generic_file_llseek, vfs_setpos, ValuesOK, file, dir
  <2>3. SeekKind(s) \in Kinds /\ Fits(SeekKind(s), s)
    BY <1>k DEF SeekKind
  <2>4. ThreadsOK'
    BY <2>1, <2>3, BeginOK, TouchOK
  <2>5. QED
    BY <2>2, <2>4
<1>13. ASSUME NEW t \in Threads, SeekLower(t) PROVE ThreadsOK' /\ ValuesOK'
  <2>1. alone[t] \in BOOLEAN
    BY DEF ThreadsOK
  <2>2. lpos' \in Sizes
    BY <1>13 DEF SeekLower, generic_file_llseek, vfs_setpos, ValuesOK
  <2>w. arg[t].whence \in {"set", "cur"} \cup BySize
    BY <1>13 DEF SeekLower, ThreadsOK, Fits, Carried, Seeks, BySize
  <2>3. adrift' \in BOOLEAN
    BY <1>13, <2>1, <2>w DEF SeekLower, ValuesOK
  <2>4. ValuesOK'
    BY <1>13, <2>2, <2>3 DEF SeekLower, ValuesOK, file, dir
  <2>5. QED
    BY <1>13, <2>4, EndOK DEF SeekLower
<1>14. ASSUME NEW t \in Threads, trfs_readdir(t) PROVE ThreadsOK' /\ ValuesOK'
  <2>1. PICK x \in Reads : Begin(t, "readdir", x) /\ lpos' \in Sizes
    BY <1>14 DEF trfs_readdir, ValuesOK, Reads
  <2>2. ValuesOK'
    BY <1>14, <2>1 DEF trfs_readdir, ValuesOK, file, dir, history
  <2>3. QED
    BY <2>1, <2>2, <1>k, BeginOK
<1>15. ASSUME NEW t \in Threads, CopyPos(t) PROVE ThreadsOK' /\ ValuesOK'
  <2>1. arg[t] \in Reads
    BY <1>15 DEF CopyPos, ThreadsOK, Fits, Carried
  <2>2. ValuesOK'
    BY <1>15 DEF CopyPos, ValuesOK, file, dir, history
  <2>3. QED
    BY <1>15, <2>1, <2>2, <1>k, GotoOK DEF CopyPos
<1>16. ASSUME NEW t \in Threads, iterate_dir(t) PROVE ThreadsOK' /\ ValuesOK'
  <2>1. arg[t] \in Reads
    BY <1>16 DEF iterate_dir, ThreadsOK, Fits, Carried
  <2>2. alone[t] \in BOOLEAN
    BY DEF ThreadsOK
  <2>3. ValuesOK'
    BY <1>16, <2>1, <2>2 DEF iterate_dir, Reads, ValuesOK, file, dir
  <2>4. QED
    BY <1>16, <2>3, EndOK DEF iterate_dir
<1>17. CASE UNCHANGED vars
  BY <1>17 DEF vars, file, dir, pos, history, ThreadsOK, ValuesOK
<1>18. QED
  BY <1>0, <1>1, <1>2, <1>3, <1>4, <1>5, <1>6, <1>7, <1>8, <1>9, <1>10, <1>11, <1>12,
     <1>13, <1>14, <1>15, <1>16, <1>17 DEF Next

(* TrfsSize: every size and offset stays below the limit of the file       *)
(* system, whatever lseek is called with, and a thread holds what its step *)
(* of the code holds.                                                      *)
THEOREM SizeTypeCorrect == Spec => []TypeOK
<1>1. Init => TypeOK
  <2> SUFFICES ASSUME Init PROVE ThreadsOK /\ ValuesOK
    BY TypeParts
  <2>1. 0 \in Sizes
    BY SizeAssumption DEF Sizes
  <2>2. QED
    BY <2>1 DEF Init, ThreadsOK, ValuesOK, Kinds, Fits, Carried
<1>2. QED
  BY <1>1, TypeStep, PTL DEF Spec

-----------------------------------------------------------------------------
(* Steps of a thread leave Apart as it is.                                 *)
LEMMA BeginApart ==
  ASSUME TypeOK, Apart, NEW t \in Threads, NEW k \in Kinds, NEW x, Begin(t, k, x)
  PROVE  /\ Apart'
         /\ pc[t] = "idle" /\ pc' = [pc EXCEPT ![t] = k]
         /\ arg'[t] = x /\ pc'[t] = k
         /\ \A s \in Threads \ {t} : /\ pc'[s] = pc[s] /\ arg'[s] = arg[s]
                                     /\ alone'[s] => alone[s] /\ ~Clash(k, pc[s])
         /\ alone'[t] => \A r \in Threads \ {t} : ~Clash(k, pc[r])
<1>1. /\ pc[t] = "idle" /\ pc' = [pc EXCEPT ![t] = k]
      /\ arg'[t] = x /\ pc'[t] = k
      /\ \A s \in Threads \ {t} : pc'[s] = pc[s] /\ arg'[s] = arg[s]
  BY DEF Begin, TypeOK
<1>2. /\ alone'[t] <=> \A r \in Threads \ {t} : ~Clash(k, pc[r])
      /\ \A s \in Threads \ {t} : alone'[s] <=> alone[s] /\ ~Clash(k, pc[s])
  BY Zenon DEF Begin
<1>3. Apart'
  <2> SUFFICES ASSUME NEW s \in Threads, NEW r \in Threads, s # r, alone'[s]
               PROVE  ~Clash(pc'[s], pc'[r])
    BY Zenon DEF Apart, Clash, FileOps, PosOps, DirOps
  <2>1. CASE s = t
    BY <1>1, <1>2, <2>1, Zenon
  <2>2. CASE s # t /\ r = t
    BY <1>1, <1>2, <2>2, ClashSymmetric, Zenon
  <2>3. CASE s # t /\ r # t
    BY <1>1, <1>2, <2>3, Zenon DEF Apart
  <2>4. QED
    BY <2>1, <2>2, <2>3
<1>4. QED
  BY <1>1, <1>2, <1>3, Zenon

LEMMA EndApart ==
  ASSUME TypeOK, Apart, NEW t \in Threads, End(t)
  PROVE  /\ Apart'
         /\ pc' = [pc EXCEPT ![t] = "idle"] /\ pc'[t] = "idle"
         /\ \A s \in Threads \ {t} : /\ pc'[s] = pc[s] /\ arg'[s] = arg[s]
                                     /\ alone'[s] = alone[s]
<1>1. /\ pc' = [pc EXCEPT ![t] = "idle"] /\ pc'[t] = "idle"
      /\ \A s \in Threads \ {t} : /\ pc'[s] = pc[s] /\ arg'[s] = arg[s]
                                  /\ alone'[s] = alone[s]
  BY DEF End, TypeOK
<1>2. \A k : ~Clash("idle", k) /\ ~Clash(k, "idle")
  BY DEF Clash, FileOps, PosOps, DirOps
<1>3. Apart'
  <2> SUFFICES ASSUME NEW s \in Threads, NEW r \in Threads, s # r, alone'[s]
               PROVE  ~Clash(pc'[s], pc'[r])
    BY Zenon DEF Apart, Clash, FileOps, PosOps, DirOps
  <2>1. CASE s = t \/ r = t
    BY <1>1, <1>2, <2>1, Zenon
  <2>2. CASE s # t /\ r # t
    BY <1>1, <2>2, Zenon DEF Apart
  <2>3. QED
    BY <2>1, <2>2
<1>4. QED
  BY <1>1, <1>3

LEMMA GotoApart ==
  ASSUME TypeOK, Apart, NEW t \in Threads, NEW k, NEW x, Goto(t, k, x),
         \/ pc[t] = "written" /\ k = "copy"
         \/ pc[t] = "readdir" /\ k = "readend"
  PROVE  /\ Apart' /\ alone' = alone
         /\ pc' = [pc EXCEPT ![t] = k]
         /\ arg'[t] = x /\ pc'[t] = k
         /\ \A s \in Threads \ {t} : pc'[s] = pc[s] /\ arg'[s] = arg[s]
<1>1. /\ alone' = alone
      /\ pc' = [pc EXCEPT ![t] = k]
      /\ arg'[t] = x /\ pc'[t] = k
      /\ \A s \in Threads \ {t} : pc'[s] = pc[s] /\ arg'[s] = arg[s]
  BY DEF Goto, TypeOK
<1>2. \A m : /\ Clash(k, m) => Clash(pc[t], m)
             /\ Clash(m, k) => Clash(m, pc[t])
  BY DEF Clash, FileOps, PosOps, DirOps
<1>3. Apart'
  <2> SUFFICES ASSUME NEW s \in Threads, NEW r \in Threads, s # r, alone'[s]
               PROVE  ~Clash(pc'[s], pc'[r])
    BY Zenon DEF Apart, Clash, FileOps, PosOps, DirOps
  <2>1. CASE s = t
    BY <1>1, <1>2, <2>1, Zenon DEF Apart
  <2>2. CASE s # t /\ r = t
    BY <1>1, <1>2, <2>2, Zenon DEF Apart
  <2>3. CASE s # t /\ r # t
    BY <1>1, <2>3, Zenon DEF Apart
  <2>4. QED
    BY <2>1, <2>2, <2>3
<1>4. QED
  BY <1>1, <1>3

-----------------------------------------------------------------------------
(* Steps that are about something else.                                    *)
Others(t) ==
  \A s \in Threads \ {t} :
    pc'[s] = pc[s] /\ arg'[s] = arg[s] /\ (alone'[s] => alone[s])

Moves(t, K) == Others(t) /\ pc[t] \in K \cup {"idle"} /\ pc'[t] \in K \cup {"idle"}

LEMMA DirMoves ==
  ASSUME TypeOK, Apart, NEW t \in Threads, ChangeDir(t) \/ CopyDirSize(t)
  PROVE  Moves(t, {"change"})
<1>1. CASE ChangeDir(t)
  <2>1. Begin(t, "change", 0)
    BY <1>1 DEF ChangeDir
  <2>2. QED
    BY <2>1, BeginApart DEF Kinds, DirOps, Moves, Others
<1>2. CASE CopyDirSize(t)
  BY <1>2, EndApart DEF CopyDirSize, Moves, Others
<1>3. QED
  BY <1>1, <1>2

LEMMA LinkMoves ==
  ASSUME TypeOK, Apart, NEW t \in Threads, trfs_link(t) \/ LinkSetsSizes(t)
  PROVE  Moves(t, {"link"})
<1>1. CASE trfs_link(t)
  <2>1. Begin(t, "link", upper)
    BY <1>1 DEF trfs_link
  <2>2. QED
    BY <2>1, BeginApart DEF Kinds, DirOps, Moves, Others
<1>2. CASE LinkSetsSizes(t)
  BY <1>2, EndApart DEF LinkSetsSizes, Moves, Others
<1>3. QED
  BY <1>1, <1>2

LEMMA PosMoves ==
  ASSUME TypeOK, Apart, NEW t \in Threads,
         \/ trfs_file_llseek(t) \/ SeekLower(t)
         \/ trfs_readdir(t) \/ CopyPos(t) \/ iterate_dir(t)
  PROVE  Moves(t, PosOps)
<1>1. CASE trfs_file_llseek(t)
  <2>1. PICK s \in Seeks : Begin(t, SeekKind(s), s) \/ (pc[t] = "idle" /\ Touch("seek"))
    BY <1>1, Zenon DEF trfs_file_llseek
  <2>2. SeekKind(s) \in Kinds \cap PosOps
    BY DEF SeekKind, Kinds, PosOps
  <2>3. CASE pc[t] = "idle" /\ Touch("seek")
    BY <2>3, TouchKeeps DEF Moves, Others
  <2>4. QED
    BY <2>1, <2>2, <2>3, BeginApart DEF Moves, Others
<1>2. CASE SeekLower(t)
  BY <1>2, EndApart DEF SeekLower, Moves, Others, PosOps
<1>3. CASE trfs_readdir(t)
  <2>1. PICK x : Begin(t, "readdir", x)
    BY <1>3 DEF trfs_readdir
  <2>2. QED
    BY <2>1, BeginApart DEF Kinds, PosOps, Moves, Others
<1>4. CASE CopyPos(t)
  <2>1. pc[t] = "readdir" /\ Goto(t, "readend", arg[t])
    BY <1>4 DEF CopyPos
  <2>2. QED
    BY <2>1, GotoApart DEF PosOps, Moves, Others
<1>5. CASE iterate_dir(t)
  BY <1>5, EndApart DEF iterate_dir, Moves, Others, PosOps
<1>6. QED
  BY <1>1, <1>2, <1>3, <1>4, <1>5

LEMMA FileMoves ==
  ASSUME TypeOK, Apart, NEW t \in Threads,
         \/ trfs_write_iter(t) \/ CopyReads(t) \/ CopySets(t)
         \/ trfs_setattr(t) \/ notify_change(t)
  PROVE  Moves(t, Changing)
<1>1. CASE trfs_write_iter(t)
  <2>1. Begin(t, "written", 0)
    BY <1>1 DEF trfs_write_iter, trfs_write
  <2>2. QED
    BY <2>1, BeginApart DEF Kinds, FileOps, Changing, Moves, Others
<1>2. CASE CopyReads(t)
  <2>1. pc[t] = "written" /\ Goto(t, "copy", lower)
    BY <1>2 DEF CopyReads
  <2>2. QED
    BY <2>1, GotoApart DEF Changing, Moves, Others
<1>3. CASE CopySets(t)
  BY <1>3, EndApart DEF CopySets, Moves, Others, Changing
<1>4. CASE trfs_setattr(t)
  <2>1. PICK n \in Sizes : Begin(t, "setattr", n)
    BY <1>4 DEF trfs_setattr
  <2>2. QED
    BY <2>1, BeginApart DEF Kinds, FileOps, Changing, Moves, Others
<1>5. CASE notify_change(t)
  BY <1>5, EndApart DEF notify_change, Moves, Others, Changing
<1>6. QED
  BY <1>1, <1>2, <1>3, <1>4, <1>5

-----------------------------------------------------------------------------
(* The sizes of the file.                                                  *)
LEMMA FileElsewhere ==
  ASSUME FileInv, NEW t \in Threads, Moves(t, {"change"} \cup PosOps),
         UNCHANGED <<upper, lower, raced, truncated>>
  PROVE  FileInv'
BY DEF FileInv, Held, Moves, Others, Quiet, Changing, PosOps

LEMMA FileStep == TypeOK /\ Apart /\ FileInv /\ [Next]_vars => FileInv'
<1> SUFFICES ASSUME TypeOK, Apart, FileInv, [Next]_vars PROVE FileInv'
  OBVIOUS
<1> DEFINE Alone(t) == \A s \in Threads \ {t} : pc[s] \notin FileOps
<1>n. /\ upper \in Int /\ lower \in Int
      /\ \A t \in Threads : pc[t] \in FileOps => arg[t] \in Int
  BY SizeAssumption DEF TypeOK, Carried, Sizes, FileOps
<1>a. \A t \in Threads : alone[t] /\ pc[t] \in FileOps => Alone(t)
  BY DEF Apart, Clash
<1>0. AioDone \/ (\E t \in Threads : WriteFails(t)) => LowerGrows
  BY DEF AioDone, WriteFails
<1>1. CASE LowerGrows
  <2>1. /\ lower' \in Int /\ lower <= lower'
        /\ pc' = pc /\ arg' = arg /\ upper' = upper /\ truncated' = truncated /\ raced'
    BY <1>1, <1>n, SizeAssumption DEF LowerGrows, Touch
  <2>2. \A t \in Threads : alone'[t] => pc[t] \notin FileOps
    BY <1>1, TouchKeeps DEF LowerGrows, Clash, FileOps
  <2>3. ASSUME NEW t \in Threads PROVE Held(t)'
    BY <2>1, <2>2, <1>n DEF FileInv, Held, FileOps
  <2>4. QED
    BY <2>1, <2>3, <1>n DEF FileInv
<1>2. CASE trfs_iget
  <2>1. \A t \in Threads : pc'[t] \notin FileOps
    BY <1>2 DEF trfs_iget, At
  <2>2. QED
    BY <1>2, <2>1, <1>n DEF trfs_iget, FileInv, Held, FileOps
<1>3. ASSUME NEW t \in Threads, trfs_write_iter(t) PROVE FileInv'
  <2>1. Begin(t, "written", 0)
    BY <1>3 DEF trfs_write_iter, trfs_write
  <2>2. /\ pc'[t] = "written" /\ pc[t] = "idle"
        /\ \A s \in Threads \ {t} : /\ pc'[s] = pc[s] /\ arg'[s] = arg[s]
                                    /\ alone'[s] => alone[s] /\ ~Clash("written", pc[s])
    BY <2>1, BeginApart DEF Kinds, FileOps
  <2>3. /\ lower' \in Int /\ lower <= lower'
        /\ upper' = upper /\ truncated' = truncated /\ raced' = raced
    BY <1>3, <1>n, SizeAssumption DEF trfs_write_iter, trfs_write, history
  <2>4. ASSUME NEW s \in Threads PROVE Held(s)'
    BY <2>2, <2>3, <1>n DEF FileInv, Held, Clash, FileOps
  <2>5. ~Quiet(Changing)'
    BY <2>2 DEF Quiet, Changing
  <2>6. QED
    BY <2>3, <2>4, <2>5, <1>n DEF FileInv
<1>4. ASSUME NEW t \in Threads, CopyReads(t) PROVE FileInv'
  <2>1. /\ pc[t] = "written" /\ pc'[t] = "copy" /\ arg'[t] = lower /\ alone' = alone
        /\ \A s \in Threads \ {t} : pc'[s] = pc[s] /\ arg'[s] = arg[s]
    BY <1>4, GotoApart DEF CopyReads
  <2>2. UNCHANGED <<upper, lower, raced, truncated>>
    BY <1>4 DEF CopyReads, file, history
  <2>3. ASSUME NEW s \in Threads PROVE Held(s)'
    BY <2>1, <2>2, <1>n DEF FileInv, Held
  <2>4. ~Quiet(Changing)'
    BY <2>1 DEF Quiet, Changing
  <2>5. QED
    BY <2>2, <2>3, <2>4 DEF FileInv
<1>5. ASSUME NEW t \in Threads, CopySets(t) PROVE FileInv'
  <2>1. /\ pc[t] = "copy" /\ pc'[t] = "idle"
        /\ \A s \in Threads \ {t} : pc'[s] = pc[s] /\ arg'[s] = arg[s] /\ alone'[s] = alone[s]
    BY <1>5, EndApart DEF CopySets
  <2>2. upper' = arg[t] /\ lower' = lower
    BY <1>5 DEF CopySets
  <2>3. CASE alone[t]
    <3>1. ~raced' /\ ~truncated'
      BY <1>5, <2>3 DEF CopySets, Settles
    <3>2. upper' = lower'
      BY <2>1, <2>2, <2>3 DEF FileInv, Held
    <3>3. \A s \in Threads : pc'[s] \notin FileOps
      BY <1>a, <2>1, <2>3 DEF FileOps
    <3>4. ASSUME NEW s \in Threads PROVE Held(s)'
      BY <3>3 DEF Held, FileOps
    <3>5. lower' \in Int
      BY <2>2, <1>n
    <3>6. upper' <= lower'
      BY <3>2, <3>5
    <3>7. QED
      BY <3>1, <3>2, <3>4, <3>6 DEF FileInv
  <2>4. CASE ~alone[t]
    <3>1. raced' /\ truncated' = truncated
      BY <1>5, <2>4 DEF CopySets, Settles
    <3>2. ~truncated' => upper' <= lower'
      BY <3>1, <2>1, <2>2 DEF FileInv, Held
    <3>3. ASSUME NEW s \in Threads, s # t, alone[s] PROVE pc[s] \notin FileOps
      BY <3>3, <1>a, <2>1 DEF FileOps
    <3>4. ASSUME NEW s \in Threads PROVE Held(s)'
      BY <3>1, <3>3, <2>1, <2>2 DEF FileInv, Held, FileOps
    <3>5. QED
      BY <3>1, <3>2, <3>4 DEF FileInv
  <2>5. QED
    BY <2>3, <2>4
<1>6. ASSUME NEW t \in Threads, trfs_setattr(t) PROVE FileInv'
  <2>1. PICK n \in Sizes : Begin(t, "setattr", n) /\ upper' = n
    BY <1>6 DEF trfs_setattr
  <2>2. /\ pc'[t] = "setattr" /\ pc[t] = "idle" /\ arg'[t] = n
        /\ \A s \in Threads \ {t} : /\ pc'[s] = pc[s] /\ arg'[s] = arg[s]
                                    /\ alone'[s] => alone[s] /\ ~Clash("setattr", pc[s])
    BY <2>1, BeginApart DEF Kinds, FileOps
  <2>3. truncated' /\ lower' = lower
    BY <1>6 DEF trfs_setattr
  <2>4. ASSUME NEW s \in Threads PROVE Held(s)'
    BY <2>1, <2>2, <2>3 DEF FileInv, Held, Clash, FileOps
  <2>5. ~Quiet(Changing)'
    BY <2>2 DEF Quiet, Changing
  <2>6. QED
    BY <2>3, <2>4, <2>5 DEF FileInv
<1>7. ASSUME NEW t \in Threads, notify_change(t) PROVE FileInv'
  <2>1. /\ pc[t] = "setattr" /\ pc'[t] = "idle"
        /\ \A s \in Threads \ {t} : pc'[s] = pc[s] /\ arg'[s] = arg[s] /\ alone'[s] = alone[s]
    BY <1>7, EndApart DEF notify_change
  <2>2. upper' = upper /\ truncated
    BY <1>7, <2>1 DEF notify_change, FileInv, Held
  <2>3. ASSUME NEW s \in Threads, s # t, alone[s] PROVE pc[s] \notin FileOps
    BY <2>3, <1>a, <2>1 DEF FileOps
  <2>4. CASE alone[t] /\ lower' = arg[t] /\ Settles(t)
    <3>1. ~raced' /\ ~truncated' /\ upper' = lower'
      BY <2>1, <2>2, <2>4 DEF Settles, FileInv, Held
    <3>2. \A s \in Threads : pc'[s] \notin FileOps
      BY <1>a, <2>1, <2>4 DEF FileOps
    <3>3. QED
      BY <3>1, <3>2, <2>2, <1>n DEF FileInv, Held, FileOps
  <2>5. CASE raced' /\ truncated' = truncated
    <3>1. ASSUME NEW s \in Threads PROVE Held(s)'
      BY <2>1, <2>2, <2>3, <2>5 DEF FileInv, Held, FileOps
    <3>2. QED
      BY <2>2, <2>5, <3>1 DEF FileInv
  <2>6. QED
    BY <1>7, <2>4, <2>5 DEF notify_change, Settles
<1>8. ASSUME NEW t \in Threads, trfs_link(t) PROVE FileInv'
  <2>1. Begin(t, "link", upper) /\ UNCHANGED <<upper, lower, raced, truncated>>
    BY <1>8 DEF trfs_link, file, history
  <2>2. /\ pc'[t] = "link" /\ pc[t] = "idle" /\ arg'[t] = upper
        /\ \A s \in Threads \ {t} : /\ pc'[s] = pc[s] /\ arg'[s] = arg[s]
                                    /\ alone'[s] => alone[s] /\ ~Clash("link", pc[s])
    BY <2>1, BeginApart DEF Kinds, FileOps
  <2>3. ASSUME NEW s \in Threads PROVE Held(s)'
    BY <2>1, <2>2 DEF FileInv, Held, Clash, FileOps
  <2>4. Quiet(Changing)' => Quiet(Changing)
    BY <2>2 DEF Quiet, Changing
  <2>5. QED
    BY <2>1, <2>3, <2>4 DEF FileInv
<1>9. ASSUME NEW t \in Threads, LinkSetsSizes(t) PROVE FileInv'
  <2>1. /\ pc[t] = "link" /\ pc'[t] = "idle"
        /\ \A s \in Threads \ {t} : pc'[s] = pc[s] /\ arg'[s] = arg[s] /\ alone'[s] = alone[s]
    BY <1>9, EndApart DEF LinkSetsSizes
  <2>2. lower' = lower /\ truncated' = truncated
    BY <1>9 DEF LinkSetsSizes
  <2>3. ASSUME NEW s \in Threads, s # t, alone[s] PROVE pc[s] \notin FileOps
    BY <2>3, <1>a, <2>1 DEF FileOps
  <2>4. Quiet(Changing)' => Quiet(Changing)
    BY <2>1 DEF Quiet, Changing
  <2>5. \/ upper' = arg[t] /\ (raced' <=> (raced \/ ~alone[t]))
        \/ upper' = upper /\ raced' = raced
    BY <1>9, Zenon DEF LinkSetsSizes
  <2>6. ~truncated' => upper' <= lower'
    BY <2>1, <2>2, <2>5 DEF FileInv, Held
  <2>7. Quiet(Changing)' /\ ~raced' => upper' = lower'
    BY <2>1, <2>2, <2>4, <2>5 DEF FileInv, Held
  <2>8. ASSUME NEW s \in Threads PROVE Held(s)'
    BY <2>1, <2>2, <2>3 DEF FileInv, Held, FileOps
  <2>9. QED
    BY <2>6, <2>7, <2>8 DEF FileInv
<1>10. CASE UNCHANGED vars
  BY <1>10 DEF vars, file, history, FileInv, Held, Quiet
<1>11. ASSUME NEW t \in Threads, ChangeDir(t) \/ CopyDirSize(t) PROVE FileInv'
  <2>1. UNCHANGED <<upper, lower, raced, truncated>>
    BY <1>11 DEF ChangeDir, CopyDirSize, file, history
  <2>2. Moves(t, {"change"} \cup PosOps)
    BY <1>11, DirMoves DEF Moves
  <2>3. QED
    BY <2>1, <2>2, FileElsewhere
<1>12. ASSUME NEW t \in Threads,
              \/ trfs_file_llseek(t) \/ SeekLower(t)
              \/ trfs_readdir(t) \/ CopyPos(t) \/ iterate_dir(t)
       PROVE  FileInv'
  <2>1. UNCHANGED <<upper, lower, raced, truncated>>
    BY <1>12 DEF trfs_file_llseek, SeekLower, trfs_readdir, CopyPos, iterate_dir, file, history
  <2>2. Moves(t, {"change"} \cup PosOps)
    BY <1>12, PosMoves DEF Moves
  <2>3. QED
    BY <2>1, <2>2, FileElsewhere
<1>13. QED
  BY <1>0, <1>1, <1>2, <1>3, <1>4, <1>5, <1>6, <1>7, <1>8, <1>9, <1>10, <1>11, <1>12 DEF Next

(* Apart itself.                                                           *)
LEMMA ApartStep == TypeOK /\ Apart /\ [Next]_vars => Apart'
<1> SUFFICES ASSUME TypeOK, Apart, [Next]_vars PROVE Apart'
  OBVIOUS
<1>1. ASSUME NEW k, Touch(k) PROVE Apart'
  <2>1. /\ pc' = pc
        /\ \A t \in Threads : alone'[t] => alone[t]
    BY <1>1, TouchKeeps
  <2>2. QED
    BY <2>1 DEF Apart, Clash
<1>0. AioDone \/ (\E t \in Threads : WriteFails(t)) => Touch("written")
  BY DEF AioDone, WriteFails, LowerGrows
<1>2. CASE trfs_iget \/ UNCHANGED vars
  BY <1>2 DEF trfs_iget, vars, Apart, Clash
<1>3. ASSUME NEW t \in Threads, NEW k \in Kinds, NEW x, Begin(t, k, x) PROVE Apart'
  BY <1>3, BeginApart
<1>4. ASSUME NEW t \in Threads, End(t) PROVE Apart'
  BY <1>4, EndApart
<1>k. {"written", "copy", "setattr", "link", "change", "seek", "seekend", "readdir", "readend"}
        \subseteq Kinds
  BY DEF Kinds, FileOps, DirOps, PosOps
<1>5. ASSUME NEW t \in Threads,
             \/ trfs_write_iter(t) \/ trfs_setattr(t) \/ ChangeDir(t) \/ trfs_link(t)
             \/ trfs_readdir(t)
      PROVE  Apart'
  <2>1. \E k \in Kinds : \E x : Begin(t, k, x)
    BY <1>5, <1>k, Zenon
       DEF trfs_write_iter, trfs_write, trfs_setattr, ChangeDir, trfs_link, trfs_readdir
  <2>2. QED
    BY <2>1, <1>3
<1>9. ASSUME NEW t \in Threads, trfs_file_llseek(t) PROVE Apart'
  <2>1. PICK s \in Seeks : Begin(t, SeekKind(s), s) \/ Touch("seek")
    BY <1>9, Zenon DEF trfs_file_llseek
  <2>2. SeekKind(s) \in Kinds
    BY <1>k DEF SeekKind
  <2>3. QED
    BY <2>1, <2>2, <1>1, <1>3
<1>6. ASSUME NEW t \in Threads, CopyReads(t) \/ CopyPos(t) PROVE Apart'
  <2>1. \/ pc[t] = "written" /\ Goto(t, "copy", lower)
        \/ pc[t] = "readdir" /\ Goto(t, "readend", arg[t])
    BY <1>6 DEF CopyReads, CopyPos
  <2>2. QED
    BY <2>1, GotoApart
<1>7. ASSUME NEW t \in Threads,
             \/ CopySets(t) \/ notify_change(t) \/ CopyDirSize(t) \/ LinkSetsSizes(t)
             \/ SeekLower(t) \/ iterate_dir(t)
      PROVE  Apart'
  BY <1>7, <1>4 DEF CopySets, notify_change, CopyDirSize, LinkSetsSizes, SeekLower, iterate_dir
<1>8. QED
  BY <1>0, <1>1, <1>2, <1>5, <1>6, <1>7, <1>9 DEF Next

-----------------------------------------------------------------------------
(* The sizes of the directory.                                             *)
LEMMA DirStep == TypeOK /\ Apart /\ DirInv /\ [Next]_vars => DirInv'
<1> SUFFICES ASSUME TypeOK, Apart, DirInv, [Next]_vars PROVE DirInv'
  OBVIOUS
<1>0. AioDone \/ (\E t \in Threads : WriteFails(t)) => LowerGrows
  BY DEF AioDone, WriteFails
<1>1. CASE LowerGrows \/ trfs_iget \/ UNCHANGED vars
  BY <1>1 DEF LowerGrows, Touch, trfs_iget, vars, dir, history, DirInv, Quiet
<1>2. ASSUME NEW t \in Threads, Moves(t, Changing \cup PosOps), UNCHANGED <<udir, ldir, stale>>
      PROVE  DirInv'
  BY <1>2 DEF DirInv, Quiet, Moves, Others, Changing, PosOps, DirOps
<1>3. ASSUME NEW t \in Threads,
             \/ trfs_write_iter(t) \/ CopyReads(t) \/ CopySets(t)
             \/ trfs_setattr(t) \/ notify_change(t)
      PROVE  DirInv'
  <2>1. UNCHANGED <<udir, ldir, stale>>
    BY <1>3 DEF trfs_write_iter, trfs_write, CopyReads, CopySets, trfs_setattr, notify_change,
                dir, history
  <2>2. Moves(t, Changing \cup PosOps)
    BY <1>3, FileMoves DEF Moves
  <2>3. QED
    BY <1>2, <2>1, <2>2
<1>4. ASSUME NEW t \in Threads,
             \/ trfs_file_llseek(t) \/ SeekLower(t)
             \/ trfs_readdir(t) \/ CopyPos(t) \/ iterate_dir(t)
      PROVE  DirInv'
  <2>1. UNCHANGED <<udir, ldir, stale>>
    BY <1>4 DEF trfs_file_llseek, SeekLower, trfs_readdir, CopyPos, iterate_dir, dir, history
  <2>2. Moves(t, Changing \cup PosOps)
    BY <1>4, PosMoves DEF Moves
  <2>3. QED
    BY <1>2, <2>1, <2>2
<1>5. ASSUME NEW t \in Threads, ChangeDir(t) \/ trfs_link(t) PROVE DirInv'
  <2>1. pc'[t] \in DirOps
    BY <1>5, BeginApart DEF ChangeDir, trfs_link, Kinds, DirOps
  <2>2. QED
    BY <2>1 DEF DirInv, Quiet
<1>6. ASSUME NEW t \in Threads, CopyDirSize(t) \/ LinkSetsSizes(t) PROVE DirInv'
  BY <1>6 DEF CopyDirSize, LinkSetsSizes, DirInv
<1>7. QED
  BY <1>0, <1>1, <1>3, <1>4, <1>5, <1>6 DEF Next

-----------------------------------------------------------------------------
(* The offsets of the directory.                                           *)
LEMMA PosElsewhere ==
  ASSUME PosInv, NEW t \in Threads, Moves(t, Changing \cup DirOps),
         UNCHANGED <<upos, lpos, adrift>>,
         \/ UNCHANGED <<ldir, stale>>
         \/ \A s \in Threads : alone'[s] => pc'[s] # "seekend"
  PROVE  PosInv'
<1>1. Quiet(PosOps)' => Quiet(PosOps)
  BY DEF Quiet, Moves, Others, Changing, DirOps, PosOps
<1>2. ASSUME NEW s \in Threads PROVE Seeking(s)'
  BY DEF PosInv, Seeking, Moves, Others, Changing, DirOps
<1>3. QED
  BY <1>1, <1>2 DEF PosInv

(* A seek that goes by a size reads nothing of the offsets.                *)
LEMMA TargetBySize ==
  ASSUME NEW s \in Seeks, s.whence \in BySize, NEW size, NEW p, NEW q
  PROVE  /\ Target(s, size, p) = Target(s, size, q)
         /\ generic_file_llseek(s, size, p) <=> generic_file_llseek(s, size, q)
BY DEF Target, generic_file_llseek, BySize

LEMMA SeekBegins ==
  ASSUME TypeOK, Apart, DirInv, PosInv, NEW t \in Threads, NEW s \in Seeks,
         Begin(t, SeekKind(s), s), generic_file_llseek(s, udir, upos),
         upos' = Target(s, udir, upos), UNCHANGED <<lpos, ldir, stale, adrift>>
  PROVE  PosInv'
<1> DEFINE k == SeekKind(s)
<1>1. /\ k \in Kinds \cap PosOps
      /\ k = "seek" => s.whence \in {"set", "cur"}
      /\ k = "seekend" => s.whence \in BySize
  BY DEF SeekKind, Kinds, PosOps, Seeks, BySize
<1>2. /\ pc[t] = "idle" /\ pc'[t] = k /\ arg'[t] = s
      /\ \A r \in Threads \ {t} : /\ pc'[r] = pc[r] /\ arg'[r] = arg[r]
                                  /\ alone'[r] => alone[r] /\ ~Clash(k, pc[r])
      /\ alone'[t] => \A r \in Threads \ {t} : ~Clash(k, pc[r])
  BY <1>1, BeginApart
<1>3. alone'[t] /\ ~adrift => upos = lpos
  BY <1>1, <1>2 DEF Clash, PosInv, Quiet, PosOps
<1>4. alone'[t] /\ k = "seekend" /\ ~stale => udir = ldir
  BY <1>2 DEF Clash, DirInv, Quiet, DirOps
<1>5. Seeking(t)'
  <2>1. k = "seek" /\ s.whence = "set" => upos' = s.offset
    BY DEF Target
  <2>2. k = "seek" /\ s.whence = "cur" => upos' = upos + s.offset
    BY DEF Target
  <2>3. alone'[t] /\ k = "seekend" /\ ~stale =>
          generic_file_llseek(s, ldir, lpos) /\ upos' = Target(s, ldir, lpos)
    BY <1>1, <1>4, TargetBySize
  <2>4. alone'[t] /\ k = "seekend" /\ ~stale' =>
          generic_file_llseek(s, ldir, lpos)' /\ upos' = Target(s, ldir, lpos)'
    BY <2>3 DEF generic_file_llseek, Target, vfs_setpos
  <2>5. k # "readdir" /\ k # "readend"
    BY DEF SeekKind
  <2>6. QED
    BY <1>1, <1>2, <1>3, <2>1, <2>2, <2>4, <2>5 DEF Seeking, generic_file_llseek, Target, vfs_setpos
<1>6. ASSUME NEW r \in Threads, r # t PROVE Seeking(r)'
  <2>1. alone'[r] => pc[r] \notin PosOps
    BY <1>1, <1>2, <1>6 DEF Clash
  <2>2. QED
    BY <1>2, <1>6, <2>1 DEF PosInv, Seeking, PosOps
<1>7. QED
  BY <1>1, <1>2, <1>5, <1>6 DEF PosInv, Quiet

LEMMA SeekEnds ==
  ASSUME TypeOK, PosInv, NEW t \in Threads, SeekLower(t)
  PROVE  ~adrift' => upos = lpos'
<1>1. upos \in Sizes /\ lpos \in Sizes /\ Sizes \subseteq Int
  BY SizeAssumption DEF TypeOK, Sizes
<1>2. arg[t].offset \in Int /\ arg[t].whence \in {"set", "cur"} \cup BySize
  BY SizeAssumption DEF SeekLower, TypeOK, Carried, Seeks, BySize
<1>3. pc[t] = "seek" \/ pc[t] = "seekend"
  BY DEF SeekLower
<1>4. /\ lpos' = IF generic_file_llseek(arg[t], ldir, lpos) THEN Target(arg[t], ldir, lpos)
                ELSE lpos
      /\ adrift' = (~alone[t] \/ CASE arg[t].whence = "set"     -> FALSE
                                   [] arg[t].whence = "cur"     -> adrift
                                   [] arg[t].whence \in BySize -> stale)
  BY Zenon DEF SeekLower
<1>5. /\ pc[t] = "seek" <=> arg[t].whence \in {"set", "cur"}
      /\ pc[t] = "seekend" <=> arg[t].whence \in BySize
  BY <1>2, <1>3 DEF PosInv, Seeking, BySize
<1>6. CASE arg[t].whence = "set"
  <2>1. ~adrift' => upos = arg[t].offset
    BY <1>4, <1>5, <1>6 DEF PosInv, Seeking
  <2>2. Target(arg[t], ldir, lpos) = arg[t].offset
    BY <1>6 DEF Target
  <2>3. upos = arg[t].offset => generic_file_llseek(arg[t], ldir, lpos)
    BY <1>1, <1>6, <2>2 DEF generic_file_llseek, vfs_setpos
  <2>4. QED
    BY <1>4, <2>1, <2>2, <2>3
<1>7. CASE arg[t].whence = "cur"
  <2>1. ~adrift' => upos = lpos + arg[t].offset
    BY <1>4, <1>5, <1>7 DEF PosInv, Seeking
  <2>2. Target(arg[t], ldir, lpos) = lpos + arg[t].offset
    BY <1>7 DEF Target
  <2>3. upos = lpos + arg[t].offset => generic_file_llseek(arg[t], ldir, lpos)
    BY <1>1, <1>7, <2>2 DEF generic_file_llseek, vfs_setpos
  <2>4. QED
    BY <1>4, <2>1, <2>2, <2>3
<1>8. CASE arg[t].whence \in BySize
  <2>1. adrift' = (~alone[t] \/ stale)
    BY <1>4, <1>8 DEF BySize
  <2>2. ~adrift' => /\ generic_file_llseek(arg[t], ldir, lpos)
                    /\ upos = Target(arg[t], ldir, lpos)
    BY <2>1, <1>5, <1>8 DEF PosInv, Seeking
  <2>3. QED
    BY <1>4, <2>2
<1>9. QED
  BY <1>2, <1>6, <1>7, <1>8

LEMMA PosStep == TypeOK /\ Apart /\ DirInv /\ PosInv /\ [Next]_vars => PosInv'
<1> SUFFICES ASSUME TypeOK, Apart, DirInv, PosInv, [Next]_vars PROVE PosInv'
  OBVIOUS
<1>n. upos \in Sizes /\ lpos \in Sizes /\ ldir \in Sizes /\ udir \in Sizes
  BY DEF TypeOK
<1>s. Sizes \subseteq Int
  BY SizeAssumption DEF Sizes
<1>a. \A t, s \in Threads : t # s /\ pc[t] \in PosOps /\ alone[s] => pc[s] \notin PosOps
  BY DEF Apart, Clash
<1>0. AioDone \/ (\E t \in Threads : WriteFails(t)) => LowerGrows
  BY DEF AioDone, WriteFails
<1>1. CASE LowerGrows
  <2>1. /\ pc' = pc /\ arg' = arg /\ UNCHANGED <<ldir, upos, lpos, stale, adrift>>
        /\ \A t \in Threads : alone'[t] => alone[t]
    BY <1>1, TouchKeeps DEF LowerGrows, dir, pos
  <2>2. QED
    BY <2>1 DEF PosInv, Seeking, Quiet
<1>2. CASE trfs_iget \/ UNCHANGED vars
  BY <1>2 DEF trfs_iget, vars, dir, pos, history, PosInv, Seeking, Quiet
<1>3. ASSUME NEW t \in Threads,
             \/ trfs_write_iter(t) \/ CopyReads(t) \/ CopySets(t)
             \/ trfs_setattr(t) \/ notify_change(t)
      PROVE  PosInv'
  <2>1. UNCHANGED <<ldir, stale, upos, lpos, adrift>>
    BY <1>3 DEF trfs_write_iter, trfs_write, CopyReads, CopySets, trfs_setattr, notify_change,
                dir, pos, history
  <2>2. Moves(t, Changing \cup DirOps)
    BY <1>3, FileMoves DEF Moves
  <2>3. QED
    BY <2>1, <2>2, PosElsewhere
<1>4. ASSUME NEW t \in Threads,
             \/ ChangeDir(t) \/ CopyDirSize(t) \/ trfs_link(t) \/ LinkSetsSizes(t)
      PROVE  PosInv'
  <2>1. UNCHANGED <<upos, lpos, adrift>>
    BY <1>4 DEF ChangeDir, CopyDirSize, trfs_link, LinkSetsSizes, pos, history
  <2>2. Moves(t, DirOps) /\ Others(t)
    BY <1>4, DirMoves, LinkMoves DEF Moves, DirOps
  <2>3. pc[t] \in DirOps \/ pc'[t] \in DirOps
    BY <1>4, BeginApart
       DEF ChangeDir, CopyDirSize, trfs_link, LinkSetsSizes, Kinds, DirOps
  <2>4. Apart'
    BY ApartStep
  <2>5. ASSUME NEW s \in Threads, alone'[s] PROVE pc'[s] # "seekend"
    <3>1. CASE s = t
      BY <2>2, <3>1 DEF Moves, DirOps
    <3>2. CASE s # t /\ pc[t] \in DirOps
      BY <2>2, <2>5, <3>2 DEF Others, Apart, Clash, DirOps
    <3>3. CASE s # t /\ pc'[t] \in DirOps
      BY <2>4, <2>5, <3>3 DEF Apart, Clash, DirOps
    <3>4. QED
      BY <2>3, <3>1, <3>2, <3>3
  <2>6. Moves(t, Changing \cup DirOps)
    BY <2>2 DEF Moves
  <2>7. QED
    BY <2>1, <2>5, <2>6, PosElsewhere
<1>5. ASSUME NEW t \in Threads, trfs_file_llseek(t) PROVE PosInv'
  <2>1. PICK s \in Seeks :
          /\ generic_file_llseek(s, udir, upos) /\ upos' = Target(s, udir, upos)
          /\ \/ Begin(t, SeekKind(s), s) /\ UNCHANGED adrift
             \/ Touch("seek") /\ adrift' = TRUE
    BY <1>5, Zenon DEF trfs_file_llseek
  <2>2. UNCHANGED <<lpos, ldir, stale>>
    BY <1>5 DEF trfs_file_llseek, dir
  <2>3. s.offset \in Int /\ s.whence \in {"set", "cur", "end", "data", "hole"}
    BY SizeAssumption DEF Seeks
  <2>4. CASE Begin(t, SeekKind(s), s) /\ UNCHANGED adrift
    BY <2>1, <2>2, <2>4, SeekBegins
  <2>5. CASE Touch("seek") /\ adrift' = TRUE
    <3>1. pc' = pc /\ arg' = arg /\ \A r \in Threads : alone'[r] => pc[r] \notin PosOps
      BY <2>5, TouchKeeps DEF Clash, PosOps
    <3>2. ASSUME NEW r \in Threads PROVE Seeking(r)'
      BY <3>1 DEF PosInv, Seeking, PosOps
    <3>3. QED
      BY <2>5, <3>2 DEF PosInv
  <2>6. QED
    BY <2>1, <2>4, <2>5
<1>6. ASSUME NEW t \in Threads, SeekLower(t) PROVE PosInv'
  <2>1. /\ pc[t] \in {"seek", "seekend"} /\ pc'[t] = "idle"
        /\ \A r \in Threads \ {t} : pc'[r] = pc[r] /\ arg'[r] = arg[r] /\ alone'[r] = alone[r]
    BY <1>6, EndApart DEF SeekLower
  <2>2. UNCHANGED <<upos, ldir, stale>>
    BY <1>6 DEF SeekLower, dir
  <2>3. ASSUME NEW r \in Threads PROVE Seeking(r)'
    BY <1>a, <2>1, <2>2 DEF PosInv, Seeking, PosOps
  <2>4. ~adrift' => upos' = lpos'
    BY <1>6, <2>2, SeekEnds
  <2>5. QED
    BY <2>3, <2>4 DEF PosInv
<1>7. ASSUME NEW t \in Threads, trfs_readdir(t) PROVE PosInv'
  <2>1. PICK x \in Reads :
          /\ Begin(t, "readdir", x)
          /\ (x.ok /\ lpos' = x.pos) \/ (~x.ok /\ x.pos = upos /\ lpos' = lpos)
    <3>1. CASE \E p \in Sizes : lpos' = p /\ Begin(t, "readdir", [pos |-> p, ok |-> TRUE])
      <4>1. PICK p \in Sizes : lpos' = p /\ Begin(t, "readdir", [pos |-> p, ok |-> TRUE])
        BY <3>1
      <4>2. [pos |-> p, ok |-> TRUE] \in Reads
        BY DEF Reads
      <4>3. QED
        BY <4>1, <4>2
    <3>2. CASE Begin(t, "readdir", [pos |-> upos, ok |-> FALSE]) /\ lpos' = lpos
      <4>1. [pos |-> upos, ok |-> FALSE] \in Reads
        BY <1>n DEF Reads
      <4>2. QED
        BY <3>2, <4>1
    <3>3. QED
      BY <1>7, <3>1, <3>2, Zenon DEF trfs_readdir
  <2>2. /\ pc[t] = "idle" /\ pc'[t] = "readdir" /\ arg'[t] = x
        /\ \A r \in Threads \ {t} : /\ pc'[r] = pc[r] /\ arg'[r] = arg[r]
                                    /\ alone'[r] => alone[r] /\ ~Clash("readdir", pc[r])
        /\ alone'[t] => \A r \in Threads \ {t} : ~Clash("readdir", pc[r])
    BY <2>1, BeginApart DEF Kinds, PosOps
  <2>3. UNCHANGED <<upos, ldir, stale, adrift>>
    BY <1>7 DEF trfs_readdir, dir, history
  <2>4. alone'[t] /\ ~adrift => upos = lpos
    BY <2>2 DEF Clash, PosInv, Quiet, PosOps
  <2>5. Seeking(t)'
    BY <2>1, <2>2, <2>3, <2>4 DEF Seeking
  <2>6. ASSUME NEW r \in Threads, r # t PROVE Seeking(r)'
    BY <2>2, <2>6 DEF PosInv, Seeking, Clash, PosOps
  <2>7. QED
    BY <2>2, <2>5, <2>6 DEF PosInv, Quiet, PosOps
<1>8. ASSUME NEW t \in Threads, CopyPos(t) PROVE PosInv'
  <2>1. /\ pc[t] = "readdir" /\ pc'[t] = "readend" /\ arg'[t] = arg[t] /\ alone' = alone
        /\ \A r \in Threads \ {t} : pc'[r] = pc[r] /\ arg'[r] = arg[r]
    BY <1>8, GotoApart DEF CopyPos
  <2>2. UNCHANGED <<lpos, ldir, stale, adrift>>
    BY <1>8 DEF CopyPos, dir, history
  <2>3. ASSUME NEW r \in Threads PROVE Seeking(r)'
    BY <1>a, <2>1, <2>2 DEF PosInv, Seeking, PosOps
  <2>4. QED
    BY <2>1, <2>3 DEF PosInv, Quiet, PosOps
<1>9. ASSUME NEW t \in Threads, iterate_dir(t) PROVE PosInv'
  <2>1. /\ pc[t] = "readend" /\ pc'[t] = "idle"
        /\ \A r \in Threads \ {t} : pc'[r] = pc[r] /\ arg'[r] = arg[r] /\ alone'[r] = alone[r]
    BY <1>9, EndApart DEF iterate_dir
  <2>2. /\ upos' = arg[t].pos /\ adrift' = (~alone[t] \/ (adrift /\ ~arg[t].ok))
        /\ UNCHANGED <<lpos, ldir, stale>>
    BY <1>9 DEF iterate_dir, dir
  <2>3. ASSUME NEW r \in Threads PROVE Seeking(r)'
    BY <1>a, <2>1, <2>2 DEF PosInv, Seeking, PosOps
  <2>4. ~adrift' => upos' = lpos'
    BY <2>1, <2>2 DEF PosInv, Seeking
  <2>5. QED
    BY <2>3, <2>4 DEF PosInv
<1>10. QED
  BY <1>0, <1>1, <1>2, <1>3, <1>4, <1>5, <1>6, <1>7, <1>8, <1>9 DEF Next

-----------------------------------------------------------------------------
LEMMA InitInv == Init => Inv
<1> SUFFICES ASSUME Init PROVE Inv
  OBVIOUS
<1>1. TypeOK
  <2>1. 0 \in Sizes
    BY SizeAssumption DEF Sizes
  <2>2. QED
    BY <2>1, TypeParts DEF Init, ThreadsOK, ValuesOK, Kinds, Fits, Carried
<1>2. Apart
  BY DEF Init, Apart, Clash, FileOps, PosOps, DirOps
<1>3. upper \in Int /\ lower = upper /\ ldir = udir /\ lpos = upos
  BY SizeAssumption DEF Init, Sizes
<1>4. FileInv /\ DirInv /\ PosInv
  BY <1>3 DEF Init, FileInv, Held, DirInv, PosInv, Seeking
<1>5. QED
  BY <1>1, <1>2, <1>4 DEF Inv

(* TrfsSize: the inductive invariant, that is what each thread may rely on *)
(* between the two halves of its operation.                                *)
THEOREM Invariance == Spec => []Inv
<1>1. Inv /\ [Next]_vars => Inv'
  BY TypeStep, ApartStep, FileStep, DirStep, PosStep DEF Inv
<1>2. QED
  BY InitInv, <1>1, PTL DEF Spec

(* TrfsSize: a size copied late is too small at worst.  However many       *)
(* threads write, link and truncate a file, and whatever a queued write    *)
(* does, the upper inode claims no bytes that the lower file lacks, unless *)
(* a truncate changed it first (trfs_write, trfs_setattr, trfs_link).      *)
THEOREM UpperNeverAhead == Spec => []UpperLags
<1>1. Inv => UpperLags
  BY DEF Inv, FileInv, UpperLags
<1>2. QED
  BY <1>1, Invariance, PTL

(* TrfsSize: the file has the same size in both layers when nobody works   *)
(* on it and the last operation on it did not overlap with another, was no *)
(* truncate that failed below, no queued write and none that grew the      *)
(* lower file and failed.                                                  *)
THEOREM SizesSettle == Spec => []SizesAgree
<1>1. Inv => SizesAgree
  <2>1. At(FileOps) = {} => Quiet(Changing)
    BY DEF At, Quiet, FileOps, Changing
  <2>2. QED
    BY <2>1 DEF Inv, FileInv, SizesAgree
<1>2. QED
  BY <1>1, Invariance, PTL

(* TrfsSize: whatever lseek is called with and whichever way readdir ends, *)
(* the two offsets of an open directory agree between seeks and reads,     *)
(* unless two overlapped, one went by a stale size or the int of           *)
(* trfs_file_llseek took an offset for an error.                           *)
THEOREM OffsetsSettle == Spec => []OffsetsAgree
<1>1. Inv => OffsetsAgree
  <2>1. At(PosOps) = {} => Quiet(PosOps)
    BY DEF At, Quiet
  <2>2. QED
    BY <2>1 DEF Inv, PosInv, OffsetsAgree
<1>2. QED
  BY <1>1, Invariance, PTL
=============================================================================
