----------------------------- MODULE FileTree ------------------------------
(***************************************************************************)
(* A small file system as a value: the objects are numbered in the order   *)
(* of their creation, size has the length of each, dirs are those that are *)
(* directories, and tree says which object a name leads to, 0 if none.     *)
(* The lower file system of a traced mount and the one a trace is replayed *)
(* on are both of this kind.                                               *)
(***************************************************************************)
EXTENDS Naturals, Sequences

Empty(Names) == [tree |-> [n \in Names |-> 0], size |-> <<>>, dirs |-> {}]

IsFile(fs, n) == fs.tree[n] # 0 /\ fs.tree[n] \notin fs.dirs
IsDir(fs, n)  == fs.tree[n] \in fs.dirs
Free(fs, n)   == fs.tree[n] = 0

Put(fs, n, obj) == [fs EXCEPT !.tree = [@ EXCEPT ![n] = obj]]

Create(fs, n) == Put([fs EXCEPT !.size = Append(@, 0)], n, Len(fs.size) + 1)

Mkdir(fs, n) == [Create(fs, n) EXCEPT !.dirs = @ \cup {Len(fs.size) + 1}]

Remove(fs, n) == Put(fs, n, 0)

Link(fs, old, new) == Put(fs, new, fs.tree[old])

(* A rename replaces a file by a file and a directory by a directory; one  *)
(* between two names of an object does nothing and is not asked for.       *)
CanRename(fs, old, new) ==
  /\ ~Free(fs, old) /\ fs.tree[old] # fs.tree[new]
  /\ Free(fs, new) \/ (IsDir(fs, old) <=> IsDir(fs, new))

Rename(fs, old, new) == Remove(Link(fs, old, new), old)

(* What a read of len bytes at pos returns, and the file after a write.    *)
ReadCount(fs, obj, pos, len) ==
  IF pos + len <= fs.size[obj] THEN len
  ELSE IF pos <= fs.size[obj] THEN fs.size[obj] - pos ELSE 0

Write(fs, obj, pos, len) ==
  IF pos + len <= fs.size[obj] THEN fs
  ELSE [fs EXCEPT !.size = [@ EXCEPT ![obj] = pos + len]]
=============================================================================
