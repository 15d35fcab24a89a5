---------------------------- MODULE TreplayProofs ----------------------------
EXTENDS Treplay, WellFoundedInduction, SequenceTheorems, TLAPS

-----------------------------------------------------------------------------
(* The files open after a record as the records tell of them: where they   *)
(* put the offset, and without the descriptors.                            *)
Opened(f) == [obj |-> f.obj, pos |-> f.told, by |-> f.by]
Views == [Addrs -> [obj : 0 .. MaxOps, pos : Nat, by : 0 .. MaxOps]]

FsAt(tr, j) == IF j = 0 THEN Empty(Names) ELSE tr[j].fs

FileSystem(fs, n) ==
  /\ fs = [tree |-> fs.tree, size |-> fs.size, dirs |-> fs.dirs]
  /\ fs.size \in Seq(Nat) /\ Len(fs.size) <= n
  /\ fs.tree \in [Names -> 0 .. Len(fs.size)]
  /\ fs.dirs \subseteq 1 .. Len(fs.size)

(* What the record number j says of the lower file system fs and the open  *)
(* files s before it, and of fs1 and s1 after it.                          *)
ExecutesOpen(fs, s, j, r, fs1, s1) ==
  /\ r.by = j /\ r.addr \in Addrs /\ r.name \in Names
  /\ r.creat <=> Free(fs, r.name)
  /\ fs1 = IF r.creat THEN Create(fs, r.name) ELSE fs
  /\ IF r.fails THEN s1 = s
     ELSE /\ r.ret = 0
          /\ s1 = [s EXCEPT ![r.addr] = [obj |-> fs1.tree[r.name], pos |-> 0, by |-> j]]

OnOpen(fs, s, r) ==
  /\ r.addr \in Addrs /\ r.by # 0 /\ r.by = s[r.addr].by /\ ~r.fails

ExecutesData(fs, s, r, fs1, s1) ==
  /\ OnOpen(fs, s, r) /\ s[r.addr].obj \notin fs.dirs /\ r.ret = r.len
  /\ \E at \in Nat :
       /\ ~r.strays => at = s[r.addr].pos
       /\ r.type = "read" => r.len = ReadCount(fs, s[r.addr].obj, at, r.len) /\ fs1 = fs
       /\ r.type = "write" => fs1 = Write(fs, s[r.addr].obj, at, r.len)
  /\ s1 = [s EXCEPT ![r.addr].pos = @ + r.len]

ExecutesName(fs, r, fs1) ==
  /\ r.name \in Names
  /\ r.type \in {"link", "rename"} => r.new \in Names
  /\ r.fails => r.type \notin {"link", "rmdir"}
  /\ IF r.fails THEN fs1 = fs
     ELSE /\ r.ret = 0 \/ (r.type = "link" /\ r.ret < 0)
          /\ r.type = "mkdir"  => Free(fs, r.name) /\ fs1 = Mkdir(fs, r.name)
          /\ r.type = "unlink" => IsFile(fs, r.name) /\ fs1 = Remove(fs, r.name)
          /\ r.type = "rmdir"  => IsDir(fs, r.name) /\ fs1 = Remove(fs, r.name)
          /\ r.type = "link"   => /\ IsFile(fs, r.name) /\ Free(fs, r.new)
                                  /\ fs1 = Link(fs, r.name, r.new)
          /\ r.type = "rename" => /\ CanRename(fs, r.name, r.new)
                                  /\ fs1 = Rename(fs, r.name, r.new)

Executes(fs, s, j, r, fs1, s1) ==
  /\ r.type = "open" => ExecutesOpen(fs, s, j, r, fs1, s1)
  /\ r.type \in {"read", "write"} => ExecutesData(fs, s, r, fs1, s1)
  /\ r.type = "close" => OnOpen(fs, s, r) /\ r.ret <= 0 /\ fs1 = fs /\ s1 = s
  /\ r.type = "readdir" => (r.fails \/ r.ret = 0) /\ fs1 = fs /\ s1 = s
  /\ r.type \in OnNames => ExecutesName(fs, r, fs1) /\ s1 = s
  /\ r.fails => r.ret < 0

OpenBy(tr, k, a) ==
  /\ k \in 1 .. Len(tr)
  /\ tr[k].rec.type = "open" /\ tr[k].rec.addr = a /\ ~tr[k].rec.fails

Execution(tr, st) ==
  /\ st \in [0 .. Len(tr) -> Views]
  /\ \A j \in 0 .. Len(tr) :
       /\ FileSystem(FsAt(tr, j), j)
       /\ \A a \in Addrs : st[j][a].by # 0 =>
            /\ st[j][a].obj \in 1 .. Len(FsAt(tr, j).size)
            /\ st[j][a].by <= j /\ OpenBy(tr, st[j][a].by, a)
  /\ \A j \in 1 .. Len(tr) :
       Executes(FsAt(tr, j - 1), st[j - 1], j, tr[j].rec, FsAt(tr, j), st[j])

TraceInv(st) ==
  /\ Execution(trace, st) /\ Len(trace) <= MaxOps
  /\ lower = FsAt(trace, Len(trace))
  /\ \A a \in Addrs : IsOpen(files[a]) =>
       Opened(files[a]) = st[Len(trace)][a] /\ files[a].by # 0

(* The entry of an address is its only one, and leads to the file as long  *)
(* as that is open.                                                        *)
ClosedBefore(k, a) ==
  \E m \in 1 .. offset - 1 : k < m /\ trace[m].rec.type = "close" /\ trace[m].rec.addr = a

Entry(i, a) ==
  /\ i \in DOMAIN map
  /\ \A j \in DOMAIN map : map[j].file_addr = a <=> j = i

(* The descriptor whose file is f serves the open number k.                *)
Serves(f, v, k) == IsOpen(f) /\ f.obj = v.obj /\ f.by = k /\ v.by = k

Kept(st) ==
  \A k \in 1 .. offset - 1 :
    LET a == trace[k].rec.addr IN
    trace[k].rec.type = "open" =>
      \E i \in DOMAIN map :
        /\ Entry(i, a)
        /\ ~trace[k].rec.fails /\ ~ClosedBefore(k, a) =>
             /\ map[i].file_d \in Fds /\ Serves(fds[map[i].file_d], st[offset - 1][a], k)
             /\ Sequential => fds[map[i].file_d].pos = st[offset - 1][a].pos

NotReplayed ==
  /\ map = <<>> /\ fds = [fd \in Fds |-> NoFile] /\ target = Empty(Names) /\ deviated = {}

(* Two file systems that differ at most in the lengths of their files.     *)
Alike(fs, tg) ==
  tg.tree = fs.tree /\ tg.dirs = fs.dirs /\ Len(tg.size) = Len(fs.size)

Replayed ==
  /\ FileSystem(target, offset - 1)
  /\ \A fd \in Fds : IsOpen(fds[fd]) => fd < offset /\ fds[fd].obj \in 1 .. Len(target.size)
  /\ \A i \in DOMAIN map : \E k \in 1 .. offset - 1 :
       trace[k].rec.type = "open" /\ trace[k].rec.addr = map[i].file_addr

ReplayInv(st) ==
  /\ mode \in {"trace", "show"} => NotReplayed
  /\ mode = "trace" => offset = 1
  /\ mode \notin {"trace", "show"} => Replayed
  /\ mode \notin {"trace", "show"} /\ NoHalfOpen =>
       /\ Alike(FsAt(trace, offset - 1), target)
       /\ Unambiguous =>
            Kept(st) /\ (Sequential => target.size = FsAt(trace, offset - 1).size)

Inv(st) == TypeOK /\ TraceInv(st) /\ ReplayInv(st) /\ DeviationsAreFailures
-----------------------------------------------------------------------------
(* The least of a set of numbers.                                          *)
LEMMA LeastExists ==
  ASSUME NEW S, S \subseteq Nat, S # {}
  PROVE  \E x \in S : \A y \in S : x <= y
<1>1. PICK R : IsWellFoundedOn(R, Nat) /\ \A x, y \in Nat : x < y => <<x, y>> \in R
  <2>1. \A x, y \in Nat : x < y => <<x, y>> \in OpToRel(<, Nat)
    BY Zenon DEF OpToRel
  <2> QED
    BY <2>1, NatLessThanWellFounded, Zenon
<1>2. IsWellFoundedOn(R, Nat)
  BY <1>1
<1>3. \E x \in S : \A y \in S : ~(<<y, x>> \in R)
  BY <1>2, WFMin, Zenon
<1>4. PICK x \in S : \A y \in S : ~(<<y, x>> \in R)
  BY <1>3, Zenon
<1>5. ASSUME NEW y \in S PROVE x <= y
  <2>1. x \in Nat /\ y \in Nat /\ ~(y < x)
    BY <1>1, <1>4
  <2> QED
    BY <2>1
<1> QED
  BY <1>4, <1>5

-----------------------------------------------------------------------------
(* What the operations do to a file system, field by field.                *)
FS(t, s, d) == [tree |-> t, size |-> s, dirs |-> d]
At(t, x, obj) == [t EXCEPT ![x] = obj]
Longer(s) == Append(s, 0)
With(d, s) == d \cup {Len(s) + 1}
Fields(t, s, d, n) ==
  /\ s \in Seq(Nat) /\ Len(s) <= n
  /\ t \in [Names -> 0 .. Len(s)] /\ d \subseteq 1 .. Len(s)

LEMMA FileSystemFields ==
  ASSUME NEW n, NEW fs
  PROVE  FileSystem(fs, n) <=> \E t, s, d : fs = FS(t, s, d) /\ Fields(t, s, d, n)
<1>1. ASSUME FileSystem(fs, n)
      PROVE  fs = FS(fs.tree, fs.size, fs.dirs) /\ Fields(fs.tree, fs.size, fs.dirs, n)
  BY <1>1 DEF FileSystem, FS, Fields
<1>2. ASSUME NEW t, NEW s, NEW d, fs = FS(t, s, d), Fields(t, s, d, n)
      PROVE  FileSystem(fs, n)
  <2>1. fs.tree = t /\ fs.size = s /\ fs.dirs = d
    BY <1>2 DEF FS
  <2> QED
    BY <1>2, <2>1 DEF FileSystem, FS, Fields
<1> QED
  BY <1>1, <1>2

LEMMA PutField ==
  ASSUME NEW t, NEW s, NEW d, NEW x, NEW obj
  PROVE  Put(FS(t, s, d), x, obj) = FS(At(t, x, obj), s, d)
<1>1. Put(FS(t, s, d), x, obj) = [FS(t, s, d) EXCEPT !.tree = At(t, x, obj)]
  BY DEF Put, FS, At
<1>2. [FS(t, s, d) EXCEPT !.tree = At(t, x, obj)] = FS(At(t, x, obj), s, d)
  BY DEF FS
<1> QED
  BY <1>1, <1>2

LEMMA FieldsOf ==
  ASSUME NEW t, NEW s, NEW d
  PROVE  FS(t, s, d).tree = t /\ FS(t, s, d).size = s /\ FS(t, s, d).dirs = d
BY DEF FS

LEMMA CreateFields ==
  ASSUME NEW t, NEW s, NEW d, NEW x
  PROVE  /\ Create(FS(t, s, d), x) = FS(At(t, x, Len(s) + 1), Longer(s), d)
         /\ Mkdir(FS(t, s, d), x) = FS(At(t, x, Len(s) + 1), Longer(s), With(d, s))
<1>1. PICK u : u = At(t, x, Len(s) + 1)
  OBVIOUS
<1>2. PICK v, e : v = Longer(s) /\ v = Append(s, 0) /\ e = With(d, s) /\ e = d \cup {Len(s) + 1}
  BY DEF Longer, With
<1>3. FS(t, s, d).size = s /\ FS(u, v, d).dirs = d
  BY DEF FS
<1>4. [FS(t, s, d) EXCEPT !.size = v] = FS(t, v, d)
  BY DEF FS
<1>5. Put(FS(t, v, d), x, Len(s) + 1) = FS(u, v, d)
  BY <1>1, PutField
<1>6. Create(FS(t, s, d), x) = FS(u, v, d)
  BY <1>2, <1>3, <1>4, <1>5, Zenon DEF Create
<1>7. [FS(u, v, d) EXCEPT !.dirs = e] = FS(u, v, e)
  BY DEF FS
<1>8. Mkdir(FS(t, s, d), x) = FS(u, v, e)
  BY <1>2, <1>3, <1>6, <1>7, Zenon DEF Mkdir
<1> QED
  BY <1>1, <1>2, <1>6, <1>8

LEMMA PutFields ==
  ASSUME NEW t, NEW s, NEW d, NEW x, NEW y
  PROVE  /\ Remove(FS(t, s, d), x) = FS(At(t, x, 0), s, d)
         /\ Link(FS(t, s, d), x, y) = FS(At(t, y, t[x]), s, d)
         /\ Rename(FS(t, s, d), x, y) = FS(At(At(t, y, t[x]), x, 0), s, d)
<1>1. PICK obj : obj = t[x]
  OBVIOUS
<1>2. PICK u : u = At(t, y, obj)
  OBVIOUS
<1>3. FS(t, s, d).tree = t
  BY DEF FS
<1>4. /\ Put(FS(t, s, d), x, 0) = FS(At(t, x, 0), s, d)
      /\ Put(FS(t, s, d), y, obj) = FS(u, s, d)
      /\ Put(FS(u, s, d), x, 0) = FS(At(u, x, 0), s, d)
  BY <1>2, PutField
<1>5. Remove(FS(t, s, d), x) = FS(At(t, x, 0), s, d)
  BY <1>4 DEF Remove
<1>6. Link(FS(t, s, d), x, y) = FS(u, s, d)
  BY <1>1, <1>3, <1>4, Zenon DEF Link
<1>7. Rename(FS(t, s, d), x, y) = FS(At(u, x, 0), s, d)
  BY <1>4, <1>6 DEF Rename, Remove
<1> QED
  BY <1>1, <1>2, <1>5, <1>6, <1>7, Zenon

LEMMA AtType ==
  ASSUME NEW S, NEW t \in [Names -> S], NEW x \in Names, NEW obj \in S
  PROVE  At(t, x, obj) \in [Names -> S]
BY DEF At

LEMMA CreateKeeps ==
  ASSUME NEW n \in Nat, NEW fs, FileSystem(fs, n), NEW x \in Names
  PROVE  /\ FileSystem(Create(fs, x), n + 1) /\ FileSystem(Mkdir(fs, x), n + 1)
         /\ Len(fs.size) \in Nat
         /\ Len(Create(fs, x).size) = Len(fs.size) + 1
         /\ Len(Mkdir(fs, x).size) = Len(fs.size) + 1
         /\ Create(fs, x).tree[x] = Len(fs.size) + 1
<1>1. PICK t, s, d : fs = FS(t, s, d) /\ Fields(t, s, d, n)
  BY FileSystemFields, Zenon
<1>2. s \in Seq(Nat) /\ t \in [Names -> 0 .. Len(s)] /\ d \subseteq 1 .. Len(s) /\ Len(s) <= n
  BY <1>1 DEF Fields
<1>3. PICK m \in Nat : m = Len(s) /\ m <= n
  BY <1>2
<1>4. PICK v \in Seq(Nat) : v = Longer(s) /\ Len(v) = m + 1
  <2>1. Append(s, 0) \in Seq(Nat) /\ Len(Append(s, 0)) = m + 1
    BY <1>2, <1>3
  <2> QED
    BY <2>1 DEF Longer
<1>5. t \in [Names -> 0 .. m + 1] /\ m + 1 \in 0 .. m + 1
  <2>1. ASSUME NEW z \in Names PROVE t[z] \in 0 .. m + 1
    BY <1>2, <1>3
  <2> QED
    BY <1>2, <1>3, <2>1
<1>6. PICK u : u = At(t, x, m + 1) /\ u \in [Names -> 0 .. m + 1] /\ u[x] = m + 1
  <2>1. At(t, x, m + 1) \in [Names -> 0 .. m + 1]
    BY <1>5, AtType, Zenon
  <2>2. At(t, x, m + 1)[x] = m + 1
    BY <1>5 DEF At
  <2> QED
    BY <2>1, <2>2
<1>7. PICK e : e = With(d, s) /\ d \subseteq 1 .. m + 1 /\ e \subseteq 1 .. m + 1
  <2>1. ASSUME NEW z \in d PROVE z \in 1 .. m + 1
    BY <1>2, <1>3
  <2>2. d \cup {m + 1} \subseteq 1 .. m + 1
    BY <1>3, <2>1
  <2> QED
    BY <1>3, <2>1, <2>2 DEF With
<1>8. Create(fs, x) = FS(u, v, d) /\ Mkdir(fs, x) = FS(u, v, e)
  BY <1>1, <1>3, <1>4, <1>6, <1>7, CreateFields
<1>9. Fields(u, v, d, n + 1) /\ Fields(u, v, e, n + 1)
  BY <1>3, <1>4, <1>6, <1>7 DEF Fields
<1>10. fs.size = s /\ Create(fs, x).size = v /\ Mkdir(fs, x).size = v /\ Create(fs, x).tree = u
  BY <1>1, <1>8, FieldsOf
<1>11. FileSystem(Create(fs, x), n + 1) /\ FileSystem(Mkdir(fs, x), n + 1)
  BY <1>8, <1>9, FileSystemFields
<1> QED
  BY <1>3, <1>4, <1>6, <1>10, <1>11

LEMMA PutKeeps ==
  ASSUME NEW n \in Nat, NEW fs, FileSystem(fs, n), NEW x \in Names, NEW y \in Names
  PROVE  /\ FileSystem(Remove(fs, x), n) /\ FileSystem(Link(fs, x, y), n)
         /\ FileSystem(Rename(fs, x, y), n)
<1>1. PICK t, s, d : fs = FS(t, s, d) /\ Fields(t, s, d, n)
  BY FileSystemFields, Zenon
<1>2. PICK S : S = 0 .. Len(s) /\ 0 \in S /\ t \in [Names -> S] /\ t[x] \in S
  BY <1>1 DEF Fields
<1>3. /\ At(t, x, 0) \in [Names -> S] /\ At(t, y, t[x]) \in [Names -> S]
      /\ At(At(t, y, t[x]), x, 0) \in [Names -> S]
  BY <1>2, AtType, Zenon
<1>4. \A z \in [Names -> S] : Fields(z, s, d, n)
  BY <1>1, <1>2 DEF Fields
<1>5. \A z \in [Names -> S] : FileSystem(FS(z, s, d), n)
  BY <1>4, FileSystemFields, Zenon
<1>6. /\ Remove(fs, x) = FS(At(t, x, 0), s, d)
      /\ Link(fs, x, y) = FS(At(t, y, t[x]), s, d)
      /\ Rename(fs, x, y) = FS(At(At(t, y, t[x]), x, 0), s, d)
  BY <1>1, PutFields
<1> QED
  BY <1>3, <1>5, <1>6, Zenon

LEMMA WriteKeeps ==
  ASSUME NEW n \in Nat, NEW fs, FileSystem(fs, n),
         NEW obj \in 1 .. Len(fs.size), NEW pos \in Nat, NEW len \in Nat
  PROVE  /\ FileSystem(Write(fs, obj, pos, len), n)
         /\ Write(fs, obj, pos, len).tree = fs.tree
         /\ Write(fs, obj, pos, len).dirs = fs.dirs
         /\ Len(Write(fs, obj, pos, len).size) = Len(fs.size)
<1>1. PICK t, s, d : fs = FS(t, s, d) /\ Fields(t, s, d, n)
  BY FileSystemFields, Zenon
<1>2. fs.tree = t /\ fs.size = s /\ fs.dirs = d
  BY <1>1 DEF FS
<1>3. PICK u : u = [s EXCEPT ![obj] = pos + len]
  OBVIOUS
<1>4. u \in Seq(Nat) /\ Len(u) = Len(s)
  BY <1>1, <1>2, <1>3 DEF Fields
<1>5. [fs EXCEPT !.size = u] = FS(t, u, d)
  BY <1>1 DEF FS
<1>6. Write(fs, obj, pos, len) = fs \/ Write(fs, obj, pos, len) = FS(t, u, d)
  BY <1>2, <1>3, <1>5 DEF Write
<1>7. FileSystem(FS(t, u, d), n)
  <2>1. Fields(t, u, d, n)
    BY <1>1, <1>4 DEF Fields
  <2> QED
    BY <2>1, FileSystemFields, Zenon
<1>8. FS(t, u, d).tree = t /\ FS(t, u, d).size = u /\ FS(t, u, d).dirs = d
  BY DEF FS
<1> QED
  BY <1>2, <1>4, <1>6, <1>7, <1>8, Zenon

LEMMA ReadCountType ==
  ASSUME NEW n \in Nat, NEW fs, FileSystem(fs, n),
         NEW obj \in 1 .. Len(fs.size), NEW pos \in Nat, NEW len \in Nat
  PROVE  /\ ReadCount(fs, obj, pos, len) \in Nat
         /\ ReadCount(fs, obj, pos, ReadCount(fs, obj, pos, len)) = ReadCount(fs, obj, pos, len)
<1>1. PICK k \in Nat : k = fs.size[obj]
  BY DEF FileSystem
<1> QED
  BY <1>1 DEF ReadCount

LEMMA PutKeepsSizes ==
  ASSUME NEW n \in Nat, NEW fs, FileSystem(fs, n), NEW x \in Names, NEW y \in Names
  PROVE  /\ Remove(fs, x).size = fs.size /\ Link(fs, x, y).size = fs.size
         /\ Rename(fs, x, y).size = fs.size
<1>1. PICK t, s, d : fs = FS(t, s, d) /\ Fields(t, s, d, n)
  BY FileSystemFields, Zenon
<1>2. /\ Remove(fs, x) = FS(At(t, x, 0), s, d)
      /\ Link(fs, x, y) = FS(At(t, y, t[x]), s, d)
      /\ Rename(fs, x, y) = FS(At(At(t, y, t[x]), x, 0), s, d)
  BY <1>1, PutFields
<1> QED
  BY <1>1, <1>2, FieldsOf

LEMMA FileSystemGrows ==
  ASSUME NEW n \in Nat, NEW fs, FileSystem(fs, n)
  PROVE  FileSystem(fs, n + 1)
BY DEF FileSystem

LEMMA FileSystemType ==
  ASSUME NEW n \in Nat, n <= MaxOps, MaxOps \in Nat, NEW fs, FileSystem(fs, n)
  PROVE  fs \in FileSystems
<1>1. PICK t, s, d : t = fs.tree /\ s = fs.size /\ d = fs.dirs
  OBVIOUS
<1>2. /\ fs = [tree |-> t, size |-> s, dirs |-> d] /\ s \in Seq(Nat) /\ Len(s) <= n
      /\ t \in [Names -> 0 .. Len(s)] /\ d \subseteq 1 .. Len(s)
  BY <1>1 DEF FileSystem
<1>3. PICK m \in Nat : m = Len(s) /\ m <= MaxOps
  BY <1>2
<1>4. ASSUME NEW z \in Names PROVE t[z] \in 0 .. MaxOps
  <2>1. t[z] \in 0 .. m
    BY <1>2, <1>3
  <2> QED
    BY <1>3, <2>1
<1>5. t \in [Names -> 0 .. MaxOps]
  BY <1>2, <1>4
<1>6. d \in SUBSET (1 .. MaxOps)
  BY <1>2, <1>3
<1> QED
  BY <1>2, <1>5, <1>6 DEF FileSystems

(* Alike file systems remain so, whatever is done to names in both.        *)
LEMMA AlikePossible ==
  ASSUME NEW fs, NEW tg, Alike(fs, tg), NEW x, NEW y
  PROVE  /\ Free(tg, x) <=> Free(fs, x)
         /\ IsFile(tg, x) <=> IsFile(fs, x)
         /\ IsDir(tg, x) <=> IsDir(fs, x)
         /\ CanRename(tg, x, y) <=> CanRename(fs, x, y)
BY DEF Alike, Free, IsFile, IsDir, CanRename

LEMMA AlikeFields ==
  ASSUME NEW n \in Nat, NEW fs, NEW tg, FileSystem(fs, n), FileSystem(tg, n), Alike(fs, tg)
  PROVE  \E t, s, z, d : /\ fs = FS(t, s, d) /\ Fields(t, s, d, n)
                         /\ tg = FS(t, z, d) /\ Fields(t, z, d, n)
                         /\ Len(z) = Len(s)
<1>1. PICK t, s, d : fs = FS(t, s, d) /\ Fields(t, s, d, n)
  BY FileSystemFields, Zenon
<1>2. PICK u, z, e : tg = FS(u, z, e) /\ Fields(u, z, e, n)
  BY FileSystemFields, Zenon
<1>3. /\ fs.tree = t /\ fs.size = s /\ fs.dirs = d
      /\ tg.tree = u /\ tg.size = z /\ tg.dirs = e
  BY <1>1, <1>2, FieldsOf
<1>4. u = t /\ e = d /\ Len(z) = Len(s)
  BY <1>3 DEF Alike
<1> QED
  BY <1>1, <1>2, <1>4, Zenon

LEMMA AlikeSame ==
  ASSUME NEW n \in Nat, NEW fs, NEW tg, FileSystem(fs, n), FileSystem(tg, n),
         Alike(fs, tg), tg.size = fs.size
  PROVE  tg = fs
<1>1. PICK t, s, z, d : fs = FS(t, s, d) /\ tg = FS(t, z, d)
  BY AlikeFields
<1>2. fs.size = s /\ tg.size = z
  BY <1>1, FieldsOf
<1> QED
  BY <1>1, <1>2

LEMMA AlikeAfter ==
  ASSUME NEW n \in Nat, NEW fs, NEW tg, FileSystem(fs, n), FileSystem(tg, n),
         Alike(fs, tg), NEW x \in Names, NEW y \in Names
  PROVE  /\ Alike(Create(fs, x), Create(tg, x)) /\ Alike(Mkdir(fs, x), Mkdir(tg, x))
         /\ Alike(Remove(fs, x), Remove(tg, x)) /\ Alike(Link(fs, x, y), Link(tg, x, y))
         /\ Alike(Rename(fs, x, y), Rename(tg, x, y))
<1>1. PICK t, s, z, d : /\ fs = FS(t, s, d) /\ Fields(t, s, d, n)
                        /\ tg = FS(t, z, d) /\ Fields(t, z, d, n)
                        /\ Len(z) = Len(s)
  BY AlikeFields
<1>2. s \in Seq(Nat) /\ z \in Seq(Nat)
  BY <1>1 DEF Fields
<1>3. Len(Longer(z)) = Len(Longer(s))
  BY <1>1, <1>2 DEF Longer
<1>4. \A p, q, e : Len(p) = Len(q) => \A o : Alike(FS(o, p, e), FS(o, q, e))
  BY FieldsOf DEF Alike
<1>5. With(d, z) = With(d, s)
  BY <1>1, Zenon DEF With
<1>6. /\ Create(fs, x) = FS(At(t, x, Len(s) + 1), Longer(s), d)
      /\ Create(tg, x) = FS(At(t, x, Len(s) + 1), Longer(z), d)
  BY <1>1, CreateFields
<1>7. /\ Mkdir(fs, x) = FS(At(t, x, Len(s) + 1), Longer(s), With(d, s))
      /\ Mkdir(tg, x) = FS(At(t, x, Len(s) + 1), Longer(z), With(d, s))
  <2>1. Mkdir(fs, x) = FS(At(t, x, Len(s) + 1), Longer(s), With(d, s))
    BY <1>1, CreateFields
  <2>2. Mkdir(tg, x) = FS(At(t, x, Len(z) + 1), Longer(z), With(d, z))
    BY <1>1, CreateFields
  <2>3. Len(z) = Len(s)
    BY <1>1
  <2>4. At(t, x, Len(z) + 1) = At(t, x, Len(s) + 1)
    BY <2>3
  <2>5. Mkdir(tg, x) = FS(At(t, x, Len(s) + 1), Longer(z), With(d, s))
    BY <1>5, <2>2, <2>4, Zenon
  <2> QED
    BY <2>1, <2>5
<1>8. Alike(Create(fs, x), Create(tg, x)) /\ Alike(Mkdir(fs, x), Mkdir(tg, x))
  BY <1>3, <1>4, <1>6, <1>7
<1>9. /\ Remove(fs, x) = FS(At(t, x, 0), s, d)
      /\ Link(fs, x, y) = FS(At(t, y, t[x]), s, d)
      /\ Rename(fs, x, y) = FS(At(At(t, y, t[x]), x, 0), s, d)
  BY <1>1, PutFields
<1>10. /\ Remove(tg, x) = FS(At(t, x, 0), z, d)
       /\ Link(tg, x, y) = FS(At(t, y, t[x]), z, d)
       /\ Rename(tg, x, y) = FS(At(At(t, y, t[x]), x, 0), z, d)
  BY <1>1, PutFields
<1> QED
  BY <1>1, <1>4, <1>8, <1>9, <1>10

-----------------------------------------------------------------------------
(* The trace: one record more.                                             *)
Traces == Seq([rec : Records, fs : FileSystems])

(* The files open after a record are those open before it, or the one that *)
(* the record opens.                                                       *)
OpensOnly(s, j, r, fs1, s1) ==
  \A a \in Addrs : s1[a].by # 0 =>
    /\ s1[a].obj \in 1 .. Len(fs1.size)
    /\ s1[a].by = s[a].by \/ (s1[a].by = j /\ r.type = "open" /\ r.addr = a /\ ~r.fails)

LEMMA ExecutionAppend ==
  ASSUME NEW tr \in Traces, NEW st, Execution(tr, st), NEW r, NEW fs1, NEW s1 \in Views,
         FileSystem(fs1, Len(tr) + 1),
         OpensOnly(st[Len(tr)], Len(tr) + 1, r, fs1, s1),
         Executes(FsAt(tr, Len(tr)), st[Len(tr)], Len(tr) + 1, r, fs1, s1)
  PROVE  \E st1 : /\ Execution(Append(tr, [rec |-> r, fs |-> fs1]), st1)
                  /\ st1[Len(tr) + 1] = s1
<1>1. PICK n \in Nat : n = Len(tr)
  BY DEF Traces
<1>2. PICK e : e = [rec |-> r, fs |-> fs1] /\ e.rec = r /\ e.fs = fs1
  <2>1. [rec |-> r, fs |-> fs1].rec = r /\ [rec |-> r, fs |-> fs1].fs = fs1
    OBVIOUS
  <2> QED
    BY <2>1, Zenon
<1>3. PICK tr1 : /\ tr1 = Append(tr, e) /\ Len(tr1) = n + 1
                 /\ tr1[n + 1] = e /\ \A j \in 1 .. n : tr1[j] = tr[j]
  <2>1. PICK S : tr \in Seq(S) /\ S = [rec : Records, fs : FileSystems]
    BY DEF Traces
  <2>2. /\ Len(Append(tr, e)) = n + 1 /\ Append(tr, e)[n + 1] = e
        /\ \A j \in 1 .. n : Append(tr, e)[j] = tr[j]
    BY <1>1, <2>1
  <2> QED
    BY <2>2
<1>4. PICK st1 : st1 = [j \in 0 .. n + 1 |-> IF j = n + 1 THEN s1 ELSE st[j]]
  OBVIOUS
<1>5. st \in [0 .. n -> Views]
  BY <1>1 DEF Execution
<1>6. st1[n + 1] = s1 /\ \A j \in 0 .. n : st1[j] = st[j]
  BY <1>1, <1>4
<1>7. st1 \in [0 .. n + 1 -> Views]
  BY <1>1, <1>4, <1>5
<1>8. FsAt(tr1, n + 1) = fs1 /\ \A j \in 0 .. n : FsAt(tr1, j) = FsAt(tr, j)
  BY <1>1, <1>2, <1>3 DEF FsAt
<1>9. \A a, k : OpenBy(tr, k, a) => OpenBy(tr1, k, a)
  BY <1>1, <1>3 DEF OpenBy
<1>10. ASSUME NEW j \in 0 .. n + 1
       PROVE  /\ FileSystem(FsAt(tr1, j), j)
              /\ \A a \in Addrs : st1[j][a].by # 0 =>
                   /\ st1[j][a].obj \in 1 .. Len(FsAt(tr1, j).size)
                   /\ st1[j][a].by <= j /\ OpenBy(tr1, st1[j][a].by, a)
  <2>1. CASE j \in 0 .. n
    BY <1>1, <1>6, <1>8, <1>9, <2>1 DEF Execution
  <2>2. CASE j = n + 1
    <3>1. FileSystem(FsAt(tr1, j), j) /\ FsAt(tr1, j) = fs1 /\ st1[j] = s1
      BY <1>1, <1>6, <1>8, <2>2
    <3>2. ASSUME NEW a \in Addrs, s1[a].by # 0
          PROVE  /\ s1[a].obj \in 1 .. Len(fs1.size)
                 /\ s1[a].by <= j /\ OpenBy(tr1, s1[a].by, a)
      <4>1. CASE s1[a].by = st[n][a].by
        <5>1. st[n][a].by <= n /\ OpenBy(tr, st[n][a].by, a) /\ st[n][a].by \in Nat
          BY <1>1, <3>2, <4>1 DEF Execution, OpenBy
        <5> QED
          BY <1>1, <1>9, <2>2, <3>2, <4>1, <5>1 DEF OpensOnly
      <4>2. CASE s1[a].by = n + 1 /\ r.type = "open" /\ r.addr = a /\ ~r.fails
        BY <1>1, <1>2, <1>3, <2>2, <3>2, <4>2 DEF OpensOnly, OpenBy
      <4> QED
        BY <1>1, <3>2, <4>1, <4>2 DEF OpensOnly
    <3> QED
      BY <3>1, <3>2
  <2> QED
    BY <1>1, <2>1, <2>2
<1>11. ASSUME NEW j \in 1 .. n + 1
       PROVE  Executes(FsAt(tr1, j - 1), st1[j - 1], j, tr1[j].rec, FsAt(tr1, j), st1[j])
  <2>1. CASE j \in 1 .. n
    <3>1. /\ FsAt(tr1, j - 1) = FsAt(tr, j - 1) /\ FsAt(tr1, j) = FsAt(tr, j)
          /\ st1[j - 1] = st[j - 1] /\ st1[j] = st[j] /\ tr1[j] = tr[j]
      BY <1>1, <1>3, <1>6, <1>8, <2>1
    <3>2. Executes(FsAt(tr, j - 1), st[j - 1], j, tr[j].rec, FsAt(tr, j), st[j])
      BY <1>1, <2>1 DEF Execution
    <3> QED
      BY <3>1, <3>2
  <2>2. CASE j = n + 1
    <3>1. j - 1 = n
      BY <1>1, <2>2
    <3>2. /\ FsAt(tr1, j - 1) = FsAt(tr, n) /\ FsAt(tr1, j) = fs1
          /\ st1[j - 1] = st[n] /\ st1[j] = s1 /\ tr1[j].rec = r
      BY <1>1, <1>2, <1>3, <1>6, <1>8, <2>2, <3>1
    <3> QED
      BY <1>1, <2>2, <3>2
  <2> QED
    BY <1>1, <2>1, <2>2
<1>12. Execution(tr1, st1)
  BY <1>3, <1>7, <1>10, <1>11 DEF Execution
<1> QED
  BY <1>1, <1>2, <1>3, <1>6, <1>12

(* What is known of the lower file system and of an open file.             *)
LEMMA Now ==
  ASSUME NEW st, TypeOK, TraceInv(st)
  PROVE  /\ Len(trace) \in Nat /\ Here = Len(trace) + 1
         /\ FileSystem(lower, Len(trace)) /\ st[Len(trace)] \in Views
         /\ \A a \in Addrs : st[Len(trace)][a].by # 0 =>
              st[Len(trace)][a].obj \in 1 .. Len(lower.size)
         /\ \A a \in Addrs : IsOpen(files[a]) =>
              /\ files[a].obj = st[Len(trace)][a].obj
              /\ files[a].told = st[Len(trace)][a].pos
              /\ files[a].by = st[Len(trace)][a].by
              /\ files[a].by # 0 /\ files[a].by \in 1 .. Len(trace)
              /\ files[a].obj \in 1 .. Len(lower.size) /\ files[a].pos \in Nat
<1>1. PICK n \in Nat : n = Len(trace)
  BY DEF TypeOK
<1>2. n \in 0 .. n /\ st[n] \in Views /\ lower = FsAt(trace, n) /\ FileSystem(lower, n)
  BY <1>1 DEF TraceInv, Execution
<1>3. \A a \in Addrs : st[n][a].by # 0 =>
        st[n][a].obj \in 1 .. Len(lower.size) /\ OpenBy(trace, st[n][a].by, a)
  BY <1>1, <1>2 DEF TraceInv, Execution
<1>4. ASSUME NEW a \in Addrs, IsOpen(files[a])
      PROVE  /\ files[a].obj = st[n][a].obj /\ files[a].told = st[n][a].pos
             /\ files[a].by = st[n][a].by /\ files[a].by # 0
             /\ files[a].obj \in 1 .. Len(lower.size) /\ files[a].pos \in Nat
             /\ files[a].by \in 1 .. n
  <2>1. Opened(files[a]) = st[n][a] /\ files[a].by # 0
    BY <1>1, <1>4 DEF TraceInv
  <2>2. /\ files[a].obj = st[n][a].obj /\ files[a].told = st[n][a].pos
        /\ files[a].by = st[n][a].by
    BY <2>1 DEF Opened
  <2>3. files[a].pos \in Nat
    BY DEF TypeOK, OpenFiles
  <2> QED
    BY <1>1, <1>3, <2>1, <2>2, <2>3 DEF OpenBy
<1> QED
  BY <1>1, <1>2, <1>3, <1>4 DEF Here

(* A traced operation appends a record that agrees with what it does.      *)
LEMMA RecordStep ==
  ASSUME NEW st, TypeOK, TraceInv(st), NEW r \in Records, NEW fs, NEW s1 \in Views,
         Record(r, fs), FileSystem(fs, Here),
         OpensOnly(st[Len(trace)], Here, r, fs, s1),
         Executes(lower, st[Len(trace)], Here, r, fs, s1),
         files' \in [Addrs -> OpenFiles],
         \A a \in Addrs : IsOpen(files'[a]) => Opened(files'[a]) = s1[a] /\ files'[a].by # 0
  PROVE  TypeOK' /\ \E st1 : TraceInv(st1)'
<1>1. PICK n \in Nat : n = Len(trace) /\ Here = n + 1 /\ n < MaxOps
  BY Now, BoundsAssumption DEF Record
<1>2. fs \in FileSystems
  <2>1. n + 1 \in Nat /\ n + 1 <= MaxOps /\ MaxOps \in Nat /\ FileSystem(fs, n + 1)
    BY <1>1, BoundsAssumption
  <2> QED
    BY <2>1, FileSystemType
<1>3. PICK e \in [rec : Records, fs : FileSystems] :
        e = [rec |-> r, fs |-> fs] /\ e.fs = fs
  <2>1. /\ [rec |-> r, fs |-> fs] \in [rec : Records, fs : FileSystems]
        /\ [rec |-> r, fs |-> fs].fs = fs
    BY <1>2
  <2> QED
    BY <2>1, Zenon
<1>4. /\ trace' = Append(trace, e) /\ lower' = fs
      /\ mode' = mode /\ offset' = offset /\ map' = map /\ fds' = fds
      /\ target' = target /\ deviated' = deviated
  BY <1>3 DEF Record, replayed
<1>5. /\ trace' \in Traces /\ Len(trace') = n + 1 /\ trace'[n + 1] = e
  BY <1>1, <1>3, <1>4 DEF TypeOK, Traces
<1>6. TypeOK'
  <2>1. offset' \in 1 .. Len(trace') + 1
    BY <1>1, <1>4, <1>5 DEF TypeOK
  <2> QED
    BY <1>2, <1>4, <1>5, <2>1 DEF TypeOK, Traces
<1>7. lower = FsAt(trace, n) /\ Execution(trace, st) /\ trace \in Traces
  BY <1>1 DEF TraceInv, TypeOK, Traces
<1>8. PICK st1 : Execution(trace', st1) /\ st1[n + 1] = s1
  BY <1>1, <1>3, <1>4, <1>7, ExecutionAppend
<1>9. FsAt(trace', n + 1) = fs
  BY <1>1, <1>3, <1>5 DEF FsAt
<1>10. TraceInv(st1)'
  BY <1>1, <1>4, <1>5, <1>8, <1>9, BoundsAssumption DEF TraceInv, IsOpen, Opened, Execution, FsAt
<1> QED
  BY <1>6, <1>10

(* A record that opens no file.                                            *)
LEMMA NothingOpened ==
  ASSUME NEW st, TypeOK, TraceInv(st), NEW r \in Records, NEW fs,
         Record(r, fs), FileSystem(fs, Here), Len(lower.size) <= Len(fs.size),
         Executes(lower, st[Len(trace)], Here, r, fs, st[Len(trace)]),
         files' \in [Addrs -> OpenFiles],
         \A a \in Addrs : IsOpen(files'[a]) =>
           IsOpen(files[a]) /\ Opened(files'[a]) = Opened(files[a])
  PROVE  TypeOK' /\ \E st1 : TraceInv(st1)'
<1>1. PICK n \in Nat, s \in Views : n = Len(trace) /\ s = st[n] /\ Here = n + 1
  BY Now
<1>2. \A a \in Addrs : s[a].by # 0 => s[a].obj \in 1 .. Len(lower.size)
  BY <1>1, Now
<1>3. Len(lower.size) \in Nat /\ Len(fs.size) \in Nat
  BY <1>1, Now DEF FileSystem
<1>4. OpensOnly(s, Here, r, fs, s)
  BY <1>2, <1>3 DEF OpensOnly
<1>5. \A a \in Addrs : IsOpen(files'[a]) => Opened(files'[a]) = s[a] /\ files'[a].by # 0
  BY <1>1 DEF TraceInv, Opened
<1> QED
  BY <1>1, <1>4, <1>5, RecordStep

(* The records of the operations on names and on open files.               *)
LEMMA BlankRecord ==
  /\ Blank \in Records
  /\ Blank.ret = 0 /\ ~Blank.fails /\ Blank.addr = NoAddr /\ ~Blank.creat
<1>1. 0 \in 0 .. MaxOps
  BY BoundsAssumption
<1>2. Blank \in Records
  <2>1. /\ NoAddr \in Addrs \cup {NoAddr} /\ NoName \in Names \cup {NoName}
        /\ "readdir" \in OnFiles \cup OnNames \cup {"open"} /\ 0 \in Nat /\ 0 \in Int
    BY DEF OnFiles
  <2> QED
    BY <1>1, <2>1 DEF Blank, Records
<1>3. Blank.ret = 0 /\ Blank.addr = NoAddr /\ Blank.fails = FALSE /\ Blank.creat = FALSE
  BY DEF Blank
<1> QED
  BY <1>2, <1>3

LEMMA FailedRecord ==
  ASSUME NEW r \in Records, NEW e \in Errors
  PROVE  LET f == [r EXCEPT !.ret = -e, !.fails = TRUE] IN
         /\ f \in Records /\ f.ret < 0 /\ f.fails
         /\ f.type = r.type /\ f.addr = r.addr /\ f.name = r.name /\ f.new = r.new
         /\ f.creat = r.creat /\ f.by = r.by /\ f.strays = r.strays
<1>1. e \in Nat \ {0} /\ -e \in Int /\ -e < 0
  BY BoundsAssumption
<1> QED
  BY <1>1 DEF Records

(* What is reported of an operation that is done.                          *)
LEMMA ReportedRecord ==
  ASSUME NEW r \in Records, r.ret = 0, NEW fs, Reported(r, fs)
  PROVE  \E f \in Records :
           /\ Record(f, fs) /\ f.ret <= 0 /\ f.fails = r.fails
           /\ f.type = r.type /\ f.addr = r.addr /\ f.name = r.name /\ f.new = r.new
           /\ f.creat = r.creat /\ f.by = r.by
<1>1. CASE Record(r, fs)
  BY <1>1
<1>2. ASSUME NEW e \in Errors, Record([r EXCEPT !.ret = -e], fs)
      PROVE  \E f \in Records :
               /\ Record(f, fs) /\ f.ret <= 0 /\ f.fails = r.fails
               /\ f.type = r.type /\ f.addr = r.addr /\ f.name = r.name /\ f.new = r.new
               /\ f.creat = r.creat /\ f.by = r.by
  <2>1. -e \in Int /\ -e <= 0
    BY BoundsAssumption
  <2>2. PICK f : f = [r EXCEPT !.ret = -e]
    OBVIOUS
  <2>3. /\ f \in Records /\ f.ret <= 0 /\ f.fails = r.fails
        /\ f.type = r.type /\ f.addr = r.addr /\ f.name = r.name /\ f.new = r.new
        /\ f.creat = r.creat /\ f.by = r.by
    BY <2>1, <2>2 DEF Records
  <2> QED
    BY <1>2, <2>2, <2>3
<1> QED
  BY <1>1, <1>2 DEF Reported

LEMMA NamedRecord ==
  ASSUME NEW type \in OnNames, NEW n \in Names
  PROVE  /\ Named(type, n) \in Records
         /\ Named(type, n).type = type /\ Named(type, n).name = n
         /\ Named(type, n).ret = 0 /\ ~Named(type, n).fails
BY BlankRecord DEF Named, Blank, Records, OnNames

LEMMA RenamedRecord ==
  ASSUME NEW r \in Records, NEW m \in Names,
         NEW q, q = [r EXCEPT !.new = m]
  PROVE  /\ q \in Records /\ q.new = m
         /\ q.type = r.type /\ q.name = r.name /\ q.ret = r.ret /\ q.fails = r.fails
BY DEF Records

LEMMA PutStays ==
  ASSUME NEW st, TypeOK, TraceInv(st), NEW x \in Names, NEW y \in Names
  PROVE  /\ FileSystem(Remove(lower, x), Here) /\ FileSystem(Link(lower, x, y), Here)
         /\ FileSystem(Rename(lower, x, y), Here)
         /\ Len(lower.size) <= Len(Remove(lower, x).size)
         /\ Len(lower.size) <= Len(Link(lower, x, y).size)
         /\ Len(lower.size) <= Len(Rename(lower, x, y).size)
<1>1. PICK n \in Nat : n = Len(trace) /\ Here = n + 1 /\ FileSystem(lower, n)
  BY Now
<1>2. /\ FileSystem(Remove(lower, x), n) /\ FileSystem(Link(lower, x, y), n)
      /\ FileSystem(Rename(lower, x, y), n)
  BY <1>1, PutKeeps
<1>3. /\ Remove(lower, x).size = lower.size /\ Link(lower, x, y).size = lower.size
      /\ Rename(lower, x, y).size = lower.size
  BY <1>1, PutKeepsSizes
<1>4. Len(lower.size) <= Len(lower.size)
  BY <1>1 DEF FileSystem
<1> QED
  BY <1>1, <1>2, <1>3, <1>4, FileSystemGrows

LEMMA OnFileRecord ==
  ASSUME TypeOK, NEW type \in OnFiles, NEW a \in Addrs
  PROVE  /\ OnFile(type, a) \in Records
         /\ OnFile(type, a).type = type /\ OnFile(type, a).addr = a
         /\ OnFile(type, a).by = files[a].by
         /\ OnFile(type, a).ret = 0 /\ ~OnFile(type, a).fails
<1>1. files[a].by \in 0 .. MaxOps
  BY DEF TypeOK, OpenFiles
<1> QED
  BY <1>1, BlankRecord DEF OnFile, Blank, Records

-----------------------------------------------------------------------------
(* The operations on names.                                                *)
LEMMA NameStep ==
  ASSUME NEW st, TypeOK, TraceInv(st), NEW r \in Records, NEW fs,
         r.type \in OnNames, ExecutesName(lower, r, fs), r.fails => r.ret < 0,
         FileSystem(fs, Here), Len(lower.size) <= Len(fs.size),
         Record(r, fs), files' = files
  PROVE  TypeOK' /\ \E st1 : TraceInv(st1)'
<1>1. Executes(lower, st[Len(trace)], Here, r, fs, st[Len(trace)])
  BY DEF Executes, OnNames
<1>2. files' \in [Addrs -> OpenFiles]
  BY DEF TypeOK
<1> QED
  BY <1>1, <1>2, NothingOpened

LEMMA NameRefused ==
  ASSUME NEW st, TypeOK, TraceInv(st), NEW r \in Records,
         r.type \in {"mkdir", "unlink", "rename"}, r.name \in Names,
         r.type = "rename" => r.new \in Names, Refused(r)
  PROVE  TypeOK' /\ \E st1 : TraceInv(st1)'
<1>1. PICK e \in Errors : Record([r EXCEPT !.ret = -e, !.fails = TRUE], lower)
  BY DEF Refused, RefusedOn
<1>2. PICK f \in Records : /\ Record(f, lower) /\ f.ret < 0 /\ f.fails
                           /\ f.type = r.type /\ f.name = r.name /\ f.new = r.new
  BY <1>1, FailedRecord
<1>3. ExecutesName(lower, f, lower) /\ f.type \in OnNames
  BY <1>2 DEF ExecutesName, OnNames
<1>4. FileSystem(lower, Here) /\ Len(lower.size) <= Len(lower.size)
  BY Now, FileSystemGrows DEF FileSystem
<1>5. files' = files
  BY DEF Refused, RefusedOn
<1> QED
  BY <1>2, <1>3, <1>4, <1>5, NameStep

LEMMA MkdirStep ==
  ASSUME NEW st, TypeOK, TraceInv(st), NEW n \in Names, trfs_mkdir(n)
  PROVE  TypeOK' /\ \E st1 : TraceInv(st1)'
<1>1. PICK r \in Records : /\ r = Named("mkdir", n) /\ r.type = "mkdir" /\ r.name = n
                           /\ r.ret = 0 /\ ~r.fails
  <2>1. "mkdir" \in OnNames
    BY DEF OnNames
  <2> QED
    BY <2>1, NamedRecord
<1>2. CASE Record(r, Mkdir(lower, n)) /\ files' = files
  <2>1. FileSystem(Mkdir(lower, n), Here) /\ Len(lower.size) <= Len(Mkdir(lower, n).size)
    BY Now, CreateKeeps
  <2>2. ExecutesName(lower, r, Mkdir(lower, n)) /\ r.type \in OnNames
    BY <1>1 DEF trfs_mkdir, ExecutesName, OnNames
  <2> QED
    BY <1>1, <1>2, <2>1, <2>2, NameStep
<1>3. CASE Refused(r)
  BY <1>1, <1>3, NameRefused
<1> QED
  BY <1>1, <1>2, <1>3 DEF trfs_mkdir

LEMMA UnlinkStep ==
  ASSUME NEW st, TypeOK, TraceInv(st), NEW n \in Names, trfs_unlink(n)
  PROVE  TypeOK' /\ \E st1 : TraceInv(st1)'
<1>1. PICK r \in Records : /\ r = Named("unlink", n) /\ r.type = "unlink" /\ r.name = n
                           /\ r.ret = 0 /\ ~r.fails
  <2>1. "unlink" \in OnNames
    BY DEF OnNames
  <2> QED
    BY <2>1, NamedRecord
<1>2. CASE Record(r, Remove(lower, n)) /\ files' = files
  <2>1. FileSystem(Remove(lower, n), Here) /\ Len(lower.size) <= Len(Remove(lower, n).size)
    BY PutStays
  <2>2. ExecutesName(lower, r, Remove(lower, n)) /\ r.type \in OnNames
    BY <1>1 DEF trfs_unlink, ExecutesName, OnNames
  <2> QED
    BY <1>1, <1>2, <2>1, <2>2, NameStep
<1>3. CASE Refused(r)
  BY <1>1, <1>3, NameRefused
<1> QED
  BY <1>1, <1>2, <1>3 DEF trfs_unlink

LEMMA RmdirStep ==
  ASSUME NEW st, TypeOK, TraceInv(st), NEW n \in Names, trfs_rmdir(n)
  PROVE  TypeOK' /\ \E st1 : TraceInv(st1)'
<1>1. PICK r \in Records : /\ r = Named("rmdir", n) /\ r.type = "rmdir" /\ r.name = n
                           /\ r.ret = 0 /\ ~r.fails
  <2>1. "rmdir" \in OnNames
    BY DEF OnNames
  <2> QED
    BY <2>1, NamedRecord
<1>2. FileSystem(Remove(lower, n), Here) /\ Len(lower.size) <= Len(Remove(lower, n).size)
  BY PutStays
<1>3. ExecutesName(lower, r, Remove(lower, n)) /\ r.type \in OnNames
  BY <1>1 DEF trfs_rmdir, ExecutesName, OnNames
<1> QED
  BY <1>1, <1>2, <1>3, NameStep DEF trfs_rmdir

LEMMA LinkStep ==
  ASSUME NEW st, TypeOK, TraceInv(st), NEW old \in Names, NEW new \in Names,
         trfs_link(old, new)
  PROVE  TypeOK' /\ \E st1 : TraceInv(st1)'
<1>1. PICK r \in Records : /\ r = [Named("link", old) EXCEPT !.new = new]
                           /\ r.type = "link" /\ r.name = old /\ r.new = new
                           /\ r.ret = 0 /\ ~r.fails
  <2>1. "link" \in OnNames
    BY DEF OnNames
  <2>2. PICK q \in Records : /\ q = Named("link", old) /\ q.type = "link" /\ q.name = old
                             /\ q.ret = 0 /\ ~q.fails
    BY <2>1, NamedRecord
  <2>3. PICK z : z = [q EXCEPT !.new = new]
    OBVIOUS
  <2>4. /\ z \in Records /\ z.new = new
        /\ z.type = q.type /\ z.name = q.name /\ z.ret = q.ret /\ z.fails = q.fails
    BY <2>3, RenamedRecord
  <2> QED
    BY <2>2, <2>3, <2>4
<1>2. /\ FileSystem(Link(lower, old, new), Here)
      /\ Len(lower.size) <= Len(Link(lower, old, new).size)
  BY PutStays
<1>3. PICK f \in Records :
        /\ Record(f, Link(lower, old, new)) /\ f.ret <= 0 /\ ~f.fails
        /\ f.type = "link" /\ f.name = old /\ f.new = new
  <2>1. PICK fs : fs = Link(lower, old, new)
    OBVIOUS
  <2>2. Reported(r, fs)
    BY <1>1, <2>1 DEF trfs_link
  <2>3. PICK f \in Records :
          /\ Record(f, fs) /\ f.ret <= 0 /\ f.fails = r.fails
          /\ f.type = r.type /\ f.name = r.name /\ f.new = r.new
    BY <1>1, <2>2, ReportedRecord
  <2> QED
    BY <1>1, <2>1, <2>3
<1>4. f.ret = 0 \/ f.ret < 0
  BY <1>3 DEF Records
<1>5. ExecutesName(lower, f, Link(lower, old, new)) /\ f.type \in OnNames
  BY <1>3, <1>4 DEF trfs_link, ExecutesName, OnNames
<1>6. files' = files
  BY DEF trfs_link
<1> QED
  BY <1>2, <1>3, <1>5, <1>6, NameStep

LEMMA RenameStep ==
  ASSUME NEW st, TypeOK, TraceInv(st), NEW old \in Names, NEW new \in Names,
         trfs_rename(old, new)
  PROVE  TypeOK' /\ \E st1 : TraceInv(st1)'
<1>1. PICK r \in Records : /\ r = [Named("rename", old) EXCEPT !.new = new]
                           /\ r.type = "rename" /\ r.name = old /\ r.new = new
                           /\ r.ret = 0 /\ ~r.fails
  <2>1. "rename" \in OnNames
    BY DEF OnNames
  <2>2. PICK q \in Records : /\ q = Named("rename", old) /\ q.type = "rename" /\ q.name = old
                             /\ q.ret = 0 /\ ~q.fails
    BY <2>1, NamedRecord
  <2>3. PICK z : z = [q EXCEPT !.new = new]
    OBVIOUS
  <2>4. /\ z \in Records /\ z.new = new
        /\ z.type = q.type /\ z.name = q.name /\ z.ret = q.ret /\ z.fails = q.fails
    BY <2>3, RenamedRecord
  <2> QED
    BY <2>2, <2>3, <2>4
<1>2. CASE Record(r, Rename(lower, old, new)) /\ files' = files
  <2>1. /\ FileSystem(Rename(lower, old, new), Here)
        /\ Len(lower.size) <= Len(Rename(lower, old, new).size)
    BY PutStays
  <2>2. ExecutesName(lower, r, Rename(lower, old, new)) /\ r.type \in OnNames
    BY <1>1 DEF trfs_rename, ExecutesName, OnNames
  <2> QED
    BY <1>1, <1>2, <2>1, <2>2, NameStep
<1>3. CASE Refused(r)
  BY <1>1, <1>3, NameRefused
<1> QED
  BY <1>1, <1>2, <1>3 DEF trfs_rename

-----------------------------------------------------------------------------
(* The operations on open files.                                           *)
LEMMA OpenStep ==
  ASSUME NEW st, TypeOK, TraceInv(st), NEW a \in Addrs, NEW n \in Names, trfs_open(a, n)
  PROVE  TypeOK' /\ \E st1 : TraceInv(st1)'
<1>1. PICK k \in Nat, s \in Views : k = Len(trace) /\ s = st[k] /\ Here = k + 1
  BY Now
<1>2. PICK creat : creat = Free(lower, n)
  OBVIOUS
<1>3. PICK r : r = [Blank EXCEPT !.type = "open", !.addr = a, !.name = n,
                                 !.creat = creat, !.by = Here]
  OBVIOUS
<1>4. PICK fs : fs = IF creat THEN Create(lower, n) ELSE lower
  OBVIOUS
<1>5. Here \in 1 .. MaxOps
  <2>1. Len(trace) < MaxOps
    BY Zenon DEF trfs_open, Record, RefusedOn
  <2> QED
    BY <1>1, <2>1, BoundsAssumption
<1>6. /\ r \in Records /\ r.type = "open" /\ r.addr = a /\ r.name = n
      /\ r.creat = creat /\ r.by = Here /\ r.ret = 0 /\ ~r.fails
  <2>1. creat \in BOOLEAN
    BY <1>2 DEF Free
  <2>2. PICK h \in 0 .. MaxOps : h = Here
    BY <1>5, BoundsAssumption
  <2>3. r = [Blank EXCEPT !.type = "open", !.addr = a, !.name = n, !.creat = creat, !.by = h]
    BY <1>3, <2>2
  <2> QED
    BY <2>1, <2>2, <2>3, BlankRecord DEF Blank, Records
<1>7. /\ FileSystem(fs, Here) /\ fs.tree[n] \in 1 .. Len(fs.size)
      /\ Len(lower.size) <= Len(fs.size)
  <2>1. CASE creat
    <3>1. FileSystem(lower, k)
      BY <1>1, Now
    <3>2. /\ FileSystem(Create(lower, n), k + 1) /\ Len(lower.size) \in Nat
          /\ Len(Create(lower, n).size) = Len(lower.size) + 1
          /\ Create(lower, n).tree[n] = Len(lower.size) + 1
      BY <3>1, CreateKeeps
    <3>3. fs = Create(lower, n)
      BY <1>4, <2>1
    <3> QED
      BY <1>1, <3>2, <3>3
  <2>2. CASE ~creat
    <3>1. FileSystem(lower, Here) /\ FileSystem(lower, k)
      BY <1>1, Now, FileSystemGrows
    <3>2. lower.tree[n] \in 0 .. Len(lower.size) /\ Len(lower.size) \in Nat
      BY <3>1 DEF FileSystem
    <3>3. lower.tree[n] # 0
      BY <1>2, <2>2 DEF Free
    <3> QED
      BY <1>4, <2>2, <3>1, <3>2, <3>3
  <2> QED
    BY <2>1, <2>2
<1>8. CASE Record(r, fs) /\ files' = [files EXCEPT ![a] = NewFile(fs.tree[n], Here)]
  <2>1. PICK obj \in 0 .. MaxOps : obj = fs.tree[n] /\ obj \in 1 .. Len(fs.size)
    BY <1>5, <1>7, BoundsAssumption DEF FileSystem
  <2>2. PICK v \in [obj : 0 .. MaxOps, pos : Nat, by : 0 .. MaxOps] :
          v = [obj |-> obj, pos |-> 0, by |-> Here] /\ v.obj = obj /\ v.by = Here
    <3>1. PICK h \in 0 .. MaxOps : h = Here
      BY <1>5, BoundsAssumption
    <3>2. PICK v : v = [obj |-> obj, pos |-> 0, by |-> h]
      OBVIOUS
    <3>3. v \in [obj : 0 .. MaxOps, pos : Nat, by : 0 .. MaxOps] /\ v.obj = obj /\ v.by = h
      BY <3>2
    <3> QED
      BY <3>1, <3>2, <3>3
  <2>3. PICK s1 \in Views : s1 = [s EXCEPT ![a] = v]
    BY DEF Views
  <2>4. s1[a] = v /\ \A b \in Addrs : b # a => s1[b] = s[b]
    BY <2>3 DEF Views
  <2>5. OpensOnly(s, Here, r, fs, s1)
    <3>1. \A b \in Addrs : s[b].by # 0 => s[b].obj \in 1 .. Len(lower.size)
      BY <1>1, Now
    <3>2. Len(lower.size) \in Nat /\ Len(fs.size) \in Nat
      BY <1>1, <1>7, Now DEF FileSystem
    <3>3. ASSUME NEW b \in Addrs, b # a, s1[b].by # 0
          PROVE  s1[b].obj \in 1 .. Len(fs.size) /\ s1[b].by = s[b].by
      BY <1>7, <2>4, <3>1, <3>2, <3>3
    <3> QED
      BY <1>6, <2>1, <2>2, <2>4, <3>3 DEF OpensOnly
  <2>6. Executes(lower, s, Here, r, fs, s1)
    <3>1. s1 = [s EXCEPT ![r.addr] = [obj |-> fs.tree[r.name], pos |-> 0, by |-> Here]]
      BY <1>6, <2>1, <2>2, <2>3
    <3>2. ExecutesOpen(lower, s, Here, r, fs, s1)
      BY <1>2, <1>4, <1>6, <3>1 DEF ExecutesOpen
    <3> QED
      BY <1>6, <3>2 DEF Executes, OnNames
  <2>7. PICK f : f = NewFile(obj, Here)
    OBVIOUS
  <2>8. f \in OpenFiles /\ Opened(f) = v /\ f.by = Here /\ Here # 0
    <3>1. PICK h \in 0 .. MaxOps : h = Here /\ h # 0
      BY <1>5, BoundsAssumption
    <3>2. f = [obj |-> obj, pos |-> 0, told |-> 0, refs |-> 1, by |-> h]
      BY <2>7, <3>1 DEF NewFile
    <3>3. f \in OpenFiles /\ f.by = h
      BY <3>2 DEF OpenFiles
    <3>4. Opened(f) = [obj |-> obj, pos |-> 0, by |-> h]
      BY <3>2 DEF Opened
    <3> QED
      BY <2>2, <3>1, <3>3, <3>4
  <2>9. files' = [files EXCEPT ![a] = f]
    BY <1>8, <2>1, <2>7
  <2>10. files' \in [Addrs -> OpenFiles]
    BY <2>8, <2>9 DEF TypeOK
  <2>11. ASSUME NEW b \in Addrs, IsOpen(files'[b])
         PROVE  Opened(files'[b]) = s1[b] /\ files'[b].by # 0
    <3>1. CASE b = a
      BY <2>4, <2>8, <2>9, <3>1 DEF TypeOK
    <3>2. CASE b # a
      <4>1. files'[b] = files[b] /\ s1[b] = s[b]
        BY <2>4, <2>9, <3>2 DEF TypeOK
      <4> QED
        BY <1>1, <2>11, <4>1 DEF TraceInv
    <3> QED
      BY <3>1, <3>2
  <2> QED
    BY <1>1, <1>6, <1>7, <1>8, <2>5, <2>6, <2>10, <2>11, RecordStep
<1>9. CASE RefusedOn(fs, r)
  <2>1. PICK e \in Errors : Record([r EXCEPT !.ret = -e, !.fails = TRUE], fs)
    BY <1>9 DEF RefusedOn
  <2>2. PICK f \in Records :
          /\ Record(f, fs) /\ f.ret < 0 /\ f.fails /\ f.type = r.type
          /\ f.name = r.name /\ f.addr = r.addr /\ f.creat = r.creat /\ f.by = r.by
    BY <1>6, <2>1, FailedRecord
  <2>3. ExecutesOpen(lower, s, Here, f, fs, s)
    BY <1>2, <1>4, <1>6, <2>2 DEF ExecutesOpen
  <2>4. Executes(lower, s, Here, f, fs, s)
    BY <1>6, <2>2, <2>3 DEF Executes, OnNames
  <2>5. files' = files /\ files \in [Addrs -> OpenFiles]
    BY <1>9 DEF RefusedOn, TypeOK
  <2> QED
    BY <1>1, <1>7, <2>2, <2>4, <2>5, NothingOpened
<1> QED
  BY <1>2, <1>3, <1>4, <1>8, <1>9 DEF trfs_open

(* An access is at the offset of the file or at one that comes with it.    *)
LEMMA PposType ==
  ASSUME TypeOK, NEW a \in Addrs, NEW ppos \in Ppos(a)
  PROVE  ppos.at \in Nat /\ ppos.own \in BOOLEAN
<1>1. files[a].pos \in Nat
  BY DEF TypeOK, OpenFiles
<1> QED
  BY <1>1, BoundsAssumption DEF Ppos

LEMMA DataStep ==
  ASSUME NEW st, TypeOK, TraceInv(st), NEW a \in Addrs, NEW len \in Nat,
         NEW ppos, ppos \in Ppos(a), NEW type \in {"read", "write"}, NEW fs, NEW r,
         r = OnData(type, a, ppos, len),
         IsOpen(files[a]), files[a].obj \notin lower.dirs,
         Record(r, fs), Moved(a, ppos, len),
         FileSystem(fs, Here), Len(fs.size) = Len(lower.size),
         type = "read" =>
           len = ReadCount(lower, files[a].obj, ppos.at, len) /\ fs = lower,
         type = "write" => fs = Write(lower, files[a].obj, ppos.at, len)
  PROVE  TypeOK' /\ \E st1 : TraceInv(st1)'
<1>1. PICK k \in Nat, s \in Views : k = Len(trace) /\ s = st[k] /\ Here = k + 1
  BY Now
<1>2. PICK at \in Nat : at = ppos.at
  BY Now, PposType
<1>3. /\ files[a].obj = s[a].obj /\ files[a].told = s[a].pos /\ files[a].by = s[a].by
      /\ files[a].by # 0
  BY <1>1, Now
<1>4. /\ r \in Records /\ r.type = type /\ r.addr = a /\ r.by = files[a].by
      /\ r.len = len /\ r.ret = len /\ ~r.fails /\ (~r.strays => at = s[a].pos)
  <2>1. PICK q \in Records : /\ q = OnFile(type, a) /\ q.type = type /\ q.addr = a
                             /\ q.by = files[a].by /\ ~q.fails
    BY OnFileRecord DEF OnFiles
  <2>2. PICK b \in BOOLEAN : b = (at # files[a].told)
    OBVIOUS
  <2>3. r = [q EXCEPT !.len = len, !.ret = len, !.strays = b] /\ len \in Int
    BY <1>2, <2>1, <2>2 DEF OnData
  <2>4. /\ r \in Records /\ r.type = type /\ r.addr = a /\ r.by = files[a].by
        /\ r.len = len /\ r.ret = len /\ ~r.fails /\ r.strays = b
    BY <2>1, <2>3 DEF Records
  <2> QED
    BY <1>3, <2>2, <2>4
<1>5. s[a] \in [obj : 0 .. MaxOps, pos : Nat, by : 0 .. MaxOps]
  BY DEF Views
<1>6. PICK v : /\ v = [s[a] EXCEPT !.pos = @ + len]
               /\ v \in [obj : 0 .. MaxOps, pos : Nat, by : 0 .. MaxOps]
               /\ v.obj = s[a].obj /\ v.by = s[a].by /\ v.pos = s[a].pos + len
  <2>1. PICK v : v = [s[a] EXCEPT !.pos = @ + len]
    OBVIOUS
  <2>2. s[a].pos + len \in Nat
    BY <1>5
  <2>3. /\ v \in [obj : 0 .. MaxOps, pos : Nat, by : 0 .. MaxOps]
        /\ v.obj = s[a].obj /\ v.by = s[a].by /\ v.pos = s[a].pos + len
    BY <1>5, <2>1, <2>2
  <2> QED
    BY <2>1, <2>3
<1>7. PICK s1 \in Views : s1 = [s EXCEPT ![a].pos = @ + len] /\ s1 = [s EXCEPT ![a] = v]
  <2>1. [s EXCEPT ![a] = v] \in Views
    BY <1>6 DEF Views
  <2>2. [s EXCEPT ![a].pos = @ + len] = [s EXCEPT ![a] = v]
    BY <1>6, Zenon
  <2> QED
    BY <2>1, <2>2
<1>8. s1[a] = v /\ \A b \in Addrs : b # a => s1[b] = s[b]
  BY <1>7 DEF Views
<1>9. OpensOnly(s, Here, r, fs, s1)
  <2>1. \A b \in Addrs : s[b].by # 0 => s[b].obj \in 1 .. Len(lower.size)
    BY <1>1, Now
  <2>2. \A b \in Addrs : s1[b].obj = s[b].obj /\ s1[b].by = s[b].by
    BY <1>6, <1>8
  <2> QED
    BY <2>1, <2>2 DEF OpensOnly
<1>10. Executes(lower, s, Here, r, fs, s1)
  <2>1. OnOpen(lower, s, r)
    BY <1>3, <1>4 DEF OnOpen
  <2>2. /\ type = "read" => len = ReadCount(lower, s[a].obj, at, len) /\ fs = lower
        /\ type = "write" => fs = Write(lower, s[a].obj, at, len)
    BY <1>2, <1>3
  <2>3. s1 = [s EXCEPT ![r.addr].pos = @ + r.len] /\ s[r.addr].obj \notin lower.dirs
    BY <1>3, <1>4, <1>7
  <2>4. /\ ~r.strays => at = s[r.addr].pos
        /\ r.type = "read" => r.len = ReadCount(lower, s[r.addr].obj, at, r.len) /\ fs = lower
        /\ r.type = "write" => fs = Write(lower, s[r.addr].obj, at, r.len)
    BY <1>4, <2>2
  <2>5. r.ret = r.len
    BY <1>4
  <2>6. ExecutesData(lower, s, r, fs, s1)
    BY <2>1, <2>3, <2>4, <2>5, Zenon DEF ExecutesData
  <2> QED
    BY <1>4, <2>6 DEF Executes, OnNames
<1>11. files[a] \in OpenFiles
  BY DEF TypeOK
<1>12. PICK p \in Nat : p = IF ppos.own THEN files[a].pos + len ELSE files[a].pos
  BY <1>11 DEF OpenFiles
<1>13. PICK f : f = [files[a] EXCEPT !.pos = p, !.told = @ + len]
  OBVIOUS
<1>14. f \in OpenFiles /\ f.by = files[a].by /\ Opened(f) = v
  <2>1. PICK g \in OpenFiles, q \in Nat : g = files[a] /\ q = g.told + len
    BY <1>11 DEF OpenFiles
  <2>2. f = [g EXCEPT !.pos = p, !.told = q]
    BY <1>13, <2>1
  <2>3. f \in OpenFiles /\ f.by = g.by /\ f.obj = g.obj /\ f.told = q
    BY <2>2 DEF OpenFiles
  <2>4. Opened(f) = v
    BY <1>3, <1>5, <1>6, <2>1, <2>3 DEF Opened
  <2> QED
    BY <2>1, <2>3, <2>4
<1>15. files' = [files EXCEPT ![a] = f]
  BY <1>12, <1>13 DEF Moved, TypeOK
<1>16. files' \in [Addrs -> OpenFiles]
  BY <1>14, <1>15 DEF TypeOK
<1>17. ASSUME NEW b \in Addrs, IsOpen(files'[b])
       PROVE  Opened(files'[b]) = s1[b] /\ files'[b].by # 0
  <2>1. CASE b = a
    BY <1>3, <1>8, <1>14, <1>15, <2>1 DEF TypeOK
  <2>2. CASE b # a
    <3>1. files'[b] = files[b] /\ s1[b] = s[b]
      BY <1>8, <1>15, <2>2 DEF TypeOK
    <3> QED
      BY <1>1, <1>17, <3>1 DEF TraceInv
  <2> QED
    BY <2>1, <2>2
<1> QED
  BY <1>1, <1>4, <1>9, <1>10, <1>16, <1>17, RecordStep

LEMMA ReadStep ==
  ASSUME NEW st, TypeOK, TraceInv(st), NEW a \in Addrs, trfs_read(a)
  PROVE  TypeOK' /\ \E st1 : TraceInv(st1)'
<1>1. PICK len \in Lengths, ppos \in Ppos(a) :
        LET n == ReadCount(lower, files[a].obj, ppos.at, len) IN
        /\ IsOpen(files[a]) /\ files[a].obj \notin lower.dirs
        /\ Record(OnData("read", a, ppos, n), lower)
        /\ Moved(a, ppos, n)
  BY DEF trfs_read
<1>2. PICK n : n = ReadCount(lower, files[a].obj, ppos.at, len)
  OBVIOUS
<1>3. PICK r : r = OnData("read", a, ppos, n)
  OBVIOUS
<1>4. /\ IsOpen(files[a]) /\ files[a].obj \notin lower.dirs
      /\ Record(r, lower) /\ Moved(a, ppos, n)
  BY <1>1, <1>2, <1>3
<1>5. PICK k \in Nat : k = Len(trace) /\ FileSystem(lower, k) /\ Here = k + 1
  BY Now
<1>6. files[a].obj \in 1 .. Len(lower.size) /\ ppos.at \in Nat /\ len \in Nat
  BY <1>4, Now, PposType, BoundsAssumption
<1>7. n \in Nat /\ n = ReadCount(lower, files[a].obj, ppos.at, n)
  BY <1>2, <1>5, <1>6, ReadCountType
<1>8. FileSystem(lower, Here)
  BY <1>5, FileSystemGrows
<1> QED
  BY <1>3, <1>4, <1>7, <1>8, DataStep

LEMMA WriteStep ==
  ASSUME NEW st, TypeOK, TraceInv(st), NEW a \in Addrs, trfs_write(a)
  PROVE  TypeOK' /\ \E st1 : TraceInv(st1)'
<1>1. PICK len \in Lengths, ppos \in Ppos(a) :
        /\ IsOpen(files[a]) /\ files[a].obj \notin lower.dirs
        /\ Record(OnData("write", a, ppos, len), Write(lower, files[a].obj, ppos.at, len))
        /\ Moved(a, ppos, len)
  BY DEF trfs_write
<1>2. PICK r : r = OnData("write", a, ppos, len)
  OBVIOUS
<1>3. PICK fs : fs = Write(lower, files[a].obj, ppos.at, len)
  OBVIOUS
<1>4. PICK k \in Nat : k = Len(trace) /\ FileSystem(lower, k) /\ Here = k + 1
  BY Now
<1>5. files[a].obj \in 1 .. Len(lower.size) /\ ppos.at \in Nat /\ len \in Nat
  BY <1>1, Now, PposType, BoundsAssumption
<1>6. FileSystem(fs, k) /\ Len(fs.size) = Len(lower.size)
  BY <1>3, <1>4, <1>5, WriteKeeps
<1>7. FileSystem(fs, Here)
  BY <1>4, <1>6, FileSystemGrows
<1> QED
  BY <1>1, <1>2, <1>3, <1>5, <1>6, <1>7, DataStep

LEMMA ReaddirStep ==
  ASSUME NEW st, TypeOK, TraceInv(st), NEW a \in Addrs, trfs_readdir(a)
  PROVE  TypeOK' /\ \E st1 : TraceInv(st1)'
<1>1. PICK r \in Records : r = OnFile("readdir", a) /\ r.type = "readdir" /\ r.ret = 0 /\ ~r.fails
  BY OnFileRecord DEF OnFiles
<1>2. PICK f \in Records : /\ Record(f, lower) /\ f.type = "readdir" /\ files' = files
                           /\ (f.fails /\ f.ret < 0) \/ (~f.fails /\ f.ret = 0)
  <2>1. CASE Record(r, lower) /\ files' = files
    BY <1>1, <2>1
  <2>2. CASE Refused(r)
    <3>1. PICK e \in Errors : Record([r EXCEPT !.ret = -e, !.fails = TRUE], lower)
      BY <2>2 DEF Refused, RefusedOn
    <3>2. PICK f \in Records : Record(f, lower) /\ f.ret < 0 /\ f.fails /\ f.type = r.type
      BY <3>1, FailedRecord
    <3>3. files' = files
      BY <2>2 DEF Refused, RefusedOn
    <3> QED
      BY <1>1, <3>2, <3>3
  <2> QED
    BY <1>1, <2>1, <2>2 DEF trfs_readdir
<1>3. Executes(lower, st[Len(trace)], Here, f, lower, st[Len(trace)])
  BY <1>2 DEF Executes, OnNames
<1>4. FileSystem(lower, Here) /\ Len(lower.size) <= Len(lower.size)
  BY Now, FileSystemGrows DEF FileSystem
<1>5. files' \in [Addrs -> OpenFiles]
  BY <1>2 DEF TypeOK
<1> QED
  BY <1>2, <1>3, <1>4, <1>5, NothingOpened

LEMMA FlushStep ==
  ASSUME NEW st, TypeOK, TraceInv(st), NEW a \in Addrs, trfs_flush(a)
  PROVE  TypeOK' /\ \E st1 : TraceInv(st1)'
<1>1. PICK r \in Records : /\ r = OnFile("close", a) /\ r.type = "close" /\ r.addr = a
                           /\ r.by = files[a].by /\ r.ret = 0 /\ ~r.fails
  BY OnFileRecord DEF OnFiles
<1>2. PICK k \in Nat, s \in Views : k = Len(trace) /\ s = st[k] /\ Here = k + 1
  BY Now
<1>3. PICK q \in Records : /\ Record(q, lower) /\ q.type = "close" /\ q.addr = a
                           /\ q.by = files[a].by /\ q.ret <= 0 /\ ~q.fails
  <2>1. Reported(r, lower)
    BY <1>1 DEF trfs_flush
  <2> QED
    BY <1>1, <2>1, ReportedRecord
<1>4. Executes(lower, s, Here, q, lower, s)
  <2>1. OnOpen(lower, s, q)
    BY <1>2, <1>3, Now DEF OnOpen, trfs_flush
  <2> QED
    BY <1>3, <2>1 DEF Executes, OnNames
<1>5. FileSystem(lower, Here) /\ Len(lower.size) <= Len(lower.size)
  BY Now, FileSystemGrows DEF FileSystem
<1>6. PICK f : f = IF files[a].refs = 1 THEN NoFile
                   ELSE [files[a] EXCEPT !.refs = files[a].refs - 1]
  OBVIOUS
<1>7. files[a] \in OpenFiles /\ files[a].refs > 0
  BY DEF trfs_flush, TypeOK, IsOpen
<1>8. f \in OpenFiles /\ (IsOpen(f) => Opened(f) = Opened(files[a]))
  <2>1. CASE files[a].refs = 1
    <3>1. NoFile \in OpenFiles /\ ~IsOpen(NoFile)
      BY BoundsAssumption DEF NoFile, OpenFiles, IsOpen
    <3> QED
      BY <1>6, <2>1, <3>1
  <2>2. CASE files[a].refs # 1
    BY <1>6, <1>7, <2>2 DEF OpenFiles, Opened
  <2> QED
    BY <2>1, <2>2
<1>9. files' = [files EXCEPT ![a] = f]
  BY <1>6, Zenon DEF trfs_flush
<1>10. files' \in [Addrs -> OpenFiles]
  BY <1>8, <1>9 DEF TypeOK
<1>11. ASSUME NEW b \in Addrs, IsOpen(files'[b])
       PROVE  IsOpen(files[b]) /\ Opened(files'[b]) = Opened(files[b])
  BY <1>7, <1>8, <1>9, <1>11 DEF TypeOK, IsOpen
<1> QED
  BY <1>2, <1>3, <1>4, <1>5, <1>10, <1>11, NothingOpened

(* An operation without a record.                                          *)
LEMMA UntracedStep ==
  ASSUME NEW st, TypeOK, TraceInv(st), NEW a \in Addrs, IsOpen(files[a]),
         NEW f \in OpenFiles, Opened(f) = Opened(files[a]), files' = [files EXCEPT ![a] = f],
         UNCHANGED <<lower, trace, mode, offset, replayed, deviated>>
  PROVE  TypeOK' /\ TraceInv(st)'
<1>1. files' \in [Addrs -> OpenFiles]
  BY DEF TypeOK
<1>2. /\ lower' = lower /\ trace' = trace /\ mode' = mode /\ offset' = offset
      /\ map' = map /\ fds' = fds /\ target' = target /\ deviated' = deviated
  BY DEF replayed
<1>3. TypeOK'
  BY <1>1, <1>2 DEF TypeOK
<1>4. ASSUME NEW b \in Addrs, IsOpen(files'[b])
      PROVE  Opened(files'[b]) = st[Len(trace)][b] /\ files'[b].by # 0
  <2>1. CASE b = a
    <3>1. Opened(files[a]) = st[Len(trace)][a] /\ files[a].by # 0
      BY DEF TraceInv
    <3>2. f.by = files[a].by
      BY DEF Opened
    <3> QED
      BY <2>1, <3>1, <3>2 DEF TypeOK
  <2>2. CASE b # a
    BY <1>4, <2>2 DEF TypeOK, TraceInv
  <2> QED
    BY <2>1, <2>2
<1>5. TraceInv(st)'
  <2>1. /\ Execution(trace', st) /\ lower' = FsAt(trace', Len(trace'))
        /\ Len(trace') <= MaxOps
    BY <1>2 DEF TraceInv
  <2>2. \A b \in Addrs : IsOpen(files'[b]) =>
          Opened(files'[b]) = st[Len(trace')][b] /\ files'[b].by # 0
    BY <1>2, <1>4
  <2> QED
    BY <2>1, <2>2 DEF TraceInv, IsOpen, Opened
<1> QED
  BY <1>3, <1>5

LEMMA DuplicateStep ==
  ASSUME NEW st, TypeOK, TraceInv(st), NEW a \in Addrs, Duplicate(a)
  PROVE  TypeOK' /\ TraceInv(st)'
<1>1. PICK f : f = [files[a] EXCEPT !.refs = 2]
  OBVIOUS
<1>2. files[a] \in OpenFiles /\ files[a].refs = 1
  BY DEF Duplicate, TypeOK
<1>3. f \in OpenFiles /\ Opened(f) = Opened(files[a]) /\ IsOpen(files[a])
  BY <1>1, <1>2 DEF OpenFiles, Opened, IsOpen
<1>4. files' = [files EXCEPT ![a] = f]
  BY <1>1 DEF Duplicate, TypeOK
<1> QED
  BY <1>3, <1>4, UntracedStep DEF Duplicate

LEMMA LlseekStep ==
  ASSUME NEW st, TypeOK, TraceInv(st), NEW a \in Addrs, generic_file_llseek(a)
  PROVE  TypeOK' /\ TraceInv(st)'
<1>1. PICK pos \in Positions : files' = [files EXCEPT ![a].pos = pos]
  BY DEF generic_file_llseek
<1>2. PICK f : f = [files[a] EXCEPT !.pos = pos]
  OBVIOUS
<1>3. files[a] \in OpenFiles /\ pos \in Nat
  BY BoundsAssumption DEF TypeOK
<1>4. f \in OpenFiles /\ Opened(f) = Opened(files[a])
  BY <1>2, <1>3 DEF OpenFiles, Opened
<1>5. files' = [files EXCEPT ![a] = f]
  BY <1>1, <1>2 DEF TypeOK
<1> QED
  BY <1>4, <1>5, UntracedStep DEF generic_file_llseek

LEMMA TracedStep ==
  ASSUME NEW st, TypeOK, TraceInv(st), Traced
  PROVE  TypeOK' /\ \E st1 : TraceInv(st1)'
<1>1. ASSUME NEW a \in Addrs,
             \/ \E n \in Names : trfs_open(a, n)
             \/ trfs_read(a) \/ trfs_write(a) \/ trfs_readdir(a)
             \/ generic_file_llseek(a) \/ trfs_flush(a) \/ Duplicate(a)
      PROVE  TypeOK' /\ \E st1 : TraceInv(st1)'
  BY <1>1, OpenStep, ReadStep, WriteStep, ReaddirStep, LlseekStep, FlushStep, DuplicateStep,
     Zenon
<1>2. ASSUME NEW n \in Names, trfs_mkdir(n) \/ trfs_unlink(n) \/ trfs_rmdir(n)
      PROVE  TypeOK' /\ \E st1 : TraceInv(st1)'
  BY <1>2, MkdirStep, UnlinkStep, RmdirStep, Zenon
<1>3. ASSUME NEW old \in Names, NEW new \in Names,
             trfs_link(old, new) \/ trfs_rename(old, new)
      PROVE  TypeOK' /\ \E st1 : TraceInv(st1)'
  BY <1>3, LinkStep, RenameStep, Zenon
<1> QED
  BY <1>1, <1>2, <1>3, Zenon DEF Traced

-----------------------------------------------------------------------------
(* The replay: what is known at the next record.                           *)
LEMMA ReplayNow ==
  ASSUME NEW st, Inv(st), mode \in {"default", "strict"}, More
  PROVE  /\ offset \in 1 .. Len(trace) /\ offset \in 1 .. MaxOps /\ Len(trace) \in Nat
         /\ offset \in Nat /\ offset - 1 \in Nat
         /\ rec \in Records
         /\ FileSystem(FsAt(trace, offset - 1), offset - 1)
         /\ FileSystem(FsAt(trace, offset), offset)
         /\ st[offset - 1] \in Views /\ st[offset] \in Views
         /\ \A a \in Addrs : st[offset - 1][a].by # 0 =>
              /\ st[offset - 1][a].obj \in 1 .. Len(FsAt(trace, offset - 1).size)
              /\ st[offset - 1][a].by < offset /\ OpenBy(trace, st[offset - 1][a].by, a)
         /\ Executes(FsAt(trace, offset - 1), st[offset - 1], offset, rec,
                     FsAt(trace, offset), st[offset])
         /\ Replayed
<1>1. PICK n \in Nat, o \in Nat : n = Len(trace) /\ o = offset /\ o \in 1 .. n /\ n <= MaxOps
  BY DEF Inv, TypeOK, More, TraceInv
<1>2. o \in 1 .. MaxOps /\ o - 1 \in 0 .. n /\ o \in 0 .. n
  BY <1>1, BoundsAssumption
<1>3. rec \in Records
  <2>1. PICK S : trace \in Seq(S) /\ \A x \in S : x.rec \in Records
    <3>1. trace \in Seq([rec : Records, fs : FileSystems])
      BY DEF Inv, TypeOK
    <3>2. \A x \in [rec : Records, fs : FileSystems] : x.rec \in Records
      OBVIOUS
    <3> QED
      BY <3>1, <3>2, Zenon
  <2>2. \A i \in 1 .. Len(trace) : trace[i] \in S
    BY <2>1, ElementOfSeq
  <2>3. trace[o].rec \in Records
    BY <1>1, <2>1, <2>2
  <2> QED
    BY <1>1, <2>3 DEF rec
<1>4. Execution(trace, st)
  BY DEF Inv, TraceInv
<1>5. FileSystem(FsAt(trace, o - 1), o - 1) /\ FileSystem(FsAt(trace, o), o)
  BY <1>1, <1>2, <1>4 DEF Execution
<1>6. st[o - 1] \in Views /\ st[o] \in Views
  BY <1>1, <1>2, <1>4 DEF Execution
<1>7. ASSUME NEW a \in Addrs, st[o - 1][a].by # 0
      PROVE  /\ st[o - 1][a].obj \in 1 .. Len(FsAt(trace, o - 1).size)
             /\ st[o - 1][a].by < o /\ OpenBy(trace, st[o - 1][a].by, a)
  <2>1. /\ st[o - 1][a].obj \in 1 .. Len(FsAt(trace, o - 1).size)
        /\ st[o - 1][a].by <= o - 1 /\ OpenBy(trace, st[o - 1][a].by, a)
    BY <1>1, <1>2, <1>4, <1>7 DEF Execution
  <2>2. st[o - 1][a].by \in Nat
    BY <2>1 DEF OpenBy
  <2> QED
    BY <1>1, <2>1, <2>2
<1>8. Executes(FsAt(trace, o - 1), st[o - 1], o, rec, FsAt(trace, o), st[o])
  BY <1>1, <1>4 DEF Execution, rec
<1>9. Replayed
  BY DEF Inv, ReplayInv
<1> QED
  BY <1>1, <1>2, <1>3, <1>5, <1>6, <1>7, <1>8, <1>9

LEMMA StaysUnambiguous ==
  ASSUME TypeOK, offset' = offset + 1, trace' = trace, Unambiguous'
  PROVE  /\ Unambiguous
         /\ \A i, j \in DOMAIN trace :
              /\ i < j /\ j <= offset + 1
              /\ trace[i].rec.addr = trace[j].rec.addr /\ trace[i].rec.addr # NoAddr
              => trace[i].rec.type # "close" /\ trace[j].rec.type # "open"
<1>1. PICK n \in Nat : n = Len(trace) /\ DOMAIN trace = 1 .. n /\ offset \in Nat
  BY DEF TypeOK
<1> QED
  BY <1>1 DEF Unambiguous

(* The other premises hold at the record if they hold after it.            *)
LEMMA StaysOrderly ==
  ASSUME TypeOK, More, offset' = offset + 1, trace' = trace
  PROVE  /\ NoHalfOpen' => NoHalfOpen /\ ~(rec.fails /\ rec.creat)
         /\ Sequential' => Sequential /\ ~rec.strays
<1>1. PICK n \in Nat, o \in Nat :
        n = Len(trace) /\ o = offset /\ DOMAIN trace = 1 .. n /\ o \in 1 .. n
  BY DEF TypeOK, More
<1>2. \A i \in 1 .. n : i < o => i < offset'
  BY <1>1
<1>3. o < offset'
  BY <1>1
<1>4. NoHalfOpen' => NoHalfOpen /\ ~(rec.fails /\ rec.creat)
  BY <1>1, <1>2, <1>3 DEF NoHalfOpen, rec
<1>5. Sequential' => Sequential /\ ~rec.strays
  BY <1>1, <1>2, <1>3 DEF Sequential, rec
<1> QED
  BY <1>4, <1>5

(* The deviations that there may be.                                       *)
Harmless(r) == r.ret < 0 /\ (r.ret = -1 => r.type \in {"open", "readdir", "link", "close"})

(* What an action of the replay has to show.                               *)
LEMMA ReplayStep ==
  ASSUME NEW st, Inv(st), mode \in {"default", "strict"}, More, NEW ret, Result(ret),
         map' \in Seq([file_addr : Addrs, file_d : Fds \cup {-1}]),
         fds' \in [Fds -> OpenFiles],
         FileSystem(target', offset),
         \A fd \in Fds : IsOpen(fds'[fd]) =>
           fd <= offset /\ fds'[fd].obj \in 1 .. Len(target'.size),
         \A i \in DOMAIN map' : \E k \in 1 .. offset :
           trace[k].rec.type = "open" /\ trace[k].rec.addr = map'[i].file_addr,
         NoHalfOpen' => Alike(FsAt(trace, offset), target'),
         NoHalfOpen' /\ Unambiguous' => Kept(st)',
         NoHalfOpen' /\ Unambiguous' /\ Sequential' => target'.size = FsAt(trace, offset).size,
         NoHalfOpen' /\ Unambiguous' /\ Sequential' /\ ret # rec.ret => Harmless(rec)
  PROVE  Inv(st)'
<1>1. PICK n \in Nat, o \in Nat : /\ n = Len(trace) /\ o = offset /\ o \in 1 .. n
                                 /\ o \in 1 .. MaxOps /\ o - 1 \in Nat
  BY ReplayNow
<1>2. /\ lower' = lower /\ files' = files /\ trace' = trace /\ offset' = o + 1
      /\ mode' \in {"default", "strict", "aborted"}
      /\ deviated' = IF ret = rec.ret THEN deviated ELSE deviated \cup {o}
  BY <1>1 DEF Result, traced
<1>3. TypeOK'
  <2>1. target' \in FileSystems
    <3>1. o \in Nat /\ o <= MaxOps /\ MaxOps \in Nat /\ FileSystem(target', o)
      BY <1>1, BoundsAssumption
    <3> QED
      BY <3>1, FileSystemType
  <2>2. offset' \in 1 .. Len(trace') + 1
    BY <1>1, <1>2
  <2>3. deviated' \subseteq 1 .. offset' - 1
    <3>1. deviated \subseteq 1 .. o - 1
      BY <1>1 DEF Inv, TypeOK
    <3>2. ASSUME NEW i \in deviated' PROVE i \in 1 .. o
      <4>1. i \in deviated \/ i = o
        BY <1>2
      <4>2. i \in 1 .. o - 1 \/ i = o
        BY <3>1, <4>1
      <4> QED
        BY <1>1, <4>2
    <3>3. offset' - 1 = o
      BY <1>1, <1>2
    <3> QED
      BY <3>2, <3>3
  <2> QED
    BY <1>2, <2>1, <2>2, <2>3 DEF Inv, TypeOK
<1>4. TraceInv(st)'
  BY <1>2 DEF Inv, TraceInv, IsOpen, Opened, Execution, FsAt
<1>5. offset' - 1 = o
  BY <1>1, <1>2
<1>6. FsAt(trace', offset' - 1) = FsAt(trace, o)
  BY <1>2, <1>5
<1>7. Replayed'
  <2>1. FileSystem(target', offset' - 1)
    BY <1>1, <1>5
  <2>2. \A fd \in Fds : IsOpen(fds'[fd]) =>
          fd < offset' /\ fds'[fd].obj \in 1 .. Len(target'.size)
    BY <1>1, <1>2, BoundsAssumption DEF Fds
  <2>3. \A i \in DOMAIN map' : \E k \in 1 .. offset' - 1 :
          trace'[k].rec.type = "open" /\ trace'[k].rec.addr = map'[i].file_addr
    BY <1>1, <1>2, <1>5
  <2> QED
    BY <2>1, <2>2, <2>3 DEF Replayed, FileSystem, IsOpen
<1>8. ReplayInv(st)'
  <2>1. NoHalfOpen' =>
          /\ Alike(FsAt(trace', offset' - 1), target')
          /\ Unambiguous' =>
               Kept(st)' /\ (Sequential' => target'.size = FsAt(trace', offset' - 1).size)
    BY <1>1, <1>6
  <2> QED
    BY <1>2, <1>7, <2>1 DEF ReplayInv, FsAt, Alike
<1>9. DeviationsAreFailures'
  <2> SUFFICES ASSUME Unambiguous', Sequential', NoHalfOpen', NEW i \in deviated'
               PROVE  Harmless(trace'[i].rec)
    BY Zenon DEF DeviationsAreFailures, Harmless
  <2>1. CASE i \in deviated
    <3>1. TypeOK /\ offset' = offset + 1
      BY <1>1, <1>2 DEF Inv
    <3>2. Unambiguous /\ Sequential /\ NoHalfOpen
      BY <1>2, <3>1, StaysUnambiguous, StaysOrderly
    <3>3. Harmless(trace[i].rec)
      BY <2>1, <3>2, Zenon DEF Inv, DeviationsAreFailures, Harmless
    <3> QED
      BY <1>2, <3>3
  <2>2. CASE i \notin deviated
    <3>1. i = offset /\ ret # rec.ret
      BY <1>1, <1>2, <2>2
    <3>2. Harmless(rec)
      BY <3>1
    <3> QED
      BY <1>2, <3>1, <3>2 DEF rec
  <2> QED
    BY <2>1, <2>2
<1> QED
  BY <1>3, <1>4, <1>8, <1>9 DEF Inv

(* The single entry of an address is the one that map_find finds.          *)
LEMMA Found ==
  ASSUME TypeOK, NEW a, NEW i, Entry(i, a)
  PROVE  map_find(a) = map[i].file_d
<1>1. i \in Nat
  BY DEF Entry, TypeOK
<1>2. Matches(a) = {i}
  BY DEF Matches, Entry
<1>3. (CHOOSE k \in Matches(a) : \A j \in Matches(a) : k <= j) = i
  BY <1>1, <1>2
<1> QED
  BY <1>2, <1>3 DEF map_find

LEMMA OpenAddr ==
  ASSUME NEW st, Inv(st), NEW k \in 1 .. Len(trace), trace[k].rec.type = "open"
  PROVE  trace[k].rec.addr \in Addrs /\ trace[k].rec.addr # NoAddr
<1>1. Executes(FsAt(trace, k - 1), st[k - 1], k, trace[k].rec, FsAt(trace, k), st[k])
  BY DEF Inv, TraceInv, Execution
<1>2. trace[k].rec.addr \in Addrs
  BY <1>1, Zenon DEF Executes, ExecutesOpen
<1> QED
  BY <1>2, NamesAssumption

(* Only one record up to the next opens an address.                        *)
LEMMA OneOpen ==
  ASSUME NEW st, Inv(st), Unambiguous, offset \in 1 .. Len(trace),
         NEW k \in 1 .. offset, NEW m \in 1 .. offset,
         trace[k].rec.type = "open", trace[m].rec.type = "open",
         trace[k].rec.addr = trace[m].rec.addr
  PROVE  k = m
<1>1. PICK n \in Nat : n = Len(trace) /\ DOMAIN trace = 1 .. n
  BY DEF Inv, TypeOK
<1>2. PICK o \in Nat : o = offset /\ o <= n /\ k \in 1 .. n /\ m \in 1 .. n /\ k <= o /\ m <= o
  BY <1>1
<1>3. trace[k].rec.addr # NoAddr
  BY <1>1, <1>2, OpenAddr
<1>4. ~(k < m)
  BY <1>1, <1>2, <1>3 DEF Unambiguous
<1>5. ~(m < k)
  BY <1>1, <1>2, <1>3 DEF Unambiguous
<1> QED
  BY <1>2, <1>4, <1>5

(* A read, write or close finds the descriptor of its own open.            *)
LEMMA RightFd ==
  ASSUME NEW st, Inv(st), mode \in {"default", "strict"}, More, Unambiguous, NoHalfOpen,
         rec.type \in {"read", "write", "close"}
  PROVE  \E i : /\ Entry(i, rec.addr) /\ map_find(rec.addr) = map[i].file_d
                /\ map[i].file_d \in Fds
                /\ Serves(fds[map[i].file_d], st[offset - 1][rec.addr], rec.by)
                /\ Sequential => fds[map[i].file_d].pos = st[offset - 1][rec.addr].pos
                /\ rec.addr \in Addrs /\ OnOpen(FsAt(trace, offset - 1), st[offset - 1], rec)
                /\ rec.by \in 1 .. offset - 1 /\ trace[rec.by].rec.type = "open"
                /\ trace[rec.by].rec.addr = rec.addr
<1>1. PICK o, n, s : /\ o \in Nat /\ n \in Nat /\ o = offset /\ n = Len(trace) /\ o \in 1 .. n
                                     /\ s = st[o - 1]
  BY ReplayNow
<1>2. OnOpen(FsAt(trace, o - 1), s, rec)
  <2>1. Executes(FsAt(trace, o - 1), s, o, rec, FsAt(trace, o), st[o])
    BY <1>1, ReplayNow
  <2> QED
    BY <2>1, Zenon DEF Executes, ExecutesData
<1>3. PICK a, k : a \in Addrs /\ a = rec.addr /\ k = rec.by /\ k # 0 /\ k = s[a].by
  BY <1>2 DEF OnOpen
<1>4. k < o /\ OpenBy(trace, k, a)
  BY <1>1, <1>3, ReplayNow
<1>5. k \in 1 .. o - 1 /\ trace[k].rec.type = "open" /\ trace[k].rec.addr = a
      /\ ~trace[k].rec.fails
  BY <1>1, <1>4 DEF OpenBy
<1>6. ~ClosedBefore(k, a)
  <2> SUFFICES ASSUME NEW m \in 1 .. o - 1, k < m, trace[m].rec.type = "close",
                      trace[m].rec.addr = a
               PROVE  FALSE
    BY <1>1 DEF ClosedBefore
  <2>1. DOMAIN trace = 1 .. n
    BY <1>1 DEF Inv, TypeOK
  <2>2. /\ m \in DOMAIN trace /\ o \in DOMAIN trace /\ m < o /\ o <= offset
        /\ trace[o].rec = rec
    BY <1>1, <2>1 DEF rec
  <2> QED
    BY <1>3, <2>2, NamesAssumption DEF Unambiguous
<1>7. Kept(st)
  BY DEF Inv, ReplayInv
<1>8. PICK i \in DOMAIN map :
        /\ Entry(i, a)
        /\ map[i].file_d \in Fds /\ Serves(fds[map[i].file_d], s[a], k)
        /\ Sequential => fds[map[i].file_d].pos = s[a].pos
  BY <1>1, <1>5, <1>6, <1>7 DEF Kept
<1>9. map_find(a) = map[i].file_d
  BY <1>8, Found DEF Inv
<1> QED
  BY <1>1, <1>2, <1>3, <1>5, <1>8, <1>9

(* What becomes of the open descriptors at a record that opens none.       *)
LEMMA KeptStep ==
  ASSUME NEW st, Inv(st), mode \in {"default", "strict"}, More, Unambiguous, NoHalfOpen,
         offset' = offset + 1, trace' = trace, map' = map, rec.type # "open",
         \A k \in 1 .. offset - 1, i \in DOMAIN map :
           /\ trace[k].rec.type = "open" /\ Entry(i, trace[k].rec.addr)
           /\ ~(rec.type = "close" /\ rec.addr = trace[k].rec.addr)
           /\ map[i].file_d \in Fds
           /\ Serves(fds[map[i].file_d], st[offset - 1][trace[k].rec.addr], k)
           => /\ Serves(fds'[map[i].file_d], st[offset][trace[k].rec.addr], k)
              /\ /\ Sequential'
                 /\ fds[map[i].file_d].pos = st[offset - 1][trace[k].rec.addr].pos
                 => fds'[map[i].file_d].pos = st[offset][trace[k].rec.addr].pos
  PROVE  Kept(st)'
<1>1. PICK o \in Nat : /\ o = offset /\ o \in 1 .. Len(trace) /\ offset' - 1 = o
                       /\ o - 1 \in Nat
  BY ReplayNow
<1>2. Kept(st)
  BY DEF Inv, ReplayInv
<1>3. \A i, a : Entry(i, a)' <=> Entry(i, a)
  BY DEF Entry
<1>4. ASSUME NEW k \in 1 .. o - 1, NEW a, ~ClosedBefore(k, a)'
      PROVE  ~ClosedBefore(k, a) /\ ~(rec.type = "close" /\ rec.addr = a)
  <2>1. ~ClosedBefore(k, a)
    BY <1>1, <1>4 DEF ClosedBefore
  <2>2. k < o /\ o \in 1 .. offset' - 1
    BY <1>1
  <2>3. ~(trace'[o].rec.type = "close" /\ trace'[o].rec.addr = a)
    BY <1>4, <2>2 DEF ClosedBefore
  <2> QED
    BY <1>1, <2>1, <2>3 DEF rec
<1>5. Sequential' => Sequential
  BY StaysOrderly DEF Inv
<1>6. ASSUME NEW k \in 1 .. o, trace[k].rec.type = "open"
      PROVE  \E i \in DOMAIN map :
               /\ Entry(i, trace[k].rec.addr)
               /\ ~trace[k].rec.fails /\ ~ClosedBefore(k, trace[k].rec.addr)' =>
                    /\ map[i].file_d \in Fds
                    /\ Serves(fds'[map[i].file_d], st[o][trace[k].rec.addr], k)
                    /\ Sequential' =>
                         fds'[map[i].file_d].pos = st[o][trace[k].rec.addr].pos
  <2>1. k # o
    BY <1>1, <1>6 DEF rec
  <2>2. k \in 1 .. o - 1
    BY <1>1, <2>1
  <2>3. PICK i \in DOMAIN map :
          /\ Entry(i, trace[k].rec.addr)
          /\ ~trace[k].rec.fails /\ ~ClosedBefore(k, trace[k].rec.addr) =>
               /\ map[i].file_d \in Fds
               /\ Serves(fds[map[i].file_d], st[o - 1][trace[k].rec.addr], k)
               /\ Sequential => fds[map[i].file_d].pos = st[o - 1][trace[k].rec.addr].pos
    BY <1>1, <1>2, <1>6, <2>2 DEF Kept
  <2>4. ASSUME ~trace[k].rec.fails, ~ClosedBefore(k, trace[k].rec.addr)'
        PROVE  /\ map[i].file_d \in Fds
               /\ Serves(fds'[map[i].file_d], st[o][trace[k].rec.addr], k)
               /\ Sequential' => fds'[map[i].file_d].pos = st[o][trace[k].rec.addr].pos
    <3>1. /\ ~ClosedBefore(k, trace[k].rec.addr)
          /\ ~(rec.type = "close" /\ rec.addr = trace[k].rec.addr)
      BY <1>4, <2>2, <2>4
    <3>2. /\ map[i].file_d \in Fds
          /\ Serves(fds[map[i].file_d], st[o - 1][trace[k].rec.addr], k)
          /\ Sequential => fds[map[i].file_d].pos = st[o - 1][trace[k].rec.addr].pos
      BY <2>3, <2>4, <3>1
    <3> QED
      BY <1>1, <1>5, <1>6, <2>2, <2>3, <3>1, <3>2
  <2> QED
    BY <2>3, <2>4
<1> QED
  BY <1>1, <1>3, <1>6 DEF Kept, Serves, IsOpen

-----------------------------------------------------------------------------
(* The records on names and of readdir: the descriptors stay.              *)
LEMMA KeptStays ==
  ASSUME NEW st, Inv(st), mode \in {"default", "strict"}, More, Unambiguous, NoHalfOpen,
         offset' = offset + 1, trace' = trace, map' = map, fds' = fds,
         rec.type \notin {"open", "close"}, st[offset] = st[offset - 1]
  PROVE  Kept(st)'
<1>1. rec.type # "open"
  OBVIOUS
<1> QED
  BY <1>1, KeptStep

LEMMA StayStep ==
  ASSUME NEW st, Inv(st), mode \in {"default", "strict"}, More, NEW ret, Result(ret),
         map' = map, fds' = fds,
         rec.type \notin {"open", "close"}, st[offset] = st[offset - 1],
         FileSystem(target', offset), Len(target.size) <= Len(target'.size),
         Alike(FsAt(trace, offset - 1), target) =>
           /\ Alike(FsAt(trace, offset), target')
           /\ target = FsAt(trace, offset - 1) => target' = FsAt(trace, offset)
           /\ ret # rec.ret => Harmless(rec)
  PROVE  Inv(st)'
<1>1. PICK o \in Nat : /\ o = offset /\ o - 1 \in Nat /\ Replayed
                       /\ FileSystem(FsAt(trace, o - 1), o - 1)
  BY ReplayNow
<1>2. trace' = trace /\ offset' = offset + 1
  BY DEF Result, traced
<1>3. ASSUME NoHalfOpen'
      PROVE  /\ NoHalfOpen /\ Alike(FsAt(trace, offset - 1), target)
             /\ Alike(FsAt(trace, offset), target')
             /\ ret # rec.ret => Harmless(rec)
  <2>1. NoHalfOpen
    BY <1>2, <1>3, StaysOrderly DEF Inv
  <2> QED
    BY <2>1 DEF Inv, ReplayInv
<1>4. ASSUME NoHalfOpen', Unambiguous'
      PROVE  Kept(st)'
  BY <1>2, <1>3, <1>4, StaysUnambiguous, KeptStays DEF Inv
<1>5. ASSUME NoHalfOpen', Unambiguous', Sequential'
      PROVE  target'.size = FsAt(trace, offset).size
  <2>1. NoHalfOpen /\ Unambiguous /\ Sequential /\ Alike(FsAt(trace, offset - 1), target)
    BY <1>2, <1>3, <1>5, StaysUnambiguous, StaysOrderly DEF Inv
  <2>2. target.size = FsAt(trace, o - 1).size
    BY <1>1, <2>1 DEF Inv, ReplayInv
  <2>3. target = FsAt(trace, o - 1)
    BY <1>1, <2>1, <2>2, AlikeSame DEF Replayed
  <2> QED
    BY <1>1, <2>1, <2>3
<1>6. Len(target.size) \in Nat /\ Len(target'.size) \in Nat
  BY <1>1 DEF Replayed, FileSystem
<1>7. \A fd \in Fds : IsOpen(fds'[fd]) =>
        fd <= offset /\ fds'[fd].obj \in 1 .. Len(target'.size)
  BY <1>1, <1>6, BoundsAssumption DEF Replayed, Fds
<1>8. \A i \in DOMAIN map' : \E k \in 1 .. offset :
        trace[k].rec.type = "open" /\ trace[k].rec.addr = map'[i].file_addr
  <2>1. \A k \in 1 .. o - 1 : k \in 1 .. offset
    BY <1>1
  <2> QED
    BY <1>1, <2>1 DEF Replayed
<1>9. /\ map' \in Seq([file_addr : Addrs, file_d : Fds \cup {-1}])
      /\ fds' \in [Fds -> OpenFiles]
  BY DEF Inv, TypeOK
<1> QED
  BY <1>3, <1>4, <1>5, <1>7, <1>8, <1>9, ReplayStep

LEMMA DoStep ==
  ASSUME NEW st, Inv(st), mode \in {"default", "strict"}, More, rec.type \in OnNames,
         NEW possible, NEW fs, Do(possible, fs),
         FileSystem(fs, offset), Len(target.size) <= Len(fs.size),
         ~rec.fails /\ Alike(FsAt(trace, offset - 1), target) =>
           /\ possible /\ Alike(FsAt(trace, offset), fs)
           /\ target = FsAt(trace, offset - 1) => fs = FsAt(trace, offset)
  PROVE  Inv(st)'
<1>1. PICK o \in Nat : /\ o = offset /\ o - 1 \in Nat /\ Replayed
  BY ReplayNow
<1>2. /\ ExecutesName(FsAt(trace, o - 1), rec, FsAt(trace, o)) /\ st[o] = st[o - 1]
      /\ rec.fails => rec.ret < 0
  BY <1>1, ReplayNow, Zenon DEF Executes
<1>3. rec.type \notin {"open", "close", "readdir"} /\ map' = map /\ fds' = fds
  BY DEF OnNames, Do
<1>4. FileSystem(target, o) /\ Len(target.size) \in Nat
  <2>1. FileSystem(target, o - 1) /\ (o - 1) + 1 = o
    BY <1>1 DEF Replayed
  <2> QED
    BY <1>1, <2>1, FileSystemGrows DEF FileSystem
<1>5. CASE rec.fails
  <2>1. Result(-1) /\ target' = target
    BY <1>5 DEF Do
  <2>2. FsAt(trace, o) = FsAt(trace, o - 1)
    BY <1>2, <1>5 DEF ExecutesName
  <2>3. -1 # rec.ret => Harmless(rec)
    BY <1>2, <1>5 DEF Harmless
  <2> QED
    BY <1>1, <1>2, <1>3, <1>4, <2>1, <2>2, <2>3, StayStep
<1>6. CASE ~rec.fails /\ possible
  <2>1. Result(0) /\ target' = fs
    BY <1>6 DEF Do
  <2>2. rec.ret = 0 \/ (rec.ret < 0 /\ rec.type = "link")
    BY <1>2, <1>6 DEF ExecutesName
  <2>3. 0 # rec.ret => Harmless(rec)
    BY <2>2 DEF Harmless
  <2> QED
    BY <1>1, <1>2, <1>3, <1>6, <2>1, <2>3, StayStep
<1>7. CASE ~rec.fails /\ ~possible
  <2>1. Result(-1) /\ target' = target
    BY <1>7 DEF Do
  <2>2. ~Alike(FsAt(trace, offset - 1), target)
    BY <1>7
  <2> QED
    BY <1>1, <1>2, <1>3, <1>4, <2>1, <2>2, StayStep
<1> QED
  BY <1>5, <1>6, <1>7

LEMMA NameNow ==
  ASSUME NEW st, Inv(st), mode \in {"default", "strict"}, More, rec.type \in OnNames
  PROVE  \E p \in Nat : \E fs :
           /\ fs = FsAt(trace, p) /\ p = offset - 1 /\ offset = p + 1
           /\ FileSystem(fs, p) /\ FileSystem(target, p)
           /\ ExecutesName(fs, rec, FsAt(trace, offset)) /\ rec.name \in Names
           /\ rec.type \in {"link", "rename"} => rec.new \in Names
<1>1. PICK p \in Nat : /\ p = offset - 1 /\ Replayed /\ FileSystem(FsAt(trace, p), p)
                       /\ offset = p + 1
  BY ReplayNow
<1>2. Executes(FsAt(trace, p), st[p], p + 1, rec, FsAt(trace, p + 1), st[p + 1])
  BY <1>1, ReplayNow
<1>3. ExecutesName(FsAt(trace, p), rec, FsAt(trace, offset))
  BY <1>1, <1>2 DEF Executes
<1>4. FileSystem(target, p)
  BY <1>1 DEF Replayed
<1> QED
  BY <1>1, <1>3, <1>4 DEF ExecutesName

LEMMA ReplayMkdirStep ==
  ASSUME NEW st, Inv(st), ReplayMkdir
  PROVE  Inv(st)'
<1>1. PICK possible, tg :
        /\ mode \in {"default", "strict"} /\ More /\ rec.type = "mkdir"
        /\ possible = Free(target, rec.name)
        /\ tg = Mkdir(target, rec.name) /\ Do(possible, tg)
  BY DEF ReplayMkdir, Replaying
<1>2. rec.type \in OnNames
  BY <1>1 DEF OnNames
<1>3. PICK p, fs :
        /\ p \in Nat /\ fs = FsAt(trace, p) /\ p = offset - 1 /\ offset = p + 1
        /\ FileSystem(fs, p) /\ FileSystem(target, p)
        /\ ExecutesName(fs, rec, FsAt(trace, offset)) /\ rec.name \in Names
  BY <1>1, <1>2, NameNow
<1>4. FileSystem(tg, offset) /\ Len(target.size) <= Len(tg.size)
  BY <1>1, <1>3, CreateKeeps
<1>5. ASSUME ~rec.fails, Alike(fs, target)
      PROVE  /\ possible /\ Alike(FsAt(trace, offset), tg)
             /\ target = fs => tg = FsAt(trace, offset)
  <2>1. Free(fs, rec.name) /\ FsAt(trace, offset) = Mkdir(fs, rec.name)
    BY <1>1, <1>3, <1>5 DEF ExecutesName
  <2>2. possible
    BY <1>1, <1>5, <2>1, AlikePossible
  <2>3. Alike(Mkdir(fs, rec.name), tg)
    BY <1>1, <1>3, <1>5, AlikeAfter
  <2> QED
    BY <1>1, <2>1, <2>2, <2>3
<1> QED
  BY <1>1, <1>2, <1>3, <1>4, <1>5, DoStep

(* The other operations on names add no object.                            *)
LEMMA PutStep ==
  ASSUME NEW st, Inv(st), mode \in {"default", "strict"}, More, rec.type \in OnNames,
         NEW possible, NEW fs, NEW tg, Do(possible, tg),
         FileSystem(tg, offset - 1), tg.size = target.size, fs = FsAt(trace, offset),
         ~rec.fails /\ Alike(FsAt(trace, offset - 1), target) =>
           possible /\ Alike(fs, tg) /\ (target = FsAt(trace, offset - 1) => tg = fs)
  PROVE  Inv(st)'
<1>1. PICK o \in Nat, p \in Nat : o = offset /\ p = o - 1 /\ p + 1 = o
  BY ReplayNow
<1>2. FileSystem(tg, offset) /\ Len(target.size) <= Len(tg.size)
  <2>1. FileSystem(tg, p)
    BY <1>1
  <2>2. FileSystem(tg, p + 1)
    BY <2>1, FileSystemGrows
  <2>3. Len(tg.size) \in Nat
    BY <2>1 DEF FileSystem
  <2> QED
    BY <1>1, <2>2, <2>3
<1> QED
  BY <1>2, DoStep

LEMMA ReplayUnlinkStep ==
  ASSUME NEW st, Inv(st), ReplayUnlink
  PROVE  Inv(st)'
<1>1. PICK possible, tg :
        /\ mode \in {"default", "strict"} /\ More /\ rec.type = "unlink"
        /\ possible = (IsFile(target, rec.name))
        /\ tg = Remove(target, rec.name) /\ Do(possible, tg)
  BY DEF ReplayUnlink, Replaying
<1>2. rec.type \in OnNames
  BY <1>1 DEF OnNames
<1>3. PICK p, fs :
        /\ p \in Nat /\ fs = FsAt(trace, p) /\ p = offset - 1 /\ offset = p + 1
        /\ FileSystem(fs, p) /\ FileSystem(target, p)
        /\ ExecutesName(fs, rec, FsAt(trace, offset)) /\ rec.name \in Names
  BY <1>1, <1>2, NameNow
<1>4. PICK fs1 : fs1 = FsAt(trace, offset)
  OBVIOUS
<1>5. FileSystem(tg, p) /\ tg.size = target.size
  BY <1>1, <1>3, PutKeeps, PutKeepsSizes
<1>6. ASSUME ~rec.fails, Alike(fs, target)
      PROVE  possible /\ Alike(fs1, tg) /\ (target = fs => tg = fs1)
  <2>1. IsFile(fs, rec.name) /\ fs1 = Remove(fs, rec.name)
    BY <1>1, <1>3, <1>4, <1>6 DEF ExecutesName
  <2>2. possible
    BY <1>1, <1>6, <2>1, AlikePossible
  <2>3. Alike(Remove(fs, rec.name), tg)
    BY <1>1, <1>3, <1>6, AlikeAfter
  <2> QED
    BY <1>1, <2>1, <2>2, <2>3
<1> QED
  BY <1>1, <1>2, <1>3, <1>4, <1>5, <1>6, PutStep

LEMMA ReplayRmdirStep ==
  ASSUME NEW st, Inv(st), ReplayRmdir
  PROVE  Inv(st)'
<1>1. PICK possible, tg :
        /\ mode \in {"default", "strict"} /\ More /\ rec.type = "rmdir"
        /\ possible = (IsDir(target, rec.name))
        /\ tg = Remove(target, rec.name) /\ Do(possible, tg)
  BY DEF ReplayRmdir, Replaying
<1>2. rec.type \in OnNames
  BY <1>1 DEF OnNames
<1>3. PICK p, fs :
        /\ p \in Nat /\ fs = FsAt(trace, p) /\ p = offset - 1 /\ offset = p + 1
        /\ FileSystem(fs, p) /\ FileSystem(target, p)
        /\ ExecutesName(fs, rec, FsAt(trace, offset)) /\ rec.name \in Names
  BY <1>1, <1>2, NameNow
<1>4. PICK fs1 : fs1 = FsAt(trace, offset)
  OBVIOUS
<1>5. FileSystem(tg, p) /\ tg.size = target.size
  BY <1>1, <1>3, PutKeeps, PutKeepsSizes
<1>6. ASSUME ~rec.fails, Alike(fs, target)
      PROVE  possible /\ Alike(fs1, tg) /\ (target = fs => tg = fs1)
  <2>1. IsDir(fs, rec.name) /\ fs1 = Remove(fs, rec.name)
    BY <1>1, <1>3, <1>4, <1>6 DEF ExecutesName
  <2>2. possible
    BY <1>1, <1>6, <2>1, AlikePossible
  <2>3. Alike(Remove(fs, rec.name), tg)
    BY <1>1, <1>3, <1>6, AlikeAfter
  <2> QED
    BY <1>1, <2>1, <2>2, <2>3
<1> QED
  BY <1>1, <1>2, <1>3, <1>4, <1>5, <1>6, PutStep

LEMMA ReplayLinkStep ==
  ASSUME NEW st, Inv(st), ReplayLink
  PROVE  Inv(st)'
<1>1. PICK possible, tg :
        /\ mode \in {"default", "strict"} /\ More /\ rec.type = "link"
        /\ possible = (IsFile(target, rec.name) /\ Free(target, rec.new))
        /\ tg = Link(target, rec.name, rec.new) /\ Do(possible, tg)
  BY DEF ReplayLink, Replaying
<1>2. rec.type \in OnNames
  BY <1>1 DEF OnNames
<1>3. PICK p, fs :
        /\ p \in Nat /\ fs = FsAt(trace, p) /\ p = offset - 1 /\ offset = p + 1
        /\ FileSystem(fs, p) /\ FileSystem(target, p)
        /\ ExecutesName(fs, rec, FsAt(trace, offset)) /\ rec.name \in Names /\ rec.new \in Names
  BY <1>1, <1>2, NameNow
<1>4. PICK fs1 : fs1 = FsAt(trace, offset)
  OBVIOUS
<1>5. FileSystem(tg, p) /\ tg.size = target.size
  BY <1>1, <1>3, PutKeeps, PutKeepsSizes
<1>6. ASSUME ~rec.fails, Alike(fs, target)
      PROVE  possible /\ Alike(fs1, tg) /\ (target = fs => tg = fs1)
  <2>1. IsFile(fs, rec.name) /\ Free(fs, rec.new) /\ fs1 = Link(fs, rec.name, rec.new)
    BY <1>1, <1>3, <1>4, <1>6 DEF ExecutesName
  <2>2. possible
    BY <1>1, <1>6, <2>1, AlikePossible
  <2>3. Alike(Link(fs, rec.name, rec.new), tg)
    BY <1>1, <1>3, <1>6, AlikeAfter
  <2> QED
    BY <1>1, <2>1, <2>2, <2>3
<1> QED
  BY <1>1, <1>2, <1>3, <1>4, <1>5, <1>6, PutStep

LEMMA ReplayRenameStep ==
  ASSUME NEW st, Inv(st), ReplayRename
  PROVE  Inv(st)'
<1>1. PICK possible, tg :
        /\ mode \in {"default", "strict"} /\ More /\ rec.type = "rename"
        /\ possible = (CanRename(target, rec.name, rec.new))
        /\ tg = Rename(target, rec.name, rec.new) /\ Do(possible, tg)
  BY DEF ReplayRename, Replaying
<1>2. rec.type \in OnNames
  BY <1>1 DEF OnNames
<1>3. PICK p, fs :
        /\ p \in Nat /\ fs = FsAt(trace, p) /\ p = offset - 1 /\ offset = p + 1
        /\ FileSystem(fs, p) /\ FileSystem(target, p)
        /\ ExecutesName(fs, rec, FsAt(trace, offset)) /\ rec.name \in Names /\ rec.new \in Names
  BY <1>1, <1>2, NameNow
<1>4. PICK fs1 : fs1 = FsAt(trace, offset)
  OBVIOUS
<1>5. FileSystem(tg, p) /\ tg.size = target.size
  BY <1>1, <1>3, PutKeeps, PutKeepsSizes
<1>6. ASSUME ~rec.fails, Alike(fs, target)
      PROVE  possible /\ Alike(fs1, tg) /\ (target = fs => tg = fs1)
  <2>1. CanRename(fs, rec.name, rec.new) /\ fs1 = Rename(fs, rec.name, rec.new)
    BY <1>1, <1>3, <1>4, <1>6 DEF ExecutesName
  <2>2. possible
    BY <1>1, <1>6, <2>1, AlikePossible
  <2>3. Alike(Rename(fs, rec.name, rec.new), tg)
    BY <1>1, <1>3, <1>6, AlikeAfter
  <2> QED
    BY <1>1, <2>1, <2>2, <2>3
<1> QED
  BY <1>1, <1>2, <1>3, <1>4, <1>5, <1>6, PutStep

-----------------------------------------------------------------------------
(* The records of open files.                                              *)
LEMMA ReplayReaddirStep ==
  ASSUME NEW st, Inv(st), ReplayReaddir
  PROVE  Inv(st)'
<1>1. /\ mode \in {"default", "strict"} /\ More /\ rec.type = "readdir" /\ Result(0)
      /\ map' = map /\ fds' = fds /\ target' = target
  BY DEF ReplayReaddir, Replaying, replayed
<1>2. PICK p \in Nat : /\ p = offset - 1 /\ offset = p + 1 /\ Replayed
  BY <1>1, ReplayNow
<1>3. Executes(FsAt(trace, p), st[p], p + 1, rec, FsAt(trace, p + 1), st[p + 1])
  BY <1>1, <1>2, ReplayNow
<1>4. /\ rec.ret < 0 \/ rec.ret = 0
      /\ FsAt(trace, offset) = FsAt(trace, p) /\ st[offset] = st[p]
  BY <1>1, <1>2, <1>3 DEF Executes
<1>5. 0 # rec.ret => Harmless(rec)
  BY <1>1, <1>4 DEF Harmless
<1>6. FileSystem(target, offset) /\ Len(target.size) <= Len(target.size)
  BY <1>2, FileSystemGrows DEF Replayed, FileSystem
<1> QED
  BY <1>1, <1>2, <1>4, <1>5, <1>6, StayStep

LEMMA FdNow ==
  ASSUME NEW st, Inv(st), Replayed, NEW fd, ~BadFd(fd)
  PROVE  /\ fd \in Fds /\ IsOpen(fds[fd]) /\ fds[fd] \in OpenFiles /\ fds[fd].pos \in Nat
         /\ fd < offset /\ fds[fd].obj \in 1 .. Len(target.size)
<1>1. fd \in Fds /\ IsOpen(fds[fd])
  BY DEF BadFd
<1>2. fds[fd] \in OpenFiles
  BY <1>1 DEF Inv, TypeOK
<1> QED
  BY <1>1, <1>2 DEF Replayed, OpenFiles

(* Reads, writes and closes change no more than the length of a file.      *)
LEMMA DataNow ==
  ASSUME NEW st, Inv(st), mode \in {"default", "strict"}, More,
         rec.type \in {"read", "write", "close"}
  PROVE  \E p \in Nat : \E fs, fs1 :
           /\ p = offset - 1 /\ offset = p + 1
           /\ fs = FsAt(trace, p) /\ FileSystem(fs, p) /\ fs1 = FsAt(trace, offset)
           /\ FileSystem(target, p) /\ FileSystem(target, offset)
           /\ NoHalfOpen => Alike(fs, target)
           /\ Alike(fs, fs1) /\ Replayed
           /\ rec.len \in Nat /\ rec.addr \in Addrs /\ st[p] \in Views
           /\ OnOpen(fs, st[p], rec)
           /\ rec.type # "close" => ExecutesData(fs, st[p], rec, fs1, st[offset])
           /\ rec.type = "close" => rec.ret <= 0 /\ fs1 = fs /\ st[offset] = st[p]
<1>1. PICK p, fs, fs1 :
        /\ p \in Nat /\ p = offset - 1 /\ offset = p + 1 /\ Replayed /\ fs = FsAt(trace, p)
        /\ fs1 = FsAt(trace, offset) /\ FileSystem(fs, p) /\ st[p] \in Views
        /\ rec \in Records
  BY ReplayNow
<1>2. Executes(fs, st[p], offset, rec, fs1, st[offset])
  BY <1>1, ReplayNow
<1>3. /\ OnOpen(fs, st[p], rec) /\ rec.addr \in Addrs
      /\ rec.type # "close" => ExecutesData(fs, st[p], rec, fs1, st[offset])
      /\ rec.type = "close" => rec.ret <= 0 /\ fs1 = fs /\ st[offset] = st[p]
  BY <1>2 DEF Executes, ExecutesData, OnOpen
<1>4. FileSystem(target, p) /\ (NoHalfOpen => Alike(fs, target))
  BY <1>1 DEF Replayed, Inv, ReplayInv
<1>5. FileSystem(target, offset)
  BY <1>1, <1>4, FileSystemGrows
<1>6. rec.len \in Nat
  BY <1>1 DEF Records
<1>7. Alike(fs, fs1)
  <2>1. CASE fs1 = fs
    BY <2>1 DEF Alike
  <2>2. CASE rec.type = "write"
    <3>1. PICK at \in Nat : fs1 = Write(fs, st[p][rec.addr].obj, at, rec.len)
      BY <1>3, <2>2 DEF ExecutesData
    <3>2. st[p][rec.addr].by # 0
      BY <1>3 DEF OnOpen
    <3>3. st[p][rec.addr].obj \in 1 .. Len(fs.size)
      BY <1>1, <1>3, <3>2, ReplayNow
    <3>4. PICK obj \in 1 .. Len(fs.size), len \in Nat : fs1 = Write(fs, obj, at, len)
      BY <1>6, <3>1, <3>3
    <3>5. fs1.tree = fs.tree /\ fs1.dirs = fs.dirs /\ Len(fs1.size) = Len(fs.size)
      BY <1>1, <3>4, WriteKeeps
    <3> QED
      BY <3>5 DEF Alike
  <2> QED
    BY <1>3, <2>1, <2>2 DEF ExecutesData
<1> QED
  BY <1>1, <1>3, <1>4, <1>5, <1>6, <1>7

(* A record for which no descriptor is found: its address is ambiguous, or *)
(* its file was not there to be opened.                                    *)
LEMMA BadStep ==
  ASSUME NEW st, Inv(st), mode \in {"default", "strict"}, More,
         rec.type \in {"read", "write", "close"}, NEW ret, Result(ret),
         map' = map, fds' = fds, target' = target, ~(Unambiguous /\ NoHalfOpen)
  PROVE  Inv(st)'
<1>1. PICK p, fs, fs1 :
        /\ p \in Nat /\ p = offset - 1 /\ offset = p + 1 /\ fs1 = FsAt(trace, offset)
        /\ FileSystem(target, offset) /\ (NoHalfOpen => Alike(fs, target))
        /\ Alike(fs, fs1) /\ Replayed
  BY DataNow
<1>2. trace' = trace /\ offset' = offset + 1
  BY DEF Result, traced
<1>3. NoHalfOpen' => Alike(fs1, target)
  BY <1>1, <1>2, StaysOrderly DEF Inv, Alike
<1>4. ~(NoHalfOpen' /\ Unambiguous')
  BY <1>2, StaysOrderly, StaysUnambiguous DEF Inv
<1>5. \A fd \in Fds : IsOpen(fds'[fd]) =>
        fd <= offset /\ fds'[fd].obj \in 1 .. Len(target'.size)
  BY <1>1, BoundsAssumption DEF Replayed, Fds
<1>6. \A i \in DOMAIN map' : \E k \in 1 .. offset :
        trace[k].rec.type = "open" /\ trace[k].rec.addr = map'[i].file_addr
  <2>1. \A k \in 1 .. p : k \in 1 .. offset
    BY <1>1
  <2> QED
    BY <1>1, <2>1 DEF Replayed
<1>7. /\ map' \in Seq([file_addr : Addrs, file_d : Fds \cup {-1}])
      /\ fds' \in [Fds -> OpenFiles]
  BY DEF Inv, TypeOK
<1> QED
  BY <1>1, <1>3, <1>4, <1>5, <1>6, <1>7, ReplayStep

(* What is read or written through the descriptor that is found.           *)
LEMMA MovedKept ==
  ASSUME NEW st, Inv(st), mode \in {"default", "strict"}, More, Unambiguous, NoHalfOpen,
         rec.type \in {"read", "write"}, NEW fd, fd = map_find(rec.addr),
         NEW n \in Nat, Sequential' => n = rec.len,
         offset' = offset + 1, trace' = trace, map' = map,
         fds' = [fds EXCEPT ![fd].pos = @ + n]
  PROVE  Kept(st)'
<1>1. PICK p, fs, fs1 :
        /\ p \in Nat /\ p = offset - 1 /\ offset = p + 1 /\ st[p] \in Views
        /\ rec.addr \in Addrs /\ rec.len \in Nat
        /\ ExecutesData(fs, st[p], rec, fs1, st[offset])
  <2>1. rec.type \in {"read", "write", "close"} /\ rec.type # "close"
    OBVIOUS
  <2> QED
    BY <2>1, DataNow
<1>a. PICK a \in Addrs, len \in Nat : a = rec.addr /\ len = rec.len
  BY <1>1
<1>2. PICK s, s1 : s = st[offset - 1] /\ s1 = st[offset] /\ s \in Views
                   /\ s1 = [s EXCEPT ![a].pos = @ + len]
  BY <1>1, <1>a DEF ExecutesData
<1>3. PICK i0 : /\ Entry(i0, a) /\ map[i0].file_d = fd /\ fd \in Fds
                /\ Serves(fds[fd], s[a], rec.by) /\ trace[rec.by].rec.addr = a
  <2>1. rec.type \in {"read", "write", "close"}
    OBVIOUS
  <2>2. PICK i0 : /\ Entry(i0, rec.addr) /\ map_find(rec.addr) = map[i0].file_d
                  /\ map[i0].file_d \in Fds
                  /\ Serves(fds[map[i0].file_d], st[offset - 1][rec.addr], rec.by)
                  /\ trace[rec.by].rec.addr = rec.addr
    BY <2>1, RightFd
  <2>3. map[i0].file_d = fd
    BY <2>2
  <2> QED
    BY <1>a, <1>2, <2>2, <2>3
<1>4. fds \in [Fds -> OpenFiles]
  BY DEF Inv, TypeOK
<1>5. /\ \A g \in Fds : g # fd => fds'[g] = fds[g]
      /\ fds'[fd] = [fds[fd] EXCEPT !.pos = @ + n]
  BY <1>3, <1>4
<1>6. /\ \A b \in Addrs : b # a => s1[b] = s[b]
      /\ s1[a] = [s[a] EXCEPT !.pos = @ + len]
  BY <1>2, <1>a DEF Views
<1>7. /\ \A k : Serves(fds[fd], s[a], k) => Serves(fds'[fd], s1[a], k)
      /\ Sequential' /\ fds[fd].pos = s[a].pos => fds'[fd].pos = s1[a].pos
  <2>1. PICK f, v : /\ f = fds[fd] /\ v = s[a] /\ f \in OpenFiles
                    /\ v \in [obj : 0 .. MaxOps, pos : Nat, by : 0 .. MaxOps]
    BY <1>2, <1>3, <1>4 DEF Views
  <2>2. PICK g : g = [f EXCEPT !.pos = @ + n]
    OBVIOUS
  <2>3. g.obj = f.obj /\ g.pos = f.pos + n /\ g.refs = f.refs /\ g.by = f.by
    BY <2>1, <2>2 DEF OpenFiles
  <2>4. PICK w : w = [v EXCEPT !.pos = @ + len]
    OBVIOUS
  <2>5. w.obj = v.obj /\ w.pos = v.pos + len /\ w.by = v.by
    BY <2>1, <2>4
  <2>6. fds'[fd] = g /\ s1[a] = w
    BY <1>5, <1>6, <2>1, <2>2, <2>4
  <2>7. \A k : Serves(f, v, k) => Serves(g, w, k)
    BY <2>3, <2>5 DEF Serves, IsOpen
  <2>8. Sequential' /\ f.pos = v.pos => g.pos = w.pos
    BY <1>a, <2>3, <2>5
  <2> QED
    BY <2>1, <2>6, <2>7, <2>8
<1>8. ASSUME NEW k \in 1 .. offset - 1, NEW i \in DOMAIN map,
             trace[k].rec.type = "open", Entry(i, trace[k].rec.addr),
             map[i].file_d \in Fds,
             Serves(fds[map[i].file_d], s[trace[k].rec.addr], k)
      PROVE  /\ Serves(fds'[map[i].file_d], s1[trace[k].rec.addr], k)
             /\ Sequential' /\ fds[map[i].file_d].pos = s[trace[k].rec.addr].pos
                => fds'[map[i].file_d].pos = s1[trace[k].rec.addr].pos
  <2>1. CASE map[i].file_d = fd
    <3>1. k = rec.by
      BY <1>3, <1>8, <2>1 DEF Serves
    <3> QED
      BY <1>3, <1>7, <1>8, <2>1, <3>1
  <2>2. CASE map[i].file_d # fd
    <3>1. trace[k].rec.addr # a
      BY <1>3, <1>8, <2>2 DEF Entry
    <3>2. trace[k].rec.addr \in Addrs
      <4>1. k \in 1 .. Len(trace)
        BY ReplayNow
      <4> QED
        BY <1>8, <4>1, OpenAddr
    <3>3. s1[trace[k].rec.addr] = s[trace[k].rec.addr]
      BY <1>6, <3>1, <3>2
    <3>4. fds'[map[i].file_d] = fds[map[i].file_d]
      BY <1>5, <1>8, <2>2
    <3> QED
      BY <1>8, <3>3, <3>4
  <2> QED
    BY <2>1, <2>2
<1>9. \A k \in 1 .. offset - 1, i \in DOMAIN map :
        /\ trace[k].rec.type = "open" /\ Entry(i, trace[k].rec.addr)
        /\ ~(rec.type = "close" /\ rec.addr = trace[k].rec.addr)
        /\ map[i].file_d \in Fds
        /\ Serves(fds[map[i].file_d], st[offset - 1][trace[k].rec.addr], k)
        => /\ Serves(fds'[map[i].file_d], st[offset][trace[k].rec.addr], k)
           /\ /\ Sequential'
              /\ fds[map[i].file_d].pos = st[offset - 1][trace[k].rec.addr].pos
              => fds'[map[i].file_d].pos = st[offset][trace[k].rec.addr].pos
  BY <1>2, <1>8
<1>10. rec.type # "open"
  OBVIOUS
<1> QED
  BY <1>9, <1>10, KeptStep

LEMMA MovedStep ==
  ASSUME NEW st, Inv(st), mode \in {"default", "strict"}, More,
         rec.type \in {"read", "write"}, NEW fd, fd = map_find(rec.addr), ~BadFd(fd),
         NEW n \in Nat, Result(n), map' = map,
         fds' = [fds EXCEPT ![fd].pos = @ + n],
         FileSystem(target', offset), Alike(target, target'),
         Unambiguous /\ NoHalfOpen /\ Sequential /\ ~rec.strays =>
           n = rec.len /\ target'.size = FsAt(trace, offset).size
  PROVE  Inv(st)'
<1>1. PICK p, fs, fs1 :
        /\ p \in Nat /\ p = offset - 1 /\ offset = p + 1 /\ fs1 = FsAt(trace, offset)
        /\ (NoHalfOpen => Alike(fs, target)) /\ Alike(fs, fs1) /\ Replayed
        /\ ExecutesData(fs, st[p], rec, fs1, st[offset])
  BY DataNow
<1>2. trace' = trace /\ offset' = offset + 1
  BY DEF Result, traced
<1>3. /\ NoHalfOpen' => NoHalfOpen
      /\ Sequential' => Sequential /\ ~rec.strays
      /\ Unambiguous' => Unambiguous
  BY <1>2, StaysOrderly, StaysUnambiguous DEF Inv
<1>4. (NoHalfOpen' => Alike(fs1, target')) /\ Len(target'.size) = Len(target.size)
  BY <1>1, <1>3 DEF Alike
<1>5. fd \in Fds /\ fds \in [Fds -> OpenFiles]
  BY DEF BadFd, Inv, TypeOK
<1>6. /\ \A g \in Fds : g # fd => fds'[g] = fds[g]
      /\ fds'[fd] = [fds[fd] EXCEPT !.pos = @ + n]
  BY <1>5
<1>7. PICK f : f = [fds[fd] EXCEPT !.pos = @ + n] /\ f \in OpenFiles
               /\ f.obj = fds[fd].obj /\ f.refs = fds[fd].refs
  <2>1. PICK g \in OpenFiles : g = fds[fd]
    BY <1>5
  <2>2. PICK h : h = [g EXCEPT !.pos = @ + n]
    OBVIOUS
  <2>3. h \in OpenFiles /\ h.obj = g.obj /\ h.refs = g.refs
    BY <2>2 DEF OpenFiles
  <2> QED
    BY <2>1, <2>2, <2>3
<1>8. fds' \in [Fds -> OpenFiles]
  BY <1>5, <1>7
<1>9. \A g \in Fds : IsOpen(fds'[g]) =>
        g <= offset /\ fds'[g].obj \in 1 .. Len(target'.size)
  <2>1. \A g \in Fds : IsOpen(fds'[g]) => IsOpen(fds[g]) /\ fds'[g].obj = fds[g].obj
    BY <1>6, <1>7 DEF IsOpen
  <2> QED
    BY <1>1, <1>4, <2>1, BoundsAssumption DEF Replayed, Fds
<1>10. \A i \in DOMAIN map' : \E k \in 1 .. offset :
         trace[k].rec.type = "open" /\ trace[k].rec.addr = map'[i].file_addr
  <2>1. \A k \in 1 .. p : k \in 1 .. offset
    BY <1>1
  <2> QED
    BY <1>1, <2>1 DEF Replayed
<1>11. map' \in Seq([file_addr : Addrs, file_d : Fds \cup {-1}])
  BY DEF Inv, TypeOK
<1>12. ASSUME NoHalfOpen', Unambiguous', Sequential'
       PROVE  n = rec.len /\ n = rec.ret /\ target'.size = FsAt(trace, offset).size
  BY <1>1, <1>3, <1>12 DEF ExecutesData
<1>13. ASSUME NoHalfOpen', Unambiguous'
       PROVE  Kept(st)'
  <2>1. Unambiguous /\ NoHalfOpen /\ (Sequential' => n = rec.len)
    BY <1>3, <1>12, <1>13
  <2> QED
    BY <1>2, <2>1, MovedKept
<1> QED
  BY <1>1, <1>4, <1>8, <1>9, <1>10, <1>11, <1>12, <1>13, ReplayStep

(* The descriptor found is that of the kernel's file, and where the        *)
(* records put it.                                                         *)
LEMMA DataFd ==
  ASSUME NEW st, Inv(st), mode \in {"default", "strict"}, More, Unambiguous, NoHalfOpen,
         rec.type \in {"read", "write"}, NEW fd, fd = map_find(rec.addr)
  PROVE  /\ ~BadFd(fd) /\ fds[fd].obj \notin target.dirs
         /\ fds[fd].obj = st[offset - 1][rec.addr].obj
         /\ Sequential => /\ target = FsAt(trace, offset - 1)
                          /\ fds[fd].pos = st[offset - 1][rec.addr].pos
<1>1. PICK p, fs, fs1 :
        /\ p \in Nat /\ p = offset - 1 /\ fs = FsAt(trace, p)
        /\ FileSystem(fs, p) /\ FileSystem(target, p) /\ Alike(fs, target)
        /\ ExecutesData(fs, st[p], rec, fs1, st[offset])
  <2>1. rec.type \in {"read", "write", "close"} /\ rec.type # "close"
    OBVIOUS
  <2> QED
    BY <2>1, DataNow
<1>2. Sequential => target = fs
  <2>1. Sequential => target.size = fs.size
    BY <1>1 DEF Inv, ReplayInv
  <2> QED
    BY <1>1, <2>1, AlikeSame
<1>3. PICK i : /\ map_find(rec.addr) = map[i].file_d
               /\ map[i].file_d \in Fds
               /\ Serves(fds[map[i].file_d], st[offset - 1][rec.addr], rec.by)
               /\ Sequential => fds[map[i].file_d].pos = st[offset - 1][rec.addr].pos
  <2>1. rec.type \in {"read", "write", "close"}
    OBVIOUS
  <2> QED
    BY <2>1, RightFd
<1>4. /\ fd \in Fds /\ IsOpen(fds[fd]) /\ fds[fd].obj = st[offset - 1][rec.addr].obj
      /\ Sequential => fds[fd].pos = st[offset - 1][rec.addr].pos
  BY <1>3 DEF Serves
<1>5. st[offset - 1][rec.addr].obj \notin fs.dirs /\ fs.dirs = target.dirs
  BY <1>1 DEF ExecutesData, Alike
<1> QED
  BY <1>1, <1>2, <1>4, <1>5 DEF BadFd

LEMMA ReplayReadStep ==
  ASSUME NEW st, Inv(st), ReplayRead
  PROVE  Inv(st)'
<1>1. PICK fd, n :
        /\ mode \in {"default", "strict"} /\ More /\ rec.type = "read"
        /\ fd = map_find(rec.addr)
        /\ n = ReadCount(target, fds[fd].obj, fds[fd].pos, rec.len)
        /\ IF BadFd(fd) \/ fds[fd].obj \in target.dirs
           THEN Result(-1) /\ fds' = fds
           ELSE Result(n) /\ fds' = [fds EXCEPT ![fd].pos = @ + n]
        /\ map' = map /\ target' = target
  BY DEF ReplayRead, Replaying
<1>2. rec.type \in {"read", "write", "close"} /\ rec.type \in {"read", "write"}
  BY <1>1
<1>3. PICK p, fs, fs1 :
        /\ p \in Nat /\ p = offset - 1 /\ offset = p + 1 /\ fs = FsAt(trace, p)
        /\ fs1 = FsAt(trace, offset) /\ FileSystem(target, p) /\ FileSystem(target, offset)
        /\ Replayed /\ rec.len \in Nat
        /\ ExecutesData(fs, st[p], rec, fs1, st[offset])
  <2>1. rec.type # "close"
    BY <1>1
  <2> QED
    BY <1>1, <1>2, <2>1, DataNow
<1>4. CASE BadFd(fd) \/ fds[fd].obj \in target.dirs
  <2>1. ~(Unambiguous /\ NoHalfOpen)
    BY <1>1, <1>2, <1>4, DataFd
  <2>2. Result(-1) /\ fds' = fds
    BY <1>1, <1>4
  <2> QED
    BY <1>1, <1>2, <2>1, <2>2, BadStep
<1>5. CASE ~BadFd(fd) /\ fds[fd].obj \notin target.dirs
  <2>1. Result(n) /\ fds' = [fds EXCEPT ![fd].pos = @ + n]
    BY <1>1, <1>5
  <2>2. fds[fd].obj \in 1 .. Len(target.size) /\ fds[fd].pos \in Nat
    BY <1>3, <1>5, FdNow
  <2>3. n \in Nat
    BY <1>1, <1>3, <2>2, ReadCountType
  <2>4. ASSUME Unambiguous, NoHalfOpen, Sequential, ~rec.strays
        PROVE  n = rec.len /\ target'.size = FsAt(trace, offset).size
    <3>1. /\ target = fs /\ fds[fd].obj = st[p][rec.addr].obj
          /\ fds[fd].pos = st[p][rec.addr].pos
      BY <1>1, <1>2, <1>3, <2>4, DataFd
    <3>2. rec.len = ReadCount(fs, st[p][rec.addr].obj, st[p][rec.addr].pos, rec.len) /\ fs1 = fs
      BY <1>1, <1>3, <2>4 DEF ExecutesData
    <3> QED
      BY <1>1, <1>3, <3>1, <3>2
  <2>5. Alike(target, target') /\ FileSystem(target', offset)
    BY <1>1, <1>3 DEF Alike
  <2> QED
    BY <1>1, <1>2, <1>5, <2>1, <2>3, <2>4, <2>5, MovedStep
<1> QED
  BY <1>4, <1>5

LEMMA ReplayWriteStep ==
  ASSUME NEW st, Inv(st), ReplayWrite
  PROVE  Inv(st)'
<1>1. PICK fd :
        /\ mode \in {"default", "strict"} /\ More /\ rec.type = "write"
        /\ fd = map_find(rec.addr)
        /\ IF BadFd(fd) \/ fds[fd].obj \in target.dirs
           THEN Result(-1) /\ fds' = fds /\ target' = target
           ELSE /\ Result(rec.len)
                /\ fds' = [fds EXCEPT ![fd].pos = @ + rec.len]
                /\ target' = Write(target, fds[fd].obj, fds[fd].pos, rec.len)
        /\ map' = map
  BY DEF ReplayWrite, Replaying
<1>2. rec.type \in {"read", "write", "close"} /\ rec.type \in {"read", "write"}
  BY <1>1
<1>3. PICK p, fs, fs1 :
        /\ p \in Nat /\ p = offset - 1 /\ offset = p + 1 /\ fs = FsAt(trace, p)
        /\ fs1 = FsAt(trace, offset) /\ FileSystem(target, p) /\ FileSystem(target, offset)
        /\ Replayed /\ rec.len \in Nat
        /\ ExecutesData(fs, st[p], rec, fs1, st[offset])
  <2>1. rec.type # "close"
    BY <1>1
  <2> QED
    BY <1>1, <1>2, <2>1, DataNow
<1>4. CASE BadFd(fd) \/ fds[fd].obj \in target.dirs
  <2>1. ~(Unambiguous /\ NoHalfOpen)
    BY <1>1, <1>2, <1>4, DataFd
  <2>2. Result(-1) /\ fds' = fds /\ target' = target
    BY <1>1, <1>4
  <2> QED
    BY <1>1, <1>2, <2>1, <2>2, BadStep
<1>5. CASE ~BadFd(fd) /\ fds[fd].obj \notin target.dirs
  <2>1. /\ Result(rec.len) /\ fds' = [fds EXCEPT ![fd].pos = @ + rec.len]
        /\ target' = Write(target, fds[fd].obj, fds[fd].pos, rec.len)
    BY <1>1, <1>5
  <2>2. fds[fd].obj \in 1 .. Len(target.size) /\ fds[fd].pos \in Nat
    BY <1>3, <1>5, FdNow
  <2>3. offset \in Nat
    BY <1>3
  <2>4. Alike(target, target') /\ FileSystem(target', offset)
    BY <1>3, <2>1, <2>2, <2>3, WriteKeeps DEF Alike
  <2>5. ASSUME Unambiguous, NoHalfOpen, Sequential, ~rec.strays
        PROVE  target'.size = FsAt(trace, offset).size
    <3>1. /\ target = fs /\ fds[fd].obj = st[p][rec.addr].obj
          /\ fds[fd].pos = st[p][rec.addr].pos
      BY <1>1, <1>2, <1>3, <2>5, DataFd
    <3>2. fs1 = Write(fs, st[p][rec.addr].obj, st[p][rec.addr].pos, rec.len)
      BY <1>1, <1>3, <2>5 DEF ExecutesData
    <3> QED
      BY <1>3, <2>1, <3>1, <3>2
  <2> QED
    BY <1>1, <1>2, <1>3, <1>5, <2>1, <2>4, <2>5, MovedStep
<1> QED
  BY <1>4, <1>5

(* A close takes its own descriptor and leaves the others.                 *)
LEMMA ClosedKept ==
  ASSUME NEW st, Inv(st), mode \in {"default", "strict"}, More, Unambiguous, NoHalfOpen,
         rec.type = "close", NEW fd, fd = map_find(rec.addr),
         offset' = offset + 1, trace' = trace, map' = map, st[offset] = st[offset - 1],
         \A g \in Fds : g # fd => fds'[g] = fds[g]
  PROVE  Kept(st)'
<1>1. PICK i0 : /\ map_find(rec.addr) = map[i0].file_d
                /\ Serves(fds[map[i0].file_d], st[offset - 1][rec.addr], rec.by)
                /\ trace[rec.by].rec.addr = rec.addr
  <2>1. rec.type \in {"read", "write", "close"}
    OBVIOUS
  <2> QED
    BY <2>1, RightFd
<1>2. fds[fd].by = rec.by
  BY <1>1 DEF Serves
<1>3. ASSUME NEW k, NEW i, rec.addr # trace[k].rec.addr, map[i].file_d \in Fds,
             NEW v, Serves(fds[map[i].file_d], v, k)
      PROVE  fds'[map[i].file_d] = fds[map[i].file_d]
  <2>1. fds[map[i].file_d].by = k
    BY <1>3 DEF Serves
  <2>2. map[i].file_d # fd
    BY <1>1, <1>2, <1>3, <2>1
  <2> QED
    BY <1>3, <2>2
<1>4. PICK s : s = st[offset - 1] /\ s = st[offset]
  OBVIOUS
<1>5. \A k \in 1 .. offset - 1, i \in DOMAIN map :
        /\ trace[k].rec.type = "open" /\ Entry(i, trace[k].rec.addr)
        /\ ~(rec.type = "close" /\ rec.addr = trace[k].rec.addr)
        /\ map[i].file_d \in Fds
        /\ Serves(fds[map[i].file_d], st[offset - 1][trace[k].rec.addr], k)
        => /\ Serves(fds'[map[i].file_d], st[offset][trace[k].rec.addr], k)
           /\ /\ Sequential'
              /\ fds[map[i].file_d].pos = st[offset - 1][trace[k].rec.addr].pos
              => fds'[map[i].file_d].pos = st[offset][trace[k].rec.addr].pos
  BY <1>3, <1>4
<1>6. rec.type # "open"
  OBVIOUS
<1> QED
  BY <1>5, <1>6, KeptStep

LEMMA ReplayCloseStep ==
  ASSUME NEW st, Inv(st), ReplayClose
  PROVE  Inv(st)'
<1>1. PICK fd :
        /\ mode \in {"default", "strict"} /\ More /\ rec.type = "close"
        /\ fd = map_find(rec.addr)
        /\ IF BadFd(fd) THEN Result(-1) /\ fds' = fds
           ELSE /\ Result(0) \/ (rec.ret < 0 /\ Result(-1))
                /\ fds' = [fds EXCEPT ![fd] = NoFile]
        /\ map' = map /\ target' = target
  BY DEF ReplayClose, Replaying
<1>2. rec.type \in {"read", "write", "close"}
  BY <1>1
<1>3. PICK p, fs, fs1 :
        /\ p \in Nat /\ p = offset - 1 /\ offset = p + 1 /\ fs = FsAt(trace, p)
        /\ fs1 = FsAt(trace, offset) /\ FileSystem(fs, p)
        /\ FileSystem(target, p) /\ FileSystem(target, offset)
        /\ (NoHalfOpen => Alike(fs, target)) /\ Replayed
        /\ rec.ret <= 0 /\ fs1 = fs /\ st[offset] = st[p]
  BY <1>1, <1>2, DataNow
<1>4. CASE BadFd(fd)
  <2>1. ~(Unambiguous /\ NoHalfOpen)
    BY <1>1, <1>2, <1>4, RightFd DEF BadFd, Serves
  <2>2. Result(-1) /\ fds' = fds
    BY <1>1, <1>4
  <2> QED
    BY <1>1, <1>2, <2>1, <2>2, BadStep
<1>5. CASE ~BadFd(fd)
  <2>1. PICK ret \in {0, -1} : /\ Result(ret) /\ (ret = -1 => rec.ret < 0)
                              /\ fds' = [fds EXCEPT ![fd] = NoFile]
    BY <1>1, <1>5
  <2>2. fd \in Fds /\ fds \in [Fds -> OpenFiles] /\ NoFile \in OpenFiles /\ ~IsOpen(NoFile)
    BY <1>5, BoundsAssumption DEF BadFd, Inv, TypeOK, OpenFiles, NoFile, IsOpen
  <2>3. /\ fds' \in [Fds -> OpenFiles] /\ fds'[fd] = NoFile
        /\ \A g \in Fds : g # fd => fds'[g] = fds[g]
    BY <2>1, <2>2
  <2>4. \A g \in Fds : IsOpen(fds'[g]) =>
          g <= offset /\ fds'[g].obj \in 1 .. Len(target'.size)
    <3>1. \A g \in Fds : IsOpen(fds'[g]) => IsOpen(fds[g]) /\ fds'[g] = fds[g]
      BY <2>2, <2>3
    <3> QED
      BY <1>1, <1>3, <3>1, BoundsAssumption DEF Replayed, Fds
  <2>5. \A i \in DOMAIN map' : \E k \in 1 .. offset :
          trace[k].rec.type = "open" /\ trace[k].rec.addr = map'[i].file_addr
    <3>1. \A k \in 1 .. p : k \in 1 .. offset
      BY <1>3
    <3> QED
      BY <1>1, <1>3, <3>1 DEF Replayed
  <2>6. map' \in Seq([file_addr : Addrs, file_d : Fds \cup {-1}])
    BY <1>1 DEF Inv, TypeOK
  <2>7. trace' = trace /\ offset' = offset + 1
    BY <2>1 DEF Result, traced
  <2>8. /\ NoHalfOpen' => NoHalfOpen
        /\ Sequential' => Sequential
        /\ Unambiguous' => Unambiguous
    BY <1>1, <2>7, StaysOrderly, StaysUnambiguous DEF Inv
  <2>9. NoHalfOpen' => Alike(fs1, target')
    BY <1>1, <1>3, <2>8
  <2>10. NoHalfOpen' /\ Unambiguous' => Kept(st)'
    BY <1>1, <1>3, <2>3, <2>7, <2>8, ClosedKept
  <2>11. NoHalfOpen' /\ Unambiguous' /\ Sequential' => target'.size = fs1.size
    BY <1>1, <1>3, <2>8 DEF Inv, ReplayInv
  <2>12. ret # rec.ret => Harmless(rec)
    <3>1. rec.ret \in Int
      BY <1>1, ReplayNow DEF Records
    <3> QED
      BY <1>1, <1>3, <2>1, <3>1 DEF Harmless
  <2> QED
    BY <1>1, <1>3, <2>1, <2>3, <2>4, <2>5, <2>6, <2>9, <2>10, <2>11, <2>12, ReplayStep
<1> QED
  BY <1>4, <1>5

-----------------------------------------------------------------------------
(* The record of an open: an entry more, and if it succeeded a descriptor. *)
LEMMA MapAdded ==
  ASSUME TypeOK, NEW addr \in Addrs, NEW fd \in Fds \cup {-1}, map_add(addr, fd)
  PROVE  /\ map' \in Seq([file_addr : Addrs, file_d : Fds \cup {-1}])
         /\ Len(map) \in Nat /\ DOMAIN map = 1 .. Len(map)
         /\ DOMAIN map' = 1 .. Len(map) + 1
         /\ map'[Len(map) + 1].file_addr = addr /\ map'[Len(map) + 1].file_d = fd
         /\ \A i \in DOMAIN map : map'[i] = map[i]
<1>1. PICK S : S = [file_addr : Addrs, file_d : Fds \cup {-1}] /\ map \in Seq(S)
  BY DEF TypeOK
<1>2. PICK e \in S : /\ e = [file_addr |-> addr, file_d |-> fd]
                     /\ e.file_addr = addr /\ e.file_d = fd
  <2>1. /\ [file_addr |-> addr, file_d |-> fd] \in S
        /\ [file_addr |-> addr, file_d |-> fd].file_addr = addr
        /\ [file_addr |-> addr, file_d |-> fd].file_d = fd
    BY <1>1
  <2> QED
    BY <2>1, Zenon
<1>3. map' = Append(map, e)
  BY <1>2 DEF map_add
<1>4. /\ map' \in Seq(S) /\ Len(map) \in Nat /\ DOMAIN map = 1 .. Len(map)
      /\ DOMAIN map' = 1 .. Len(map) + 1 /\ map'[Len(map) + 1] = e
      /\ \A i \in 1 .. Len(map) : map'[i] = map[i]
  BY <1>1, <1>2, <1>3
<1> QED
  BY <1>1, <1>2, <1>4

LEMMA LowestFreeFd ==
  ASSUME NEW st, Inv(st), Replayed, offset \in 1 .. MaxOps
  PROVE  LowestFree \in Fds /\ ~IsOpen(fds[LowestFree]) /\ LowestFree <= offset
<1>1. PICK S : S = {fd \in Fds : ~IsOpen(fds[fd])}
  OBVIOUS
<1>2. offset \in S
  <2>1. offset \in Fds /\ ~(offset < offset)
    BY DEF Fds
  <2> QED
    BY <1>1, <2>1 DEF Replayed
<1>3. S \subseteq Nat
  BY <1>1, BoundsAssumption DEF Fds
<1>4. \E fd \in S : \A g \in S : fd <= g
  BY <1>2, <1>3, LeastExists
<1>5. \E fd \in Fds : ~IsOpen(fds[fd]) /\ \A g \in Fds : ~IsOpen(fds[g]) => fd <= g
  BY <1>1, <1>4
<1>6. /\ LowestFree \in Fds /\ ~IsOpen(fds[LowestFree])
      /\ \A g \in Fds : ~IsOpen(fds[g]) => LowestFree <= g
  BY <1>5, Zenon DEF LowestFree
<1> QED
  BY <1>1, <1>2, <1>6

LEMMA OpenNow ==
  ASSUME NEW st, Inv(st), mode \in {"default", "strict"}, More, rec.type = "open"
  PROVE  \E p \in Nat : \E fs, fs1 :
           /\ p = offset - 1 /\ offset = p + 1 /\ offset \in 1 .. MaxOps
           /\ offset \in 1 .. Len(trace)
           /\ fs = FsAt(trace, p) /\ FileSystem(fs, p) /\ fs1 = FsAt(trace, offset)
           /\ FileSystem(target, p) /\ FileSystem(target, offset)
           /\ (NoHalfOpen => Alike(fs, target)) /\ Replayed /\ st[p] \in Views
           /\ rec.addr \in Addrs /\ rec.name \in Names
           /\ ExecutesOpen(fs, st[p], offset, rec, fs1, st[offset])
           /\ rec.fails => rec.ret < 0
<1>1. PICK p, fs, fs1 :
        /\ p \in Nat /\ p = offset - 1 /\ offset = p + 1 /\ Replayed /\ fs = FsAt(trace, p)
        /\ fs1 = FsAt(trace, offset) /\ FileSystem(fs, p) /\ st[p] \in Views
        /\ offset \in 1 .. MaxOps /\ offset \in 1 .. Len(trace)
  BY ReplayNow
<1>2. Executes(fs, st[p], offset, rec, fs1, st[offset])
  BY <1>1, ReplayNow
<1>3. /\ ExecutesOpen(fs, st[p], offset, rec, fs1, st[offset])
      /\ rec.addr \in Addrs /\ rec.name \in Names
      /\ rec.fails => rec.ret < 0
  BY <1>2 DEF Executes, ExecutesOpen
<1>4. FileSystem(target, p)
  BY <1>1 DEF Replayed
<1>5. FileSystem(target, offset)
  BY <1>1, <1>4, FileSystemGrows
<1>6. NoHalfOpen => Alike(fs, target)
  BY <1>1 DEF Inv, ReplayInv
<1> QED
  BY <1>1, <1>3, <1>4, <1>5, <1>6

LEMMA OpenedKept ==
  ASSUME NEW st, Inv(st), mode \in {"default", "strict"}, More, Unambiguous, NoHalfOpen,
         rec.type = "open", offset' = offset + 1, trace' = trace,
         NEW fd \in Fds \cup {-1}, map_add(rec.addr, fd),
         \A g \in Fds : IsOpen(fds[g]) => fds'[g] = fds[g],
         ~rec.fails => /\ fd \in Fds /\ Serves(fds'[fd], st[offset][rec.addr], offset)
                       /\ fds'[fd].pos = st[offset][rec.addr].pos
  PROVE  Kept(st)'
<1>1. PICK o, s, s1, a :
        /\ o \in Nat /\ o = offset /\ offset' - 1 = o /\ o \in 1 .. Len(trace)
        /\ o - 1 \in Nat /\ a = rec.addr /\ a \in Addrs /\ Replayed
        /\ s = st[o - 1] /\ s \in Views /\ s1 = st[o]
        /\ s1 = s \/ \E v : s1 = At(s, a, v)
  <2>1. PICK p, fs, fs1 :
          /\ p \in Nat /\ p = offset - 1 /\ offset = p + 1 /\ offset \in 1 .. Len(trace)
          /\ Replayed /\ st[p] \in Views /\ rec.addr \in Addrs
          /\ ExecutesOpen(fs, st[p], offset, rec, fs1, st[offset])
    BY OpenNow
  <2>2. \/ st[offset] = st[p]
        \/ \E v : st[offset] = At(st[p], rec.addr, v)
    BY <2>1 DEF ExecutesOpen, At
  <2>3. trace' = trace /\ offset' - 1 = offset
    BY <2>1
  <2> QED
    BY <2>1, <2>2, <2>3
<1>2. \A b \in Addrs : b # a => s1[b] = s[b]
  BY <1>1 DEF Views, At
<1>3. PICK n \in Nat :
        /\ DOMAIN map = 1 .. n /\ DOMAIN map' = 1 .. n + 1
        /\ map'[n + 1].file_addr = a /\ map'[n + 1].file_d = fd
        /\ \A i \in DOMAIN map : map'[i] = map[i]
  BY <1>1, MapAdded DEF Inv
<1>4. ASSUME NEW k \in 1 .. o - 1, trace[k].rec.type = "open"
      PROVE  trace[k].rec.addr \in Addrs /\ trace[k].rec.addr # a
  <2>1. k \in 1 .. Len(trace) /\ k \in 1 .. offset /\ o \in 1 .. offset /\ k # o
    BY <1>1
  <2>2. trace[k].rec.addr \in Addrs
    BY <1>4, <2>1, OpenAddr
  <2>3. trace[o].rec.type = "open" /\ trace[o].rec.addr = a
    BY <1>1 DEF rec
  <2> QED
    BY <1>1, <1>4, <2>1, <2>2, <2>3, OneOpen
<1>5. \A i \in DOMAIN map : map[i].file_addr # a
  <2>1. \A i \in DOMAIN map : \E k \in 1 .. o - 1 :
          trace[k].rec.type = "open" /\ trace[k].rec.addr = map[i].file_addr
    BY <1>1 DEF Replayed
  <2> QED
    BY <1>4, <2>1
<1>6. Entry(n + 1, a)'
  BY <1>3, <1>5 DEF Entry
<1>7. \A i, b : Entry(i, b) /\ b # a => Entry(i, b)'
  BY <1>3 DEF Entry
<1>8. \A k \in 1 .. o - 1 : \A b : ~ClosedBefore(k, b)' => ~ClosedBefore(k, b)
  BY <1>1 DEF ClosedBefore
<1>9. Sequential' => Sequential
  BY StaysOrderly DEF Inv
<1>10. ASSUME NEW k \in 1 .. o, trace[k].rec.type = "open"
       PROVE  \E i \in DOMAIN map' :
                /\ Entry(i, trace[k].rec.addr)'
                /\ ~trace[k].rec.fails /\ ~ClosedBefore(k, trace[k].rec.addr)' =>
                     /\ map'[i].file_d \in Fds
                     /\ Serves(fds'[map'[i].file_d], s1[trace[k].rec.addr], k)
                     /\ Sequential' =>
                          fds'[map'[i].file_d].pos = s1[trace[k].rec.addr].pos
  <2>1. CASE k = o
    <3>1. trace[k].rec = rec /\ trace[k].rec.addr = a /\ n + 1 \in DOMAIN map'
      BY <1>1, <1>3, <2>1 DEF rec
    <3>2. ~rec.fails => /\ map'[n + 1].file_d \in Fds
                        /\ Serves(fds'[map'[n + 1].file_d], s1[a], k)
                        /\ fds'[map'[n + 1].file_d].pos = s1[a].pos
      BY <1>1, <1>3, <2>1
    <3> QED
      BY <1>6, <3>1, <3>2
  <2>2. CASE k \in 1 .. o - 1
    <3>1. PICK b : b = trace[k].rec.addr /\ b \in Addrs /\ b # a
      BY <1>4, <1>10, <2>2
    <3>2. Kept(st)
      BY DEF Inv, ReplayInv
    <3>3. PICK i \in DOMAIN map :
            /\ Entry(i, b)
            /\ ~trace[k].rec.fails /\ ~ClosedBefore(k, b) =>
                 /\ map[i].file_d \in Fds /\ Serves(fds[map[i].file_d], s[b], k)
                 /\ Sequential => fds[map[i].file_d].pos = s[b].pos
      BY <1>1, <1>10, <2>2, <3>1, <3>2 DEF Kept
    <3>4. i \in DOMAIN map' /\ map'[i] = map[i] /\ Entry(i, b)'
      BY <1>3, <1>7, <3>1, <3>3
    <3>5. ASSUME ~trace[k].rec.fails, ~ClosedBefore(k, b)'
          PROVE  /\ map'[i].file_d \in Fds /\ Serves(fds'[map'[i].file_d], s1[b], k)
                 /\ Sequential' => fds'[map'[i].file_d].pos = s1[b].pos
      <4>1. /\ map[i].file_d \in Fds /\ Serves(fds[map[i].file_d], s[b], k)
            /\ Sequential => fds[map[i].file_d].pos = s[b].pos
        BY <1>8, <2>2, <3>3, <3>5
      <4>2. fds'[map[i].file_d] = fds[map[i].file_d]
        BY <4>1 DEF Serves
      <4> QED
        BY <1>2, <1>9, <3>1, <3>4, <4>1, <4>2
    <3> QED
      BY <3>1, <3>4, <3>5
  <2> QED
    BY <1>1, <2>1, <2>2
<1>11. trace' = trace /\ offset' - 1 = o /\ st[offset' - 1] = s1
  BY <1>1
<1> QED
  BY <1>10, <1>11 DEF Kept, Serves, IsOpen

(* What the file system of an open that is not refused is.                 *)
LEMMA ReachedType ==
  ASSUME NEW st, Inv(st), mode \in {"default", "strict"}, More, rec.type = "open",
         NEW tg, tg = Reached
  PROVE  /\ FileSystem(tg, offset) /\ Len(target.size) <= Len(tg.size)
         /\ tg.tree[rec.name] \in 1 .. Len(tg.size)
         /\ Len(target.size) \in Nat /\ Len(tg.size) \in 0 .. MaxOps
<1>1. PICK p :
        /\ p \in Nat /\ offset = p + 1 /\ offset \in 1 .. MaxOps
        /\ FileSystem(target, p) /\ FileSystem(target, offset) /\ rec.name \in Names
  BY OpenNow
<1>2. PICK m \in Nat : m = Len(target.size) /\ m <= p
  <2>1. target.size \in Seq(Nat) /\ Len(target.size) <= p
    BY <1>1 DEF FileSystem
  <2> QED
    BY <2>1
<1>3. CASE Free(target, rec.name)
  <2>1. tg = Create(target, rec.name)
    BY <1>3 DEF Reached
  <2>2. /\ FileSystem(tg, p + 1) /\ Len(tg.size) = m + 1 /\ tg.tree[rec.name] = m + 1
    BY <1>1, <1>2, <2>1, CreateKeeps
  <2> QED
    BY <1>1, <1>2, <2>2, BoundsAssumption
<1>4. CASE ~Free(target, rec.name)
  <2>1. tg = target
    BY <1>4 DEF Reached
  <2>2. target.tree[rec.name] \in 0 .. m /\ target.tree[rec.name] # 0
    BY <1>1, <1>2, <1>4 DEF FileSystem, Free
  <2>3. target.tree[rec.name] \in 1 .. m
    BY <1>2, <2>2
  <2> QED
    BY <1>1, <1>2, <2>1, <2>3, BoundsAssumption
<1> QED
  BY <1>3, <1>4

(* In step, it is that of the kernel's open, and so is the file opened.    *)
LEMMA ReachedAlike ==
  ASSUME NEW st, Inv(st), mode \in {"default", "strict"}, More, rec.type = "open",
         NoHalfOpen, NEW tg, tg = Reached
  PROVE  /\ rec.creat <=> Free(target, rec.name)
         /\ Alike(FsAt(trace, offset), tg)
         /\ target = FsAt(trace, offset - 1) => tg = FsAt(trace, offset)
         /\ ~rec.fails =>
              LET f == NewFile(tg.tree[rec.name], rec.by) IN
              /\ rec.ret = 0 /\ Serves(f, st[offset][rec.addr], offset)
              /\ f.pos = st[offset][rec.addr].pos
<1>1. PICK p, fs, fs1 :
        /\ p \in Nat /\ p = offset - 1 /\ offset = p + 1
        /\ fs = FsAt(trace, p) /\ FileSystem(fs, p) /\ fs1 = FsAt(trace, offset)
        /\ FileSystem(target, p) /\ Alike(fs, target) /\ st[p] \in Views
        /\ rec.addr \in Addrs /\ rec.name \in Names
        /\ ExecutesOpen(fs, st[p], offset, rec, fs1, st[offset])
  BY OpenNow
<1>2. /\ rec.by = offset
      /\ rec.creat <=> Free(fs, rec.name)
      /\ fs1 = IF rec.creat THEN Create(fs, rec.name) ELSE fs
      /\ ~rec.fails =>
           /\ rec.ret = 0
           /\ st[offset] =
                At(st[p], rec.addr, [obj |-> fs1.tree[rec.name], pos |-> 0, by |-> offset])
  BY <1>1 DEF ExecutesOpen, At
<1>3. Free(fs, rec.name) <=> Free(target, rec.name)
  BY <1>1, AlikePossible
<1>4. Alike(fs1, tg) /\ (target = fs => tg = fs1)
  <2>1. CASE Free(target, rec.name)
    <3>1. tg = Create(target, rec.name) /\ fs1 = Create(fs, rec.name)
      BY <1>2, <1>3, <2>1 DEF Reached
    <3>2. Alike(fs1, tg)
      BY <1>1, <3>1, AlikeAfter
    <3> QED
      BY <3>1, <3>2
  <2>2. CASE ~Free(target, rec.name)
    <3>1. tg = target /\ fs1 = fs
      BY <1>2, <1>3, <2>2 DEF Reached
    <3> QED
      BY <1>1, <3>1
  <2> QED
    BY <2>1, <2>2
<1>5. ASSUME ~rec.fails, NEW f, f = NewFile(tg.tree[rec.name], rec.by)
      PROVE  /\ rec.ret = 0 /\ Serves(f, st[offset][rec.addr], offset)
             /\ f.pos = st[offset][rec.addr].pos
  <2>1. tg.tree = fs1.tree
    BY <1>4 DEF Alike
  <2>2. PICK v : v = [obj |-> fs1.tree[rec.name], pos |-> 0, by |-> offset]
    OBVIOUS
  <2>3. st[offset][rec.addr] = v
    BY <1>1, <1>2, <1>5, <2>2 DEF Views, At
  <2>4. f.obj = v.obj /\ f.pos = v.pos /\ f.by = offset /\ f.refs = 1
    BY <1>2, <1>5, <2>1, <2>2 DEF NewFile
  <2> QED
    BY <1>2, <1>5, <2>2, <2>3, <2>4 DEF Serves, IsOpen
<1> QED
  BY <1>1, <1>2, <1>3, <1>4, <1>5

(* The entry of an open in the map.                                        *)
LEMMA OpenMapped ==
  ASSUME NEW st, Inv(st), mode \in {"default", "strict"}, More, rec.type = "open",
         NEW fd \in Fds \cup {-1}, map_add(rec.addr, fd)
  PROVE  /\ map' \in Seq([file_addr : Addrs, file_d : Fds \cup {-1}])
         /\ \A i \in DOMAIN map' : \E k \in 1 .. offset :
              trace[k].rec.type = "open" /\ trace[k].rec.addr = map'[i].file_addr
<1>1. PICK p : p \in Nat /\ offset = p + 1 /\ p = offset - 1 /\ Replayed /\ rec.addr \in Addrs
  BY OpenNow
<1>2. /\ map' \in Seq([file_addr : Addrs, file_d : Fds \cup {-1}])
      /\ Len(map) \in Nat /\ DOMAIN map = 1 .. Len(map)
      /\ DOMAIN map' = 1 .. Len(map) + 1
      /\ map'[Len(map) + 1].file_addr = rec.addr
      /\ \A i \in DOMAIN map : map'[i] = map[i]
  BY <1>1, MapAdded DEF Inv
<1>3. \A k \in 1 .. p : k \in 1 .. offset
  BY <1>1
<1>4. \A i \in DOMAIN map : \E k \in 1 .. offset :
        trace[k].rec.type = "open" /\ trace[k].rec.addr = map'[i].file_addr
  BY <1>1, <1>2, <1>3 DEF Replayed
<1>5. trace[offset].rec.type = "open" /\ trace[offset].rec.addr = rec.addr
      /\ offset \in 1 .. offset
  BY <1>1 DEF rec
<1>6. \A i \in DOMAIN map' : i \in DOMAIN map \/ i = Len(map) + 1
  BY <1>2
<1> QED
  BY <1>2, <1>4, <1>5, <1>6

(* An open that fails again, or for the first time.                        *)
LEMMA OpenFails ==
  ASSUME NEW st, Inv(st), mode \in {"default", "strict"}, More, rec.type = "open",
         Result(0), map_add(rec.addr, -1), fds' = fds,
         target' = target \/ (rec.creat /\ target' = Reached),
         rec.fails \/ (Free(target, rec.name) /\ ~rec.creat)
  PROVE  Inv(st)'
<1>1. PICK p, fs :
        /\ p \in Nat /\ p = offset - 1 /\ offset = p + 1
        /\ fs = FsAt(trace, p) /\ FileSystem(fs, p)
        /\ FileSystem(target, p) /\ FileSystem(target, offset)
        /\ (NoHalfOpen => Alike(fs, target)) /\ Replayed
        /\ ExecutesOpen(fs, st[p], offset, rec, FsAt(trace, offset), st[offset])
        /\ rec.fails => rec.ret < 0
  BY OpenNow
<1>2. trace' = trace /\ offset' = offset + 1 /\ -1 \in Fds \cup {-1}
  BY DEF Result, traced
<1>3. PICK tg : /\ tg = Reached /\ FileSystem(tg, offset)
                /\ Len(target.size) <= Len(tg.size)
                /\ Len(target.size) \in Nat /\ Len(tg.size) \in Nat
  BY ReachedType
<1>4. /\ FileSystem(target', offset) /\ Len(target.size) <= Len(target'.size)
      /\ Len(target'.size) \in Nat
  BY <1>1, <1>3
<1>5. \A fd \in Fds : IsOpen(fds'[fd]) =>
        fd <= offset /\ fds'[fd].obj \in 1 .. Len(target'.size)
  BY <1>1, <1>3, <1>4, BoundsAssumption DEF Replayed, Fds
<1>6. ASSUME NoHalfOpen'
      PROVE  /\ NoHalfOpen /\ Alike(fs, target) /\ rec.fails
             /\ target' = target /\ FsAt(trace, offset) = fs
  <2>1. NoHalfOpen /\ ~(rec.fails /\ rec.creat)
    BY <1>2, <1>6, StaysOrderly DEF Inv
  <2>2. rec.creat <=> Free(target, rec.name)
    BY <1>3, <2>1, ReachedAlike
  <2>3. rec.fails /\ ~rec.creat
    BY <2>1, <2>2
  <2> QED
    BY <1>1, <2>1, <2>3 DEF ExecutesOpen
<1>7. ASSUME NoHalfOpen', Unambiguous'
      PROVE  Kept(st)'
  <2>1. Unambiguous
    BY <1>2, <1>7, StaysUnambiguous DEF Inv
  <2> QED
    BY <1>2, <1>6, <1>7, <2>1, OpenedKept
<1>8. ASSUME NoHalfOpen', Unambiguous', Sequential'
      PROVE  target'.size = FsAt(trace, offset).size
  <2>1. Unambiguous /\ Sequential
    BY <1>2, <1>8, StaysUnambiguous, StaysOrderly DEF Inv
  <2> QED
    BY <1>1, <1>6, <1>8, <2>1 DEF Inv, ReplayInv
<1>9. NoHalfOpen' => Harmless(rec)
  BY <1>1, <1>6 DEF Harmless
<1>10. fds' \in [Fds -> OpenFiles]
  BY DEF Inv, TypeOK
<1>11. /\ map' \in Seq([file_addr : Addrs, file_d : Fds \cup {-1}])
       /\ \A i \in DOMAIN map' : \E k \in 1 .. offset :
            trace[k].rec.type = "open" /\ trace[k].rec.addr = map'[i].file_addr
  BY <1>2, OpenMapped
<1>12. NoHalfOpen' => Alike(FsAt(trace, offset), target')
  BY <1>6
<1> QED
  BY <1>4, <1>5, <1>7, <1>8, <1>9, <1>10, <1>11, <1>12, ReplayStep

LEMMA OpenSucceeds ==
  ASSUME NEW st, Inv(st), mode \in {"default", "strict"}, More, rec.type = "open",
         Result(0), target' = Reached, map_add(rec.addr, LowestFree),
         fds' = [fds EXCEPT ![LowestFree] = NewFile(target'.tree[rec.name], rec.by)],
         ~rec.fails
  PROVE  Inv(st)'
<1>1. PICK p, fs :
        /\ p \in Nat /\ p = offset - 1 /\ offset = p + 1 /\ offset \in 1 .. MaxOps
        /\ fs = FsAt(trace, p) /\ FileSystem(fs, p) /\ FileSystem(target, p)
        /\ (NoHalfOpen => Alike(fs, target)) /\ Replayed
        /\ ExecutesOpen(fs, st[p], offset, rec, FsAt(trace, offset), st[offset])
  BY OpenNow
<1>2. trace' = trace /\ offset' = offset + 1
  BY DEF Result, traced
<1>3. PICK l \in Fds : l = LowestFree /\ ~IsOpen(fds[l]) /\ l <= offset
  BY <1>1, LowestFreeFd
<1>4. PICK tg :
        /\ tg = target' /\ tg = Reached /\ FileSystem(tg, offset)
        /\ Len(target.size) <= Len(tg.size) /\ tg.tree[rec.name] \in 1 .. Len(tg.size)
        /\ Len(target.size) \in Nat /\ Len(tg.size) \in 0 .. MaxOps
  BY ReachedType
<1>5. PICK f : f = NewFile(tg.tree[rec.name], rec.by)
  OBVIOUS
<1>6. f \in OpenFiles /\ f.obj = tg.tree[rec.name]
  <2>1. rec.by = offset
    BY <1>1 DEF ExecutesOpen
  <2> QED
    BY <1>1, <1>4, <1>5, <2>1, BoundsAssumption DEF NewFile, OpenFiles
<1>7. fds \in [Fds -> OpenFiles]
  BY DEF Inv, TypeOK
<1>8. /\ fds' \in [Fds -> OpenFiles] /\ fds'[l] = f
      /\ \A g \in Fds : g # l => fds'[g] = fds[g]
  BY <1>3, <1>4, <1>5, <1>6, <1>7
<1>9. \A fd \in Fds : IsOpen(fds'[fd]) =>
        fd <= offset /\ fds'[fd].obj \in 1 .. Len(target'.size)
  <2>1. \A fd \in Fds : IsOpen(fds[fd]) =>
          fd <= offset /\ fds[fd].obj \in 1 .. Len(tg.size)
    BY <1>1, <1>4, BoundsAssumption DEF Replayed, Fds
  <2>2. \A fd \in Fds : fds'[fd] = fds[fd] \/ (fd = l /\ fds'[fd] = f)
    BY <1>8
  <2> QED
    BY <1>3, <1>4, <1>6, <2>1, <2>2
<1>10. /\ map' \in Seq([file_addr : Addrs, file_d : Fds \cup {-1}])
       /\ \A i \in DOMAIN map' : \E k \in 1 .. offset :
            trace[k].rec.type = "open" /\ trace[k].rec.addr = map'[i].file_addr
  BY <1>3, OpenMapped
<1>11. ASSUME NoHalfOpen'
       PROVE  /\ NoHalfOpen /\ Alike(FsAt(trace, offset), target')
              /\ target = fs => target' = FsAt(trace, offset)
              /\ rec.ret = 0 /\ Serves(f, st[offset][rec.addr], offset)
              /\ f.pos = st[offset][rec.addr].pos
  <2>1. NoHalfOpen
    BY <1>2, <1>11, StaysOrderly DEF Inv
  <2> QED
    BY <1>1, <1>4, <1>5, <2>1, ReachedAlike
<1>12. ASSUME NoHalfOpen', Unambiguous'
       PROVE  Kept(st)'
  <2>1. Unambiguous
    BY <1>2, <1>12, StaysUnambiguous DEF Inv
  <2>2. \A g \in Fds : IsOpen(fds[g]) => fds'[g] = fds[g]
    BY <1>3, <1>8
  <2>3. Serves(fds'[l], st[offset][rec.addr], offset) /\ fds'[l].pos = st[offset][rec.addr].pos
    BY <1>8, <1>11, <1>12
  <2>4. map_add(rec.addr, l) /\ l \in Fds \cup {-1} /\ NoHalfOpen
    BY <1>3, <1>11, <1>12
  <2> QED
    BY <1>2, <2>1, <2>2, <2>3, <2>4, OpenedKept
<1>13. ASSUME NoHalfOpen', Unambiguous', Sequential'
       PROVE  target'.size = FsAt(trace, offset).size
  <2>1. Unambiguous /\ Sequential
    BY <1>2, <1>13, StaysUnambiguous, StaysOrderly DEF Inv
  <2>2. target.size = fs.size /\ Alike(fs, target)
    BY <1>1, <1>11, <1>13, <2>1 DEF Inv, ReplayInv
  <2>3. target = fs
    BY <1>1, <2>2, AlikeSame
  <2> QED
    BY <1>11, <1>13, <2>3
<1>14. NoHalfOpen' => rec.ret = 0 /\ Alike(FsAt(trace, offset), target')
  BY <1>11
<1> QED
  BY <1>4, <1>8, <1>9, <1>10, <1>12, <1>13, <1>14, ReplayStep

LEMMA ReplayOpenStep ==
  ASSUME NEW st, Inv(st), ReplayOpen
  PROVE  Inv(st)'
<1>1. /\ mode \in {"default", "strict"} /\ More /\ rec.type = "open" /\ Result(0)
  BY DEF ReplayOpen, Replaying
<1>2. CASE rec.fails \/ (Free(target, rec.name) /\ ~rec.creat)
  BY <1>1, <1>2, OpenFails DEF ReplayOpen
<1>3. CASE ~(rec.fails \/ (Free(target, rec.name) /\ ~rec.creat))
  <2>1. /\ target' = Reached /\ map_add(rec.addr, LowestFree) /\ ~rec.fails
        /\ fds' = [fds EXCEPT ![LowestFree] = NewFile(target'.tree[rec.name], rec.by)]
    BY <1>3 DEF ReplayOpen
  <2> QED
    BY <1>1, <2>1, OpenSucceeds
<1> QED
  BY <1>2, <1>3

-----------------------------------------------------------------------------
(* The invariant: there is a history of the files that were open.          *)
TreplayInv == \E st : Inv(st)

LEMMA ReplayRecordStep ==
  ASSUME NEW st, Inv(st), replay_record
  PROVE  Inv(st)'
BY ReplayOpenStep, ReplayReadStep, ReplayWriteStep, ReplayCloseStep, ReplayReaddirStep,
   ReplayMkdirStep, ReplayUnlinkStep, ReplayRmdirStep, ReplayLinkStep, ReplayRenameStep
   DEF replay_record

LEMMA TracedInv ==
  ASSUME NEW st, Inv(st), Traced
  PROVE  TreplayInv'
<1>1. TypeOK' /\ \E st1 : TraceInv(st1)'
  BY TracedStep DEF Inv
<1>2. PICK st1 : TraceInv(st1)'
  BY <1>1
<1>3. /\ mode = "trace" /\ mode' = "trace" /\ offset' = offset
      /\ map' = map /\ fds' = fds /\ target' = target /\ deviated' = deviated
  BY DEF Traced, trfs_open, trfs_read, trfs_write, trfs_readdir, trfs_flush, Duplicate,
         trfs_mkdir, trfs_unlink, trfs_rmdir, trfs_link, trfs_rename, generic_file_llseek,
         Refused, RefusedOn, Reported, Record, replayed
<1>4. NotReplayed /\ offset = 1
  BY <1>3 DEF Inv, ReplayInv
<1>5. NotReplayed' /\ offset' = 1
  BY <1>3, <1>4 DEF NotReplayed
<1>6. ReplayInv(st1)'
  BY <1>3, <1>5 DEF ReplayInv
<1>7. DeviationsAreFailures'
  BY <1>5 DEF DeviationsAreFailures, NotReplayed
<1> QED
  BY <1>1, <1>2, <1>6, <1>7 DEF TreplayInv, Inv

LEMMA EmptyFileSystem == FileSystem(Empty(Names), 0)
<1>1. PICK t : t = [n \in Names |-> 0] /\ t \in [Names -> {0}]
  <2>1. [n \in Names |-> 0] \in [Names -> {0}]
    OBVIOUS
  <2> QED
    BY <2>1, Zenon
<1>2. Empty(Names) = FS(t, <<>>, {})
  BY <1>1 DEF Empty, FS
<1>3. Fields(t, <<>>, {}, 0)
  BY <1>1 DEF Fields
<1> QED
  BY <1>2, <1>3, FileSystemFields

LEMMA StartStep ==
  ASSUME NEW st, Inv(st), NEW m \in Modes, Start(m)
  PROVE  Inv(st)'
<1>1. /\ mode = "trace" /\ mode' = m /\ m \in {"default", "strict", "show"}
      /\ lower' = lower /\ files' = files /\ trace' = trace /\ offset' = offset
      /\ map' = map /\ fds' = fds /\ target' = target /\ deviated' = deviated
  BY BoundsAssumption DEF Start, traced, replayed
<1>2. NotReplayed /\ offset = 1
  BY <1>1 DEF Inv, ReplayInv
<1>3. NotReplayed' /\ offset' = 1
  BY <1>1, <1>2 DEF NotReplayed
<1>4. TypeOK'
  BY <1>1 DEF Inv, TypeOK
<1>5. TraceInv(st)'
  BY <1>1 DEF Inv, TraceInv, Execution, FsAt, IsOpen, Opened
<1>6. offset' - 1 = 0 /\ FsAt(trace', 0) = Empty(Names) /\ target' = Empty(Names)
  BY <1>3 DEF FsAt, NotReplayed
<1>7. Replayed'
  <2>1. FileSystem(target', offset' - 1)
    BY <1>6, EmptyFileSystem
  <2>2. \A fd \in Fds : ~IsOpen(fds'[fd])
    BY <1>3 DEF NotReplayed, IsOpen, NoFile
  <2>3. DOMAIN map' = {}
    BY <1>3 DEF NotReplayed
  <2> QED
    BY <2>1, <2>2, <2>3 DEF Replayed, FileSystem, IsOpen
<1>8. Kept(st)'
  BY <1>6 DEF Kept
<1>9. ReplayInv(st)'
  <2>1. FsAt(trace', offset' - 1) = target' /\ Alike(FsAt(trace', offset' - 1), target')
    BY <1>6 DEF Alike
  <2> QED
    BY <1>1, <1>3, <1>7, <1>8, <2>1 DEF ReplayInv, FsAt, Alike
<1>10. DeviationsAreFailures'
  BY <1>3 DEF DeviationsAreFailures, NotReplayed
<1> QED
  BY <1>4, <1>5, <1>9, <1>10 DEF Inv

LEMMA ShowStep ==
  ASSUME NEW st, Inv(st), ShowRecord
  PROVE  Inv(st)'
<1>1. /\ mode = "show" /\ mode' = "show" /\ offset <= Len(trace) /\ offset' = offset + 1
      /\ lower' = lower /\ files' = files /\ trace' = trace
      /\ map' = map /\ fds' = fds /\ target' = target /\ deviated' = deviated
  BY DEF ShowRecord, More, traced, replayed
<1>2. NotReplayed /\ NotReplayed'
  BY <1>1 DEF Inv, ReplayInv, NotReplayed
<1>3. TypeOK'
  <2>1. Len(trace) \in Nat /\ offset \in 1 .. Len(trace) + 1
    BY DEF Inv, TypeOK
  <2>2. offset' \in 1 .. Len(trace') + 1
    BY <1>1, <2>1
  <2>3. deviated' \subseteq 1 .. offset' - 1
    BY <1>2 DEF NotReplayed
  <2> QED
    BY <1>1, <2>2, <2>3 DEF Inv, TypeOK
<1>4. TraceInv(st)'
  BY <1>1 DEF Inv, TraceInv, Execution, FsAt, IsOpen, Opened
<1>5. ReplayInv(st)'
  BY <1>1, <1>2 DEF ReplayInv
<1>6. DeviationsAreFailures'
  BY <1>2 DEF DeviationsAreFailures, NotReplayed
<1> QED
  BY <1>3, <1>4, <1>5, <1>6 DEF Inv

LEMMA StutterStep ==
  ASSUME NEW st, Inv(st), UNCHANGED vars
  PROVE  Inv(st)'
<1>1. /\ mode' = mode /\ offset' = offset
      /\ lower' = lower /\ files' = files /\ trace' = trace
      /\ map' = map /\ fds' = fds /\ target' = target /\ deviated' = deviated
  BY DEF vars, traced, replayed
<1>2. TypeOK' /\ DeviationsAreFailures'
  BY <1>1 DEF Inv, TypeOK, DeviationsAreFailures, Unambiguous, Sequential, NoHalfOpen
<1>3. TraceInv(st)'
  BY <1>1 DEF Inv, TraceInv, Execution, FsAt, IsOpen, Opened
<1>4. ReplayInv(st)'
  BY <1>1 DEF Inv, ReplayInv, NotReplayed, Replayed, Kept, Entry, ClosedBefore, Unambiguous,
              Sequential, NoHalfOpen, Serves, IsOpen, FileSystem, Alike, FsAt
<1> QED
  BY <1>2, <1>3, <1>4 DEF Inv

LEMMA InvInit ==
  ASSUME Init
  PROVE  TreplayInv
<1>1. TypeOK
  <2>1. Empty(Names) \in FileSystems
    BY EmptyFileSystem, FileSystemType, BoundsAssumption
  <2>2. NoFile \in OpenFiles
    BY BoundsAssumption DEF NoFile, OpenFiles
  <2>3. Len(trace) = 0 /\ offset \in 1 .. Len(trace) + 1 /\ deviated \subseteq 1 .. offset - 1
    BY DEF Init
  <2> QED
    BY <2>1, <2>2, <2>3 DEF Init, TypeOK
<1>2. PICK v : v = [a \in Addrs |-> [obj |-> 0, pos |-> 0, by |-> 0]]
  OBVIOUS
<1>3. v \in Views /\ \A a \in Addrs : v[a].by = 0
  BY <1>2, BoundsAssumption DEF Views
<1>4. PICK st : st = [j \in 0 .. 0 |-> v]
  OBVIOUS
<1>5. Len(trace) = 0 /\ FsAt(trace, 0) = Empty(Names) /\ 0 .. 0 = {0} /\ 1 .. 0 = {}
  BY DEF Init, FsAt
<1>6. Execution(trace, st)
  <2>1. st \in [0 .. 0 -> Views] /\ st[0] = v
    BY <1>3, <1>4
  <2> QED
    BY <1>3, <1>5, <2>1, EmptyFileSystem DEF Execution
<1>7. TraceInv(st)
  <2>1. \A a \in Addrs : ~IsOpen(files[a])
    BY DEF Init, IsOpen, NoFile
  <2> QED
    BY <1>5, <1>6, <2>1, BoundsAssumption DEF TraceInv, Init
<1>8. ReplayInv(st) /\ DeviationsAreFailures
  BY DEF Init, ReplayInv, NotReplayed, DeviationsAreFailures
<1> QED
  BY <1>1, <1>7, <1>8 DEF TreplayInv, Inv

LEMMA InvNext ==
  ASSUME TreplayInv, [Next]_vars
  PROVE  TreplayInv'
<1>1. PICK st : Inv(st)
  BY DEF TreplayInv
<1>2. CASE Traced
  BY <1>1, <1>2, TracedInv
<1>3. CASE \E m \in Modes : Start(m)
  BY <1>1, <1>3, StartStep DEF TreplayInv
<1>4. CASE replay_record
  BY <1>1, <1>4, ReplayRecordStep DEF TreplayInv
<1>5. CASE ShowRecord
  BY <1>1, <1>5, ShowStep DEF TreplayInv
<1>6. CASE UNCHANGED vars
  BY <1>1, <1>6, StutterStep DEF TreplayInv
<1> QED
  BY <1>2, <1>3, <1>4, <1>5, <1>6 DEF Next

THEOREM TreplayInvariant == Spec => []TreplayInv
<1>1. Init => TreplayInv
  BY InvInit
<1>2. TreplayInv /\ [Next]_vars => TreplayInv'
  BY InvNext
<1> QED
  BY <1>1, <1>2, PTL DEF Spec

(* The records, the files of the mount and of the replay and the map stay  *)
(* in their types, whatever is traced and however the replay goes wrong    *)
(* (treplay.c:60-96, 230-560).                                             *)
THEOREM ReplayTypeCorrect == Spec => []TypeOK
<1>1. TreplayInv => TypeOK
  BY DEF TreplayInv, Inv
<1> QED
  BY <1>1, TreplayInvariant, PTL

(* Each read, write and close goes to the descriptor of its own open, as   *)
(* long as no address was used again and no open failed after its          *)
(* creation: map_add and map_find (treplay.c:60-96), which never remove an *)
(* entry.                                                                  *)
THEOREM FindsRightFile == Spec => []RightFile
<1>1. ASSUME TreplayInv PROVE RightFile
  <2>1. PICK st : Inv(st)
    BY <1>1 DEF TreplayInv
  <2> SUFFICES ASSUME Unambiguous, NoHalfOpen, mode \in {"default", "strict"}, More,
                      rec.type \in {"read", "write", "close"}
               PROVE  LET fd == map_find(rec.addr) IN ~BadFd(fd) /\ fds[fd].by = rec.by
    BY DEF RightFile, SameFile, Replaying
  <2>2. PICK i : /\ map_find(rec.addr) = map[i].file_d
                 /\ map[i].file_d \in Fds
                 /\ Serves(fds[map[i].file_d], st[offset - 1][rec.addr], rec.by)
    BY <2>1, RightFd
  <2> QED
    BY <2>2 DEF BadFd, Serves
<1> QED
  BY <1>1, TreplayInvariant, PTL

(* The replayed file system follows the traced one, record by record, as   *)
(* long as no open failed after its creation: the names whatever else      *)
(* happens, the lengths of files as long as no address was used again and  *)
(* each access was where the records put it (replay_record,                *)
(* treplay.c:97-210).                                                      *)
THEOREM ReplayInStep == Spec => []InStep
<1>1. ASSUME TreplayInv PROVE InStep
  <2>1. PICK st : Inv(st)
    BY <1>1 DEF TreplayInv
  <2> SUFFICES ASSUME mode # "show", offset > 1, NoHalfOpen
               PROVE  /\ target.tree = trace[offset - 1].fs.tree
                      /\ target.dirs = trace[offset - 1].fs.dirs
                      /\ Unambiguous /\ Sequential =>
                           target.size = trace[offset - 1].fs.size
    BY DEF InStep
  <2>2. mode \notin {"trace", "show"}
    BY <2>1 DEF Inv, ReplayInv
  <2>3. FsAt(trace, offset - 1) = trace[offset - 1].fs
    <3>1. offset \in Nat /\ offset - 1 # 0
      BY <2>1 DEF Inv, TypeOK
    <3> QED
      BY <3>1 DEF FsAt
  <2>4. /\ Alike(FsAt(trace, offset - 1), target)
        /\ Unambiguous /\ Sequential => target.size = FsAt(trace, offset - 1).size
    BY <2>1, <2>2 DEF Inv, ReplayInv
  <2> QED
    BY <2>3, <2>4 DEF Alike
<1> QED
  BY <1>1, TreplayInvariant, PTL

(* A deviation that treplay reports stands for an operation that failed in *)
(* the kernel, on the same premises (treplay.c:535-546).                   *)
THEOREM OnlyFailuresDeviate == Spec => []DeviationsAreFailures
<1>1. TreplayInv => DeviationsAreFailures
  BY DEF TreplayInv, Inv
<1> QED
  BY <1>1, TreplayInvariant, PTL

-----------------------------------------------------------------------------
(* What the trace file parses back to (main of treplay).  The cells c hold *)
(* the sequence s from offset o on.                                        *)
Holds(c, o, s) == \A i \in 1 .. Len(s) : c[o - 1 + i] = s[i]

(* Of two sequences one after the other both are held, each at its place.  *)
LEMMA HoldsParts ==
  ASSUME NEW S, NEW c, NEW o \in Nat, NEW s \in Seq(S), NEW t \in Seq(S),
         Holds(c, o, s \o t)
  PROVE  Holds(c, o, s) /\ Holds(c, o + Len(s), t)
<1>1. PICK u : u = s \o t
  OBVIOUS
<1>2. /\ Len(s) \in Nat /\ Len(t) \in Nat /\ Len(u) = Len(s) + Len(t)
      /\ \A i \in 1 .. Len(s) : u[i] = s[i]
      /\ \A i \in 1 .. Len(t) : u[Len(s) + i] = t[i]
  BY <1>1
<1>3. \A i \in 1 .. Len(u) : c[o - 1 + i] = u[i]
  BY <1>1 DEF Holds
<1>4. ASSUME NEW i \in 1 .. Len(s) PROVE c[o - 1 + i] = s[i]
  BY <1>2, <1>3
<1>5. ASSUME NEW i \in 1 .. Len(t) PROVE c[o + Len(s) - 1 + i] = t[i]
  <2>1. Len(s) + i \in 1 .. Len(u) /\ o - 1 + (Len(s) + i) = o + Len(s) - 1 + i
    BY <1>2
  <2>2. c[o - 1 + (Len(s) + i)] = u[Len(s) + i]
    BY <1>3, <2>1
  <2> QED
    BY <1>2, <2>1, <2>2
<1> QED
  BY <1>4, <1>5 DEF Holds

(* The length of two sequences one after the other.                        *)
LEMMA ConcatLength ==
  ASSUME NEW S, NEW s \in Seq(S), NEW t \in Seq(S)
  PROVE  s \o t \in Seq(S) /\ Len(s \o t) = Len(s) + Len(t)
OBVIOUS

(* The length of a block: one cell for the count, then what it counts.     *)
LEMMA BlockLength ==
  ASSUME NEW S, Int \subseteq S, NEW s \in Seq(S)
  PROVE  Block(s) \in Seq(S) /\ Len(Block(s)) = 1 + Len(s)
BY DEF Block

(* A block is read back as it was written: as many cells as it says.       *)
LEMMA BlockRead ==
  ASSUME NEW S, Int \subseteq S, NEW c \in Seq(S), NEW o \in Nat, o > 0, NEW s \in Seq(S),
         Holds(c, o, Block(s)), o + Len(s) <= Len(c)
  PROVE  BlockAt(c, o) = s /\ After(c, o) = o + 1 + Len(s)
<1>1. PICK n \in Nat : n = Len(s)
  OBVIOUS
<1>2. <<n>> \in Seq(S) /\ Len(<<n>>) = 1 /\ <<n>>[1] = n
  BY Int \subseteq S
<1>3. Holds(c, o, <<n>>) /\ Holds(c, o + 1, s)
  BY <1>1, <1>2, HoldsParts DEF Block
<1>4. c[o] = n
  BY <1>2, <1>3 DEF Holds
<1>5. \A i \in 1 .. n : c[o + i] = s[i]
  <2>1. \A i \in 1 .. n : c[o + 1 - 1 + i] = s[i]
    BY <1>1, <1>3 DEF Holds
  <2> QED
    BY <2>1
<1>6. PICK u : u = SubSeq(c, o + 1, o + n)
  OBVIOUS
<1>7. u = [i \in 1 .. n |-> c[o + i]]
  <2>1. \A i \in (o + 1) .. (o + n) : i \in 1 .. Len(c)
    BY <1>1
  <2>2. u \in Seq(S) /\ Len(u) = n /\ \A i \in 1 .. n : u[i] = c[o + 1 + i - 1]
    BY <1>1, <1>6, <2>1
  <2> QED
    BY <2>2
<1>8. s = [i \in 1 .. n |-> s[i]]
  BY <1>1
<1>9. u = s
  BY <1>5, <1>7, <1>8
<1> QED
  BY <1>1, <1>4, <1>6, <1>9 DEF BlockAt, After

(* The records the log can hold: a record has the fields of its type only. *)
LogTypes == {"readdir", "open", "read", "write", "close",
             "mkdir", "unlink", "link", "rename", "rmdir"}

WellFormed(S, r) ==
  /\ r \in [id : S, type : LogTypes, ret : S, addr : S, path : Seq(S), new_path : Seq(S),
            flags : S, mode : S, data : Seq(S)]
  /\ r.type \in {"read", "write", "close"} => r.path = <<>>
  /\ r.type \notin {"link", "rename"} => r.new_path = <<>>
  /\ r.type # "open" => r.flags = 0
  /\ r.type \notin {"open", "mkdir"} => r.mode = 0
  /\ r.type \notin {"read", "write"} => r.data = <<>>

Code(type) == (CHOOSE i \in DOMAIN log_types : log_types[i] = type) - 1

(* Both enumerations give a type the same number.                          *)
LEMMA SameEnum ==
  ASSUME NEW type \in LogTypes
  PROVE  Code(type) \in Nat /\ check_types[Code(type) + 1] = type
<1>1. DOMAIN log_types = 1 .. 10 /\ check_types = log_types
  BY DEF log_types, check_types
<1>2. \E i \in 1 .. 10 : log_types[i] = type
  BY DEF log_types, LogTypes
<1>3. PICK i : i = (CHOOSE j \in DOMAIN log_types : log_types[j] = type)
  OBVIOUS
<1>4. i \in 1 .. 10 /\ log_types[i] = type
  BY <1>1, <1>2, <1>3
<1>5. Code(type) = i - 1
  BY <1>3 DEF Code
<1> QED
  BY <1>1, <1>4, <1>5

(* A record of the trace by its fields, and what it is with another field. *)
Rec(i, t, r, a, p, n, f, m, d) ==
  [id |-> i, type |-> t, ret |-> r, addr |-> a, path |-> p, new_path |-> n,
   flags |-> f, mode |-> m, data |-> d]

Edit(x, field, v) == [x EXCEPT ![field] = v]

LEMMA OtherField ==
  ASSUME NEW i, NEW t, NEW r, NEW a, NEW p, NEW n, NEW f, NEW m, NEW d, NEW v
  PROVE  /\ Edit(Rec(i, t, r, a, p, n, f, m, d), "id", v) = Rec(v, t, r, a, p, n, f, m, d)
         /\ Edit(Rec(i, t, r, a, p, n, f, m, d), "type", v) = Rec(i, v, r, a, p, n, f, m, d)
         /\ Edit(Rec(i, t, r, a, p, n, f, m, d), "ret", v) = Rec(i, t, v, a, p, n, f, m, d)
         /\ Edit(Rec(i, t, r, a, p, n, f, m, d), "addr", v) = Rec(i, t, r, v, p, n, f, m, d)
         /\ Edit(Rec(i, t, r, a, p, n, f, m, d), "path", v) = Rec(i, t, r, a, v, n, f, m, d)
         /\ Edit(Rec(i, t, r, a, p, n, f, m, d), "new_path", v) = Rec(i, t, r, a, p, v, f, m, d)
         /\ Edit(Rec(i, t, r, a, p, n, f, m, d), "flags", v) = Rec(i, t, r, a, p, n, v, m, d)
         /\ Edit(Rec(i, t, r, a, p, n, f, m, d), "mode", v) = Rec(i, t, r, a, p, n, f, v, d)
         /\ Edit(Rec(i, t, r, a, p, n, f, m, d), "data", v) = Rec(i, t, r, a, p, n, f, m, v)
<1>1. Edit(Rec(i, t, r, a, p, n, f, m, d), "id", v) = Rec(v, t, r, a, p, n, f, m, d)
  BY DEF Rec, Edit
<1>2. Edit(Rec(i, t, r, a, p, n, f, m, d), "type", v) = Rec(i, v, r, a, p, n, f, m, d)
  BY DEF Rec, Edit
<1>3. Edit(Rec(i, t, r, a, p, n, f, m, d), "ret", v) = Rec(i, t, v, a, p, n, f, m, d)
  BY DEF Rec, Edit
<1>4. Edit(Rec(i, t, r, a, p, n, f, m, d), "addr", v) = Rec(i, t, r, v, p, n, f, m, d)
  BY DEF Rec, Edit
<1>5. Edit(Rec(i, t, r, a, p, n, f, m, d), "path", v) = Rec(i, t, r, a, v, n, f, m, d)
  BY DEF Rec, Edit
<1>6. Edit(Rec(i, t, r, a, p, n, f, m, d), "new_path", v) = Rec(i, t, r, a, p, v, f, m, d)
  BY DEF Rec, Edit
<1>7. Edit(Rec(i, t, r, a, p, n, f, m, d), "flags", v) = Rec(i, t, r, a, p, n, v, m, d)
  BY DEF Rec, Edit
<1>8. Edit(Rec(i, t, r, a, p, n, f, m, d), "mode", v) = Rec(i, t, r, a, p, n, f, v, d)
  BY DEF Rec, Edit
<1>9. Edit(Rec(i, t, r, a, p, n, f, m, d), "data", v) = Rec(i, t, r, a, p, n, f, m, v)
  BY DEF Rec, Edit
<1> QED
  BY <1>1, <1>2, <1>3, <1>4, <1>5, <1>6, <1>7, <1>8, <1>9, Zenon

(* Where the four fields that all records have are, and the length of all. *)
LEMMA CommonRead ==
  ASSUME NEW S, Int \subseteq S, NEW r, WellFormed(S, r), NEW c, NEW o \in Nat,
         Holds(c, o, log_record_common(r))
  PROVE  /\ log_record_common(r) \in Seq(S) /\ Len(log_record_common(r)) = 4
         /\ CommonAt(c, o) = Rec(r.id, r.type, r.ret, r.addr, <<>>, <<>>, 0, 0, <<>>)
<1>1. PICK k : k = Code(r.type) /\ k \in Nat /\ check_types[k + 1] = r.type
  BY SameEnum DEF WellFormed
<1>2. log_record_common(r) = <<r.id, k, r.ret, r.addr>>
  BY <1>1 DEF log_record_common, Code
<1>3. r.id \in S /\ k \in S /\ r.ret \in S /\ r.addr \in S
  BY <1>1 DEF WellFormed
<1>4. PICK s : s = <<r.id, k, r.ret, r.addr>>
  OBVIOUS
<1>5. /\ s \in Seq(S) /\ Len(s) = 4
      /\ s[1] = r.id /\ s[2] = k /\ s[3] = r.ret /\ s[4] = r.addr
  BY <1>3, <1>4
<1>6. c[o] = r.id /\ c[o + 1] = k /\ c[o + 2] = r.ret /\ c[o + 3] = r.addr
  <2>1. \A i \in 1 .. 4 : c[o - 1 + i] = s[i]
    BY <1>2, <1>4, <1>5 DEF Holds
  <2>2. c[o - 1 + 1] = s[1] /\ c[o - 1 + 2] = s[2] /\ c[o - 1 + 3] = s[3] /\ c[o - 1 + 4] = s[4]
    BY <2>1
  <2> QED
    BY <1>5, <2>2
<1>7. NoFields = Rec(0, "close", 0, 0, <<>>, <<>>, 0, 0, <<>>)
  BY DEF NoFields, Rec
<1>8. CommonAt(c, o) = Edit(Edit(Edit(Edit(NoFields, "id", r.id), "type", r.type),
                          "ret", r.ret), "addr", r.addr)
  BY <1>1, <1>6, Zenon DEF CommonAt, Edit
<1>9. CommonAt(c, o) = Rec(r.id, r.type, r.ret, r.addr, <<>>, <<>>, 0, 0, <<>>)
  BY <1>7, <1>8, OtherField
<1> QED
  BY <1>2, <1>4, <1>5, <1>9, Zenon

(* The cells of a record, by its type.                                     *)
LEMMA BodyByType ==
  ASSUME NEW r
  PROVE  /\ r.type \in {"readdir", "unlink", "rmdir"} =>
              Body(r) = Block(r.path) /\ record_size(r) = 4 + (1 + Len(r.path))
         /\ r.type = "open" =>
              /\ Body(r) = Block(r.path) \o <<r.flags, r.mode>>
              /\ record_size(r) = 4 + (1 + Len(r.path) + 2)
         /\ r.type = "mkdir" =>
              /\ Body(r) = Block(r.path) \o <<r.mode>>
              /\ record_size(r) = 4 + (1 + Len(r.path) + 1)
         /\ r.type \in {"read", "write"} =>
              Body(r) = Block(r.data) /\ record_size(r) = 4 + (1 + Len(r.data))
         /\ r.type \in {"link", "rename"} =>
              /\ Body(r) = Block(r.path) \o Block(r.new_path)
              /\ record_size(r) = 4 + (1 + Len(r.path) + 1 + Len(r.new_path))
         /\ r.type = "close" => Body(r) = <<>> /\ record_size(r) = 4 + 0
<1>1. ASSUME r.type \in {"readdir", "unlink", "rmdir"}
      PROVE  Body(r) = Block(r.path) /\ record_size(r) = 4 + (1 + Len(r.path))
  BY <1>1 DEF Body, record_size
<1>2. ASSUME r.type = "open"
      PROVE  /\ Body(r) = Block(r.path) \o <<r.flags, r.mode>>
             /\ record_size(r) = 4 + (1 + Len(r.path) + 2)
  BY <1>2 DEF Body, record_size
<1>3. ASSUME r.type = "mkdir"
      PROVE  /\ Body(r) = Block(r.path) \o <<r.mode>>
             /\ record_size(r) = 4 + (1 + Len(r.path) + 1)
  BY <1>3 DEF Body, record_size
<1>4. ASSUME r.type \in {"read", "write"}
      PROVE  Body(r) = Block(r.data) /\ record_size(r) = 4 + (1 + Len(r.data))
  BY <1>4 DEF Body, record_size
<1>5. ASSUME r.type \in {"link", "rename"}
      PROVE  /\ Body(r) = Block(r.path) \o Block(r.new_path)
             /\ record_size(r) = 4 + (1 + Len(r.path) + 1 + Len(r.new_path))
  BY <1>5 DEF Body, record_size
<1>6. ASSUME r.type = "close" PROVE Body(r) = <<>> /\ record_size(r) = 4 + 0
  BY <1>6 DEF Body, record_size
<1> QED
  BY <1>1, <1>2, <1>3, <1>4, <1>5, <1>6

(* Each operation announces the room that its record takes.                *)
LEMMA CellsLength ==
  ASSUME NEW S, Int \subseteq S, NEW r, WellFormed(S, r)
  PROVE  /\ log_record_common(r) \in Seq(S) /\ Len(log_record_common(r)) = 4
         /\ Body(r) \in Seq(S) /\ Cells(r) \in Seq(S)
         /\ Len(Cells(r)) = record_size(r) /\ record_size(r) = 4 + Len(Body(r))
<1>1. /\ r.type \in LogTypes /\ r.id \in S /\ r.ret \in S /\ r.addr \in S
      /\ r.flags \in S /\ r.mode \in S
      /\ r.path \in Seq(S) /\ r.new_path \in Seq(S) /\ r.data \in Seq(S)
  BY DEF WellFormed
<1>2. PICK p, w, d, f, g : /\ p = Block(r.path) /\ w = Block(r.new_path) /\ d = Block(r.data)
                           /\ f = <<r.flags, r.mode>> /\ g = <<r.mode>>
  OBVIOUS
<1>3. PICK lp \in Nat, lw \in Nat, ld \in Nat :
        lp = Len(r.path) /\ lw = Len(r.new_path) /\ ld = Len(r.data)
  BY <1>1
<1>4. /\ p \in Seq(S) /\ Len(p) = 1 + lp
      /\ w \in Seq(S) /\ Len(w) = 1 + lw
      /\ d \in Seq(S) /\ Len(d) = 1 + ld
  BY <1>1, <1>2, <1>3, BlockLength
<1>5. f \in Seq(S) /\ Len(f) = 2 /\ g \in Seq(S) /\ Len(g) = 1
  BY <1>1, <1>2
<1>6. PICK pf, pg, pw : pf = p \o f /\ pg = p \o g /\ pw = p \o w
  OBVIOUS
<1>7. /\ pf \in Seq(S) /\ Len(pf) = 1 + lp + 2
      /\ pg \in Seq(S) /\ Len(pg) = 1 + lp + 1
      /\ pw \in Seq(S) /\ Len(pw) = 1 + lp + 1 + lw
  <2>1. /\ pf \in Seq(S) /\ Len(pf) = Len(p) + Len(f)
        /\ pg \in Seq(S) /\ Len(pg) = Len(p) + Len(g)
        /\ pw \in Seq(S) /\ Len(pw) = Len(p) + Len(w)
    BY <1>4, <1>5, <1>6, ConcatLength, Zenon
  <2>2. /\ Len(p) + Len(f) = 1 + lp + 2 /\ Len(p) + Len(g) = 1 + lp + 1
        /\ Len(p) + Len(w) = 1 + lp + 1 + lw
    BY <1>4, <1>5
  <2> QED
    BY <2>1, <2>2, Zenon
<1>8. PICK b, n : b = Body(r) /\ n = record_size(r)
  OBVIOUS
<1>9. b \in Seq(S) /\ n = 4 + Len(b)
  <2>1. CASE r.type \in {"readdir", "unlink", "rmdir"}
    <3>1. b = p /\ n = 4 + (1 + lp)
      BY <1>2, <1>3, <1>8, <2>1, BodyByType, Zenon
    <3> QED
      BY <1>4, <3>1
  <2>2. CASE r.type = "open"
    <3>1. b = pf /\ n = 4 + (1 + lp + 2)
      BY <1>2, <1>3, <1>6, <1>8, <2>2, BodyByType, Zenon
    <3> QED
      BY <1>7, <3>1, Zenon
  <2>3. CASE r.type = "mkdir"
    <3>1. b = pg /\ n = 4 + (1 + lp + 1)
      BY <1>2, <1>3, <1>6, <1>8, <2>3, BodyByType, Zenon
    <3> QED
      BY <1>7, <3>1, Zenon
  <2>4. CASE r.type \in {"read", "write"}
    <3>1. b = d /\ n = 4 + (1 + ld)
      BY <1>2, <1>3, <1>8, <2>4, BodyByType, Zenon
    <3> QED
      BY <1>4, <3>1
  <2>5. CASE r.type \in {"link", "rename"}
    <3>1. b = pw /\ n = 4 + (1 + lp + 1 + lw)
      BY <1>2, <1>3, <1>6, <1>8, <2>5, BodyByType, Zenon
    <3> QED
      BY <1>7, <3>1, Zenon
  <2>6. CASE r.type = "close"
    <3>1. b = <<>> /\ n = 4 + 0
      BY <1>8, <2>6, BodyByType, Zenon
    <3>2. <<>> \in Seq(S) /\ Len(<<>>) = 0
      OBVIOUS
    <3> QED
      BY <3>1, <3>2
  <2> QED
    BY <1>1, <2>1, <2>2, <2>3, <2>4, <2>5, <2>6 DEF LogTypes
<1>10. PICK s, k : s = log_record_common(r) /\ k = Code(r.type) /\ k \in Nat
  BY <1>1, SameEnum
<1>11. s = <<r.id, k, r.ret, r.addr>>
  BY <1>10 DEF log_record_common, Code
<1>12. s \in Seq(S) /\ Len(s) = 4
  BY <1>1, <1>10, <1>11
<1>13. s \o b \in Seq(S) /\ Len(s \o b) = Len(s) + Len(b)
  BY <1>9, <1>12, ConcatLength, Zenon
<1>14. Cells(r) = s \o b
  BY <1>8, <1>10 DEF Cells
<1>15. Len(Cells(r)) = n
  <2>1. Len(b) \in Nat
    BY <1>9
  <2> QED
    BY <1>9, <1>12, <1>13, <1>14, <2>1
<1> QED
  BY <1>8, <1>9, <1>10, <1>12, <1>13, <1>14, <1>15, Zenon

(* The record that starts at o is read back, and the next one where it ends.*)
LEMMA RecordRead ==
  ASSUME NEW S, Int \subseteq S, NEW r, WellFormed(S, r),
         NEW c \in Seq(S), NEW o \in Nat, o > 0, Holds(c, o, Cells(r)),
         o - 1 + record_size(r) <= Len(c)
  PROVE  RecordAt(c, o) = [rec |-> r, next |-> o + record_size(r)]
<1>1. PICK id \in S, type \in LogTypes, ret \in S, addr \in S, path \in Seq(S),
           new \in Seq(S), flags \in S, m \in S, data \in Seq(S) :
        r = Rec(id, type, ret, addr, path, new, flags, m, data)
  BY DEF WellFormed, Rec
<1>2. /\ r.id = id /\ r.type = type /\ r.ret = ret /\ r.addr = addr /\ r.path = path
      /\ r.new_path = new /\ r.flags = flags /\ r.mode = m /\ r.data = data
  BY <1>1 DEF Rec
<1>3. PICK e : e = <<>>
  OBVIOUS
<1>4. /\ type \in {"read", "write", "close"} => path = e
      /\ type \notin {"link", "rename"} => new = e
      /\ type # "open" => flags = 0
      /\ type \notin {"open", "mkdir"} => m = 0
      /\ type \notin {"read", "write"} => data = e
  BY <1>2, <1>3 DEF WellFormed
<1>5. PICK lp \in Nat, lw \in Nat, ld \in Nat :
        lp = Len(path) /\ lw = Len(new) /\ ld = Len(data)
  OBVIOUS
<1>6. PICK x : x = CommonAt(c, o)
  OBVIOUS
<1>7. Holds(c, o, log_record_common(r)) /\ Holds(c, o + 4, Body(r))
  <2>1. PICK s, b : s = log_record_common(r) /\ b = Body(r) /\ Cells(r) = s \o b
    BY DEF Cells
  <2>2. s \in Seq(S) /\ Len(s) = 4 /\ b \in Seq(S)
    BY <2>1, CellsLength
  <2>3. Holds(c, o, s \o b)
    BY <2>1
  <2>4. Holds(c, o, s) /\ Holds(c, o + Len(s), b)
    BY <2>2, <2>3, HoldsParts, Zenon
  <2> QED
    BY <2>1, <2>2, <2>4
<1>8. x = Rec(id, type, ret, addr, e, e, 0, 0, e)
  BY <1>2, <1>3, <1>6, <1>7, CommonRead, Zenon
<1>9. x.type = type
  BY <1>8 DEF Rec
<1>10. PICK p \in Nat : p = o + 4 /\ p > 0
  OBVIOUS
<1>11. Holds(c, p, Body(r))
  BY <1>7, <1>10
<1>12. PICK size \in Nat, lc \in Nat : size = record_size(r) /\ lc = Len(c) /\ o - 1 + size <= lc
  <2>1. Body(r) \in Seq(S) /\ record_size(r) = 4 + Len(Body(r))
    BY CellsLength, Zenon
  <2>2. Len(Body(r)) \in Nat /\ Len(c) \in Nat
    BY <2>1
  <2> QED
    BY <2>1, <2>2
<1>13. ASSUME NEW q \in Nat, q > 0, NEW s \in Seq(S), NEW n \in Nat, n = Len(s),
              Holds(c, q, Block(s)), q + n <= lc
       PROVE  BlockAt(c, q) = s /\ After(c, q) = q + 1 + n
  <2>1. q + Len(s) <= Len(c)
    BY <1>12, <1>13
  <2> QED
    BY <1>13, <2>1, BlockRead, Zenon
<1>14. CASE type \in {"readdir", "unlink", "rmdir"}
  <2>1. Body(r) = Block(path) /\ size = 4 + (1 + lp)
    BY <1>2, <1>5, <1>12, <1>14, BodyByType, Zenon
  <2>2. p + lp <= lc /\ p + 1 + lp = o + size
    BY <1>10, <1>12, <2>1
  <2>3. Holds(c, p, Block(path))
    BY <1>11, <2>1, Zenon
  <2>4. BlockAt(c, p) = path /\ After(c, p) = p + 1 + lp
    BY <1>5, <1>10, <1>13, <2>2, <2>3, Zenon
  <2>5. BlockAt(c, p) = path /\ After(c, p) = o + size
    BY <2>2, <2>4, Zenon
  <2>6. r = Edit(x, "path", path)
    <3>1. new = e /\ flags = 0 /\ m = 0 /\ data = e
      BY <1>4, <1>14
    <3> QED
      BY <1>1, <1>8, <3>1, OtherField
  <2>7. RecordAt(c, o) = [rec |-> Edit(x, "path", BlockAt(c, p)), next |-> After(c, p)]
    BY <1>6, <1>9, <1>10, <1>14 DEF RecordAt, Edit
  <2> QED
    BY <1>12, <2>5, <2>6, <2>7, Zenon
<1>15. CASE type = "open"
  <2>1. PICK s, t : /\ s = Block(path) /\ t = <<flags, m>> /\ Body(r) = s \o t
                    /\ size = 4 + (1 + lp + 2)
    BY <1>2, <1>5, <1>12, <1>15, BodyByType, Zenon
  <2>2. s \in Seq(S) /\ Len(s) = 1 + lp
    BY <1>5, <2>1, BlockLength
  <2>3. t \in Seq(S) /\ Len(t) = 2 /\ t[1] = flags /\ t[2] = m
    BY <2>1
  <2>4. Holds(c, p, s) /\ Holds(c, p + Len(s), t)
    BY <1>11, <2>1, <2>2, <2>3, HoldsParts, Zenon
  <2>5. PICK q \in Nat : q = p + 1 + lp /\ q = p + Len(s) /\ q + 2 = o + size /\ p + lp <= lc
    BY <1>10, <1>12, <2>1, <2>2
  <2>6. BlockAt(c, p) = path /\ After(c, p) = q
    BY <1>5, <1>10, <1>13, <2>1, <2>4, <2>5, Zenon
  <2>7. Holds(c, q, t)
    BY <2>4, <2>5, Zenon
  <2>8. c[q] = flags /\ c[q + 1] = m
    <3>1. \A i \in 1 .. 2 : c[q - 1 + i] = t[i]
      BY <2>3, <2>7 DEF Holds
    <3>2. c[q - 1 + 1] = t[1] /\ c[q - 1 + 2] = t[2]
      BY <3>1
    <3> QED
      BY <2>3, <3>2
  <2>9. PICK y : y = Edit(x, "path", path)
    OBVIOUS
  <2>10. r = Edit(Edit(y, "flags", flags), "mode", m)
    <3>1. new = e /\ data = e
      BY <1>4, <1>15
    <3> QED
      BY <1>1, <1>8, <2>9, <3>1, OtherField
  <2>11. RecordAt(c, o) = [rec  |-> FlagsAt(Edit(x, "path", BlockAt(c, p)), c, After(c, p)),
                           next |-> After(c, p) + 2]
    BY <1>6, <1>9, <1>10, <1>15 DEF RecordAt, Edit
  <2>12. FlagsAt(y, c, q) = r
    BY <2>8, <2>10 DEF FlagsAt, Edit
  <2>13. RecordAt(c, o) = [rec |-> FlagsAt(y, c, q), next |-> q + 2]
    BY <2>6, <2>9, <2>11, Zenon
  <2> QED
    BY <1>12, <2>5, <2>12, <2>13, Zenon
<1>16. CASE type = "mkdir"
  <2>1. PICK s, t : /\ s = Block(path) /\ t = <<m>> /\ Body(r) = s \o t
                    /\ size = 4 + (1 + lp + 1)
    BY <1>2, <1>5, <1>12, <1>16, BodyByType, Zenon
  <2>2. s \in Seq(S) /\ Len(s) = 1 + lp
    BY <1>5, <2>1, BlockLength
  <2>3. t \in Seq(S) /\ Len(t) = 1 /\ t[1] = m
    BY <2>1
  <2>4. Holds(c, p, s) /\ Holds(c, p + Len(s), t)
    BY <1>11, <2>1, <2>2, <2>3, HoldsParts, Zenon
  <2>5. PICK q \in Nat : q = p + 1 + lp /\ q = p + Len(s) /\ q + 1 = o + size /\ p + lp <= lc
    BY <1>10, <1>12, <2>1, <2>2
  <2>6. BlockAt(c, p) = path /\ After(c, p) = q
    BY <1>5, <1>10, <1>13, <2>1, <2>4, <2>5, Zenon
  <2>7. Holds(c, q, t)
    BY <2>4, <2>5, Zenon
  <2>8. c[q] = m
    <3>1. c[q - 1 + 1] = t[1]
      BY <2>3, <2>7 DEF Holds
    <3> QED
      BY <2>3, <3>1
  <2>9. r = Edit(Edit(x, "path", path), "mode", m)
    <3>1. new = e /\ flags = 0 /\ data = e
      BY <1>4, <1>16
    <3> QED
      BY <1>1, <1>8, <3>1, OtherField
  <2>10. RecordAt(c, o) = [rec  |-> Edit(Edit(x, "path", BlockAt(c, p)), "mode", c[After(c, p)]),
                           next |-> After(c, p) + 1]
    BY <1>6, <1>9, <1>10, <1>16 DEF RecordAt, Edit
  <2>11. RecordAt(c, o) = [rec |-> Edit(Edit(x, "path", path), "mode", m), next |-> q + 1]
    BY <2>6, <2>8, <2>10, Zenon
  <2> QED
    BY <1>12, <2>5, <2>9, <2>11, Zenon
<1>17. CASE type \in {"read", "write"}
  <2>1. Body(r) = Block(data) /\ size = 4 + (1 + ld)
    BY <1>2, <1>5, <1>12, <1>17, BodyByType, Zenon
  <2>2. p + ld <= lc /\ p + 1 + ld = o + size
    BY <1>10, <1>12, <2>1
  <2>3. Holds(c, p, Block(data))
    BY <1>11, <2>1, Zenon
  <2>4. BlockAt(c, p) = data /\ After(c, p) = p + 1 + ld
    BY <1>5, <1>10, <1>13, <2>2, <2>3, Zenon
  <2>5. BlockAt(c, p) = data /\ After(c, p) = o + size
    BY <2>2, <2>4, Zenon
  <2>6. r = Edit(x, "data", data)
    <3>1. path = e /\ new = e /\ flags = 0 /\ m = 0
      BY <1>4, <1>17
    <3> QED
      BY <1>1, <1>8, <3>1, OtherField
  <2>7. RecordAt(c, o) = [rec |-> Edit(x, "data", BlockAt(c, p)), next |-> After(c, p)]
    BY <1>6, <1>9, <1>10, <1>17 DEF RecordAt, Edit
  <2> QED
    BY <1>12, <2>5, <2>6, <2>7, Zenon
<1>18. CASE type \in {"link", "rename"}
  <2>1. PICK s, t : /\ s = Block(path) /\ t = Block(new) /\ Body(r) = s \o t
                    /\ size = 4 + (1 + lp + 1 + lw)
    BY <1>2, <1>5, <1>12, <1>18, BodyByType, Zenon
  <2>2. s \in Seq(S) /\ Len(s) = 1 + lp /\ t \in Seq(S)
    BY <1>5, <2>1, BlockLength
  <2>3. Holds(c, p, s) /\ Holds(c, p + Len(s), t)
    BY <1>11, <2>1, <2>2, HoldsParts, Zenon
  <2>4. PICK q \in Nat : /\ q = p + 1 + lp /\ q = p + Len(s) /\ q > 0
                         /\ q + 1 + lw = o + size /\ p + lp <= lc /\ q + lw <= lc
    BY <1>10, <1>12, <2>1, <2>2
  <2>5. Holds(c, p, Block(path))
    BY <2>1, <2>3, Zenon
  <2>6. BlockAt(c, p) = path /\ After(c, p) = q
    BY <1>5, <1>10, <1>13, <2>4, <2>5, Zenon
  <2>7. Holds(c, q, Block(new))
    BY <2>1, <2>3, <2>4, Zenon
  <2>8. BlockAt(c, q) = new /\ After(c, q) = o + size
    BY <1>5, <1>13, <2>4, <2>7, Zenon
  <2>9. r = Edit(Edit(x, "path", path), "new_path", new)
    <3>1. flags = 0 /\ m = 0 /\ data = e
      BY <1>4, <1>18
    <3> QED
      BY <1>1, <1>8, <3>1, OtherField
  <2>10. RecordAt(c, o) = [rec  |-> Edit(Edit(x, "path", BlockAt(c, p)),
                                      "new_path", BlockAt(c, After(c, p))),
                           next |-> After(c, After(c, p))]
    BY <1>6, <1>9, <1>10, <1>18 DEF RecordAt, Edit
  <2>11. RecordAt(c, o) = [rec  |-> Edit(Edit(x, "path", path), "new_path", new),
                           next |-> o + size]
    BY <2>6, <2>8, <2>10, Zenon
  <2> QED
    BY <1>12, <2>9, <2>11, Zenon
<1>19. CASE type = "close"
  <2>1. size = 4 + 0
    BY <1>2, <1>12, <1>19, BodyByType, Zenon
  <2>2. r = x
    BY <1>1, <1>4, <1>8, <1>19
  <2>3. RecordAt(c, o) = [rec |-> x, next |-> p]
    BY <1>6, <1>9, <1>10, <1>19 DEF RecordAt, Edit
  <2>4. p = o + size
    BY <1>10, <2>1
  <2> QED
    BY <1>12, <2>2, <2>3, <2>4, Zenon
<1> QED
  BY <1>14, <1>15, <1>16, <1>17, <1>18, <1>19 DEF LogTypes

(* The file as it grows: what FlattenSeq of the cells of the records is.   *)
Grows(g, s, m) == g = [i \in 1 .. m |-> IF i = 1 THEN s[i] ELSE g[i - 1] \o s[i]]

(* The recursion of FlattenSeq has a solution.                             *)
LEMMA GrowsExists ==
  ASSUME NEW s, NEW n \in Nat
  PROVE  \E g : Grows(g, s, n)
<1> SUFFICES ASSUME ~ \E g : Grows(g, s, n) PROVE FALSE
  OBVIOUS
<1>1. PICK B : B = {k \in Nat : ~ \E g : Grows(g, s, k)}
  OBVIOUS
<1>2. B \subseteq Nat /\ n \in B
  BY <1>1
<1>3. PICK m \in B : \A y \in B : m <= y
  BY <1>2, LeastExists, Zenon
<1>4. m \in Nat /\ ~ \E g : Grows(g, s, m)
  BY <1>1, <1>3
<1>5. m # 0
  <2>1. PICK g : g = [i \in 1 .. 0 |-> 0]
    OBVIOUS
  <2>2. Grows(g, s, 0)
    BY <2>1 DEF Grows
  <2> QED
    BY <1>4, <2>2
<1>6. PICK k \in Nat : m = k + 1
  BY <1>4, <1>5
<1>7. PICK g : Grows(g, s, k)
  <2>1. k \notin B
    BY <1>3, <1>6
  <2> QED
    BY <1>1, <2>1
<1>8. PICK h : h = [i \in 1 .. m |-> IF i <= k THEN g[i]
                                     ELSE IF i = 1 THEN s[i] ELSE g[i - 1] \o s[i]]
  OBVIOUS
<1>9. ASSUME NEW i \in 1 .. m
      PROVE  h[i] = IF i = 1 THEN s[i] ELSE h[i - 1] \o s[i]
  <2>1. i # 1 => i - 1 \in 1 .. k /\ h[i - 1] = g[i - 1]
    BY <1>6, <1>8
  <2>2. CASE i <= k
    <3>1. h[i] = g[i] /\ i \in 1 .. k
      BY <1>8, <2>2
    <3>2. g[i] = IF i = 1 THEN s[i] ELSE g[i - 1] \o s[i]
      BY <1>7, <3>1 DEF Grows
    <3> QED
      BY <2>1, <3>1, <3>2
  <2>3. CASE ~(i <= k)
    <3>1. h[i] = IF i = 1 THEN s[i] ELSE g[i - 1] \o s[i]
      BY <1>8, <2>3
    <3> QED
      BY <2>1, <3>1
  <2> QED
    BY <2>2, <2>3
<1>10. h = [i \in 1 .. m |-> IF i = 1 THEN s[i] ELSE h[i - 1] \o s[i]]
  <2>1. h = [i \in 1 .. m |-> h[i]]
    BY <1>8
  <2> QED
    BY <1>9, <2>1
<1> QED
  BY <1>4, <1>10 DEF Grows

(* FlattenSeq returns the last value of such a solution.                   *)
LEMMA FlattenGrows ==
  ASSUME NEW s, Len(s) \in Nat, Len(s) # 0
  PROVE  \E g : Grows(g, s, Len(s)) /\ Ext!FlattenSeq(s) = g[Len(s)]
<1>1. PICK g : g = (CHOOSE h : Grows(h, s, Len(s)))
  OBVIOUS
<1>2. Grows(g, s, Len(s))
  BY <1>1, GrowsExists
<1>3. Ext!FlattenSeq(s) = g[Len(s)]
  BY <1>1 DEF Ext!FlattenSeq, Grows
<1> QED
  BY <1>2, <1>3

(* What of the file there is after each of the records.                    *)
Growth(F, s, n) ==
  F[0] = <<>> /\ \A k \in 0 .. n - 1 : F[k + 1] = F[k] \o s[k + 1]

(* FlattenSeq, record by record.                                           *)
LEMMA FlattenSteps ==
  ASSUME NEW S, NEW n \in Nat, NEW s \in [1 .. n -> Seq(S)]
  PROVE  \E F : Growth(F, s, n) /\ Ext!FlattenSeq(s) = F[n]
<1>1. s \in Seq(Seq(S)) /\ Len(s) = n
  OBVIOUS
<1>2. CASE n = 0
  <2>1. Ext!FlattenSeq(s) = s
    BY <1>1, <1>2 DEF Ext!FlattenSeq
  <2>2. s = <<>>
    BY <1>1, <1>2
  <2>3. PICK F : F = [k \in 0 .. 0 |-> s]
    OBVIOUS
  <2>4. F[0] = s
    BY <2>3
  <2>5. Growth(F, s, n)
    BY <1>2, <2>2, <2>4 DEF Growth
  <2> QED
    BY <1>2, <2>1, <2>4, <2>5
<1>3. CASE n # 0
  <2>1. PICK g : Grows(g, s, n) /\ Ext!FlattenSeq(s) = g[n]
    BY <1>1, <1>3, FlattenGrows
  <2>2. PICK F : F = [k \in 0 .. n |-> IF k = 0 THEN <<>> ELSE g[k]]
    OBVIOUS
  <2>3. F[0] = <<>> /\ F[n] = g[n]
    BY <1>3, <2>2
  <2>4. ASSUME NEW k \in 0 .. n - 1 PROVE F[k + 1] = F[k] \o s[k + 1]
    <3>1. PICK i \in 1 .. n : i = k + 1 /\ i - 1 = k /\ i \in 0 .. n /\ i # 0
      OBVIOUS
    <3>2. F[i] = g[i]
      BY <2>2, <3>1
    <3>3. g[i] = IF i = 1 THEN s[i] ELSE g[i - 1] \o s[i]
      BY <2>1 DEF Grows
    <3>4. CASE k = 0
      <4>1. s[i] \in Seq(S)
        OBVIOUS
      <4>2. <<>> \o s[i] = s[i]
        BY <4>1, ConcatEmptySeq
      <4>3. F[i] = s[i] /\ F[k] = <<>>
        BY <2>3, <3>1, <3>2, <3>3, <3>4
      <4> QED
        BY <3>1, <4>2, <4>3
    <3>5. CASE k # 0
      <4>1. F[k] = g[k]
        BY <2>2, <3>5
      <4>2. i # 1
        BY <3>1, <3>5
      <4>3. g[i] = g[k] \o s[i]
        BY <3>1, <3>3, <4>2, Zenon
      <4> QED
        BY <3>1, <3>2, <4>1, <4>3, Zenon
    <3> QED
      BY <3>4, <3>5
  <2> QED
    BY <2>1, <2>3, <2>4 DEF Growth
<1> QED
  BY <1>2, <1>3

(* Each part is a sequence, and by one record longer than the one before.  *)
Lengthens(S, F, s, n) ==
  /\ \A k \in 0 .. n : F[k] \in Seq(S)
  /\ \A k \in 0 .. n - 1 : Len(F[k + 1]) = Len(F[k]) + Len(s[k + 1])

(* By induction on the records.                                            *)
LEMMA GrowthLengths ==
  ASSUME NEW S, NEW n \in Nat, NEW s \in [1 .. n -> Seq(S)], NEW F, Growth(F, s, n)
  PROVE  Lengthens(S, F, s, n)
<1>1. PICK B : B = {k \in Nat : k <= n /\ F[k] \notin Seq(S)}
  OBVIOUS
<1>2. B = {}
  <2> SUFFICES ASSUME B # {} PROVE FALSE
    OBVIOUS
  <2>1. B \subseteq Nat
    BY <1>1
  <2>2. PICK m \in B : \A y \in B : m <= y
    BY <2>1, LeastExists, Zenon
  <2>3. m \in Nat /\ m <= n /\ F[m] \notin Seq(S)
    BY <1>1, <2>2
  <2>4. m # 0
    <3>1. <<>> \in Seq(S)
      OBVIOUS
    <3> QED
      BY <2>3, <3>1 DEF Growth
  <2>5. PICK k \in Nat : m = k + 1 /\ k \in 0 .. n - 1
    BY <2>3, <2>4
  <2>6. F[k] \in Seq(S)
    <3>1. k \notin B
      BY <2>2, <2>5
    <3> QED
      BY <1>1, <2>5, <3>1
  <2>7. F[m] = F[k] \o s[m]
    BY <2>5, Zenon DEF Growth
  <2>8. s[m] \in Seq(S)
    <3>1. m \in 1 .. n
      BY <2>3, <2>4
    <3> QED
      BY <3>1
  <2> QED
    BY <2>3, <2>6, <2>7, <2>8, ConcatLength
<1>3. ASSUME NEW k \in 0 .. n PROVE F[k] \in Seq(S)
  BY <1>1, <1>2, <1>3
<1>4. ASSUME NEW k \in 0 .. n - 1 PROVE Len(F[k + 1]) = Len(F[k]) + Len(s[k + 1])
  <2>1. k \in 0 .. n /\ k + 1 \in 1 .. n
    OBVIOUS
  <2>2. F[k] \in Seq(S) /\ s[k + 1] \in Seq(S) /\ F[k + 1] = F[k] \o s[k + 1]
    BY <1>3, <1>4, <2>1 DEF Growth
  <2> QED
    BY <2>2, ConcatLength
<1> QED
  BY <1>3, <1>4 DEF Lengthens

(* The file holds each part from its start on.                             *)
Held(F, n) == \A k \in 0 .. n : Holds(F[n], 1, F[k]) /\ Len(F[k]) <= Len(F[n])

(* By induction on the records, from the last one back.                    *)
LEMMA GrowthHeld ==
  ASSUME NEW S, NEW n \in Nat, NEW s \in [1 .. n -> Seq(S)], NEW F, Growth(F, s, n)
  PROVE  Held(F, n)
<1>1. PICK c : c = F[n]
  OBVIOUS
<1>2. /\ \A k \in 0 .. n : F[k] \in Seq(S)
      /\ \A k \in 0 .. n - 1 : Len(F[k + 1]) = Len(F[k]) + Len(s[k + 1])
  <2>1. Lengthens(S, F, s, n)
    BY GrowthLengths, Zenon
  <2> QED
    BY <2>1, Zenon DEF Lengthens
<1>3. c \in Seq(S) /\ Len(c) \in Nat
  <2>1. n \in 0 .. n
    OBVIOUS
  <2>2. c \in Seq(S)
    BY <1>1, <1>2, <2>1
  <2> QED
    BY <2>2
<1>4. PICK B : B = {j \in Nat : j <= n /\ ~(Holds(c, 1, F[n - j]) /\ Len(F[n - j]) <= Len(c))}
  OBVIOUS
<1>5. B = {}
  <2> SUFFICES ASSUME B # {} PROVE FALSE
    OBVIOUS
  <2>1. B \subseteq Nat
    BY <1>4
  <2>2. PICK m \in B : \A y \in B : m <= y
    BY <2>1, LeastExists, Zenon
  <2>3. m \in Nat /\ m <= n /\ ~(Holds(c, 1, F[n - m]) /\ Len(F[n - m]) <= Len(c))
    BY <1>4, <2>2
  <2>4. m # 0
    <3> SUFFICES ASSUME m = 0 PROVE FALSE
      OBVIOUS
    <3>1. F[n - m] = c
      BY <1>1
    <3>2. Holds(c, 1, c)
      BY <1>3 DEF Holds
    <3> QED
      BY <1>3, <2>3, <3>1, <3>2
  <2>5. PICK k \in 0 .. n - 1 : k = n - m /\ k + 1 = n - (m - 1) /\ m - 1 \in Nat /\ m - 1 <= n
    BY <2>3, <2>4
  <2>6. Holds(c, 1, F[k + 1]) /\ Len(F[k + 1]) <= Len(c)
    <3>1. m - 1 \notin B
      BY <2>2, <2>3, <2>5
    <3> QED
      BY <1>4, <2>5, <3>1
  <2>7. F[k] \in Seq(S) /\ s[k + 1] \in Seq(S) /\ F[k + 1] = F[k] \o s[k + 1]
    <3>1. k \in 0 .. n /\ k + 1 \in 1 .. n
      BY <2>5
    <3>2. F[k] \in Seq(S) /\ s[k + 1] \in Seq(S)
      BY <1>2, <3>1
    <3> QED
      BY <3>2 DEF Growth
  <2>8. Holds(c, 1, F[k])
    <3>1. Holds(c, 1, F[k] \o s[k + 1])
      BY <2>6, <2>7
    <3> QED
      BY <2>7, <3>1, HoldsParts
  <2>9. Len(F[k]) <= Len(c)
    <3>1. PICK x \in Nat, y \in Nat : x = Len(F[k]) /\ y = Len(s[k + 1])
      BY <2>7
    <3>2. Len(F[k + 1]) = x + y
      BY <1>2, <3>1
    <3>3. PICK z \in Nat : z = Len(c)
      BY <1>3
    <3>4. x + y <= z
      BY <2>6, <3>2, <3>3
    <3>5. x <= z
      BY <3>4
    <3> QED
      BY <3>1, <3>3, <3>5, Zenon
  <2> QED
    BY <2>3, <2>5, <2>8, <2>9
<1>6. ASSUME NEW k \in 0 .. n PROVE Holds(c, 1, F[k]) /\ Len(F[k]) <= Len(c)
  <2>1. PICK j \in Nat : j = n - k /\ j <= n /\ n - j = k
    BY <1>6
  <2>2. j \notin B
    BY <1>5
  <2> QED
    BY <1>4, <2>1, <2>2
<1> QED
  BY <1>1, <1>6 DEF Held

(* The offsets of the main loop, once it is known where records start.     *)
Starts(e, c, n) ==
  /\ e[0] = 1 /\ e[n] > Len(c)
  /\ \A k \in 0 .. n - 1 : e[k] <= Len(c) /\ RecordAt(c, e[k]).next = e[k + 1]

Reads(g, c) ==
  g = [k \in Nat |-> IF k = 0 THEN 1
                     ELSE IF g[k - 1] > Len(c) THEN g[k - 1] ELSE RecordAt(c, g[k - 1]).next]

(* The recursion of Offsets, when it has a solution.                       *)
LEMMA OffsetsRead ==
  ASSUME NEW c, \E g : Reads(g, c)
  PROVE  Reads(Offsets(c), c)
<1>1. PICK g : g = (CHOOSE h : Reads(h, c))
  OBVIOUS
<1>2. Offsets(c) = g
  BY <1>1 DEF Offsets, Reads
<1> QED
  BY <1>1, <1>2

(* It has one, and it is the starts of the records.                        *)
LEMMA OffsetsAreStarts ==
  ASSUME NEW c, Len(c) \in Nat, NEW n \in Nat, NEW e \in [0 .. n -> Nat], Starts(e, c, n)
  PROVE  \A k \in 0 .. n : Offsets(c)[k] = e[k]
<1>1. PICK h : h = [k \in Nat |-> IF k <= n THEN e[k] ELSE e[n]]
  OBVIOUS
<1>2. ASSUME NEW k \in Nat
      PROVE  h[k] = IF k = 0 THEN 1
                    ELSE IF h[k - 1] > Len(c) THEN h[k - 1] ELSE RecordAt(c, h[k - 1]).next
  <2>1. CASE k = 0
    BY <1>1, <2>1 DEF Starts
  <2>2. CASE k # 0 /\ k <= n
    <3>1. PICK j \in 0 .. n - 1 : j = k - 1 /\ k = j + 1
      BY <2>2
    <3>2. h[k] = e[k] /\ h[j] = e[j]
      BY <1>1, <2>2, <3>1
    <3>3. e[j] <= Len(c) /\ RecordAt(c, e[j]).next = e[k] /\ e[j] \in Nat
      BY <3>1 DEF Starts
    <3>4. ~(h[j] > Len(c)) /\ h[k] = RecordAt(c, h[j]).next
      BY <3>2, <3>3
    <3> QED
      BY <2>2, <3>1, <3>4
  <2>3. CASE k > n
    <3>1. h[k] = e[n] /\ h[k - 1] = e[n]
      BY <1>1, <2>3
    <3>2. e[n] > Len(c)
      BY DEF Starts
    <3> QED
      BY <2>3, <3>1, <3>2
  <2> QED
    BY <2>1, <2>2, <2>3
<1>3. Reads(h, c)
  <2>1. h = [k \in Nat |-> h[k]]
    BY <1>1
  <2> QED
    BY <1>2, <2>1 DEF Reads
<1>4. PICK g : g = Offsets(c) /\ Reads(g, c)
  BY <1>3, OffsetsRead
<1>5. PICK B : B = {k \in Nat : k <= n /\ g[k] # e[k]}
  OBVIOUS
<1>6. B = {}
  <2> SUFFICES ASSUME B # {} PROVE FALSE
    OBVIOUS
  <2>1. B \subseteq Nat
    BY <1>5
  <2>2. PICK m \in B : \A y \in B : m <= y
    BY <2>1, LeastExists, Zenon
  <2>3. m \in Nat /\ m <= n /\ g[m] # e[m]
    BY <1>5, <2>2
  <2>4. g[m] = IF m = 0 THEN 1
               ELSE IF g[m - 1] > Len(c) THEN g[m - 1] ELSE RecordAt(c, g[m - 1]).next
    BY <1>4, <2>3 DEF Reads
  <2>5. m # 0
    BY <2>3, <2>4 DEF Starts
  <2>6. PICK j \in 0 .. n - 1 : j = m - 1 /\ m = j + 1
    BY <2>3, <2>5
  <2>7. g[j] = e[j]
    <3>1. j \notin B
      BY <2>2, <2>3, <2>6
    <3> QED
      BY <1>5, <2>6, <3>1
  <2>8. e[j] <= Len(c) /\ RecordAt(c, e[j]).next = e[m] /\ e[j] \in Nat
    BY <2>6 DEF Starts
  <2>9. ~(g[j] > Len(c)) /\ g[m] = RecordAt(c, g[j]).next
    BY <2>4, <2>5, <2>6, <2>7, <2>8
  <2> QED
    BY <2>3, <2>7, <2>8, <2>9
<1>7. ASSUME NEW k \in 0 .. n PROVE g[k] = e[k]
  BY <1>5, <1>6, <1>7
<1> QED
  BY <1>4, <1>7

(* What the main loop has got out of a file when it gets to the end of it. *)
LEMMA RecordsByStarts ==
  ASSUME NEW c, Len(c) \in Nat, NEW n \in Nat, n <= Len(c),
         NEW e \in [0 .. n -> Nat], Starts(e, c, n)
  PROVE  RecordsOf(c) = [k \in 1 .. n |-> RecordAt(c, e[k - 1]).rec]
<1>1. PICK g : g = Offsets(c)
  OBVIOUS
<1>2. \A k \in 0 .. n : g[k] = e[k] /\ e[k] \in Nat
  BY <1>1, OffsetsAreStarts
<1>3. PICK P : P = {k \in 0 .. Len(c) : /\ g[k] > Len(c)
                                        /\ \A j \in 0 .. k - 1 : g[j] <= Len(c)}
  OBVIOUS
<1>4. n \in P
  <2>1. g[n] > Len(c) /\ \A j \in 0 .. n - 1 : g[j] <= Len(c)
    BY <1>2 DEF Starts
  <2> QED
    BY <1>3, <2>1
<1>5. ASSUME NEW k \in P PROVE k = n
  <2>1. /\ k \in 0 .. Len(c) /\ n \in 0 .. Len(c) /\ g[k] > Len(c) /\ g[n] > Len(c)
        /\ \A j \in 0 .. k - 1 : g[j] <= Len(c)
        /\ \A j \in 0 .. n - 1 : g[j] <= Len(c)
    BY <1>3, <1>4
  <2>2. ~(k < n)
    <3> SUFFICES ASSUME k < n PROVE FALSE
      OBVIOUS
    <3>1. g[k] <= Len(c) /\ g[k] \in Nat
      BY <1>2, <2>1
    <3> QED
      BY <2>1, <3>1
  <2>3. ~(n < k)
    <3> SUFFICES ASSUME n < k PROVE FALSE
      OBVIOUS
    <3>1. g[n] <= Len(c) /\ g[n] \in Nat
      BY <1>2, <2>1
    <3> QED
      BY <2>1, <3>1
  <2> QED
    BY <2>1, <2>2, <2>3
<1>6. PICK m : m = CHOOSE k \in 0 .. Len(c) : /\ g[k] > Len(c)
                                              /\ \A j \in 0 .. k - 1 : g[j] <= Len(c)
  OBVIOUS
<1>7. m \in P
  <2>1. \E k \in 0 .. Len(c) : g[k] > Len(c) /\ \A j \in 0 .. k - 1 : g[j] <= Len(c)
    BY <1>3, <1>4, Zenon
  <2> QED
    BY <1>3, <1>6, <2>1, Zenon
<1>8. m = n
  BY <1>5, <1>7
<1>9. RecordsOf(c) = [k \in 1 .. m |-> RecordAt(c, g[k - 1]).rec]
  BY <1>1, <1>6, Zenon DEF RecordsOf
<1>10. ASSUME NEW k \in 1 .. n PROVE g[k - 1] = e[k - 1]
  <2>1. k - 1 \in 0 .. n
    OBVIOUS
  <2> QED
    BY <1>2, <2>1
<1> QED
  BY <1>8, <1>9, <1>10

(* What the main loop of treplay reads is what sync_log_record wrote, in   *)
(* any trace and whatever the values of the fields; and each record takes  *)
(* the room that its operation announced (trfs/file.c:94, treplay.c:297).  *)
THEOREM TraceParsesBack ==
  ASSUME NEW S, Int \subseteq S, NEW n \in Nat, NEW records,
         records = [i \in 1 .. n |-> records[i]],
         \A i \in 1 .. n : WellFormed(S, records[i])
  PROVE  /\ RecordsOf(TraceFile(records)) = records
         /\ \A i \in DOMAIN records : Len(Cells(records[i])) = record_size(records[i])
<1>1. DOMAIN records = 1 .. n
  OBVIOUS
<1>2. ASSUME NEW i \in 1 .. n
      PROVE  /\ Cells(records[i]) \in Seq(S)
             /\ Len(Cells(records[i])) = record_size(records[i])
             /\ record_size(records[i]) \in Nat /\ record_size(records[i]) >= 4
  <2>1. PICK r : r = records[i] /\ WellFormed(S, r)
    OBVIOUS
  <2>2. /\ Body(r) \in Seq(S) /\ Cells(r) \in Seq(S)
        /\ Len(Cells(r)) = record_size(r) /\ record_size(r) = 4 + Len(Body(r))
    BY <2>1, CellsLength
  <2>3. Len(Body(r)) \in Nat
    BY <2>2
  <2>4. record_size(r) \in Nat /\ record_size(r) >= 4
    BY <2>2, <2>3
  <2> QED
    BY <2>1, <2>2, <2>4, Zenon
<1>3. PICK s : s = [i \in 1 .. n |-> Cells(records[i])]
  OBVIOUS
<1>4. s \in [1 .. n -> Seq(S)]
  BY <1>2, <1>3
<1>5. PICK F : Growth(F, s, n) /\ Ext!FlattenSeq(s) = F[n]
  BY <1>4, FlattenSteps
<1>6. PICK c : c = F[n] /\ TraceFile(records) = c
  BY <1>1, <1>3, <1>5, Zenon DEF TraceFile
<1>7. Lengthens(S, F, s, n) /\ Held(F, n)
  BY <1>4, <1>5, GrowthLengths, GrowthHeld, Zenon
<1>8. ASSUME NEW k \in 0 .. n
      PROVE  F[k] \in Seq(S) /\ Holds(c, 1, F[k]) /\ Len(F[k]) <= Len(c)
  BY <1>6, <1>7, Zenon DEF Lengthens, Held
<1>9. c \in Seq(S) /\ Len(c) \in Nat
  <2>1. n \in 0 .. n
    OBVIOUS
  <2>2. c \in Seq(S)
    BY <1>6, <1>8, <2>1, Zenon
  <2> QED
    BY <2>2
<1>10. PICK e : e = [k \in 0 .. n |-> Len(F[k]) + 1]
  OBVIOUS
<1>11. ASSUME NEW k \in 0 .. n
       PROVE  e[k] = Len(F[k]) + 1 /\ Len(F[k]) \in Nat
  BY <1>8, <1>10
<1>12. ASSUME NEW k \in 0 .. n - 1
       PROVE  /\ e[k] <= Len(c) /\ e[k] \in Nat /\ e[k] + 4 <= e[k + 1]
              /\ RecordAt(c, e[k]) = [rec |-> records[k + 1], next |-> e[k + 1]]
  <2>1. k \in 0 .. n /\ k + 1 \in 0 .. n /\ k + 1 \in 1 .. n
    OBVIOUS
  <2>2. PICK r : r = records[k + 1] /\ WellFormed(S, r) /\ s[k + 1] = Cells(r)
    BY <1>3, <2>1
  <2>3. PICK size \in Nat : /\ size = record_size(r) /\ size = Len(Cells(r)) /\ size >= 4
                            /\ Cells(r) \in Seq(S)
    BY <1>2, <2>1, <2>2
  <2>4. PICK len \in Nat, all \in Nat, o \in Nat :
          len = Len(F[k]) /\ all = Len(c) /\ o = len + 1 /\ e[k] = o
    <3>1. e[k] = Len(F[k]) + 1 /\ Len(F[k]) \in Nat
      BY <1>11, <2>1, Zenon
    <3>2. Len(F[k]) + 1 \in Nat
      BY <3>1
    <3> QED
      BY <1>9, <3>1, <3>2, Zenon
  <2>5. F[k] \in Seq(S) /\ F[k + 1] = F[k] \o Cells(r) /\ Holds(c, 1, F[k + 1])
    BY <1>5, <1>8, <2>1, <2>2, Zenon DEF Growth
  <2>6. Len(F[k + 1]) = len + size /\ len + size <= all
    <3>1. Len(F[k + 1]) = Len(F[k]) + Len(s[k + 1])
      BY <1>7 DEF Lengthens
    <3>2. Len(F[k + 1]) = len + size
      BY <2>2, <2>3, <2>4, <3>1, Zenon
    <3> QED
      BY <1>8, <2>1, <2>4, <3>2, Zenon
  <2>7. e[k + 1] = o + size
    <3>1. e[k + 1] = Len(F[k + 1]) + 1
      BY <1>11, <2>1, Zenon
    <3>2. e[k + 1] = len + size + 1
      BY <2>6, <3>1, Zenon
    <3> QED
      BY <2>4, <3>2
  <2>8. Holds(c, o, Cells(r))
    <3>1. Holds(c, 1, F[k] \o Cells(r))
      BY <2>5, Zenon
    <3>2. 1 \in Nat
      OBVIOUS
    <3>3. Holds(c, 1 + Len(F[k]), Cells(r))
      BY <2>3, <2>5, <3>1, <3>2, HoldsParts, Zenon
    <3>4. 1 + Len(F[k]) = o
      BY <2>4
    <3> QED
      BY <3>3, <3>4, Zenon
  <2>9. o > 0 /\ o - 1 + size <= all /\ o <= all /\ o + 4 <= o + size
    BY <2>3, <2>4, <2>6
  <2>10. RecordAt(c, o) = [rec |-> r, next |-> o + size]
    <3>1. o - 1 + record_size(r) <= Len(c)
      BY <2>3, <2>4, <2>9, Zenon
    <3>2. RecordAt(c, o) = [rec |-> r, next |-> o + record_size(r)]
      BY <1>9, <2>2, <2>8, <2>9, <3>1, RecordRead
    <3> QED
      BY <2>3, <3>2, Zenon
  <2> QED
    BY <2>2, <2>4, <2>7, <2>9, <2>10, Zenon
<1>13. e[0] = 1 /\ e[n] > Len(c)
  <2>1. 0 \in 0 .. n /\ n \in 0 .. n
    OBVIOUS
  <2>2. F[0] = <<>> /\ Len(F[n]) = Len(c)
    BY <1>5, <1>6, Zenon DEF Growth
  <2>3. Len(F[0]) = 0
    BY <2>2
  <2> QED
    BY <1>9, <1>11, <2>1, <2>2, <2>3
<1>14. Starts(e, c, n)
  <2>1. ASSUME NEW k \in 0 .. n - 1
        PROVE  e[k] <= Len(c) /\ RecordAt(c, e[k]).next = e[k + 1]
    <3>1. e[k] <= Len(c) /\ RecordAt(c, e[k]) = [rec |-> records[k + 1], next |-> e[k + 1]]
      BY <1>12, Zenon
    <3> QED
      BY <3>1
  <2> QED
    BY <1>13, <2>1 DEF Starts
<1>15. e \in [0 .. n -> Nat]
  <2>1. ASSUME NEW k \in 0 .. n PROVE Len(F[k]) + 1 \in Nat
    BY <1>11
  <2> QED
    BY <1>10, <2>1
<1>16. n <= Len(c)
  <2>1. PICK B : B = {k \in Nat : k <= n /\ ~(e[k] > k)}
    OBVIOUS
  <2>2. B = {}
    <3> SUFFICES ASSUME B # {} PROVE FALSE
      OBVIOUS
    <3>1. B \subseteq Nat
      BY <2>1
    <3>2. PICK m \in B : \A y \in B : m <= y
      BY <3>1, LeastExists, Zenon
    <3>3. m \in Nat /\ m <= n /\ ~(e[m] > m)
      BY <2>1, <3>2
    <3>4. m # 0
      BY <1>13, <3>3
    <3>5. PICK k \in 0 .. n - 1 : k = m - 1 /\ m = k + 1
      BY <3>3, <3>4
    <3>6. k \notin B
      BY <3>2, <3>3, <3>5
    <3>7. e[k] > k
      BY <2>1, <3>5, <3>6
    <3>8. e[k] \in Nat /\ e[k] + 4 <= e[m] /\ e[m] \in Nat
      <4>1. e[k] \in Nat /\ e[k] + 4 <= e[k + 1]
        BY <1>12, Zenon
      <4>2. m \in 0 .. n
        BY <3>3
      <4> QED
        BY <1>15, <3>5, <4>1, <4>2
    <3> QED
      BY <3>3, <3>5, <3>7, <3>8
  <2>3. e[n] > n
    BY <2>1, <2>2
  <2>4. e[n] = Len(c) + 1
    <3>1. n \in 0 .. n
      OBVIOUS
    <3> QED
      BY <1>6, <1>11, <3>1
  <2> QED
    BY <1>9, <2>3, <2>4
<1>17. RecordsOf(c) = [k \in 1 .. n |-> RecordAt(c, e[k - 1]).rec]
  BY <1>9, <1>14, <1>15, <1>16, RecordsByStarts
<1>18. ASSUME NEW k \in 1 .. n PROVE RecordAt(c, e[k - 1]).rec = records[k]
  <2>1. PICK j \in 0 .. n - 1 : j = k - 1 /\ j + 1 = k
    OBVIOUS
  <2>2. RecordAt(c, e[j]) = [rec |-> records[j + 1], next |-> e[j + 1]]
    BY <1>12, Zenon
  <2> QED
    BY <2>1, <2>2
<1>19. RecordsOf(c) = records
  BY <1>17, <1>18
<1> QED
  BY <1>1, <1>2, <1>6, <1>19, Zenon

-----------------------------------------------------------------------------
(* The records of the traced operations have the fields of their types.    *)
OnlyItsFields(r) ==
  /\ r.type \in {"read", "write", "close"} => r.name = NoName
  /\ r.type \notin {"link", "rename"} => r.new = NoName
  /\ r.type \notin {"read", "write"} => r.len = 0

TraceFields == \A i \in 1 .. Len(trace) : OnlyItsFields(trace[i].rec)

(* A record with the fields of its type keeps the trace so.                *)
LEMMA FieldsAppended ==
  ASSUME TypeOK, TraceFields, NEW r, NEW fs, Record(r, fs), OnlyItsFields(r)
  PROVE  TraceFields'
<1>1. trace \in Traces
  BY DEF TypeOK, Traces
<1>2. PICK n \in Nat : n = Len(trace)
  BY <1>1 DEF Traces
<1>3. PICK e : e = [rec |-> r, fs |-> fs] /\ trace' = Append(trace, e)
  BY DEF Record
<1>4. e.rec = r
  BY <1>3
<1>5. /\ Len(trace') = n + 1 /\ trace'[n + 1] = e
      /\ \A i \in 1 .. n : trace'[i] = trace[i]
  BY <1>1, <1>2, <1>3 DEF Traces
<1>6. ASSUME NEW i \in 1 .. n + 1 PROVE OnlyItsFields(trace'[i].rec)
  <2>1. CASE i = n + 1
    BY <1>4, <1>5, <2>1
  <2>2. CASE i # n + 1
    <3>1. i \in 1 .. n
      BY <1>2, <2>2
    <3>2. OnlyItsFields(trace[i].rec)
      BY <1>2, <3>1 DEF TraceFields
    <3> QED
      BY <1>5, <3>1, <3>2
  <2> QED
    BY <2>1, <2>2
<1> QED
  BY <1>5, <1>6 DEF TraceFields

(* The records of the operations before anything is set on them.           *)
LEMMA BlankFields ==
  Blank.name = NoName /\ Blank.new = NoName /\ Blank.len = 0
BY DEF Blank

LEMMA OnFileFields ==
  ASSUME TypeOK, NEW type \in OnFiles, NEW a \in Addrs
  PROVE  /\ OnFile(type, a).name = NoName /\ OnFile(type, a).new = NoName
         /\ OnFile(type, a).len = 0
BY BlankRecord, BlankFields DEF OnFile, Records

LEMMA NamedFields ==
  ASSUME NEW type, NEW n
  PROVE  Named(type, n).type = type /\ Named(type, n).new = NoName /\ Named(type, n).len = 0
BY BlankRecord, BlankFields DEF Named, Records

(* A refused operation is traced with its result and nothing else, and so  *)
(* is an error after one.                                                  *)
LEMMA RefusedFields ==
  ASSUME TypeOK, TraceFields, NEW r \in Records, OnlyItsFields(r), NEW fs,
         RefusedOn(fs, r)
  PROVE  TraceFields'
<1>1. PICK e : Record([r EXCEPT !.ret = -e, !.fails = TRUE], fs)
  BY DEF RefusedOn
<1>2. PICK f : f = [r EXCEPT !.ret = -e, !.fails = TRUE]
  OBVIOUS
<1>3. f.type = r.type /\ f.name = r.name /\ f.new = r.new /\ f.len = r.len
  BY <1>2 DEF Records
<1>4. OnlyItsFields(f)
  BY <1>3 DEF OnlyItsFields
<1> QED
  BY <1>1, <1>2, <1>4, FieldsAppended

LEMMA ReportedFields ==
  ASSUME TypeOK, TraceFields, NEW r \in Records, OnlyItsFields(r), NEW fs, Reported(r, fs)
  PROVE  TraceFields'
<1>1. CASE Record(r, fs)
  BY <1>1, FieldsAppended
<1>2. ASSUME NEW e, Record([r EXCEPT !.ret = -e], fs)
      PROVE  TraceFields'
  <2>1. PICK f : f = [r EXCEPT !.ret = -e]
    OBVIOUS
  <2>2. f.type = r.type /\ f.name = r.name /\ f.new = r.new /\ f.len = r.len
    BY <2>1 DEF Records
  <2>3. OnlyItsFields(f)
    BY <2>2 DEF OnlyItsFields
  <2> QED
    BY <1>2, <2>1, <2>3, FieldsAppended
<1> QED
  BY <1>1, <1>2 DEF Reported

(* trfs_create and trfs_open.                                              *)
LEMMA OpenFields ==
  ASSUME TypeOK, TraceFields, NEW a \in Addrs, NEW n \in Names, trfs_open(a, n)
  PROVE  TraceFields'
<1>1. PICK creat, fs, r :
        /\ creat = Free(lower, n)
        /\ r = [Blank EXCEPT !.type = "open", !.addr = a, !.name = n,
                             !.creat = creat, !.by = Here]
        /\ Record(r, fs) \/ RefusedOn(fs, r)
  BY DEF trfs_open
<1>2. r.type = "open" /\ r.new = NoName /\ r.len = 0
  BY <1>1, BlankRecord, BlankFields DEF Records
<1>3. OnlyItsFields(r)
  BY <1>2 DEF OnlyItsFields
<1>4. r \in Records
  <2>1. Len(trace) < MaxOps /\ Len(trace) \in Nat
    <3>1. Len(trace) < MaxOps
      BY Zenon DEF trfs_open, Record, RefusedOn
    <3>2. trace \in Traces
      BY DEF TypeOK, Traces
    <3> QED
      BY <3>1, <3>2 DEF Traces
  <2>2. PICK h \in 0 .. MaxOps : h = Here
    BY <2>1, BoundsAssumption DEF Here
  <2>3. creat \in BOOLEAN
    BY <1>1 DEF Free
  <2>4. r = [Blank EXCEPT !.type = "open", !.addr = a, !.name = n, !.creat = creat, !.by = h]
    BY <1>1, <2>2
  <2> QED
    BY <2>2, <2>3, <2>4, BlankRecord DEF Blank, Records
<1> QED
  BY <1>1, <1>3, <1>4, FieldsAppended, RefusedFields

(* trfs_read and trfs_write.                                               *)
LEMMA DataFields ==
  ASSUME TypeOK, TraceFields, NEW a \in Addrs, NEW type \in {"read", "write"},
         NEW ppos, NEW len, NEW fs, Record(OnData(type, a, ppos, len), fs)
  PROVE  TraceFields'
<1>1. PICK r : r = OnFile(type, a) /\ r \in Records
  BY OnFileRecord DEF OnFiles
<1>2. r.type = type /\ r.name = NoName /\ r.new = NoName
  BY <1>1, OnFileRecord, OnFileFields DEF OnFiles
<1>3. PICK b : b = (ppos.at # files[a].told)
  OBVIOUS
<1>4. PICK q : q = [r EXCEPT !.len = len, !.ret = len, !.strays = b]
  OBVIOUS
<1>5. q.type = type /\ q.name = NoName /\ q.new = NoName
  BY <1>1, <1>2, <1>4 DEF Records
<1>6. OnlyItsFields(q)
  BY <1>5 DEF OnlyItsFields
<1>7. q = OnData(type, a, ppos, len)
  BY <1>1, <1>3, <1>4 DEF OnData
<1> QED
  BY <1>6, <1>7, FieldsAppended

(* The operations on open files.                                           *)
LEMMA FileFields ==
  ASSUME TypeOK, TraceFields, NEW a \in Addrs,
         \/ trfs_read(a) \/ trfs_write(a) \/ trfs_readdir(a)
         \/ generic_file_llseek(a) \/ trfs_flush(a) \/ Duplicate(a)
  PROVE  TraceFields'
<1>1. CASE trfs_read(a)
  <2>1. PICK ppos, n : Record(OnData("read", a, ppos, n), lower)
    BY <1>1 DEF trfs_read
  <2> QED
    BY <2>1, DataFields
<1>2. CASE trfs_write(a)
  <2>1. PICK ppos, len, fs : Record(OnData("write", a, ppos, len), fs)
    BY <1>2 DEF trfs_write
  <2> QED
    BY <2>1, DataFields
<1>3. CASE trfs_readdir(a)
  <2>1. PICK r : r = OnFile("readdir", a) /\ r \in Records
    BY OnFileRecord DEF OnFiles
  <2>2. OnlyItsFields(r)
    BY <2>1, OnFileRecord, OnFileFields DEF OnFiles, OnlyItsFields
  <2>3. Record(r, lower) \/ RefusedOn(lower, r)
    BY <1>3, <2>1 DEF trfs_readdir, Refused
  <2> QED
    BY <2>1, <2>2, <2>3, FieldsAppended, RefusedFields
<1>4. CASE trfs_flush(a)
  <2>1. PICK r : r = OnFile("close", a) /\ r \in Records
    BY OnFileRecord DEF OnFiles
  <2>2. OnlyItsFields(r)
    BY <2>1, OnFileRecord, OnFileFields DEF OnFiles, OnlyItsFields
  <2>3. Reported(r, lower)
    BY <1>4, <2>1 DEF trfs_flush
  <2> QED
    BY <2>1, <2>2, <2>3, ReportedFields
<1>5. CASE Duplicate(a) \/ generic_file_llseek(a)
  BY <1>5 DEF Duplicate, generic_file_llseek, TraceFields
<1> QED
  BY <1>1, <1>2, <1>3, <1>4, <1>5

(* The operations on one name.                                             *)
LEMMA NameFields ==
  ASSUME TypeOK, TraceFields, NEW n \in Names,
         trfs_mkdir(n) \/ trfs_unlink(n) \/ trfs_rmdir(n)
  PROVE  TraceFields'
<1>1. PICK type \in {"mkdir", "unlink", "rmdir"} :
        \E fs : Record(Named(type, n), fs) \/ RefusedOn(fs, Named(type, n))
  BY DEF trfs_mkdir, trfs_unlink, trfs_rmdir, Refused
<1>2. PICK r : r = Named(type, n) /\ r \in Records
  BY NamedRecord DEF OnNames
<1>3. OnlyItsFields(r)
  BY <1>2, NamedFields DEF OnlyItsFields
<1>4. PICK fs : Record(r, fs) \/ RefusedOn(fs, r)
  BY <1>1, <1>2
<1> QED
  BY <1>2, <1>3, <1>4, FieldsAppended, RefusedFields

(* The operations on two names.                                            *)
LEMMA TwoNamesFields ==
  ASSUME TypeOK, TraceFields, NEW old \in Names, NEW new \in Names,
         trfs_link(old, new) \/ trfs_rename(old, new)
  PROVE  TraceFields'
<1>1. PICK type, q :
        /\ type \in {"link", "rename"}
        /\ q = [Named(type, old) EXCEPT !.new = new]
        /\ \E fs : Reported(q, fs) \/ Record(q, fs) \/ RefusedOn(fs, q)
  BY DEF trfs_link, trfs_rename, Refused
<1>2. PICK fs : Reported(q, fs) \/ Record(q, fs) \/ RefusedOn(fs, q)
  BY <1>1
<1>3. PICK r : r = Named(type, old) /\ r \in Records /\ r.type = type /\ r.len = 0
  BY <1>1, NamedRecord, NamedFields DEF OnNames
<1>4. q \in Records /\ q.type = type /\ q.len = 0
  BY <1>1, <1>3 DEF Records
<1>5. OnlyItsFields(q)
  BY <1>1, <1>4 DEF OnlyItsFields
<1> QED
  BY <1>2, <1>4, <1>5, FieldsAppended, RefusedFields, ReportedFields

(* No step takes a record with foreign fields to the trace.                *)
LEMMA FieldsNext ==
  ASSUME TypeOK, TraceFields, [Next]_vars
  PROVE  TraceFields'
<1>1. CASE Traced
  BY <1>1, OpenFields, FileFields, NameFields, TwoNamesFields DEF Traced
<1>2. CASE ~Traced
  <2>1. trace' = trace
    BY <1>2 DEF Next, Start, replay_record, ShowRecord, ReplayOpen, ReplayRead, ReplayWrite,
                ReplayClose, ReplayReaddir, ReplayMkdir, ReplayUnlink, ReplayRmdir, ReplayLink,
                ReplayRename, Do, Result, traced, vars
  <2> QED
    BY <2>1 DEF TraceFields
<1> QED
  BY <1>1, <1>2

(* The invariant that ParsesBack needs beyond the types.                   *)
LEMMA FieldsInvariant == Spec => []TraceFields
<1>1. Init => TraceFields
  <2> SUFFICES ASSUME Init PROVE TraceFields
    OBVIOUS
  <2>1. Len(trace) = 0
    BY DEF Init
  <2> QED
    BY <2>1 DEF TraceFields
<1>2. TypeOK /\ TraceFields /\ [Next]_vars => TraceFields'
  BY FieldsNext
<1> QED
  BY <1>1, <1>2, ReplayTypeCorrect, PTL DEF Spec

(* What a record becomes in the trace file has the fields of its type.     *)
LEMMA InFileFormed ==
  ASSUME TypeOK, NEW i \in 1 .. Len(trace), OnlyItsFields(trace[i].rec),
         NEW S, S = Int \cup Addrs \cup {NoAddr} \cup Names \cup {"byte"}
  PROVE  WellFormed(S, InFile(i))
<1>1. PICK r \in Records : r = trace[i].rec
  <2>1. PICK R : R = [rec : Records, fs : FileSystems]
    OBVIOUS
  <2>2. trace \in Seq(R)
    BY <2>1 DEF TypeOK
  <2>3. trace[i] \in R
    BY <2>2
  <2> QED
    BY <2>1, <2>3
<1>2. PICK path, new, data, flags :
        /\ path = Bytes(r.name) /\ new = Bytes(r.new)
        /\ data = [b \in 1 .. r.len |-> "byte"]
        /\ flags = IF r.type = "open" /\ r.creat THEN 1 ELSE 0
  OBVIOUS
<1>3. InFile(i) = Edit(Edit(Edit(Edit(Edit(Edit(Edit(Edit(NoFields, "id", i), "type", r.type),
                  "ret", r.ret), "addr", r.addr), "path", path), "new_path", new),
                  "flags", flags), "data", data)
  BY <1>1, <1>2, Zenon DEF InFile, Edit
<1>4. NoFields = Rec(0, "close", 0, 0, <<>>, <<>>, 0, 0, <<>>)
  BY DEF NoFields, Rec
<1>5. InFile(i) = Rec(i, r.type, r.ret, r.addr, path, new, flags, 0, data)
  BY <1>3, <1>4, OtherField
<1>6. r.type \in LogTypes /\ r.ret \in S /\ r.addr \in S /\ i \in S /\ 0 \in S
  BY DEF Records, LogTypes, OnFiles, OnNames
<1>7. flags \in S /\ (r.type # "open" => flags = 0)
  BY <1>2
<1>8. path \in Seq(S) /\ new \in Seq(S)
  <2>1. ASSUME NEW n \in Names \cup {NoName} PROVE Bytes(n) \in Seq(S)
    <3>1. CASE n = NoName
      BY <3>1 DEF Bytes
    <3>2. CASE n # NoName
      <4>1. n \in S
        BY <3>2
      <4>2. <<n>> \in Seq(S)
        BY <4>1
      <4> QED
        BY <3>2, <4>2 DEF Bytes
    <3> QED
      BY <3>1, <3>2
  <2> QED
    BY <1>2, <2>1 DEF Records
<1>9. data \in Seq(S) /\ (r.len = 0 => data = <<>>)
  <2>1. r.len \in Nat /\ "byte" \in S
    BY DEF Records
  <2> QED
    BY <1>2, <2>1
<1>10. /\ r.type \in {"read", "write", "close"} => path = <<>>
       /\ r.type \notin {"link", "rename"} => new = <<>>
       /\ r.type \notin {"read", "write"} => data = <<>>
  BY <1>1, <1>2, <1>9 DEF OnlyItsFields, Bytes
<1>11. PICK x : x = Rec(i, r.type, r.ret, r.addr, path, new, flags, 0, data)
  OBVIOUS
<1>12. /\ x.type = r.type /\ x.path = path /\ x.new_path = new
       /\ x.flags = flags /\ x.mode = 0 /\ x.data = data
  BY <1>11 DEF Rec
<1>13. x \in [id : S, type : LogTypes, ret : S, addr : S, path : Seq(S), new_path : Seq(S),
              flags : S, mode : S, data : Seq(S)]
  BY <1>6, <1>7, <1>8, <1>9, <1>11 DEF Rec
<1>14. WellFormed(S, x)
  BY <1>7, <1>10, <1>12, <1>13, Zenon DEF WellFormed
<1> QED
  BY <1>5, <1>11, <1>14

(* The main loop of treplay gets out of the trace file the records that    *)
(* trfs put in, field by field, however long the trace (trfs/file.c:94,    *)
(* treplay.c:297-531).                                                     *)
THEOREM ReplayParsesBack == Spec => []ParsesBack
<1>1. ASSUME TypeOK, TraceFields PROVE ParsesBack
  <2>1. PICK n \in Nat : n = Len(trace) /\ DOMAIN trace = 1 .. n
    BY <1>1 DEF TypeOK
  <2>2. PICK records : records = [i \in 1 .. n |-> InFile(i)]
    OBVIOUS
  <2>3. PICK S : S = Int \cup Addrs \cup {NoAddr} \cup Names \cup {"byte"}
    OBVIOUS
  <2>4. \A i \in 1 .. n : WellFormed(S, InFile(i))
    BY <1>1, <2>1, <2>3, InFileFormed DEF TraceFields
  <2>5. Int \subseteq S /\ records = [i \in 1 .. n |-> records[i]]
    BY <2>2, <2>3
  <2>6. \A i \in 1 .. n : WellFormed(S, records[i])
    BY <2>2, <2>4
  <2>7. /\ RecordsOf(TraceFile(records)) = records
        /\ \A i \in DOMAIN records : Len(Cells(records[i])) = record_size(records[i])
    BY <2>5, <2>6, TraceParsesBack
  <2> QED
    BY <2>1, <2>2, <2>7, Zenon DEF ParsesBack
<1> QED
  BY <1>1, FieldsInvariant, ReplayTypeCorrect, PTL
=============================================================================
