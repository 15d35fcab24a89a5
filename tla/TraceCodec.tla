----------------------------- MODULE TraceCodec -----------------------------
(***************************************************************************)
(* The trace file as sync_log_record of trfs writes it and as the main     *)
(* loop of treplay reads it.  The two share no header: each has its own    *)
(* copy of the record, of its types and of the order of the fields.  The   *)
(* file is a sequence of cells; a field of fixed width is one cell, a path *)
(* or a block of data is its length and then one cell for each byte.       *)
(***************************************************************************)
EXTENDS Integers, Sequences

Ext == INSTANCE SequencesExt

(* enum log_types, once in the kernel and once in treplay.                 *)
log_types   == <<"readdir", "open", "read", "write", "close",
                 "mkdir", "unlink", "link", "rename", "rmdir">>
check_types == <<"readdir", "open", "read", "write", "close",
                 "mkdir", "unlink", "link", "rename", "rmdir">>

NoFields == [id |-> 0, type |-> "close", ret |-> 0, addr |-> 0, path |-> <<>>,
             new_path |-> <<>>, flags |-> 0, mode |-> 0, data |-> <<>>]

-----------------------------------------------------------------------------
(* The writer.                                                             *)
Block(s) == <<Len(s)>> \o s

log_record_common(r) ==
  <<r.id, (CHOOSE i \in DOMAIN log_types : log_types[i] = r.type) - 1, r.ret, r.addr>>

Body(r) ==
  CASE r.type \in {"readdir", "unlink", "rmdir"} -> Block(r.path)
    [] r.type = "open"              -> Block(r.path) \o <<r.flags, r.mode>>
    [] r.type = "mkdir"             -> Block(r.path) \o <<r.mode>>
    [] r.type \in {"read", "write"} -> Block(r.data)
    [] r.type \in {"link", "rename"} -> Block(r.path) \o Block(r.new_path)
    [] r.type = "close"             -> <<>>

Cells(r) == log_record_common(r) \o Body(r)

(* record_size, which each operation computes for itself and which decides *)
(* whether the buffer is flushed before the record is copied.              *)
record_size(r) ==
  4 + CASE r.type \in {"readdir", "unlink", "rmdir"} -> 1 + Len(r.path)
        [] r.type = "open"              -> 1 + Len(r.path) + 2
        [] r.type = "mkdir"             -> 1 + Len(r.path) + 1
        [] r.type \in {"read", "write"} -> 1 + Len(r.data)
        [] r.type \in {"link", "rename"} -> 1 + Len(r.path) + 1 + Len(r.new_path)
        [] r.type = "close"             -> 0

TraceFile(records) == Ext!FlattenSeq([i \in DOMAIN records |-> Cells(records[i])])

-----------------------------------------------------------------------------
(* The reader, at cell o of file c.                                        *)
BlockAt(c, o) == SubSeq(c, o + 1, o + c[o])
After(c, o)   == o + 1 + c[o]

CommonAt(c, o) ==
  [NoFields EXCEPT !.id = c[o], !.type = check_types[c[o + 1] + 1],
                   !.ret = c[o + 2], !.addr = c[o + 3]]

ModeFirst(r, c, q) ==   \* mutant: the mode of an open is read before its flags
  [r EXCEPT !.mode = c[q], !.flags = c[q + 1]]

FlagsAt(r, c, q) == [r EXCEPT !.flags = c[q], !.mode = c[q + 1]]

RecordAt(c, o) ==
  LET r == CommonAt(c, o)
      p == o + 4
      q == After(c, p)
  IN CASE r.type \in {"readdir", "unlink", "rmdir"} ->
            [rec |-> [r EXCEPT !.path = BlockAt(c, p)], next |-> q]
       [] r.type = "open" ->
            [rec |-> FlagsAt([r EXCEPT !.path = BlockAt(c, p)], c, q), next |-> q + 2]
       [] r.type = "mkdir" ->
            [rec |-> [r EXCEPT !.path = BlockAt(c, p), !.mode = c[q]], next |-> q + 1]
       [] r.type \in {"read", "write"} ->
            [rec |-> [r EXCEPT !.data = BlockAt(c, p)], next |-> q]
       [] r.type \in {"link", "rename"} ->
            [rec  |-> [r EXCEPT !.path = BlockAt(c, p), !.new_path = BlockAt(c, q)],
             next |-> After(c, q)]
       [] r.type = "close" -> [rec |-> r, next |-> p]

(* The main loop: where each of its iterations starts to read, and what it *)
(* has read when it gets to the end of the file.                           *)
Offsets(c) ==
  LET at[k \in Nat] ==
        IF k = 0 THEN 1
        ELSE LET o == at[k - 1] IN IF o > Len(c) THEN o ELSE RecordAt(c, o).next
  IN at

RecordsOf(c) ==
  LET n == CHOOSE k \in 0 .. Len(c) :
             /\ Offsets(c)[k] > Len(c)
             /\ \A j \in 0 .. k - 1 : Offsets(c)[j] <= Len(c)
  IN [k \in 1 .. n |-> RecordAt(c, Offsets(c)[k - 1]).rec]
=============================================================================
