-------------------------- MODULE TrfsTraceProofs --------------------------
(* Proofs about the trace pipeline, for every number of callers,           *)
(* directories and operations and every size of the buffer.                *)
EXTENDS TrfsTrace, SequenceTheorems, TLAPS

-----------------------------------------------------------------------------
(* Records: what the actions store in arg, wq and the trace is a record.   *)
LEMMA BlankType == Blank \in Record
  BY OpsAssumption DEF Blank, Record, Types

LEMMA RecordCall ==
  ASSUME NEW type \in Types, NEW n \in Nat, NEW s \in BOOLEAN, NEW e \in Nat,
         NEW D \in SUBSET Dirs, NEW c \in Callers
  PROVE  [Blank EXCEPT !.type = type, !.size = n, !.sig = s,
                       !.exec = e, !.dirs = D, !.by = c] \in Record
  BY DEF Blank, Record

LEMMA RecordQueued ==
  ASSUME NEW r \in Record, NEW n \in Nat
  PROVE  /\ [r EXCEPT !.q = n] \in Record
         /\ [[r EXCEPT !.large = TRUE] EXCEPT !.q = n] \in Record
         /\ [r EXCEPT !.sig = TRUE] \in Record
  BY DEF Record

LEMMA RecordNumbered ==
  ASSUME NEW r \in Record, NEW n \in Nat, NEW p \in Nat
  PROVE  [r EXCEPT !.id = n, !.pos = p] \in Record
  BY DEF Record

LEMMA EntryType ==
  ASSUME NEW r \in Record, NEW k \in {"head", "data"}, NEW w \in BOOLEAN
  PROVE  [kind |-> k, rec |-> r, whole |-> w] \in Entry
  BY DEF Entry

(* What reaches the file of a sequence of entries, failed and short writes *)
(* included, is no longer than the sequence, and each entry is its         *)
(* counterpart in kind and record.                                         *)
LEMMA WrittenIsPrefix ==
  ASSUME NEW s \in Seq(Entry), NEW w \in Written(s)
  PROVE  /\ w \in Seq(Entry) /\ Len(w) <= Len(s)
         /\ \A i \in 1 .. Len(w) : w[i].kind = s[i].kind /\ w[i].rec = s[i].rec
<1>1. CASE w = s
  BY <1>1
<1>2. CASE w \in Prefixes(s)
  <2>1. PICK k \in 0 .. Len(s) : w = SubSeq(s, 1, k)
    BY <1>2 DEF Prefixes
  <2>2. w \in Seq(Entry) /\ Len(w) = k /\ \A i \in 1 .. k : w[i] = s[i]
    BY <2>1
  <2> QED
    BY <2>2
<1>3. CASE w \in CutShort(s)
  <2>1. PICK k \in 1 .. Len(s) : w = [SubSeq(s, 1, k) EXCEPT ![k].whole = FALSE]
    BY <1>3 DEF CutShort
  <2> DEFINE p == SubSeq(s, 1, k)
  <2>2. p \in Seq(Entry) /\ Len(p) = k /\ \A i \in 1 .. k : p[i] = s[i] /\ p[i] \in Entry
    OBVIOUS
  <2>3. w = [i \in 1 .. k |-> IF i = k THEN [p[k] EXCEPT !.whole = FALSE] ELSE p[i]]
    <3>1. p = [i \in 1 .. k |-> s[i]]
      BY DEF p
    <3>2. w = [p EXCEPT ![k] = [p[k] EXCEPT !.whole = FALSE]]
      BY <2>1 DEF p
    <3> HIDE DEF p
    <3> QED
      BY <3>1, <3>2
  <2> HIDE DEF p
  <2>4. [p[k] EXCEPT !.whole = FALSE] \in Entry
    <3>1. p[k] \in [kind : {"head", "data"}, rec : Record, whole : BOOLEAN]
      BY <2>2 DEF Entry
    <3> QED
      BY <3>1 DEF Entry
  <2>5. w \in Seq(Entry) /\ Len(w) = k
    <3>1. w \in [1 .. k -> Entry]
      BY <2>2, <2>3, <2>4
    <3> QED
      BY <3>1
  <2>6. \A i \in 1 .. k : w[i].kind = p[i].kind /\ w[i].rec = p[i].rec
    BY <2>2, <2>3 DEF Entry
  <2> QED
    BY <2>2, <2>5, <2>6
<1> QED
  BY <1>1, <1>2, <1>3 DEF Written

-----------------------------------------------------------------------------
(* Type correctness.                                                       *)
LEMMA GotoType ==
  ASSUME TypeOK, NEW a \in Actors, NEW from, NEW to \in StepsOf(a), Goto(a, from, to)
  PROVE  pc' \in [Actors -> Steps] /\ \A b \in Actors : pc'[b] \in StepsOf(b)
  BY DEF TypeOK, Goto, Steps

LEMMA ActorsAre ==
  /\ Callers \subseteq Actors /\ Worker \in Actors /\ Logger \in Actors
  /\ \A c \in Callers : c # Worker /\ c # Logger /\ c # NoOne
  /\ Worker # Logger
  /\ \A a \in Actors : a # NoOne
  BY ActorsAssumption DEF Actors

LEMMA UnlockedType ==
  ASSUME TypeOK, NEW a
  PROVE  Unlocked(a) \in [Dirs -> Callers \cup {NoOne}]
  BY DEF TypeOK, Unlocked

LEMMA InitType == Init => TypeOK
<1> SUFFICES ASSUME Init PROVE TypeOK
  OBVIOUS
<1>1. pc \in [Actors -> Steps] /\ \A a \in Actors : pc[a] \in StepsOf(a)
  BY ActorsAre DEF Init, StepsOf, Steps
<1>2. arg \in [Actors -> Record]
  BY BlankType DEF Init
<1>3. 0 \in 0 .. (IdSpace - 1)
  BY SizesAssumption
<1> QED
  BY <1>1, <1>2, <1>3 DEF Init, TypeOK

LEMMA CallType ==
  ASSUME TypeOK, NEW c \in Callers, NEW type \in Types, NEW sizes \in SUBSET Nat,
         NEW D \in SUBSET Dirs, NEW uninit \in SUBSET BOOLEAN,
         Call(c, type, sizes, D, uninit)
  PROVE  TypeOK'
<1>1. pc' \in [Actors -> Steps] /\ \A b \in Actors : pc'[b] \in StepsOf(b)
  BY GotoType, ActorsAre DEF Call, StepsOf
<1>2. held' \in [Dirs -> Callers \cup {NoOne}]
  BY DEF TypeOK, Call
<1>3. arg' \in [Actors -> Record]
  <2>1. PICK n \in sizes, s \in uninit :
          arg' = [arg EXCEPT ![c] =
                    [Blank EXCEPT !.type = type, !.size = n, !.sig = s,
                                  !.exec = ops + 1, !.dirs = D, !.by = c]]
    BY DEF Call
  <2>2. [Blank EXCEPT !.type = type, !.size = n, !.sig = s,
                      !.exec = ops + 1, !.dirs = D, !.by = c] \in Record
    <3>1. n \in Nat /\ s \in BOOLEAN /\ ops + 1 \in Nat
      BY DEF TypeOK
    <3> QED
      BY <3>1, RecordCall, Zenon
  <2> QED
    BY <2>1, <2>2 DEF TypeOK
<1> QED
  BY <1>1, <1>2, <1>3 DEF TypeOK, Call, trace, ids

LEMMA LogType == ASSUME TypeOK, NEW a \in Actors, Log(a) PROVE TypeOK'
<1>1. ASSUME NEW to \in LogSteps \cup {After(a)}, NEW from, Goto(a, from, to)
      PROVE  pc' \in [Actors -> Steps] /\ \A b \in Actors : pc'[b] \in StepsOf(b)
  <2>1. to \in StepsOf(a)
    BY <1>1 DEF StepsOf, After, Actors
  <2> QED
    BY <1>1, <2>1, GotoType
<1>2. ASSUME NEW from, Return(a, from)
      PROVE  /\ pc' \in [Actors -> Steps] /\ \A b \in Actors : pc'[b] \in StepsOf(b)
             /\ held' \in [Dirs -> Callers \cup {NoOne}]
             /\ arg' \in [Actors -> Record]
  BY <1>1, <1>2, UnlockedType, BlankType DEF Return, TypeOK
<1>3. CASE log_record_skip(a)
  BY <1>2, <1>3 DEF log_record_skip, TypeOK, trace, ids
<1>4. CASE log_record(a)
  BY <1>1, <1>4 DEF log_record, LogSteps, TypeOK, trace, ids
<1>5. CASE LockForRecord(a)
  <2>1. arg' \in [Actors -> Record]
    <3>1. [arg[a] EXCEPT !.id = last_id, !.pos = logged] \in Record
      <4>1. arg[a] \in Record /\ last_id \in Nat /\ logged \in Nat
        BY SizesAssumption DEF TypeOK
      <4> QED
        BY <4>1, RecordNumbered, Zenon
    <3> QED
      BY <1>5, <3>1 DEF LockForRecord, TypeOK
  <2>2. last_id' \in 0 .. (IdSpace - 1)
    BY <1>5, SizesAssumption DEF LockForRecord, Succ, TypeOK
  <2> QED
    BY <1>1, <1>5, <2>1, <2>2 DEF LockForRecord, mutex_lock, LogSteps, TypeOK, trace
<1>6. CASE LockForFlush(a)
  BY <1>1, <1>6 DEF LockForFlush, mutex_lock, LogSteps, TypeOK, trace, ids
<1>7. CASE FlushBuffer(a)
  <2>1. file' \in Seq(Entry)
    BY <1>7, WrittenIsPrefix DEF FlushBuffer, file_write, TypeOK
  <2> QED
    BY <1>1, <1>7, <2>1 DEF FlushBuffer, file_write, LogSteps, TypeOK, ids
<1>8. CASE FlushDone(a)
  BY <1>1, <1>8 DEF FlushDone, ResetBuffer, LogSteps, TypeOK, ids
<1>9. CASE sync_log_record(a)
  <2>1. PICK from : CopyRecord(a, from)
    BY <1>9 DEF sync_log_record
  <2>2. buffer' \in Seq(Entry)
    <3>1. [kind |-> "head", rec |-> arg[a], whole |-> TRUE] \in Entry
      BY EntryType DEF TypeOK
    <3>2. buffer' = Append(buffer, [kind |-> "head", rec |-> arg[a], whole |-> TRUE])
      BY <2>1 DEF CopyRecord
    <3> QED
      BY <3>1, <3>2 DEF TypeOK
  <2>3. LogSize(arg[a]) \in Nat
    BY SizesAssumption DEF LogSize, TypeOK, Record
  <2> QED
    BY <1>1, <2>1, <2>2, <2>3 DEF CopyRecord, LogSteps, TypeOK, ids
<1>10. CASE mutex_unlock(a)
  BY <1>2, <1>10 DEF mutex_unlock, TypeOK, trace, ids
<1> QED
  BY <1>3, <1>4, <1>5, <1>6, <1>7, <1>8, <1>9, <1>10 DEF Log

LEMMA ContinueType ==
  ASSUME TypeOK, NEW c \in Callers, Continue(c) PROVE TypeOK'
<1> c \in Actors
  BY ActorsAre
<1>1. ASSUME NEW from, NEW to, Goto(c, from, to),
             to \in {"idle", "log", "unlock", "flushwq", "biglock",
                     "bigsync", "bigreset", "payload"}
      PROVE  pc' \in [Actors -> Steps] /\ \A b \in Actors : pc'[b] \in StepsOf(b)
  <2>1. to \in StepsOf(c)
    BY <1>1, ActorsAre DEF StepsOf, LogSteps
  <2> QED
    BY <1>1, <2>1, GotoType
<1>2. ASSUME Leave(c)
      PROVE  /\ pc' \in [Actors -> Steps] /\ \A b \in Actors : pc'[b] \in StepsOf(b)
             /\ held' \in [Dirs -> Callers \cup {NoOne}]
             /\ arg' \in [Actors -> Record]
  BY <1>1, <1>2, UnlockedType, BlankType DEF Leave, TypeOK
<1>3. ASSUME NEW r \in Record, QueueWork(r) \/ QueueWork([r EXCEPT !.large = TRUE])
      PROVE  wq' \in Seq(Record) /\ queued' \in Nat
  <2>1. /\ [r EXCEPT !.q = queued + 1] \in Record
        /\ [[r EXCEPT !.large = TRUE] EXCEPT !.q = queued + 1] \in Record
    <3>1. queued + 1 \in Nat
      BY DEF TypeOK
    <3> QED
      BY <3>1, RecordQueued, Zenon
  <2>2. CASE QueueWork(r)
    BY <2>1, <2>2 DEF QueueWork, TypeOK
  <2>3. CASE QueueWork([r EXCEPT !.large = TRUE])
    BY <2>1, <2>3 DEF QueueWork, TypeOK
  <2> QED
    BY <1>3, <2>2, <2>3
<1>4. arg[c] \in Record
  BY DEF TypeOK
<1>5. CASE Untraced(c)
  BY <1>2, <1>5 DEF Untraced, TypeOK, trace, ids
<1>6. CASE eworkqueue_init(c)
  BY <1>2, <1>3, <1>4, <1>6 DEF eworkqueue_init, TypeOK, trace, ids
<1>7. CASE LogReaddir(c)
  BY <1>1, <1>7 DEF LogReaddir, TypeOK, trace, ids
<1>8. CASE SkipLarge(c)
  BY <1>2, <1>8 DEF SkipLarge, TypeOK, trace, ids
<1>9. CASE QueueLarge(c)
  BY <1>1, <1>3, <1>4, <1>9 DEF QueueLarge, TypeOK, trace, ids
<1>10. CASE flush_workqueue(c)
  BY <1>1, <1>10 DEF flush_workqueue, TypeOK, trace, ids
<1>11. CASE LockForData(c)
  BY <1>1, <1>11 DEF LockForData, mutex_lock, TypeOK, trace, ids
<1>12. CASE FlushForData(c)
  <2>1. file' \in Seq(Entry)
    BY <1>12, WrittenIsPrefix DEF FlushForData, file_write, TypeOK
  <2> QED
    BY <1>1, <1>12, <2>1 DEF FlushForData, file_write, TypeOK, ids
<1>13. CASE ResetForData(c)
  BY <1>1, <1>13 DEF ResetForData, ResetBuffer, TypeOK, ids
<1>14. CASE WriteData(c)
  <2>1. \A w \in BOOLEAN : [kind |-> "data", rec |-> arg[c], whole |-> w] \in Entry
    BY <1>4, EntryType
  <2>2. file' \in Seq(Entry)
    <3>1. PICK w \in BOOLEAN :
            \/ file' = Append(file, [kind |-> "data", rec |-> arg[c], whole |-> w])
            \/ file' = file
      BY <1>14 DEF WriteData
    <3>2. Append(file, [kind |-> "data", rec |-> arg[c], whole |-> w]) \in Seq(Entry)
      BY <2>1 DEF TypeOK
    <3> QED
      BY <3>1, <3>2, Zenon DEF TypeOK
  <2> QED
    BY <1>1, <1>14, <2>2 DEF WriteData, TypeOK, ids
<1>15. CASE Log(c)
  BY <1>15, LogType
<1> QED
  BY <1>5, <1>6, <1>7, <1>8, <1>9, <1>10, <1>11, <1>12, <1>13, <1>14, <1>15
     DEF Continue

LEMMA StartCallType ==
  ASSUME TypeOK, NEW c \in Callers, StartCall(c) PROVE TypeOK'
<1>1. PathSizes \in SUBSET Nat /\ DataSizes \in SUBSET Nat
  BY SizesAssumption
<1>2. ASSUME NEW type \in Types, NEW D \in SUBSET Dirs, NEW uninit \in SUBSET BOOLEAN,
             NEW sizes \in SUBSET Nat, Call(c, type, sizes, D, uninit)
      PROVE  TypeOK'
  BY <1>2, CallType
<1>3. CASE trfs_open(c) \/ trfs_flush(c) \/ trfs_read(c) \/ trfs_write(c)
  BY <1>1, <1>2, <1>3 DEF trfs_open, trfs_flush, trfs_read, trfs_write, Types
<1>4. CASE trfs_readdir(c) \/ trfs_mkdir(c) \/ trfs_unlink(c) \/ trfs_rmdir(c)
  BY <1>1, <1>2, <1>4 DEF trfs_readdir, trfs_mkdir, trfs_unlink, trfs_rmdir, Types
<1>5. CASE trfs_link(c) \/ trfs_rename(c)
  BY <1>1, <1>2, <1>5 DEF trfs_link, trfs_rename, Types
<1> QED
  BY <1>3, <1>4, <1>5 DEF StartCall

LEMMA NextType == ASSUME TypeOK, [Next]_vars PROVE TypeOK'
<1> USE ActorsAre
<1>1. CASE \E c \in Callers : StartCall(c) \/ Continue(c)
  BY <1>1, StartCallType, ContinueType
<1>2. CASE \E c \in Callers : trfs_unlocked_ioctl(c)
  BY <1>2, OpsAssumption DEF trfs_unlocked_ioctl, TypeOK, trace, ids
<1>3. CASE Log(Worker) \/ Log(Logger)
  BY <1>3, LogType
<1>4. CASE TakeWork
  <2>1. pc' \in [Actors -> Steps] /\ \A b \in Actors : pc'[b] \in StepsOf(b)
    BY <1>4, GotoType DEF TakeWork, StepsOf, LogSteps
  <2>2. Head(wq) \in Record /\ Tail(wq) \in Seq(Record)
    BY <1>4 DEF TakeWork, TypeOK
  <2> QED
    BY <1>4, <2>1, <2>2 DEF TakeWork, TypeOK, trace, ids
<1>5. CASE FreeWork
  <2>1. pc' \in [Actors -> Steps] /\ \A b \in Actors : pc'[b] \in StepsOf(b)
    BY <1>5, GotoType DEF FreeWork, StepsOf, LogSteps
  <2> QED
    BY <1>5, <2>1, BlankType DEF FreeWork, TypeOK, trace, ids
<1>6. CASE SignalFlush
  <2>1. pc' \in [Actors -> Steps] /\ \A b \in Actors : pc'[b] \in StepsOf(b)
    BY <1>6, GotoType DEF SignalFlush, StepsOf, LogSteps
  <2>2. [arg[Logger] EXCEPT !.sig = TRUE] \in Record
    BY RecordQueued, 0 \in Nat DEF TypeOK
  <2> QED
    BY <1>6, <2>1, <2>2 DEF SignalFlush, TypeOK, trace, ids
<1>7. CASE NothingToFlush \/ Wake
  <2>1. pc' \in [Actors -> Steps] /\ \A b \in Actors : pc'[b] \in StepsOf(b)
    BY <1>7, GotoType DEF NothingToFlush, Wake, StepsOf, LogSteps
  <2> QED
    BY <1>7, <2>1 DEF NothingToFlush, Wake, TypeOK, trace, ids
<1>8. CASE UNCHANGED vars
  BY <1>8 DEF vars, TypeOK, trace, ids
<1> QED
  BY <1>1, <1>2, <1>3, <1>4, <1>5, <1>6, <1>7, <1>8 DEF Next, WorkerStep, LoggerStep

(* Every variable keeps its type; in particular buffer_offset never wraps  *)
(* below zero and an actor is only at the steps of its own code.           *)
THEOREM TypeCorrect == Spec => []TypeOK
<1>1. Init => TypeOK
  BY InitType
<1>2. TypeOK /\ [Next]_vars => TypeOK'
  BY NextType
<1> QED
  BY <1>1, <1>2, PTL DEF Spec

-----------------------------------------------------------------------------
(***************************************************************************)
(* The inductive invariant.  Its parts:                                    *)
(*   Exclusive  an actor inside the critical section owns the lock;        *)
(*   SizesFit   a record on its way to the buffer fits an empty buffer, or *)
(*              is the header of a large operation, which always flushes;  *)
(*   Emptied    the buffer is empty after a flush, until the lock is freed *)
(*              or the record copied;                                      *)
(*   Numbered   ids are positions until they wrap, and a record that has   *)
(*              its id but is not in the buffer is the newest.             *)
(***************************************************************************)
Critical == {"sync", "reset", "append", "unlock", "bigsync", "bigreset", "payload"}

Exclusive == \A a \in Actors : pc[a] \in Critical => lock = a

Sized(r) == IF r.large THEN r.size >= Cap ELSE r.size < Cap

SizesFit ==
  /\ \A i \in DOMAIN wq : Sized(wq[i])
  /\ Sized(arg[Worker]) /\ Sized(arg[Logger])
  /\ \A c \in Callers :
       /\ ~arg[c].large
       /\ arg[c].type \in {"read", "write"} \/ arg[c].size < Cap
       /\ pc[c] \in LogSteps \ {"unlock"} => arg[c].type = "readdir"

Emptied ==
  \A a \in Actors :
    /\ pc[a] \in {"append", "payload"} => buffer = <<>> /\ buffer_offset = 0
    /\ pc[a] = "append" => ~arg[a].sig

Base == TypeOK /\ Exclusive /\ SizesFit /\ Emptied /\ BufferFits

(* The actions of Next in the groups that the proofs distinguish.          *)
CallStep(c) ==
  \E type \in Types, sizes \in SUBSET Nat, D \in SUBSET Dirs, uninit \in SUBSET BOOLEAN :
    /\ sizes \subseteq PathSizes \/ type \in {"read", "write"}
    /\ Call(c, type, sizes, D, uninit)

CallerStep(c) ==
  \/ Untraced(c) \/ eworkqueue_init(c) \/ LogReaddir(c)
  \/ SkipLarge(c) \/ QueueLarge(c) \/ flush_workqueue(c)

DataStep(c) == LockForData(c) \/ FlushForData(c) \/ ResetForData(c) \/ WriteData(c)

IdleStep ==
  \/ TakeWork \/ FreeWork \/ SignalFlush \/ NothingToFlush \/ Wake
  \/ \E c \in Callers : trfs_unlocked_ioctl(c)
  \/ UNCHANGED vars

LEMMA NextCases ==
  ASSUME [Next]_vars
  PROVE  \/ \E c \in Callers : CallStep(c) \/ CallerStep(c) \/ DataStep(c)
         \/ \E a \in Actors : Log(a)
         \/ IdleStep
<1>1. PathSizes \in SUBSET Nat /\ DataSizes \in SUBSET Nat
  BY SizesAssumption
<1>2. ASSUME NEW c \in Callers, StartCall(c) PROVE CallStep(c)
  <2>1. ASSUME NEW type \in Types, NEW D \in SUBSET Dirs, NEW uninit \in SUBSET BOOLEAN,
               Call(c, type, PathSizes, D, uninit)
        PROVE  CallStep(c)
    BY <1>1, <2>1 DEF CallStep
  <2>2. ASSUME NEW type \in {"read", "write"}, Call(c, type, DataSizes, {}, {FALSE})
        PROVE  CallStep(c)
    BY <1>1, <2>2 DEF CallStep, Types
  <2>3. CASE trfs_open(c) \/ trfs_flush(c)
    BY <2>1, <2>3 DEF trfs_open, trfs_flush, Types
  <2>4. CASE trfs_read(c) \/ trfs_write(c)
    BY <2>2, <2>4 DEF trfs_read, trfs_write
  <2>5. CASE trfs_readdir(c) \/ trfs_mkdir(c) \/ trfs_unlink(c) \/ trfs_rmdir(c)
    BY <2>1, <2>5 DEF trfs_readdir, trfs_mkdir, trfs_unlink, trfs_rmdir, Types
  <2>6. CASE trfs_link(c) \/ trfs_rename(c)
    BY <2>1, <2>6 DEF trfs_link, trfs_rename, Types
  <2> QED
    BY <1>2, <2>3, <2>4, <2>5, <2>6 DEF StartCall
<1>3. ASSUME NEW c \in Callers, Continue(c)
      PROVE  CallerStep(c) \/ DataStep(c) \/ Log(c)
  BY <1>3 DEF Continue, CallerStep, DataStep
<1> QED
  BY <1>2, <1>3, ActorsAre DEF Next, WorkerStep, LoggerStep, IdleStep

LEMMA ExclusiveStep ==
  ASSUME TypeOK, Exclusive, [Next]_vars PROVE Exclusive'
<1> USE ActorsAre
<1>1. CASE \E c \in Callers : CallStep(c)
  BY <1>1 DEF CallStep, Call, Goto, Exclusive, Critical, TypeOK
<1>2. CASE \E c \in Callers : CallerStep(c)
  BY <1>2 DEF CallerStep, Untraced, eworkqueue_init, LogReaddir, SkipLarge, QueueLarge,
              flush_workqueue, Leave, Goto, Exclusive, Critical, TypeOK
<1>3. CASE \E c \in Callers : DataStep(c)
  BY <1>3 DEF DataStep, LockForData, FlushForData, ResetForData, WriteData, mutex_lock,
              file_write, ResetBuffer, Goto, Exclusive, Critical, TypeOK
<1>4. CASE \E a \in Actors : Log(a)
  BY <1>4 DEF Log, log_record_skip, log_record, LockForRecord, LockForFlush, FlushBuffer,
              FlushDone, sync_log_record, CopyRecord, mutex_unlock, mutex_lock, Return,
              After, file_write, ResetBuffer, Goto, Exclusive, Critical, TypeOK
<1>5. CASE IdleStep
  BY <1>5 DEF IdleStep, TakeWork, FreeWork, SignalFlush, NothingToFlush, Wake,
              trfs_unlocked_ioctl, Goto, Exclusive, Critical, TypeOK, vars
<1> QED
  BY <1>1, <1>2, <1>3, <1>4, <1>5, NextCases

LEMMA BlankSized == Sized(Blank) /\ ~Blank.large /\ Blank.size < Cap
  BY SizesAssumption DEF Blank, Sized

LEMMA SizesFitStep ==
  ASSUME Base, [Next]_vars PROVE SizesFit'
<1> USE ActorsAre
<1>1. ASSUME NEW c \in Callers, CallStep(c) PROVE SizesFit'
  <2>1. PICK type \in Types, sizes \in SUBSET Nat, D \in SUBSET Dirs, uninit \in SUBSET BOOLEAN :
          /\ sizes \subseteq PathSizes \/ type \in {"read", "write"}
          /\ Call(c, type, sizes, D, uninit)
    BY <1>1 DEF CallStep
  <2>2. /\ ~arg'[c].large
        /\ arg'[c].type \in {"read", "write"} \/ arg'[c].size < Cap
    <3>1. PICK n \in sizes, s \in uninit :
            arg' = [arg EXCEPT ![c] =
                      [Blank EXCEPT !.type = type, !.size = n, !.sig = s,
                                    !.exec = ops + 1, !.dirs = D, !.by = c]]
      BY <2>1 DEF Call
    <3>2. arg'[c].type = type /\ arg'[c].size = n /\ arg'[c].large = FALSE
      BY <3>1 DEF Blank, Base, TypeOK
    <3> QED
      BY <2>1, <3>2, SizesAssumption
  <2>3. \A a \in Actors \ {c} : arg'[a] = arg[a] /\ pc'[a] = pc[a]
    BY <2>1 DEF Call, Goto, Base, TypeOK
  <2>4. pc'[c] = "built" /\ wq' = wq
    BY <2>1 DEF Call, Goto, Base, TypeOK
  <2> QED
    BY <2>2, <2>3, <2>4 DEF SizesFit, Sized, Base, LogSteps
<1>2. ASSUME NEW c \in Callers, CallerStep(c) PROVE SizesFit'
  <2>1. \A a \in Actors \ {c} : arg'[a] = arg[a] /\ pc'[a] = pc[a]
    BY <1>2 DEF CallerStep, Untraced, eworkqueue_init, LogReaddir, SkipLarge, QueueLarge,
                flush_workqueue, Leave, Goto, Base, TypeOK
  <2>2. arg'[c] \in {arg[c], Blank}
    BY <1>2 DEF CallerStep, Untraced, eworkqueue_init, LogReaddir, SkipLarge, QueueLarge,
                flush_workqueue, Leave, Goto, Base, TypeOK
  <2>3. pc'[c] \in LogSteps => arg'[c].type = "readdir"
    BY <1>2 DEF CallerStep, Untraced, eworkqueue_init, LogReaddir, SkipLarge, QueueLarge,
                flush_workqueue, Leave, Goto, LogSteps, Base, TypeOK
  <2>4. \A i \in DOMAIN wq' : Sized(wq'[i])
    <3>1. CASE eworkqueue_init(c)
      <4>1. Sized([arg[c] EXCEPT !.q = queued + 1])
        <5>1. arg[c] \in Record
          BY DEF Base, TypeOK
        <5>2. ~arg[c].large /\ (arg[c].type \in {"read", "write"} \/ arg[c].size < Cap)
          BY DEF SizesFit, Base
        <5>3. ~IsLarge(arg[c])
          BY <3>1 DEF eworkqueue_init
        <5>4. arg[c].size < Cap
          BY <5>1, <5>2, <5>3, SizesAssumption DEF IsLarge, Record
        <5> QED
          BY <5>1, <5>2, <5>4 DEF Sized, Record
      <4>2. wq' = Append(wq, [arg[c] EXCEPT !.q = queued + 1])
        BY <3>1 DEF eworkqueue_init, QueueWork
      <4> QED
        BY <4>1, <4>2 DEF SizesFit, Base, TypeOK
    <3>2. CASE QueueLarge(c)
      <4>1. Sized([[arg[c] EXCEPT !.large = TRUE] EXCEPT !.q = queued + 1])
        BY <3>2 DEF QueueLarge, IsLarge, Sized, Base, TypeOK, Record
      <4>2. wq' = Append(wq, [[arg[c] EXCEPT !.large = TRUE] EXCEPT !.q = queued + 1])
        BY <3>2 DEF QueueLarge, QueueWork
      <4> QED
        BY <4>1, <4>2 DEF SizesFit, Base, TypeOK
    <3>3. CASE wq' = wq
      BY <3>3 DEF SizesFit, Base
    <3> QED
      BY <1>2, <3>1, <3>2, <3>3 DEF CallerStep, Untraced, LogReaddir, SkipLarge,
                                   flush_workqueue
  <2> QED
    BY <2>1, <2>2, <2>3, <2>4, BlankSized DEF SizesFit, Sized, Base
<1>3. ASSUME NEW c \in Callers, DataStep(c) PROVE SizesFit'
  BY <1>3 DEF DataStep, LockForData, FlushForData, ResetForData, WriteData, mutex_lock,
              file_write, ResetBuffer, Goto, SizesFit, Sized, LogSteps, Base, TypeOK
<1>4. ASSUME NEW a \in Actors, Log(a) PROVE SizesFit'
  <2>1. \A b \in Actors \ {a} : arg'[b] = arg[b] /\ pc'[b] = pc[b]
    BY <1>4 DEF Log, log_record_skip, log_record, LockForRecord, LockForFlush, FlushBuffer,
                FlushDone, sync_log_record, CopyRecord, mutex_unlock, Return,
                file_write, ResetBuffer, Goto, Base, TypeOK
  <2>2. \/ /\ arg'[a].large = arg[a].large /\ arg'[a].size = arg[a].size
           /\ arg'[a].type = arg[a].type
        \/ a \in Callers /\ arg'[a] = Blank
    <3>1. CASE LockForRecord(a)
      BY <3>1 DEF LockForRecord, Base, TypeOK, Record
    <3>2. CASE arg' = arg
      BY <3>2
    <3>3. CASE log_record_skip(a) \/ mutex_unlock(a)
      BY <3>3 DEF log_record_skip, mutex_unlock, Return, Base, TypeOK
    <3> QED
      BY <1>4, <3>1, <3>2, <3>3 DEF Log, log_record, LockForFlush, FlushBuffer, FlushDone,
                  sync_log_record, CopyRecord, file_write, ResetBuffer
  <2>3. pc[a] \in LogSteps /\ wq' = wq
    BY <1>4 DEF Log, log_record_skip, log_record, LockForRecord, LockForFlush, FlushBuffer,
                FlushDone, sync_log_record, CopyRecord, mutex_unlock, Return,
                file_write, ResetBuffer, Goto, LogSteps
  <2>4. pc'[a] \in LogSteps \ {"unlock"} => pc[a] \in LogSteps \ {"unlock"}
    BY <1>4 DEF Log, log_record_skip, log_record, LockForRecord, LockForFlush, FlushBuffer,
                FlushDone, sync_log_record, CopyRecord, mutex_unlock, Return, After,
                file_write, ResetBuffer, Goto, LogSteps, Base, TypeOK
  <2> QED
    BY <2>1, <2>2, <2>3, <2>4, BlankSized DEF SizesFit, Sized, Base, Blank, Actors
<1>5. CASE IdleStep
  <2>1. CASE TakeWork
    <3>1. Sized(arg'[Worker]) /\ \A i \in DOMAIN wq' : Sized(wq'[i])
      <4>1. wq # <<>> /\ arg'[Worker] = wq[1] /\ wq' = Tail(wq)
        BY <2>1 DEF TakeWork, Base, TypeOK
      <4> QED
        BY <4>1 DEF SizesFit, Base, TypeOK
    <3> QED
      BY <2>1, <3>1 DEF TakeWork, Goto, SizesFit, Base, TypeOK
  <2>2. CASE FreeWork
    BY <2>2, BlankSized DEF FreeWork, Goto, SizesFit, Base, TypeOK
  <2>3. CASE SignalFlush
    <3>1. Sized(arg'[Logger])
      BY <2>3 DEF SignalFlush, SizesFit, Sized, Base, TypeOK, Record
    <3> QED
      BY <2>3, <3>1 DEF SignalFlush, Goto, SizesFit, Base, TypeOK
  <2>4. CASE NothingToFlush \/ Wake
    BY <2>4 DEF NothingToFlush, Wake, Goto, SizesFit, Base, TypeOK
  <2>5. CASE UNCHANGED <<pc, arg, wq>>
    BY <2>5 DEF SizesFit, Base
  <2> QED
    BY <1>5, <2>1, <2>2, <2>3, <2>4, <2>5 DEF IdleStep, trfs_unlocked_ioctl, vars
<1> QED
  BY <1>1, <1>2, <1>3, <1>4, <1>5, NextCases

(* The length a record takes in the buffer.                                *)
LEMMA LogSizeFits ==
  ASSUME NEW r \in Record, Sized(r)
  PROVE  /\ LogSize(r) \in Nat /\ LogSize(r) < Cap
         /\ \A n \in Nat : n + r.size < Cap => n + LogSize(r) < Cap
  BY SizesAssumption DEF LogSize, Sized, Record

LEMMA RoomStep ==
  ASSUME Base, [Next]_vars PROVE Emptied' /\ BufferFits'
<1> USE ActorsAre
<1>1. CASE \E c \in Callers : CallStep(c)
  BY <1>1 DEF CallStep, Call, Goto, Emptied, BufferFits, Base, TypeOK, trace
<1>2. CASE \E c \in Callers : CallerStep(c)
  BY <1>2 DEF CallerStep, Untraced, eworkqueue_init, LogReaddir, SkipLarge, QueueLarge,
              flush_workqueue, Leave, Goto, Emptied, BufferFits, Base, TypeOK, trace
<1>3. CASE \E c \in Callers : DataStep(c)
  BY <1>3, SizesAssumption
     DEF DataStep, LockForData, FlushForData, ResetForData, WriteData, mutex_lock,
         file_write, ResetBuffer, Goto, Emptied, BufferFits, Base, TypeOK, trace
<1>4. ASSUME NEW a \in Actors, Log(a) PROVE Emptied' /\ BufferFits'
  <2>1. CASE log_record_skip(a) \/ log_record(a) \/ mutex_unlock(a)
    BY <1>4, <2>1 DEF log_record_skip, log_record, mutex_unlock, Return, After, Goto,
                Emptied, BufferFits, Base, TypeOK, trace
  <2>2. CASE LockForRecord(a) \/ LockForFlush(a) \/ FlushBuffer(a)
    BY <1>4, <2>2 DEF LockForRecord, LockForFlush, FlushBuffer, file_write, Goto,
                Emptied, BufferFits, Base, TypeOK, trace
  <2>3. CASE FlushDone(a)
    BY <2>3, SizesAssumption DEF FlushDone, ResetBuffer, Goto,
                Emptied, BufferFits, Base, TypeOK
  <2>4. CASE sync_log_record(a)
    <3>1. pc[a] \in {"sync", "append"} /\ pc'[a] = "unlock" /\ arg' = arg
          /\ \A b \in Actors \ {a} : pc'[b] = pc[b]
      BY <2>4 DEF sync_log_record, CopyRecord, Goto, Base, TypeOK
    <3>2. \A b \in Actors \ {a} : pc[b] \notin Critical
      BY <3>1 DEF Exclusive, Critical, Base
    <3>3. Emptied'
      BY <3>1, <3>2 DEF Emptied, Critical
    <3>4. Sized(arg[a])
      BY <3>1 DEF SizesFit, Sized, LogSteps, Base, Actors
    <3>5. arg[a] \in Record /\ buffer_offset \in Nat
      BY DEF Base, TypeOK
    <3>6. buffer_offset' = buffer_offset + LogSize(arg[a])
      BY <2>4 DEF sync_log_record, CopyRecord
    <3>7. CASE pc[a] = "append"
      BY <3>4, <3>5, <3>6, <3>7, <3>3, LogSizeFits DEF Emptied, BufferFits, Base
    <3>8. CASE pc[a] = "sync"
      <4>1. ~(buffer_offset + arg[a].size >= Cap)
        BY <2>4, <3>8 DEF sync_log_record, CopyRecord, Goto, MustFlush
      <4>2. buffer_offset + arg[a].size < Cap
        BY <4>1, <3>5, SizesAssumption DEF Record
      <4> QED
        BY <3>3, <3>4, <3>5, <3>6, <4>2, LogSizeFits DEF BufferFits
    <3> QED
      BY <3>1, <3>7, <3>8
  <2> QED
    BY <1>4, <2>1, <2>2, <2>3, <2>4 DEF Log
<1>5. CASE IdleStep
  BY <1>5 DEF IdleStep, TakeWork, FreeWork, SignalFlush, NothingToFlush, Wake,
              trfs_unlocked_ioctl, Goto, Emptied, BufferFits, Base, TypeOK, vars, trace
<1> QED
  BY <1>1, <1>2, <1>3, <1>4, <1>5, NextCases

LEMMA BaseInvariant == Spec => []Base
<1>1. Init => Base
  <2> SUFFICES ASSUME Init PROVE Base
    OBVIOUS
  <2>1. TypeOK
    BY InitType
  <2>2. SizesFit
    BY BlankSized, ActorsAre DEF Init, SizesFit, LogSteps
  <2>3. Exclusive /\ Emptied /\ BufferFits
    BY SizesAssumption DEF Init, Exclusive, Critical, Emptied, BufferFits
  <2> QED
    BY <2>1, <2>2, <2>3 DEF Base
<1>2. Base /\ [Next]_vars => Base'
  BY NextType, ExclusiveStep, SizesFitStep, RoomStep DEF Base
<1> QED
  BY <1>1, <1>2, PTL DEF Spec

(* No record is ever copied past the end of tr_info->buffer.               *)
THEOREM BufferNeverOverflows == Spec => []BufferFits
<1>1. Base => BufferFits
  BY DEF Base
<1> QED
  BY <1>1, BaseInvariant, PTL

-----------------------------------------------------------------------------
(***************************************************************************)
(* How a step changes the trace: a record or a block of data is appended,  *)
(* or the trace stays, except that a faulty write cuts its end.            *)
(***************************************************************************)
Kept(s, t) ==
  /\ Len(t) <= Len(s)
  /\ \A i \in 1 .. Len(t) : t[i].kind = s[i].kind /\ t[i].rec = s[i].rec
  /\ ~WriteFaults => t = s

Waiting(a) == pc[a] \in {"sync", "reset", "append"} /\ ~arg[a].sig

HeadOf(r) == [kind |-> "head", rec |-> r, whole |-> TRUE]

LEMMA TraceType ==
  ASSUME TypeOK
  PROVE  /\ Trace \in Seq(Entry)
         /\ Discarding => Trace = file
         /\ ~Discarding => Trace = file \o buffer
<1>1. file \in Seq(Entry) /\ buffer \in Seq(Entry)
  BY DEF TypeOK
<1>2. file \o <<>> = file
  BY <1>1
<1>3. CASE Discarding
  BY <1>1, <1>2, <1>3 DEF Trace
<1>4. CASE ~Discarding
  BY <1>1, <1>4 DEF Trace
<1> QED
  BY <1>3, <1>4

LEMMA KeptRefl == \A s : Kept(s, s)
  BY DEF Kept

(* Inside the critical section nobody else is discarding the buffer.       *)
LEMMA NotDiscarding ==
  ASSUME Base, NEW a \in Actors, pc[a] \in Critical \ {"reset", "bigreset"}
  PROVE  ~Discarding
  BY DEF Discarding, Base, Exclusive, Critical

LEMMA QuietStep ==
  ASSUME Base, UNCHANGED <<buffer, file>>,
         \A a \in Actors : pc'[a] = pc[a] \/ {pc[a], pc'[a]} \cap {"reset", "bigreset"} = {}
  PROVE  Trace' = Trace
<1>1. Discarding' <=> Discarding
  BY DEF Discarding
<1> QED
  BY <1>1 DEF Trace

LEMMA FlushStep ==
  ASSUME Base, NEW a \in Actors, NEW from \in {"sync", "bigsync"},
         NEW to \in {"reset", "bigreset"}, file_write(a, from, to), TypeOK'
  PROVE  Kept(Trace, Trace') /\ Trace' = file'
<1>1. PICK w \in Written(buffer) : file' = file \o w
  BY DEF file_write
<1>2. Trace = file \o buffer
  BY NotDiscarding, TraceType DEF file_write, Goto, Critical, Base
<1>3. Discarding'
  BY DEF file_write, Goto, Discarding, Base, TypeOK
<1>4. Trace' = file' /\ buffer' = buffer
  <2>1. TRUE /\ TypeOK'
    OBVIOUS
  <2>2. Trace' = file' \o <<>>
    BY <1>3 DEF Trace
  <2> QED
    BY <2>1, <2>2 DEF file_write, TypeOK
<1>5. file \in Seq(Entry) /\ buffer \in Seq(Entry)
  BY DEF Base, TypeOK
<1>6. /\ w \in Seq(Entry) /\ Len(w) <= Len(buffer)
      /\ \A i \in 1 .. Len(w) : w[i].kind = buffer[i].kind /\ w[i].rec = buffer[i].rec
  BY <1>5, WrittenIsPrefix
<1>7. ~WriteFaults => w = buffer
  BY DEF Written
<1>8. Len(file \o w) <= Len(file \o buffer)
  BY <1>5, <1>6
<1>9. ASSUME NEW i \in 1 .. Len(file \o w)
      PROVE  /\ (file \o w)[i].kind = (file \o buffer)[i].kind
             /\ (file \o w)[i].rec = (file \o buffer)[i].rec
  <2>1. CASE i <= Len(file)
    BY <1>5, <1>6, <2>1
  <2>2. CASE i > Len(file)
    <3>1. i - Len(file) \in 1 .. Len(w)
      BY <1>5, <1>6, <2>2
    <3>2. (file \o w)[i] = w[i - Len(file)] /\ (file \o buffer)[i] = buffer[i - Len(file)]
      BY <1>5, <1>6, <2>2
    <3> QED
      BY <1>6, <3>1, <3>2
  <2> QED
    BY <1>5, <1>6, <2>1, <2>2
<1> QED
  BY <1>1, <1>2, <1>4, <1>7, <1>8, <1>9 DEF Kept

LEMMA ResetStep ==
  ASSUME Base, NEW a \in Actors, NEW from \in {"reset", "bigreset"},
         NEW to \in {"append", "unlock", "payload"}, ResetBuffer(a, from, to)
  PROVE  Trace' = Trace
<1>1. Discarding
  BY DEF ResetBuffer, Goto, Discarding
<1>2. ~Discarding'
  BY DEF ResetBuffer, Goto, Discarding, Base, Exclusive, Critical, TypeOK
<1> QED
  BY <1>1, <1>2 DEF Trace, ResetBuffer

(* A record is appended where it is copied: at the end of the trace.       *)
LEMMA CopyStep ==
  ASSUME Base, NEW a \in Actors, sync_log_record(a)
  PROVE  /\ Waiting(a) /\ pc'[a] = "unlock" /\ arg' = arg
         /\ \A b \in Actors : ~Waiting(b)'
         /\ Trace' = Append(Trace, HeadOf(arg[a]))
         /\ UNCHANGED <<file, ids>>
<1>1. /\ pc[a] \in {"sync", "append"} /\ pc' = [pc EXCEPT ![a] = "unlock"]
      /\ buffer' = Append(buffer, HeadOf(arg[a]))
      /\ UNCHANGED <<arg, file, ids>>
  BY DEF sync_log_record, CopyRecord, Goto, HeadOf
<1>2. ~arg[a].sig
  BY <1>1 DEF sync_log_record, CopyRecord, Goto, MustFlush, Emptied, Base
<1>3. \A b \in Actors \ {a} : pc[b] \notin Critical
  BY <1>1 DEF Exclusive, Critical, Base
<1>4. pc'[a] = "unlock" /\ \A b \in Actors \ {a} : pc'[b] = pc[b]
  BY <1>1 DEF Base, TypeOK
<1>5. \A b \in Actors : ~Waiting(b)'
  BY <1>3, <1>4 DEF Waiting, Critical
<1>6. ~Discarding /\ ~Discarding'
  BY <1>1, <1>3, <1>4 DEF Discarding, Critical
<1>7. file \o Append(buffer, HeadOf(arg[a])) = Append(file \o buffer, HeadOf(arg[a]))
  BY DEF Base, TypeOK
<1>8. Trace' = Append(Trace, HeadOf(arg[a]))
  BY <1>1, <1>6, <1>7 DEF Trace
<1> QED
  BY <1>1, <1>2, <1>4, <1>5, <1>8 DEF Waiting

(* A block of data is appended where it is written: at the end of the      *)
(* file, when the buffer is empty.                                         *)
LEMMA DataEntryStep ==
  ASSUME Base, NEW c \in Callers, WriteData(c)
  PROVE  /\ buffer = <<>> /\ Trace = file /\ Trace' = file'
         /\ \/ \E w \in BOOLEAN :
                file' = Append(file, [kind |-> "data", rec |-> arg[c], whole |-> w])
            \/ WriteFaults /\ file' = file
<1>1. c \in Actors /\ pc[c] = "payload" /\ buffer = <<>> /\ buffer' = buffer
      /\ pc' = [pc EXCEPT ![c] = "unlock"]
  BY ActorsAre DEF WriteData, Goto, Emptied, Base
<1>2. ~Discarding
  BY <1>1, NotDiscarding DEF Critical
<1>3. ~Discarding'
  BY <1>1, <1>2 DEF Discarding, Base, TypeOK
<1>4. PICK w \in BOOLEAN :
         \/ file' = Append(file, [kind |-> "data", rec |-> arg[c], whole |-> w])
         \/ WriteFaults /\ file' = file
  BY DEF WriteData
<1>5. Append(file, [kind |-> "data", rec |-> arg[c], whole |-> w]) \in Seq(Entry)
  <2>1. arg[c] \in Record /\ file \in Seq(Entry)
    BY <1>1 DEF Base, TypeOK
  <2>2. [kind |-> "data", rec |-> arg[c], whole |-> w] \in Entry
    BY <2>1, EntryType
  <2> QED
    BY <2>1, <2>2
<1>6. file \in Seq(Entry) /\ file' \in Seq(Entry)
  BY <1>4, <1>5, Zenon DEF Base, TypeOK
<1>7. file \o <<>> = file /\ file' \o <<>> = file'
  BY <1>6
<1>8. Trace = file /\ Trace' = file'
  BY <1>1, <1>2, <1>3, <1>7 DEF Trace
<1> QED
  BY <1>1, <1>4, <1>8, Zenon

(* Every other step leaves the ids, the waiting records and the trace.     *)
Keeps ==
  /\ UNCHANGED ids
  /\ Kept(Trace, Trace')
  /\ file' = file \/ Trace' = file'
  /\ \A a \in Actors : Waiting(a)' <=> Waiting(a)
  /\ \A a \in Actors : Waiting(a) => arg'[a] = arg[a]

LEMMA QuietKeeps ==
  ASSUME Base, UNCHANGED <<buffer, file, ids>>, NEW a \in Actors,
         \A b \in Actors \ {a} : pc'[b] = pc[b] /\ arg'[b] = arg[b],
         {pc[a], pc'[a]} \cap {"reset", "bigreset"} = {},
         ~Waiting(a), ~Waiting(a)'
  PROVE  Keeps
<1>1. Trace' = Trace
  BY QuietStep
<1> QED
  BY <1>1, KeptRefl DEF Keeps, Waiting

LEMMA StepKinds ==
  ASSUME Base, [Next]_vars
  PROVE  \/ \E a \in Actors : LockForRecord(a)
         \/ \E a \in Actors : sync_log_record(a)
         \/ \E c \in Callers : WriteData(c)
         \/ Keeps
<1> USE ActorsAre
<1>0. TypeOK'
  BY NextType DEF Base
<1>1. ASSUME NEW c \in Callers, CallStep(c) PROVE Keeps
  <2>1. /\ UNCHANGED <<buffer, file, ids>>
        /\ \A b \in Actors \ {c} : pc'[b] = pc[b] /\ arg'[b] = arg[b]
        /\ {pc[c], pc'[c]} \cap {"reset", "bigreset"} = {}
        /\ ~Waiting(c) /\ ~Waiting(c)'
    BY <1>1 DEF CallStep, Call, Goto, Waiting, trace, Base, TypeOK
  <2> QED
    BY <2>1, QuietKeeps
<1>2. ASSUME NEW c \in Callers, CallerStep(c) PROVE Keeps
  <2>1. /\ UNCHANGED <<buffer, file, ids>>
        /\ \A b \in Actors \ {c} : pc'[b] = pc[b] /\ arg'[b] = arg[b]
        /\ {pc[c], pc'[c]} \cap {"reset", "bigreset"} = {}
        /\ ~Waiting(c) /\ ~Waiting(c)'
    BY <1>2 DEF CallerStep, Untraced, eworkqueue_init, LogReaddir, SkipLarge, QueueLarge,
                flush_workqueue, Leave, Goto, Waiting, trace, Base, TypeOK
  <2> QED
    BY <2>1, QuietKeeps
<1>3. ASSUME NEW c \in Callers, DataStep(c), ~WriteData(c) PROVE Keeps
  <2>1. /\ \A b \in Actors \ {c} : pc'[b] = pc[b]
        /\ ~Waiting(c) /\ ~Waiting(c)' /\ arg' = arg
        /\ UNCHANGED ids
    BY <1>3 DEF DataStep, LockForData, FlushForData, ResetForData, file_write, ResetBuffer,
                Goto, Waiting, Base, TypeOK
  <2>2. CASE LockForData(c)
    <3>1. /\ UNCHANGED <<buffer, file>>
          /\ {pc[c], pc'[c]} \cap {"reset", "bigreset"} = {}
      BY <2>2 DEF LockForData, Goto, trace, Base, TypeOK
    <3> QED
      BY <2>1, <3>1, QuietKeeps
  <2>3. CASE FlushForData(c)
    <3>1. Kept(Trace, Trace') /\ Trace' = file'
      BY <1>0, <2>3, FlushStep DEF FlushForData
    <3> QED
      BY <2>1, <3>1 DEF Keeps, Waiting
  <2>4. CASE ResetForData(c)
    <3>1. Trace' = Trace /\ file' = file
      BY <2>4, ResetStep DEF ResetForData, ResetBuffer
    <3> QED
      BY <2>1, <3>1, KeptRefl DEF Keeps, Waiting
  <2> QED
    BY <1>3, <2>2, <2>3, <2>4 DEF DataStep
<1>4. ASSUME NEW a \in Actors, Log(a), ~LockForRecord(a), ~sync_log_record(a) PROVE Keeps
  <2>1. CASE log_record_skip(a) \/ log_record(a) \/ LockForFlush(a) \/ mutex_unlock(a)
    <3>1. /\ UNCHANGED <<buffer, file, ids>>
          /\ \A b \in Actors \ {a} : pc'[b] = pc[b] /\ arg'[b] = arg[b]
          /\ {pc[a], pc'[a]} \cap {"reset", "bigreset"} = {}
          /\ ~Waiting(a) /\ ~Waiting(a)'
      BY <2>1 DEF log_record_skip, log_record, LockForFlush, mutex_unlock, Return, After,
                  Goto, Waiting, trace, Base, TypeOK
    <3> QED
      BY <3>1, QuietKeeps
  <2>2. CASE FlushBuffer(a)
    <3>1. Kept(Trace, Trace') /\ Trace' = file'
      BY <1>0, <2>2, FlushStep DEF FlushBuffer
    <3>2. UNCHANGED <<arg, ids>> /\ \A b \in Actors : Waiting(b)' <=> Waiting(b)
      BY <2>2 DEF FlushBuffer, file_write, Goto, Waiting, Base, TypeOK
    <3> QED
      BY <3>1, <3>2 DEF Keeps
  <2>3. CASE FlushDone(a)
    <3>1. Trace' = Trace /\ file' = file
      BY <2>3, ResetStep DEF FlushDone, ResetBuffer
    <3>2. UNCHANGED <<arg, ids>> /\ \A b \in Actors : Waiting(b)' <=> Waiting(b)
      BY <2>3 DEF FlushDone, ResetBuffer, Goto, Waiting, Base, TypeOK
    <3> QED
      BY <3>1, <3>2, KeptRefl DEF Keeps
  <2> QED
    BY <1>4, <2>1, <2>2, <2>3 DEF Log
<1>5. ASSUME IdleStep PROVE Keeps
  <2>1. CASE TakeWork \/ FreeWork
    <3>1. /\ UNCHANGED <<buffer, file, ids>>
          /\ \A b \in Actors \ {Worker} : pc'[b] = pc[b] /\ arg'[b] = arg[b]
          /\ {pc[Worker], pc'[Worker]} \cap {"reset", "bigreset"} = {}
          /\ ~Waiting(Worker) /\ ~Waiting(Worker)'
      BY <2>1 DEF TakeWork, FreeWork, Goto, Waiting, trace, Base, TypeOK
    <3> QED
      BY <3>1, QuietKeeps
  <2>2. CASE SignalFlush \/ NothingToFlush \/ Wake
    <3>1. /\ UNCHANGED <<buffer, file, ids>>
          /\ \A b \in Actors \ {Logger} : pc'[b] = pc[b] /\ arg'[b] = arg[b]
          /\ {pc[Logger], pc'[Logger]} \cap {"reset", "bigreset"} = {}
          /\ ~Waiting(Logger) /\ ~Waiting(Logger)'
      BY <2>2 DEF SignalFlush, NothingToFlush, Wake, Goto, Waiting, trace, Base, TypeOK
    <3> QED
      BY <3>1, QuietKeeps
  <2>3. CASE UNCHANGED <<pc, arg, trace, ids>>
    <3>1. Trace' = Trace
      BY <2>3, QuietStep DEF trace
    <3> QED
      BY <2>3, <3>1, KeptRefl DEF Keeps, Waiting, trace
  <2> QED
    BY <1>5, <2>1, <2>2, <2>3 DEF IdleStep, trfs_unlocked_ioctl, vars
<1> QED
  BY <1>1, <1>2, <1>3, <1>4, <1>5, NextCases

-----------------------------------------------------------------------------
(* The ids.                                                                *)
Agrees(r) == r.pos < IdSpace => r.id = r.pos

HeadsBelow(s, n) ==
  \A i \in DOMAIN s : IsHead(s[i]) => s[i].rec.pos < n /\ Agrees(s[i].rec)

HeadsAscend(s) ==
  \A i, j \in DOMAIN s :
    i < j /\ IsHead(s[i]) /\ IsHead(s[j]) => s[i].rec.pos < s[j].rec.pos

Numbered ==
  /\ logged < IdSpace => last_id = logged
  /\ HeadsBelow(Trace, logged) /\ HeadsAscend(Trace)
  /\ \A a \in Actors : Waiting(a) =>
       /\ arg[a].pos + 1 = logged /\ Agrees(arg[a])
       /\ HeadsBelow(Trace, arg[a].pos)

LEMMA KeptHeads ==
  ASSUME NEW s \in Seq(Entry), NEW t \in Seq(Entry), Kept(s, t), NEW n \in Nat
  PROVE  /\ HeadsBelow(s, n) => HeadsBelow(t, n)
         /\ HeadsAscend(s) => HeadsAscend(t)
<1>1. \A i \in DOMAIN t : i \in DOMAIN s /\ t[i].kind = s[i].kind /\ t[i].rec = s[i].rec
  BY DEF Kept
<1> QED
  BY <1>1 DEF HeadsBelow, HeadsAscend, IsHead

LEMMA AppendHeads ==
  ASSUME NEW s \in Seq(Entry), NEW e \in Entry, NEW n \in Nat, NEW m \in Nat,
         HeadsBelow(s, n), HeadsAscend(s), n <= m,
         IsHead(e) => e.rec.pos = n /\ n < m /\ Agrees(e.rec)
  PROVE  HeadsBelow(Append(s, e), m) /\ HeadsAscend(Append(s, e))
<1> DEFINE t == Append(s, e)
<1>1. /\ DOMAIN t = 1 .. (Len(s) + 1) /\ t[Len(s) + 1] = e
      /\ \A i \in DOMAIN s : t[i] = s[i]
      /\ DOMAIN s = 1 .. Len(s)
  OBVIOUS
<1>2. \A i \in DOMAIN t : i \in DOMAIN s \/ i = Len(s) + 1
  BY <1>1
<1> HIDE DEF t
<1>3. \A i \in DOMAIN s : s[i].rec.pos \in Nat
  <2>1. \A i \in DOMAIN s : s[i] \in Entry
    OBVIOUS
  <2> QED
    BY <2>1 DEF Entry, Record
<1>4. HeadsBelow(t, m)
  BY <1>1, <1>2, <1>3 DEF HeadsBelow
<1>5. HeadsAscend(t)
  <2> SUFFICES ASSUME NEW i \in DOMAIN t, NEW j \in DOMAIN t, i < j,
                      IsHead(t[i]), IsHead(t[j])
               PROVE  t[i].rec.pos < t[j].rec.pos
    BY DEF HeadsAscend
  <2>1. i \in DOMAIN s
    BY <1>1, <1>2
  <2>2. CASE j \in DOMAIN s
    BY <1>1, <2>1, <2>2 DEF HeadsAscend
  <2>3. CASE j = Len(s) + 1
    BY <1>1, <2>1, <2>3 DEF HeadsBelow
  <2> QED
    BY <1>2, <2>2, <2>3
<1> QED
  BY <1>4, <1>5 DEF t

LEMMA NumberedStep ==
  ASSUME Base, Numbered, [Next]_vars PROVE Numbered'
<1> USE ActorsAre
<1>0. TypeOK' /\ Trace \in Seq(Entry) /\ Trace' \in Seq(Entry)
  <2>1. TypeOK'
    BY NextType DEF Base
  <2>2. TypeOK => Trace \in Seq(Entry)
    BY TraceType
  <2>3. TypeOK' => Trace' \in Seq(Entry)
    <3>1. TypeOK' => file' \in Seq(Entry) /\ buffer' \in Seq(Entry)
      BY DEF TypeOK
    <3> QED
      BY <3>1 DEF Trace
  <2> QED
    BY <2>1, <2>2, <2>3 DEF Base
<1>1. ASSUME NEW a \in Actors, LockForRecord(a) PROVE Numbered'
  <2>1. Trace' = Trace
    BY <1>1, QuietStep DEF LockForRecord, Goto, trace, Base, TypeOK
  <2>2. /\ arg'[a].pos = logged /\ arg'[a].id = last_id
        /\ logged' = logged + 1 /\ last_id' = Succ(last_id)
    <3>1. arg' = [arg EXCEPT ![a] = [arg[a] EXCEPT !.id = last_id, !.pos = logged]]
      BY <1>1 DEF LockForRecord
    <3>2. arg[a] \in Record /\ a \in DOMAIN arg
      BY DEF Base, TypeOK
    <3> QED
      BY <1>1, <3>1, <3>2 DEF LockForRecord, Record
  <2>3. \A b \in Actors \ {a} : ~Waiting(b)'
    BY <1>1 DEF LockForRecord, mutex_lock, Goto, Waiting, Base, Exclusive, Critical, TypeOK
  <2>4. logged \in Nat /\ last_id \in 0 .. (IdSpace - 1)
    BY DEF Base, TypeOK
  <2>5. logged' < IdSpace => last_id' = logged'
    BY <2>2, <2>4, SizesAssumption DEF Numbered, Succ
  <2>6. Agrees(arg'[a])
    BY <2>2 DEF Agrees, Numbered
  <2>7. \A i \in DOMAIN Trace : Trace[i].rec.pos \in Nat
    <3>1. \A i \in DOMAIN Trace : Trace[i] \in Entry
      BY <1>0
    <3> QED
      BY <3>1 DEF Entry, Record
  <2>8. HeadsBelow(Trace, logged')
    BY <2>2, <2>4, <2>7 DEF Numbered, HeadsBelow
  <2> QED
    BY <2>1, <2>2, <2>3, <2>5, <2>6, <2>8 DEF Numbered
<1>2. ASSUME NEW a \in Actors, sync_log_record(a) PROVE Numbered'
  <2>1. /\ Waiting(a) /\ \A b \in Actors : ~Waiting(b)'
        /\ Trace' = Append(Trace, HeadOf(arg[a])) /\ UNCHANGED ids
    BY <1>2, CopyStep
  <2>2. arg[a] \in Record /\ arg[a].pos \in Nat /\ logged \in Nat
    BY DEF Base, TypeOK, Record
  <2>3. HeadOf(arg[a]) \in Entry
    BY <2>2, EntryType DEF HeadOf
  <2>4. HeadOf(arg[a]).rec = arg[a]
    BY DEF HeadOf
  <2>5. arg[a].pos + 1 = logged /\ Agrees(arg[a]) /\ HeadsBelow(Trace, arg[a].pos)
        /\ HeadsAscend(Trace)
    BY <2>1 DEF Numbered
  <2>6. arg[a].pos <= logged /\ arg[a].pos < logged
    BY <2>2, <2>5
  <2>7. HeadsBelow(Trace', logged) /\ HeadsAscend(Trace')
    BY <1>0, <2>1, <2>2, <2>3, <2>4, <2>5, <2>6, AppendHeads
  <2> QED
    BY <2>1, <2>7 DEF Numbered, ids
<1>3. ASSUME NEW c \in Callers, WriteData(c) PROVE Numbered'
  <2>1. /\ \/ \E w \in BOOLEAN :
              Trace' = Append(Trace, [kind |-> "data", rec |-> arg[c], whole |-> w])
           \/ Trace' = Trace
    BY <1>3, DataEntryStep, Zenon
  <2>2. arg[c] \in Record /\ logged \in Nat
    BY DEF Base, TypeOK
  <2>3. ASSUME NEW w \in BOOLEAN
        PROVE  /\ [kind |-> "data", rec |-> arg[c], whole |-> w] \in Entry
               /\ ~IsHead([kind |-> "data", rec |-> arg[c], whole |-> w])
    BY <2>2, EntryType DEF IsHead
  <2>4. HeadsBelow(Trace, logged) /\ HeadsAscend(Trace) /\ logged <= logged
    BY <2>2 DEF Numbered
  <2>5. HeadsBelow(Trace', logged) /\ HeadsAscend(Trace')
    <3>1. ASSUME NEW w \in BOOLEAN
          PROVE  LET t == Append(Trace, [kind |-> "data", rec |-> arg[c], whole |-> w])
                 IN  HeadsBelow(t, logged) /\ HeadsAscend(t)
      BY <1>0, <2>2, <2>3, <2>4, AppendHeads
    <3> QED
      BY <2>1, <2>4, <3>1, Zenon
  <2>6. \A b \in Actors : ~Waiting(b)'
    BY <1>3 DEF WriteData, Goto, Waiting, Base, Exclusive, Critical, TypeOK
  <2>7. UNCHANGED ids
    BY <1>3 DEF WriteData
  <2> QED
    BY <2>4, <2>5, <2>6, <2>7 DEF Numbered, ids
<1>4. ASSUME Keeps PROVE Numbered'
  <2>1. logged \in Nat /\ \A a \in Actors : arg[a].pos \in Nat
    BY DEF Base, TypeOK, Record
  <2>2. HeadsBelow(Trace', logged) /\ HeadsAscend(Trace')
    BY <1>0, <1>4, <2>1, KeptHeads DEF Keeps, Numbered
  <2>3. \A a \in Actors : Waiting(a) => HeadsBelow(Trace', arg[a].pos)
    BY <1>0, <1>4, <2>1, KeptHeads DEF Keeps, Numbered
  <2> QED
    BY <1>4, <2>2, <2>3 DEF Keeps, Numbered, ids
<1> QED
  BY <1>1, <1>2, <1>3, <1>4, StepKinds

LEMMA NumberedInvariant == Spec => []Numbered
<1>1. Init => Numbered
  BY DEF Init, Numbered, Trace, HeadsBelow, HeadsAscend, Waiting, Actors
<1>2. Base /\ Numbered /\ [Next]_vars => Numbered'
  BY NumberedStep
<1> QED
  BY <1>1, <1>2, BaseInvariant, PTL DEF Spec

(* Ids are unique and increase through the trace until last_id wraps, with *)
(* any number of concurrent loggers and any failures of the trace file.    *)
THEOREM IdsIncrease == Spec => []IncreasingIds
<1>1. ASSUME Base, Numbered PROVE IncreasingIds
  <2> SUFFICES ASSUME logged <= IdSpace,
                      NEW i \in DOMAIN Trace, NEW j \in DOMAIN Trace,
                      i < j, IsHead(Trace[i]), IsHead(Trace[j])
               PROVE  Trace[i].rec.id < Trace[j].rec.id
    BY DEF IncreasingIds
  <2>1. /\ Trace[i].rec.pos < logged /\ Trace[j].rec.pos < logged
        /\ Agrees(Trace[i].rec) /\ Agrees(Trace[j].rec)
        /\ Trace[i].rec.pos < Trace[j].rec.pos
    BY <1>1 DEF Numbered, HeadsBelow, HeadsAscend
  <2>2. Trace[i] \in Entry /\ Trace[j] \in Entry /\ logged \in Nat
    BY <1>1, TraceType DEF Base, TypeOK
  <2>3. Trace[i].rec.pos \in Nat /\ Trace[j].rec.pos \in Nat
    BY <2>2 DEF Entry, Record
  <2>4. Trace[i].rec.pos < IdSpace /\ Trace[j].rec.pos < IdSpace
    BY <2>1, <2>2, <2>3, SizesAssumption
  <2> QED
    BY <2>1, <2>4 DEF Agrees
<1> QED
  BY <1>1, BaseInvariant, NumberedInvariant, PTL

-----------------------------------------------------------------------------
(* The refinement of TraceLog.                                             *)
Items(s) == [i \in DOMAIN s |-> Item(s[i])]

LEMMA ItemsOf ==
  ASSUME NEW s \in Seq(Entry), NEW e \in Entry
  PROVE  /\ Items(s) \in Seq({Item(x) : x \in Entry}) /\ Len(Items(s)) = Len(s)
         /\ Items(Append(s, e)) = Append(Items(s), Item(e))
<1> DEFINE S == {Item(x) : x \in Entry}
<1>1. ASSUME NEW t \in Seq(Entry)
      PROVE  /\ Items(t) \in Seq(S) /\ Len(Items(t)) = Len(t)
             /\ \A i \in 1 .. Len(t) : Items(t)[i] = Item(t[i])
  <2>1. Items(t) \in [1 .. Len(t) -> S]
    BY DEF Items
  <2> QED
    BY <2>1 DEF Items
<1>2. Item(e) \in S
  OBVIOUS
<1>3. Append(s, e) \in Seq(Entry) /\ Len(Append(s, e)) = Len(s) + 1
      /\ \A i \in 1 .. (Len(s) + 1) :
           Append(s, e)[i] = IF i = Len(s) + 1 THEN e ELSE s[i]
  OBVIOUS
<1> HIDE DEF S
<1>4. /\ Append(Items(s), Item(e)) \in Seq(S)
      /\ Len(Append(Items(s), Item(e))) = Len(s) + 1
      /\ \A i \in 1 .. (Len(s) + 1) :
           Append(Items(s), Item(e))[i] = IF i = Len(s) + 1 THEN Item(e) ELSE Items(s)[i]
  BY <1>1, <1>2
<1>5. \A i \in 1 .. (Len(s) + 1) : Items(Append(s, e))[i] = Append(Items(s), Item(e))[i]
  <2> SUFFICES ASSUME NEW i \in 1 .. (Len(s) + 1)
               PROVE  Items(Append(s, e))[i] = Append(Items(s), Item(e))[i]
    OBVIOUS
  <2>1. Items(Append(s, e))[i] = Item(Append(s, e)[i])
    BY <1>1, <1>3
  <2>2. CASE i = Len(s) + 1
    <3>1. Append(s, e)[i] = e /\ Append(Items(s), Item(e))[i] = Item(e)
      BY <1>3, <1>4, <2>2
    <3> QED
      BY <2>1, <3>1
  <2>3. CASE i # Len(s) + 1
    <3>1. i \in 1 .. Len(s)
      BY <2>3
    <3>2. Append(s, e)[i] = s[i] /\ Append(Items(s), Item(e))[i] = Items(s)[i]
      BY <1>3, <1>4, <2>3
    <3>3. Items(s)[i] = Item(s[i])
      BY <1>1, <3>1
    <3> QED
      BY <2>1, <3>2, <3>3
  <2> QED
    BY <2>2, <2>3
<1>6. Items(Append(s, e)) \in Seq(S) /\ Len(Items(Append(s, e))) = Len(s) + 1
  BY <1>1, <1>3
<1>7. Items(Append(s, e)) = Append(Items(s), Item(e))
  BY <1>4, <1>5, <1>6, SeqEqual
<1> QED
  BY <1>1, <1>7 DEF S

LEMMA LogStepRefines ==
  ASSUME ~WriteFaults, Base, Numbered, [Next]_vars
  PROVE  [TheLog!Next]_(TheLog!vars)
<1> USE ActorsAre
<1> DEFINE log    == [i \in DOMAIN Trace |-> Item(Trace[i])]
           stable == Len(file)
           next   == logged - (IF InFlight THEN 1 ELSE 0)
<1>1. /\ Trace \in Seq(Entry) /\ log = Items(Trace)
      /\ log' = Items(Trace')
      /\ InFlight <=> \E a \in Actors : Waiting(a)
      /\ InFlight' <=> \E a \in Actors : Waiting(a)'
      /\ logged \in Nat
  BY TraceType DEF Base, TypeOK, Items, InFlight, Waiting
<1>2. Len(log) = Len(Trace)
  BY <1>1, ItemsOf, EntryType, BlankType
<1>3. ASSUME NEW a \in Actors, LockForRecord(a) PROVE UNCHANGED <<log, stable, next>>
  <2>1. Trace' = Trace
    BY <1>3, QuietStep DEF LockForRecord, Goto, trace, Base, TypeOK
  <2>2. ~InFlight
    BY <1>1, <1>3 DEF LockForRecord, mutex_lock, Waiting, Base, Exclusive, Critical
  <2>3. InFlight'
    <3>1. pc'[a] = "sync" /\ arg' = [arg EXCEPT ![a] = [arg[a] EXCEPT !.id = last_id,
                                                                     !.pos = logged]]
      BY <1>3 DEF LockForRecord, Goto, Base, TypeOK
    <3>2. ~arg'[a].sig
      BY <1>3, <3>1 DEF LockForRecord, Base, TypeOK, Record
    <3> QED
      BY <3>1, <3>2 DEF InFlight
  <2>4. logged' = logged + 1 /\ file' = file
    BY <1>3 DEF LockForRecord, trace
  <2> QED
    BY <1>1, <2>1, <2>2, <2>3, <2>4
<1>4. ASSUME NEW a \in Actors, sync_log_record(a) PROVE TheLog!AddRecord
  <2>1. /\ Waiting(a) /\ \A b \in Actors : ~Waiting(b)'
        /\ Trace' = Append(Trace, HeadOf(arg[a])) /\ UNCHANGED <<file, ids>>
    BY <1>4, CopyStep
  <2>2. arg[a] \in Record /\ arg[a].pos \in Nat /\ arg[a].pos + 1 = logged
    BY <2>1 DEF Base, TypeOK, Record, Numbered
  <2>3. InFlight /\ ~InFlight' /\ logged' = logged
    BY <1>1, <2>1 DEF ids
  <2>4. next = arg[a].pos /\ next' = next + 1
    BY <1>1, <2>2, <2>3
  <2>5. HeadOf(arg[a]) \in Entry /\ Item(HeadOf(arg[a])) = [kind |-> "head", pos |-> arg[a].pos]
    BY <2>2, EntryType DEF HeadOf, Item, IsHead
  <2>6. log' = Append(log, [kind |-> "head", pos |-> next])
    BY <1>1, <2>1, <2>4, <2>5, ItemsOf
  <2> QED
    BY <2>1, <2>4, <2>6 DEF TheLog!AddRecord, TheLog!RecordItem
<1>5. ASSUME NEW c \in Callers, WriteData(c) PROVE TheLog!AddBlock
  <2>1. PICK w \in BOOLEAN :
          /\ Trace = file /\ Trace' = file'
          /\ file' = Append(file, [kind |-> "data", rec |-> arg[c], whole |-> w])
    BY <1>5, DataEntryStep, Zenon
  <2> DEFINE e == [kind |-> "data", rec |-> arg[c], whole |-> w]
  <2>2. e \in Entry /\ Item(e) = [kind |-> "data", pos |-> 0]
    BY EntryType DEF Base, TypeOK, Item, IsHead
  <2>3. Trace' = Append(Trace, e)
    BY <2>1
  <2> HIDE DEF e
  <2>4. log' = Append(log, [kind |-> "data", pos |-> 0])
    BY <1>1, <2>2, <2>3, ItemsOf
  <2>5. stable = Len(log) /\ stable' = Len(Append(log, [kind |-> "data", pos |-> 0]))
    <3>1. stable = Len(log) /\ stable' = Len(Trace')
      BY <1>2, <2>1
    <3>2. Len(Trace') = Len(Trace) + 1
      BY <1>1, <2>2, <2>3
    <3>3. Len(Append(log, [kind |-> "data", pos |-> 0])) = Len(log) + 1
      BY <1>1, <2>2, ItemsOf
    <3> QED
      BY <1>2, <3>1, <3>2, <3>3
  <2>6. InFlight' <=> InFlight
    <3>1. \A b \in Actors : ~Waiting(b)' /\ ~Waiting(b)
      BY <1>5 DEF WriteData, Goto, Waiting, Base, Exclusive, Critical, TypeOK
    <3> QED
      BY <1>1, <3>1
  <2>7. logged' = logged
    BY <1>5 DEF WriteData, ids
  <2> QED
    BY <2>4, <2>5, <2>6, <2>7 DEF TheLog!AddBlock, TheLog!BlockItem
<1>6. ASSUME Keeps PROVE TheLog!Sync \/ UNCHANGED <<log, stable, next>>
  <2>1. Trace' = Trace /\ logged' = logged /\ (InFlight' <=> InFlight)
    BY <1>1, <1>6 DEF Keeps, Kept, ids
  <2>2. CASE file' = file
    BY <2>1, <2>2
  <2>3. CASE Trace' = file'
    BY <1>2, <2>1, <2>3 DEF TheLog!Sync
  <2> QED
    BY <1>6, <2>2, <2>3 DEF Keeps
<1> QED
  BY <1>3, <1>4, <1>5, <1>6, StepKinds DEF TheLog!Next, TheLog!vars

(* Without write errors the pipeline is an append-only log of records with *)
(* consecutive numbers, whatever the interleaving of the flushes.          *)
THEOREM LogRefinement == ~WriteFaults => (Spec => ImplementsTraceLog)
<1> SUFFICES ASSUME ~WriteFaults PROVE Spec => ImplementsTraceLog
  OBVIOUS
<1>1. Init => TheLog!Init
  <2> SUFFICES ASSUME Init PROVE TheLog!Init
    OBVIOUS
  <2>1. Trace = <<>> /\ ~InFlight
    BY ActorsAre DEF Init, Trace, InFlight
  <2>2. logged = 0 /\ file = <<>>
    BY DEF Init
  <2>3. Items(Trace) = <<>>
    <3>1. Trace \in Seq(Entry)
      BY <2>1
    <3>2. Items(Trace) \in Seq({Item(x) : x \in Entry}) /\ Len(Items(Trace)) = 0
      BY <2>1, <3>1, ItemsOf, EntryType, BlankType
    <3> QED
      BY <3>2, EmptySeq
  <2>4. [i \in DOMAIN Trace |-> Item(Trace[i])] = <<>>
    BY <2>3 DEF Items
  <2>5. Len(file) = 0
    BY <2>2
  <2>6. logged - (IF InFlight THEN 1 ELSE 0) = 0
    <3>1. (IF InFlight THEN 1 ELSE 0) = 0
      BY <2>1, Zenon
    <3>2. 0 - 0 = 0
      OBVIOUS
    <3> QED
      BY <2>2, <3>1, <3>2, Zenon
  <2> QED
    BY <2>4, <2>5, <2>6, Zenon DEF TheLog!Init
<1>2. Base /\ Numbered /\ [Next]_vars => [TheLog!Next]_(TheLog!vars)
  BY LogStepRefines
<1> QED
  BY <1>1, <1>2, BaseInvariant, NumberedInvariant, PTL
     DEF Spec, ImplementsTraceLog, TheLog!Spec
=============================================================================
