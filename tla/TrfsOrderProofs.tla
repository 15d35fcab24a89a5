--------------------------- MODULE TrfsOrderProofs --------------------------
(***************************************************************************)
(* Theorems about the order of the records in the trace, for every number  *)
(* of callers, directories and operations and every size of the buffer.    *)
(***************************************************************************)
EXTENDS TrfsTraceProofs

-----------------------------------------------------------------------------
(***************************************************************************)
(* The queue.  The records in it are numbered up to queued; the worker has *)
(* the one before them, and nobody else has a numbered record.             *)
(***************************************************************************)
Served == queued - Len(wq)

(* The record of the worker is not in the trace yet.                       *)
Serving == pc[Worker] \in {"log", "lock", "sync", "reset", "append"}

QueueInv ==
  /\ Len(wq) <= queued
  /\ \A i \in 1 .. Len(wq) : wq[i].q = Served + i
  /\ pc[Worker] = "idle" => arg[Worker] = Blank
  /\ pc[Worker] # "idle" => arg[Worker].q = Served /\ Served >= 1
  /\ \A a \in Actors \ {Worker} : arg[a].q = 0 /\ ~arg[a].large

(* The fields of a record that no step after Call changes.                 *)
Same(r, s) == /\ r.exec = s.exec /\ r.dirs = s.dirs /\ r.type = s.type
              /\ r.q = s.q /\ r.large = s.large /\ r.sig = s.sig

Enqueue(c, r) ==
  /\ pc[c] = "built" /\ queued' = queued + 1
  /\ wq' = Append(wq, r) /\ r \in Record
  /\ r.q = queued + 1
  /\ r.exec = arg[c].exec /\ r.dirs = arg[c].dirs /\ r.sig = arg[c].sig
  /\ \A a \in Actors \ {c} : pc'[a] = pc[a] /\ arg'[a] = arg[a]
  /\ \/ /\ pc'[c] = "idle" /\ arg'[c] = Blank /\ ~r.large
        /\ held' = Unlocked(c)
     \/ pc'[c] = "flushwq" /\ arg'[c] = arg[c] /\ r.large /\ held' = held

(* No record is queued or taken; the worker goes on, or rests as it is.    *)
Passes ==
  /\ UNCHANGED <<wq, queued>>
  /\ Same(arg'[Worker], arg[Worker])
  /\ pc[Worker] = "idle" <=> pc'[Worker] = "idle"
  /\ pc'[Worker] = "idle" => arg'[Worker] = arg[Worker]
  /\ Serving' => Serving
  /\ \A a \in Actors \ {Worker} : arg'[a].q \in {0, arg[a].q} /\ (arg'[a].large => arg[a].large)

LEMMA QueuedFields ==
  ASSUME NEW r \in Record, NEW n \in Nat
  PROVE  LET s == [[r EXCEPT !.large = TRUE] EXCEPT !.q = n + 1]
         IN  /\ s \in Record /\ s.q = n + 1 /\ s.large
             /\ s.exec = r.exec /\ s.dirs = r.dirs /\ s.sig = r.sig
<1> DEFINE t == [r EXCEPT !.large = TRUE]
           s == [t EXCEPT !.q = n + 1]
<1>1. /\ t \in Record /\ t.large
      /\ t.exec = r.exec /\ t.dirs = r.dirs /\ t.sig = r.sig
  BY DEF Record
<1> HIDE DEF t
<1>2. /\ s \in Record /\ s.q = n + 1 /\ s.large
      /\ s.exec = t.exec /\ s.dirs = t.dirs /\ s.sig = t.sig
  BY <1>1 DEF Record
<1> QED
  BY <1>1, <1>2 DEF t

LEMMA EnqueueStep ==
  ASSUME Base, NEW c \in Callers, eworkqueue_init(c) \/ QueueLarge(c)
  PROVE  \E r : Enqueue(c, r)
<1> USE ActorsAre
<1>1. arg[c] \in Record /\ queued \in Nat /\ ~arg[c].large /\ c \in DOMAIN arg /\ c \in DOMAIN pc
  BY DEF Base, TypeOK, SizesFit
<1>2. CASE eworkqueue_init(c)
  <2> DEFINE r == [arg[c] EXCEPT !.q = queued + 1]
  <2>1. /\ r \in Record /\ r.q = queued + 1 /\ ~r.large
        /\ r.exec = arg[c].exec /\ r.dirs = arg[c].dirs /\ r.sig = arg[c].sig
    BY <1>1 DEF Record
  <2> HIDE DEF r
  <2>2. /\ wq' = Append(wq, r) /\ queued' = queued + 1
    BY <1>2 DEF eworkqueue_init, QueueWork, r
  <2>3. /\ pc[c] = "built" /\ pc'[c] = "idle" /\ arg'[c] = Blank
        /\ held' = Unlocked(c)
        /\ \A a \in Actors \ {c} : pc'[a] = pc[a] /\ arg'[a] = arg[a]
    BY <1>2 DEF eworkqueue_init, Leave, Goto, Base, TypeOK
  <2> QED
    BY <2>1, <2>2, <2>3 DEF Enqueue
<1>3. CASE QueueLarge(c)
  <2> DEFINE r == [[arg[c] EXCEPT !.large = TRUE] EXCEPT !.q = queued + 1]
  <2>1. /\ r \in Record /\ r.q = queued + 1 /\ r.large
        /\ r.exec = arg[c].exec /\ r.dirs = arg[c].dirs /\ r.sig = arg[c].sig
    BY <1>1, QueuedFields
  <2> HIDE DEF r
  <2>2. /\ wq' = Append(wq, r) /\ queued' = queued + 1
    BY <1>3 DEF QueueLarge, QueueWork, r
  <2>3. /\ pc[c] = "built" /\ pc'[c] = "flushwq" /\ arg' = arg /\ held' = held
        /\ \A a \in Actors \ {c} : pc'[a] = pc[a] /\ arg'[a] = arg[a]
    BY <1>3 DEF QueueLarge, Goto, Base, TypeOK
  <2> QED
    BY <2>1, <2>2, <2>3 DEF Enqueue
<1> QED
  BY <1>2, <1>3

LEMMA BlankFields == Blank.q = 0 /\ Blank.exec = 0 /\ ~Blank.large /\ ~Blank.sig
BY DEF Blank

(* Steps of one actor other than the worker, which queue nothing.          *)
LEMMA OtherPasses ==
  ASSUME Base, NEW a \in Actors \ {Worker}, UNCHANGED <<wq, queued>>,
         \A b \in Actors \ {a} : pc'[b] = pc[b] /\ arg'[b] = arg[b],
         arg'[a].q \in {0, arg[a].q}, arg'[a].large => arg[a].large
  PROVE  Passes
BY ActorsAre DEF Passes, Same, Serving

LEMMA QueueKinds ==
  ASSUME Base, [Next]_vars
  PROVE  \/ \E c \in Callers : \E r : Enqueue(c, r)
         \/ TakeWork
         \/ FreeWork
         \/ Passes
<1> USE ActorsAre, BlankFields
<1>t. arg \in [Actors -> Record] /\ pc \in [Actors -> Steps]
  BY DEF Base, TypeOK
<1>1. ASSUME NEW c \in Callers, CallStep(c) PROVE Passes
  <2>1. PICK type \in Types, sizes \in SUBSET Nat, D \in SUBSET Dirs, uninit \in SUBSET BOOLEAN :
          Call(c, type, sizes, D, uninit)
    BY <1>1 DEF CallStep
  <2>2. PICK n \in sizes, s \in uninit :
          arg' = [arg EXCEPT ![c] =
                    [Blank EXCEPT !.type = type, !.size = n, !.sig = s,
                                  !.exec = ops + 1, !.dirs = D, !.by = c]]
    BY <2>1 DEF Call
  <2>3. arg'[c].q = 0 /\ ~arg'[c].large
    BY <1>t, <2>2 DEF Blank
  <2>4. /\ UNCHANGED <<wq, queued>>
        /\ \A b \in Actors \ {c} : pc'[b] = pc[b] /\ arg'[b] = arg[b]
    BY <1>t, <2>1 DEF Call, Goto
  <2> QED
    BY <2>3, <2>4, OtherPasses
<1>2. ASSUME NEW c \in Callers, Untraced(c) \/ LogReaddir(c) \/ SkipLarge(c) \/ flush_workqueue(c)
      PROVE  Passes
  <2>1. /\ UNCHANGED <<wq, queued>>
        /\ \A b \in Actors \ {c} : pc'[b] = pc[b] /\ arg'[b] = arg[b]
        /\ arg'[c] \in {arg[c], Blank}
    BY <1>t, <1>2 DEF Untraced, LogReaddir, SkipLarge, flush_workqueue, Leave, Goto
  <2> QED
    BY <2>1, OtherPasses
<1>3. ASSUME NEW c \in Callers, DataStep(c) PROVE Passes
  <2>1. /\ UNCHANGED <<wq, queued, arg>>
        /\ \A b \in Actors \ {c} : pc'[b] = pc[b]
    BY <1>t, <1>3 DEF DataStep, LockForData, FlushForData, ResetForData, WriteData,
                      file_write, ResetBuffer, Goto
  <2> QED
    BY <2>1, OtherPasses
<1>4. ASSUME NEW a \in Actors, Log(a) PROVE Passes
  <2>1. UNCHANGED <<wq, queued>> /\ \A b \in Actors \ {a} : pc'[b] = pc[b]
    BY <1>t, <1>4 DEF Log, log_record_skip, log_record, LockForRecord, LockForFlush, FlushBuffer,
                FlushDone, sync_log_record, CopyRecord, mutex_unlock, Return,
                file_write, ResetBuffer, Goto
  <2>2. /\ pc[a] \in LogSteps /\ pc'[a] \in LogSteps \cup {After(a)}
        /\ pc'[a] \in {"log", "lock", "sync", "reset", "append"}
             => pc[a] \in {"log", "lock", "sync", "reset", "append"}
    BY <1>t, <1>4 DEF Log, log_record_skip, log_record, LockForRecord, LockForFlush, FlushBuffer,
                FlushDone, sync_log_record, CopyRecord, mutex_unlock, Return, After,
                file_write, ResetBuffer, Goto, LogSteps
  <2>3. \/ arg' = arg
        \/ a \in Callers /\ arg' = [arg EXCEPT ![a] = Blank]
        \/ arg' = [arg EXCEPT ![a] = [arg[a] EXCEPT !.id = last_id, !.pos = logged]]
    BY <1>4 DEF Log, log_record_skip, log_record, LockForRecord, LockForFlush, FlushBuffer,
                FlushDone, sync_log_record, CopyRecord, mutex_unlock, Return,
                file_write, ResetBuffer
  <2>4. Same([arg[a] EXCEPT !.id = last_id, !.pos = logged], arg[a])
    <3>1. arg[a] \in Record
      BY <1>t
    <3> QED
      BY <3>1 DEF Record, Same
  <2>5. \A b \in Actors \ {a} : arg'[b] = arg[b]
    BY <1>t, <2>3
  <2>6. \/ arg'[a] \in {arg[a], [arg[a] EXCEPT !.id = last_id, !.pos = logged]}
        \/ a \in Callers /\ arg'[a] = Blank
    BY <1>t, <2>3
  <2>7. CASE a = Worker
    <3>1. Same(arg'[Worker], arg[Worker])
      BY <2>4, <2>6, <2>7 DEF Same
    <3>2. pc[Worker] # "idle" /\ pc'[Worker] # "idle"
      BY <2>2, <2>7 DEF LogSteps, After
    <3>3. Serving' => Serving
      BY <2>2, <2>7 DEF Serving
    <3> QED
      BY <2>1, <2>5, <2>7, <3>1, <3>2, <3>3 DEF Passes
  <2>8. CASE a # Worker
    <3>1. arg'[a].q \in {0, arg[a].q} /\ (arg'[a].large => arg[a].large)
      BY <2>4, <2>6 DEF Same
    <3> QED
      BY <2>1, <2>5, <2>8, <3>1, OtherPasses
  <2> QED
    BY <2>7, <2>8
<1>5. ASSUME SignalFlush \/ NothingToFlush \/ Wake PROVE Passes
  <2>1. /\ UNCHANGED <<wq, queued>>
        /\ \A b \in Actors \ {Logger} : pc'[b] = pc[b] /\ arg'[b] = arg[b]
    BY <1>t, <1>5 DEF SignalFlush, NothingToFlush, Wake, Goto
  <2>2. arg' = arg \/ arg' = [arg EXCEPT ![Logger] = [arg[Logger] EXCEPT !.sig = TRUE]]
    BY <1>5 DEF SignalFlush, NothingToFlush, Wake
  <2>3. arg'[Logger].q = arg[Logger].q /\ arg'[Logger].large = arg[Logger].large
    <3>1. arg[Logger] \in Record
      BY <1>t
    <3> QED
      BY <1>t, <2>2, <3>1 DEF Record
  <2> QED
    BY <2>1, <2>3, OtherPasses
<1>6. ASSUME UNCHANGED <<pc, arg, wq, queued>> PROVE Passes
  BY <1>6 DEF Passes, Same, Serving
<1> QED
  BY <1>1, <1>2, <1>3, <1>4, <1>5, <1>6, EnqueueStep, NextCases
     DEF CallerStep, IdleStep, trfs_unlocked_ioctl, vars

LEMMA TakeFields ==
  ASSUME Base, TakeWork
  PROVE  /\ Len(wq) >= 1 /\ arg'[Worker] = wq[1] /\ queued' = queued
         /\ Len(wq') = Len(wq) - 1 /\ \A i \in 1 .. Len(wq') : wq'[i] = wq[i + 1]
         /\ pc[Worker] = "idle" /\ pc'[Worker] = "log"
         /\ \A a \in Actors \ {Worker} : arg'[a] = arg[a] /\ pc'[a] = pc[a]
<1>1. wq \in Seq(Record) /\ wq # <<>> /\ wq' = Tail(wq)
  BY DEF TakeWork, Base, TypeOK
<1>2. Len(wq) >= 1 /\ Len(wq') = Len(wq) - 1 /\ \A i \in 1 .. Len(wq') : wq'[i] = wq[i + 1]
  BY <1>1
<1>3. Head(wq) = wq[1]
  BY <1>1
<1> QED
  BY <1>2, <1>3, ActorsAre DEF TakeWork, Goto, Base, TypeOK

LEMMA QueueStep ==
  ASSUME Base, QueueInv, [Next]_vars PROVE QueueInv'
<1> USE ActorsAre, BlankFields
<1>t. /\ wq \in Seq(Record) /\ queued \in Nat /\ Len(wq) \in Nat
      /\ \A a \in Actors : arg[a].q \in Nat
  BY DEF Base, TypeOK, Record
<1>1. ASSUME NEW c \in Callers, NEW r, Enqueue(c, r) PROVE QueueInv'
  <2>1. /\ Len(wq') = Len(wq) + 1 /\ queued' = queued + 1
        /\ \A i \in 1 .. Len(wq) : wq'[i] = wq[i]
        /\ wq'[Len(wq) + 1] = r /\ r.q = queued + 1
    BY <1>t, <1>1 DEF Enqueue
  <2>2. Served' = Served
    BY <1>t, <2>1 DEF Served
  <2>3. \A i \in 1 .. Len(wq') : wq'[i].q = Served' + i
    <3>1. \A i \in 1 .. Len(wq) : wq'[i].q = Served' + i
      BY <2>1, <2>2 DEF QueueInv
    <3>2. wq'[Len(wq) + 1].q = Served' + (Len(wq) + 1)
      BY <1>t, <2>1, <2>2 DEF Served
    <3> QED
      BY <1>t, <2>1, <3>1, <3>2
  <2>4. \A a \in Actors \ {Worker} : arg'[a].q = 0 /\ ~arg'[a].large
    BY <1>1 DEF Enqueue, QueueInv
  <2>5. pc'[Worker] = pc[Worker] /\ arg'[Worker] = arg[Worker]
    BY <1>1 DEF Enqueue
  <2>6. Len(wq') <= queued'
    BY <1>t, <2>1 DEF QueueInv
  <2> QED
    BY <2>2, <2>3, <2>4, <2>5, <2>6 DEF QueueInv
<1>2. ASSUME TakeWork PROVE QueueInv'
  <2>1. /\ Len(wq) >= 1 /\ arg'[Worker] = wq[1] /\ queued' = queued
        /\ Len(wq') = Len(wq) - 1 /\ \A i \in 1 .. Len(wq') : wq'[i] = wq[i + 1]
        /\ pc'[Worker] = "log"
        /\ \A a \in Actors \ {Worker} : arg'[a] = arg[a]
    BY <1>2, TakeFields
  <2>2. Served' = Served + 1 /\ Served >= 0
    BY <1>t, <2>1 DEF Served, QueueInv
  <2>3. arg'[Worker].q = Served' /\ Served' >= 1
    <3>1. 1 \in 1 .. Len(wq)
      BY <1>t, <2>1
    <3>2. wq[1].q = Served + 1
      BY <3>1 DEF QueueInv
    <3>3. Served \in Int
      BY <1>t DEF Served
    <3> QED
      BY <2>1, <2>2, <3>2, <3>3
  <2>4. \A i \in 1 .. Len(wq') : wq'[i].q = Served' + i
    <3> SUFFICES ASSUME NEW i \in 1 .. Len(wq') PROVE wq'[i].q = Served' + i
      OBVIOUS
    <3>1. i + 1 \in 1 .. Len(wq) /\ wq'[i] = wq[i + 1]
      BY <1>t, <2>1
    <3>2. wq[i + 1].q = Served + (i + 1)
      BY <3>1 DEF QueueInv
    <3> QED
      BY <1>t, <2>2, <3>1, <3>2 DEF Served
  <2>5. Len(wq') <= queued'
    BY <1>t, <2>1 DEF QueueInv
  <2> QED
    BY <2>1, <2>3, <2>4, <2>5 DEF QueueInv
<1>3. ASSUME FreeWork PROVE QueueInv'
  <2>1. /\ UNCHANGED <<wq, queued>> /\ arg'[Worker] = Blank /\ pc'[Worker] = "idle"
        /\ \A a \in Actors \ {Worker} : arg'[a] = arg[a]
    BY <1>3 DEF FreeWork, Goto, Base, TypeOK
  <2> QED
    BY <2>1 DEF QueueInv, Served
<1>4. ASSUME Passes PROVE QueueInv'
  <2>1. /\ UNCHANGED <<wq, queued>> /\ arg'[Worker].q = arg[Worker].q
        /\ pc[Worker] = "idle" <=> pc'[Worker] = "idle"
        /\ pc'[Worker] = "idle" => arg'[Worker] = arg[Worker]
    BY <1>4 DEF Passes, Same
  <2>2. \A a \in Actors \ {Worker} : arg'[a].q = 0 /\ ~arg'[a].large
    BY <1>4 DEF Passes, QueueInv
  <2> QED
    BY <2>1, <2>2 DEF QueueInv, Served
<1> QED
  BY <1>1, <1>2, <1>3, <1>4, QueueKinds

(* The number of the last record that the worker is done with.             *)
Top == IF Serving THEN Served - 1 ELSE Served

LEMMA TopStep ==
  ASSUME Base, QueueInv, [Next]_vars
  PROVE  /\ Top \in Int /\ Top' \in Int /\ Top <= Top' /\ Served \in Nat
         /\ Top' = Top \/ (Serving /\ ~Serving' /\ Top' = Top + 1)
<1> USE ActorsAre
<1>t. Len(wq) \in Nat /\ queued \in Nat /\ Served \in Nat /\ Top \in Int
  BY DEF Base, TypeOK, QueueInv, Served, Top
<1>1. ASSUME NEW c \in Callers, NEW r, Enqueue(c, r) PROVE Top' = Top
  <2>1. Len(wq') = Len(wq) + 1 /\ queued' = queued + 1 /\ pc'[Worker] = pc[Worker]
    BY <1>1 DEF Enqueue, Base, TypeOK
  <2> QED
    BY <1>t, <2>1 DEF Served, Serving, Top
<1>2. ASSUME TakeWork PROVE Top' = Top
  <2>1. /\ queued' = queued /\ Len(wq') = Len(wq) - 1
        /\ pc[Worker] = "idle" /\ pc'[Worker] = "log"
    BY <1>2, TakeFields
  <2>2. ~Serving /\ Serving'
    BY <2>1 DEF Serving
  <2> QED
    BY <1>t, <2>1, <2>2 DEF Served, Top
<1>3. ASSUME FreeWork \/ Passes PROVE Top' = Top \/ (Serving /\ ~Serving' /\ Top' = Top + 1)
  <2>1. UNCHANGED <<wq, queued>> /\ (Serving' => Serving)
    BY <1>3 DEF FreeWork, Passes, Goto, Serving, Base, TypeOK
  <2>2. Served' = Served
    BY <2>1 DEF Served
  <2>3. CASE Serving <=> Serving'
    BY <2>2, <2>3 DEF Top
  <2>4. CASE Serving /\ ~Serving'
    <3>1. Top = Served - 1 /\ Top' = Served
      BY <2>2, <2>4 DEF Top
    <3> QED
      BY <1>t, <2>4, <3>1
  <2> QED
    BY <2>1, <2>3, <2>4
<1>4. Top' = Top \/ (Serving /\ ~Serving' /\ Top' = Top + 1)
  BY <1>1, <1>2, <1>3, QueueKinds
<1>5. ASSUME NEW i \in Int, NEW j, j = i \/ j = i + 1 PROVE j \in Int /\ i <= j
  BY <1>5
<1> QED
  BY <1>t, <1>4, <1>5

(***************************************************************************)
(* The trace: what a step appends to it.                                   *)
(***************************************************************************)
Block(r, w) == [kind |-> "data", rec |-> r, whole |-> w]

LEMMA TraceKinds ==
  ASSUME Base, [Next]_vars
  PROVE  \/ \E a \in Actors : sync_log_record(a) /\ Trace' = Append(Trace, HeadOf(arg[a]))
         \/ \E c \in Callers : WriteData(c) /\ \E w \in BOOLEAN :
              Trace' = Append(Trace, Block(arg[c], w))
         \/ Kept(Trace, Trace')
<1>1. ASSUME NEW a \in Actors, LockForRecord(a) PROVE Kept(Trace, Trace')
  <2>1. Trace' = Trace
    BY <1>1, QuietStep DEF LockForRecord, Goto, trace, Base, TypeOK
  <2> QED
    BY <2>1, KeptRefl
<1>2. ASSUME NEW a \in Actors, sync_log_record(a)
      PROVE  Trace' = Append(Trace, HeadOf(arg[a]))
  BY <1>2, CopyStep
<1>3. ASSUME NEW c \in Callers, WriteData(c)
      PROVE  \/ \E w \in BOOLEAN : Trace' = Append(Trace, Block(arg[c], w))
             \/ Trace' = Trace
  BY <1>3, DataEntryStep, Zenon DEF Block
<1> QED
  BY <1>1, <1>2, <1>3, StepKinds, KeptRefl DEF Keeps

TypedTrace == Trace \in Seq(Entry) /\ Trace' \in Seq(Entry)

LEMMA TracesTyped == ASSUME Base, [Next]_vars PROVE TypedTrace
<1>1. TypeOK /\ TypeOK'
  BY NextType DEF Base
<1>2. TypeOK => Trace \in Seq(Entry)
  BY TraceType
<1>3. TypeOK' => Trace' \in Seq(Entry)
  <2>1. TypeOK' => file' \in Seq(Entry) /\ buffer' \in Seq(Entry)
    BY DEF TypeOK
  <2> QED
    BY <2>1 DEF Trace
<1> QED
  BY <1>1, <1>2, <1>3 DEF TypedTrace

-----------------------------------------------------------------------------
(* Queue order.                                                            *)
Upto(s, n) == \A i \in DOMAIN s : IsHead(s[i]) => s[i].rec.q <= n

Ordered(s) ==
  \A i, j \in DOMAIN s :
    /\ i < j /\ IsHead(s[i]) /\ IsHead(s[j]) /\ s[i].rec.q > 0 /\ s[j].rec.q > 0
    => s[i].rec.q < s[j].rec.q

LEMMA KeptOrder ==
  ASSUME NEW s \in Seq(Entry), NEW t \in Seq(Entry), Kept(s, t), NEW n
  PROVE  (Upto(s, n) => Upto(t, n)) /\ (Ordered(s) => Ordered(t))
<1>1. \A i \in DOMAIN t : i \in DOMAIN s /\ t[i].kind = s[i].kind /\ t[i].rec = s[i].rec
  BY DEF Kept
<1> QED
  BY <1>1 DEF Upto, Ordered, IsHead

LEMMA AppendOrder ==
  ASSUME NEW s \in Seq(Entry), NEW e \in Entry, NEW n \in Int, NEW m \in Int, n <= m,
         Upto(s, n), Ordered(s),
         IsHead(e) => e.rec.q <= m /\ (e.rec.q = 0 \/ n < e.rec.q)
  PROVE  Upto(Append(s, e), m) /\ Ordered(Append(s, e))
<1> DEFINE t == Append(s, e)
<1>1. /\ DOMAIN t = 1 .. (Len(s) + 1) /\ t[Len(s) + 1] = e
      /\ \A i \in DOMAIN s : t[i] = s[i]
      /\ DOMAIN s = 1 .. Len(s)
  OBVIOUS
<1>2. \A i \in DOMAIN t : i \in DOMAIN s \/ i = Len(s) + 1
  BY <1>1
<1>3. e.rec.q \in Nat /\ \A i \in DOMAIN s : s[i].rec.q \in Nat
  <2>1. \A i \in DOMAIN s : s[i] \in Entry
    OBVIOUS
  <2> QED
    BY <2>1 DEF Entry, Record
<1> HIDE DEF t
<1>4. Upto(t, m)
  BY <1>1, <1>2, <1>3 DEF Upto
<1>5. Ordered(t)
  <2> SUFFICES ASSUME NEW i \in DOMAIN t, NEW j \in DOMAIN t, i < j,
                      IsHead(t[i]), IsHead(t[j]), t[i].rec.q > 0, t[j].rec.q > 0
               PROVE  t[i].rec.q < t[j].rec.q
    BY DEF Ordered
  <2>1. i \in DOMAIN s
    BY <1>1, <1>2
  <2>2. CASE j \in DOMAIN s
    BY <1>1, <2>1, <2>2 DEF Ordered
  <2>3. CASE j = Len(s) + 1
    BY <1>1, <1>3, <2>1, <2>3 DEF Upto
  <2> QED
    BY <1>2, <2>2, <2>3
<1> QED
  BY <1>4, <1>5 DEF t

TraceInv == Upto(Trace, Top) /\ Ordered(Trace)

LEMMA TraceInvStep ==
  ASSUME Base, QueueInv, TraceInv, [Next]_vars PROVE TraceInv'
<1> USE ActorsAre
<1>1. Trace \in Seq(Entry) /\ Trace' \in Seq(Entry)
  BY TracesTyped DEF TypedTrace
<1>2. Top \in Int /\ Top' \in Int /\ Top <= Top' /\ Served \in Nat
  BY TopStep
<1>3. ASSUME Kept(Trace, Trace') PROVE TraceInv'
  <2>1. Upto(Trace', Top) /\ Ordered(Trace')
    BY <1>1, <1>3, KeptOrder DEF TraceInv
  <2>2. \A i \in DOMAIN Trace' : Trace'[i].rec.q \in Nat
    <3>1. \A i \in DOMAIN Trace' : Trace'[i] \in Entry
      BY <1>1
    <3> QED
      BY <3>1 DEF Entry, Record
  <2>3. Upto(Trace', Top')
    BY <1>2, <2>1, <2>2 DEF Upto
  <2> QED
    BY <2>1, <2>3 DEF TraceInv
<1>4. ASSUME NEW c \in Callers, NEW w \in BOOLEAN, Trace' = Append(Trace, Block(arg[c], w))
      PROVE  TraceInv'
  <2>1. Block(arg[c], w) \in Entry /\ ~IsHead(Block(arg[c], w))
    BY EntryType DEF Block, IsHead, Base, TypeOK
  <2>2. Upto(Trace', Top') /\ Ordered(Trace')
    BY <1>1, <1>2, <1>4, <2>1, AppendOrder DEF TraceInv
  <2> QED
    BY <2>2 DEF TraceInv
<1>5. ASSUME NEW a \in Actors, sync_log_record(a), Trace' = Append(Trace, HeadOf(arg[a]))
      PROVE  TraceInv'
  <2>1. HeadOf(arg[a]) \in Entry /\ HeadOf(arg[a]).rec = arg[a]
    BY EntryType DEF HeadOf, Base, TypeOK
  <2>2. arg[a].q <= Top' /\ (arg[a].q = 0 \/ Top < arg[a].q)
    <3>1. CASE a # Worker
      <4>1. arg[a].q = 0
        BY <3>1 DEF QueueInv
      <4>2. Top' >= 0
        <5>1. QueueInv'
          BY QueueStep
        <5>2. Len(wq') \in Nat /\ queued' \in Nat
          BY NextType DEF Base, TypeOK
        <5> QED
          BY <5>1, <5>2 DEF QueueInv, Top, Served, Serving
      <4> QED
        BY <4>1, <4>2
    <3>2. CASE a = Worker
      <4>1. Serving /\ ~Serving' /\ UNCHANGED <<wq, queued>>
        BY <1>5, <3>2 DEF sync_log_record, CopyRecord, Goto, Serving, Base, TypeOK
      <4>2. arg[Worker].q = Served
        BY <4>1 DEF QueueInv, Serving
      <4> QED
        BY <1>2, <3>2, <4>1, <4>2 DEF Top, Served
    <3> QED
      BY <3>1, <3>2
  <2>3. Upto(Trace', Top') /\ Ordered(Trace')
    BY <1>1, <1>2, <1>5, <2>1, <2>2, AppendOrder DEF TraceInv
  <2> QED
    BY <2>3 DEF TraceInv
<1> QED
  BY <1>3, <1>4, <1>5, TraceKinds

LEMMA InitTrace ==
  Init => Trace = <<>> /\ wq = <<>> /\ queued = 0 /\ pc[Worker] = "idle"
          /\ \A a \in Actors : arg[a] = Blank
<1> SUFFICES ASSUME Init PROVE Trace = <<>> /\ pc[Worker] = "idle"
  BY DEF Init
<1>1. pc[Worker] = "idle"
  BY ActorsAre DEF Init
<1>2. Trace = <<>>
  BY DEF Init, Trace
<1> QED
  BY <1>1, <1>2

LEMMA QueueInvariant == Spec => [](QueueInv /\ TraceInv)
<1>1. Init => QueueInv /\ TraceInv
  <2> SUFFICES ASSUME Init PROVE QueueInv /\ TraceInv
    OBVIOUS
  <2>1. QueueInv
    <3>1. wq = <<>> /\ queued = 0 /\ pc[Worker] = "idle" /\ arg[Worker] = Blank
          /\ \A a \in Actors : arg[a] = Blank
      BY InitTrace, ActorsAre
    <3>2. Len(wq) = 0
      BY <3>1
    <3> QED
      BY <3>1, <3>2, BlankFields DEF QueueInv
  <2>2. TraceInv
    BY InitTrace DEF TraceInv, Upto, Ordered
  <2> QED
    BY <2>1, <2>2
<1>2. Base /\ QueueInv /\ TraceInv /\ [Next]_vars => (QueueInv /\ TraceInv)'
  BY QueueStep, TraceInvStep
<1> QED
  BY <1>1, <1>2, BaseInvariant, PTL DEF Spec

(* Records are traced in the order in which they were queued, whatever is  *)
(* lost to failed writes and skipped for cleared bits.                     *)
THEOREM TracedInQueueOrder == Spec => []QueueOrder
<1>1. TraceInv => QueueOrder
  BY DEF TraceInv, Ordered, QueueOrder
<1> QED
  BY <1>1, QueueInvariant, PTL

-----------------------------------------------------------------------------
(***************************************************************************)
(* What is never lost.  The writes of the trace file succeed, no bit of    *)
(* the bitmap is cleared, and no record has an uninitialised flush signal, *)
(* as those of trfs_link may.                                              *)
(***************************************************************************)
Reliable == ~WriteFaults /\ Bitmaps = {} /\ "link" \notin Ops

Unsignalled ==
  /\ bitmap = Types
  /\ \A i \in 1 .. Len(wq) : ~wq[i].sig
  /\ \A a \in Actors \ {Logger} : ~arg[a].sig

LEMMA CallUnsignalled ==
  ASSUME Base, Reliable, NEW c \in Callers, StartCall(c)
  PROVE  ~arg'[c].sig /\ \A a \in Actors \ {c} : arg'[a] = arg[a]
<1> USE ActorsAre
<1>1. ASSUME NEW type, NEW sizes, NEW D, Call(c, type, sizes, D, {FALSE})
      PROVE  ~arg'[c].sig /\ \A a \in Actors \ {c} : arg'[a] = arg[a]
  <2>1. PICK n \in sizes :
          arg' = [arg EXCEPT ![c] =
                    [Blank EXCEPT !.type = type, !.size = n, !.sig = FALSE,
                                  !.exec = ops + 1, !.dirs = D, !.by = c]]
    BY <1>1 DEF Call
  <2>2. arg \in [Actors -> Record]
    BY DEF Base, TypeOK
  <2> QED
    BY <2>1, <2>2 DEF Blank
<1>2. ~trfs_link(c)
  BY DEF Reliable, trfs_link, Call
<1>3. CASE trfs_open(c) \/ trfs_flush(c) \/ trfs_read(c) \/ trfs_write(c)
  BY <1>1, <1>3 DEF trfs_open, trfs_flush, trfs_read, trfs_write
<1>4. CASE trfs_readdir(c) \/ trfs_mkdir(c) \/ trfs_unlink(c) \/ trfs_rmdir(c) \/ trfs_rename(c)
  BY <1>1, <1>4 DEF trfs_readdir, trfs_mkdir, trfs_unlink, trfs_rmdir, trfs_rename
<1> QED
  BY <1>2, <1>3, <1>4 DEF StartCall

LEMMA CallersUnsignalled ==
  ASSUME Base, Reliable, Unsignalled, [Next]_vars
  PROVE  bitmap' = Types /\ \A c \in Callers : ~arg'[c].sig
<1> USE ActorsAre, BlankFields
<1>t. arg \in [Actors -> Record] /\ bitmap = Types /\ \A c \in Callers : ~arg[c].sig
  BY DEF Base, TypeOK, Unsignalled
<1>1. ASSUME NEW c \in Callers, StartCall(c)
      PROVE  bitmap' = Types /\ \A b \in Callers : ~arg'[b].sig
  <2>1. bitmap' = bitmap
    BY <1>1 DEF StartCall, trfs_open, trfs_flush, trfs_read, trfs_write, trfs_readdir,
                trfs_mkdir, trfs_unlink, trfs_link, trfs_rename, trfs_rmdir, Call
  <2> QED
    BY <1>t, <1>1, <2>1, CallUnsignalled
<1>2. ASSUME NEW c \in Callers, CallerStep(c) \/ DataStep(c)
      PROVE  bitmap' = Types /\ \A b \in Callers : ~arg'[b].sig
  <2>1. bitmap' = bitmap /\ \A b \in Actors : arg'[b] \in {arg[b], Blank}
    BY <1>t, <1>2 DEF CallerStep, Untraced, eworkqueue_init, LogReaddir, SkipLarge, QueueLarge,
                flush_workqueue, Leave, DataStep, LockForData, FlushForData, ResetForData,
                WriteData, file_write, ResetBuffer
  <2> QED
    BY <1>t, <2>1
<1>3. ASSUME NEW a \in Actors, Log(a)
      PROVE  bitmap' = Types /\ \A b \in Callers : ~arg'[b].sig
  <2>1. CASE LockForRecord(a)
    <3>1. arg' = [arg EXCEPT ![a] = [arg[a] EXCEPT !.id = last_id, !.pos = logged]]
          /\ bitmap' = bitmap
      BY <2>1 DEF LockForRecord
    <3>2. [arg[a] EXCEPT !.id = last_id, !.pos = logged].sig = arg[a].sig
      BY <1>t DEF Record
    <3> QED
      BY <1>t, <3>1, <3>2
  <2>2. CASE ~LockForRecord(a)
    <3>1. bitmap' = bitmap /\ \A b \in Callers : arg'[b] \in {arg[b], Blank}
      BY <1>t, <1>3, <2>2 DEF Log, log_record_skip, log_record, LockForFlush, FlushBuffer,
                  FlushDone, sync_log_record, CopyRecord, mutex_unlock, Return,
                  file_write, ResetBuffer
    <3> QED
      BY <1>t, <3>1
  <2> QED
    BY <2>1, <2>2
<1>4. ASSUME IdleStep PROVE bitmap' = Types /\ \A b \in Callers : ~arg'[b].sig
  <2>1. bitmap' \in {bitmap, Types} /\ \A b \in Callers : arg'[b] = arg[b]
    BY <1>t, <1>4 DEF IdleStep, TakeWork, FreeWork, SignalFlush, NothingToFlush, Wake,
                trfs_unlocked_ioctl, vars, Reliable
  <2> QED
    BY <1>t, <2>1
<1>5. \/ \E c \in Callers : StartCall(c) \/ CallerStep(c) \/ DataStep(c)
      \/ \E a \in Actors : Log(a)
      \/ IdleStep
  BY DEF Next, Continue, CallerStep, DataStep, WorkerStep, LoggerStep, IdleStep
<1> QED
  BY <1>1, <1>2, <1>3, <1>4, <1>5

LEMMA UnsignalledStep ==
  ASSUME Base, Reliable, Unsignalled, [Next]_vars PROVE Unsignalled'
<1> USE ActorsAre, BlankFields
<1>t. wq \in Seq(Record) /\ Len(wq) \in Nat
  BY DEF Base, TypeOK
<1>1. bitmap' = Types /\ \A c \in Callers : ~arg'[c].sig
  BY CallersUnsignalled
<1>2. ~arg'[Worker].sig /\ \A i \in 1 .. Len(wq') : ~wq'[i].sig
  <2>1. ASSUME NEW c \in Callers, NEW r, Enqueue(c, r)
        PROVE  ~arg'[Worker].sig /\ \A i \in 1 .. Len(wq') : ~wq'[i].sig
    <3>1. arg'[Worker] = arg[Worker] /\ ~r.sig
      BY <2>1 DEF Enqueue, Unsignalled
    <3>2. Len(wq') = Len(wq) + 1 /\ \A i \in 1 .. Len(wq') : wq'[i] \in {wq[i], r}
            /\ (i > Len(wq) => wq'[i] = r) /\ (i <= Len(wq) => wq'[i] = wq[i])
      BY <1>t, <2>1 DEF Enqueue
    <3>3. \A i \in 1 .. Len(wq') : i \in 1 .. Len(wq) \/ i > Len(wq)
      BY <1>t, <3>2
    <3> QED
      BY <3>1, <3>2, <3>3 DEF Unsignalled
  <2>2. ASSUME TakeWork PROVE ~arg'[Worker].sig /\ \A i \in 1 .. Len(wq') : ~wq'[i].sig
    <3>1. /\ Len(wq) >= 1 /\ arg'[Worker] = wq[1]
          /\ Len(wq') = Len(wq) - 1 /\ \A i \in 1 .. Len(wq') : wq'[i] = wq[i + 1]
      BY <2>2, TakeFields
    <3>2. 1 \in 1 .. Len(wq) /\ \A i \in 1 .. Len(wq') : i + 1 \in 1 .. Len(wq)
      BY <1>t, <3>1
    <3> QED
      BY <3>1, <3>2 DEF Unsignalled
  <2>3. ASSUME FreeWork PROVE ~arg'[Worker].sig /\ wq' = wq
    BY <2>3 DEF FreeWork, Base, TypeOK
  <2>4. ASSUME Passes PROVE ~arg'[Worker].sig /\ wq' = wq
    BY <2>4 DEF Passes, Same, Unsignalled
  <2> QED
    BY <2>1, <2>2, <2>3, <2>4, QueueKinds DEF Unsignalled
<1> QED
  BY <1>1, <1>2 DEF Unsignalled, Actors

LEMMA UnsignalledInvariant == Reliable => (Spec => []Unsignalled)
<1> SUFFICES ASSUME Reliable PROVE Spec => []Unsignalled
  OBVIOUS
<1>1. Init => Unsignalled
  <2> SUFFICES ASSUME Init PROVE Unsignalled
    OBVIOUS
  <2>1. wq = <<>> /\ Len(<<>>) = 0 /\ \A a \in Actors : arg[a] = Blank
    BY InitTrace
  <2>2. bitmap = Types
    BY DEF Init
  <2> QED
    BY <2>1, <2>2, BlankFields DEF Unsignalled
<1>2. Base /\ Unsignalled /\ [Next]_vars => Unsignalled'
  BY UnsignalledStep
<1> QED
  BY <1>1, <1>2, BaseInvariant, PTL DEF Spec

(* Without faults the trace only grows.                                    *)
LEMMA Grows ==
  ASSUME ~WriteFaults, Base, [Next]_vars
  PROVE  /\ Len(Trace) \in Nat /\ Len(Trace') \in Nat /\ Len(Trace) <= Len(Trace')
         /\ \A i \in 1 .. Len(Trace) : i \in 1 .. Len(Trace') /\ Trace'[i] = Trace[i]
<1>1. Trace \in Seq(Entry) /\ Trace' \in Seq(Entry)
  BY TracesTyped DEF TypedTrace
<1>2. ASSUME NEW e, Trace' = Append(Trace, e)
      PROVE  /\ Len(Trace) <= Len(Trace')
             /\ \A i \in 1 .. Len(Trace) : i \in 1 .. Len(Trace') /\ Trace'[i] = Trace[i]
  BY <1>1, <1>2
<1>3. CASE Trace' = Trace
  BY <1>1, <1>3
<1> QED
  BY <1>1, <1>2, <1>3, TraceKinds DEF Kept

(* The worker is done with a record only when it has traced it.            *)
LEMMA ServedIsTraced ==
  ASSUME Base, Unsignalled, [Next]_vars, Serving, ~Serving'
  PROVE  /\ sync_log_record(Worker) /\ arg' = arg
         /\ Len(Trace') \in Nat /\ Len(Trace') \in 1 .. Len(Trace')
         /\ Trace'[Len(Trace')] = HeadOf(arg[Worker])
<1> USE ActorsAre
<1>t. pc \in [Actors -> Steps] /\ arg \in [Actors -> Record] /\ Trace \in Seq(Entry)
  BY TracesTyped DEF Base, TypeOK, TypedTrace
<1>1. pc'[Worker] # pc[Worker]
  BY DEF Serving
<1>2. ASSUME NEW c \in Callers, CallStep(c) \/ CallerStep(c) \/ DataStep(c) PROVE FALSE
  BY <1>t, <1>1, <1>2 DEF CallStep, Call, CallerStep, Untraced, eworkqueue_init, LogReaddir, SkipLarge,
                QueueLarge, flush_workqueue, Leave, DataStep, LockForData, FlushForData,
                ResetForData, WriteData, file_write, ResetBuffer, Goto
<1>3. ~IdleStep
  BY <1>t, <1>1 DEF Serving, IdleStep, TakeWork, FreeWork, SignalFlush, NothingToFlush, Wake,
                trfs_unlocked_ioctl, Goto, vars
<1>4. PICK a \in Actors : Log(a)
  BY <1>2, <1>3, NextCases
<1>5. a = Worker
  BY <1>t, <1>1, <1>4 DEF Log, log_record_skip, log_record, LockForRecord, LockForFlush, FlushBuffer,
                FlushDone, sync_log_record, CopyRecord, mutex_unlock, Return,
                file_write, ResetBuffer, Goto
<1>6. ~arg[Worker].sig /\ arg[Worker].type \in bitmap
  BY <1>t DEF Unsignalled, Record
<1>7. sync_log_record(Worker)
  BY <1>t, <1>4, <1>5, <1>6 DEF Serving, Log, log_record_skip, log_record, LockForRecord,
                LockForFlush, FlushBuffer, FlushDone, mutex_unlock, Return,
                file_write, ResetBuffer, Goto
<1>8. Trace' = Append(Trace, HeadOf(arg[Worker])) /\ arg' = arg
  BY <1>7, CopyStep
<1>9. HeadOf(arg[Worker]) \in Entry
  BY <1>t, EntryType DEF HeadOf
<1>10. /\ Len(Trace') = Len(Trace) + 1 /\ Len(Trace) \in Nat
       /\ Trace'[Len(Trace) + 1] = HeadOf(arg[Worker])
  BY <1>t, <1>8, <1>9
<1> QED
  BY <1>7, <1>8, <1>10

HandledInv ==
  \A n \in 1 .. Top : \E i \in 1 .. Len(Trace) : IsHead(Trace[i]) /\ Trace[i].rec.q = n

LEMMA HandledStep ==
  ASSUME ~WriteFaults, Base, QueueInv, Unsignalled, HandledInv, [Next]_vars
  PROVE  HandledInv'
<1>1. \A n \in 1 .. Top : \E i \in 1 .. Len(Trace') : IsHead(Trace'[i]) /\ Trace'[i].rec.q = n
  BY Grows DEF HandledInv
<1>2. CASE Top' = Top
  BY <1>1, <1>2 DEF HandledInv
<1>3. CASE Serving /\ ~Serving' /\ Top' = Top + 1
  <2> DEFINE k == Len(Trace')
  <2>1. k \in 1 .. k /\ Trace'[k] = HeadOf(arg[Worker])
    BY <1>3, ServedIsTraced
  <2>2. arg[Worker].q = Top + 1
    <3>1. arg[Worker].q = Served /\ Top = Served - 1
      BY <1>3 DEF QueueInv, Serving, Top
    <3> QED
      BY <3>1, TopStep
  <2>3. IsHead(Trace'[k]) /\ Trace'[k].rec.q = Top + 1
    BY <2>1, <2>2 DEF HeadOf, IsHead
  <2>4. \A n \in 1 .. Top' : n \in 1 .. Top \/ n = Top + 1
    BY <1>3, TopStep
  <2> QED
    BY <1>1, <2>1, <2>3, <2>4 DEF HandledInv
<1> QED
  BY <1>2, <1>3, TopStep

(* The workqueue loses nothing: a queued record waits in the queue, is in  *)
(* the worker's hands, or is in the trace.                                 *)
THEOREM NothingHandledIsLost == Reliable => (Spec => []HandledAreTraced)
<1> SUFFICES ASSUME Reliable PROVE Spec => []HandledAreTraced
  OBVIOUS
<1>1. Init => HandledInv
  <2> SUFFICES ASSUME Init PROVE HandledInv
    OBVIOUS
  <2>1. wq = <<>> /\ queued = 0 /\ pc[Worker] = "idle"
    BY InitTrace
  <2>2. Top = 0
    <3>1. ~Serving
      BY <2>1 DEF Serving
    <3>2. Len(wq) = 0
      BY <2>1
    <3>3. Served = 0
      BY <2>1, <3>2, 0 - 0 = 0, Zenon DEF Served
    <3> QED
      BY <3>1, <3>3, Zenon DEF Top
  <2> QED
    BY <2>2 DEF HandledInv
<1>2. Base /\ QueueInv /\ Unsignalled /\ HandledInv /\ [Next]_vars => HandledInv'
  BY HandledStep DEF Reliable
<1>3. ASSUME Base, QueueInv, HandledInv PROVE HandledAreTraced
  <2> SUFFICES ASSUME NEW n \in 1 .. queued
               PROVE  \/ \E i \in DOMAIN wq : wq[i].q = n
                      \/ arg[Worker].q = n
                      \/ \E i \in DOMAIN Trace : IsHead(Trace[i]) /\ Trace[i].rec.q = n
    BY DEF HandledAreTraced
  <2>1. /\ Len(wq) \in Nat /\ queued \in Nat /\ DOMAIN wq = 1 .. Len(wq)
        /\ DOMAIN Trace = 1 .. Len(Trace) /\ Len(wq) <= queued
    BY <1>3, TraceType DEF Base, TypeOK, QueueInv
  <2>2. CASE n > Served
    <3>1. n - Served \in 1 .. Len(wq) /\ Served + (n - Served) = n
      BY <2>1, <2>2 DEF Served
    <3> QED
      BY <1>3, <2>1, <3>1 DEF QueueInv
  <2>3. CASE n <= Top
    <3>1. n \in 1 .. Top
      BY <2>1, <2>3 DEF Top, Served
    <3> QED
      BY <1>3, <2>1, <3>1 DEF HandledInv
  <2>4. CASE n = Served /\ Serving
    BY <1>3, <2>4 DEF QueueInv, Serving
  <2>5. n > Served \/ n <= Top \/ (n = Served /\ Serving)
    BY <2>1 DEF Top, Served
  <2> QED
    BY <2>2, <2>3, <2>4, <2>5
<1> QED
  BY <1>1, <1>2, <1>3, BaseInvariant, QueueInvariant, UnsignalledInvariant, PTL DEF Spec

-----------------------------------------------------------------------------
(***************************************************************************)
(* Large operations.  A caller at one of these steps has queued a header.  *)
(***************************************************************************)
DataSteps == {"biglock", "bigsync", "bigreset", "payload"}

LEMMA CallerSteps ==
  ASSUME Base, NEW c \in Callers, [Next]_vars
  PROVE  \/ pc'[c] = pc[c] /\ (arg'[c] = arg[c] \/ pc[c] \notin DataSteps \cup {"flushwq"})
         \/ pc'[c] = "flushwq" /\ pc[c] = "built" /\ \E r : Enqueue(c, r)
         \/ flush_workqueue(c) /\ pc'[c] = "biglock" /\ arg'[c] = arg[c]
         \/ pc[c] \in DataSteps /\ pc'[c] \in DataSteps /\ arg'[c] = arg[c]
         \/ WriteData(c) /\ pc[c] = "payload" /\ arg'[c] = arg[c] /\ pc'[c] = "unlock"
         \/ pc[c] \notin DataSteps \cup {"flushwq"} /\ pc'[c] \notin DataSteps \cup {"flushwq"}
<1> USE ActorsAre
<1>t. pc \in [Actors -> Steps] /\ arg \in [Actors -> Record]
  BY DEF Base, TypeOK
<1>1. ASSUME NEW b \in Callers, b # c, CallStep(b) \/ CallerStep(b) \/ DataStep(b)
      PROVE  pc'[c] = pc[c] /\ arg'[c] = arg[c]
  BY <1>t, <1>1 DEF CallStep, Call, CallerStep, Untraced, eworkqueue_init, LogReaddir, SkipLarge,
                QueueLarge, flush_workqueue, Leave, DataStep, LockForData, FlushForData,
                ResetForData, WriteData, file_write, ResetBuffer, Goto
<1>2. ASSUME NEW a \in Actors, a # c, Log(a) PROVE pc'[c] = pc[c] /\ arg'[c] = arg[c]
  BY <1>t, <1>2 DEF Log, log_record_skip, log_record, LockForRecord, LockForFlush, FlushBuffer,
                FlushDone, sync_log_record, CopyRecord, mutex_unlock, Return,
                file_write, ResetBuffer, Goto
<1>3. ASSUME IdleStep PROVE pc'[c] = pc[c] /\ arg'[c] = arg[c]
  BY <1>t, <1>3 DEF IdleStep, TakeWork, FreeWork, SignalFlush, NothingToFlush, Wake,
                trfs_unlocked_ioctl, Goto, vars
<1>4. ASSUME CallStep(c) \/ Log(c)
      PROVE  /\ pc[c] \notin DataSteps \cup {"flushwq"}
             /\ pc'[c] \notin DataSteps \cup {"flushwq"}
  BY <1>t, <1>4 DEF CallStep, Call, Log, log_record_skip, log_record, LockForRecord, LockForFlush,
                FlushBuffer, FlushDone, sync_log_record, CopyRecord, mutex_unlock, Return, After,
                file_write, ResetBuffer, Goto, DataSteps
<1>5. ASSUME Untraced(c) \/ LogReaddir(c) \/ SkipLarge(c) \/ eworkqueue_init(c)
      PROVE  /\ pc[c] \notin DataSteps \cup {"flushwq"}
             /\ pc'[c] \notin DataSteps \cup {"flushwq"}
  BY <1>t, <1>5 DEF Untraced, LogReaddir, SkipLarge, eworkqueue_init, Leave, Goto, DataSteps
<1>6. ASSUME QueueLarge(c) PROVE pc'[c] = "flushwq" /\ pc[c] = "built" /\ \E r : Enqueue(c, r)
  BY <1>t, <1>6, EnqueueStep DEF QueueLarge, Goto
<1>7. ASSUME flush_workqueue(c) PROVE pc'[c] = "biglock" /\ arg'[c] = arg[c]
  BY <1>t, <1>7 DEF flush_workqueue, Goto
<1>8. ASSUME LockForData(c) \/ FlushForData(c) \/ ResetForData(c)
      PROVE  pc[c] \in DataSteps /\ pc'[c] \in DataSteps /\ arg'[c] = arg[c]
  BY <1>t, <1>8 DEF LockForData, FlushForData, ResetForData, file_write, ResetBuffer, Goto, DataSteps
<1>9. ASSUME WriteData(c) PROVE pc[c] = "payload" /\ arg'[c] = arg[c] /\ pc'[c] = "unlock"
  BY <1>t, <1>9 DEF WriteData, Goto
<1>10. CASE \E b \in Callers : CallStep(b) \/ CallerStep(b) \/ DataStep(b)
  BY <1>1, <1>4, <1>5, <1>6, <1>7, <1>8, <1>9, <1>10 DEF CallerStep, DataStep
<1>11. CASE \E a \in Actors : Log(a)
  BY <1>2, <1>4, <1>11
<1> QED
  BY <1>3, <1>10, <1>11, NextCases

HeadTraced(s, x) == \E i \in 1 .. Len(s) : IsHead(s[i]) /\ s[i].rec.exec = x

(* The record of operation x is on its way to the trace, or in it.         *)
Present(x) ==
  \/ \E i \in 1 .. Len(wq) : wq[i].exec = x
  \/ Serving /\ arg[Worker].exec = x
  \/ HeadTraced(Trace, x)

LEMMA PresentStep ==
  ASSUME ~WriteFaults, Base, Unsignalled, [Next]_vars, NEW x
  PROVE  /\ HeadTraced(Trace, x) => HeadTraced(Trace', x)
         /\ Present(x) => Present(x)'
<1> USE ActorsAre
<1>t. wq \in Seq(Record) /\ Len(wq) \in Nat
  BY DEF Base, TypeOK
<1>1. HeadTraced(Trace, x) => HeadTraced(Trace', x)
  BY Grows DEF HeadTraced
<1>2. ASSUME NEW i \in 1 .. Len(wq), wq[i].exec = x PROVE Present(x)'
  <2>1. CASE \E c \in Callers : \E r : Enqueue(c, r)
    <3>1. i \in 1 .. Len(wq') /\ wq'[i] = wq[i]
      BY <1>t, <2>1 DEF Enqueue
    <3> QED
      BY <1>2, <3>1 DEF Present
  <2>2. CASE TakeWork
    <3>1. /\ arg'[Worker] = wq[1] /\ Len(wq') = Len(wq) - 1
          /\ \A j \in 1 .. Len(wq') : wq'[j] = wq[j + 1]
          /\ pc'[Worker] = "log"
      BY <2>2, TakeFields
    <3>2. CASE i = 1
      BY <1>2, <3>1, <3>2 DEF Present, Serving
    <3>3. CASE i # 1
      <4>1. i - 1 \in 1 .. Len(wq') /\ (i - 1) + 1 = i
        BY <1>t, <3>1, <3>3
      <4> QED
        BY <1>2, <3>1, <4>1 DEF Present
    <3> QED
      BY <3>2, <3>3
  <2>3. CASE FreeWork \/ Passes
    <3>1. wq' = wq
      BY <2>3 DEF FreeWork, Passes
    <3> QED
      BY <1>2, <3>1 DEF Present
  <2> QED
    BY <2>1, <2>2, <2>3, QueueKinds
<1>3. ASSUME Serving, arg[Worker].exec = x PROVE Present(x)'
  <2>1. CASE ~Serving'
    <3> DEFINE k == Len(Trace')
    <3>1. k \in 1 .. k /\ Trace'[k] = HeadOf(arg[Worker])
      BY <1>3, <2>1, ServedIsTraced
    <3>2. IsHead(Trace'[k]) /\ Trace'[k].rec.exec = x
      BY <1>3, <3>1 DEF HeadOf, IsHead
    <3> QED
      BY <3>1, <3>2 DEF Present, HeadTraced
  <2>2. CASE Serving'
    <3>1. ~TakeWork /\ ~FreeWork
      BY <1>3 DEF TakeWork, FreeWork, Goto, Serving
    <3>2. arg'[Worker].exec = arg[Worker].exec
      BY <3>1, QueueKinds DEF Enqueue, Passes, Same
    <3> QED
      BY <1>3, <2>2, <3>2 DEF Present
  <2> QED
    BY <2>1, <2>2
<1> QED
  BY <1>1, <1>2, <1>3 DEF Present

(***************************************************************************)
(* flush_workqueue returns when the header is neither queued nor in the    *)
(* worker's hands: then it is in the trace, before the data.               *)
(***************************************************************************)
WaitInv ==
  /\ pc[Worker] \in {"unlock", "free"} => HeadTraced(Trace, arg[Worker].exec)
  /\ \A c \in Callers : pc[c] = "flushwq" => Present(arg[c].exec)
  /\ \A c \in Callers : pc[c] \in DataSteps => HeadTraced(Trace, arg[c].exec)

LEMMA WaitStep ==
  ASSUME ~WriteFaults, Base, Unsignalled, WaitInv, [Next]_vars
  PROVE  WaitInv'
<1> USE ActorsAre
<1>t. wq \in Seq(Record) /\ pc \in [Actors -> Steps] /\ Len(wq) \in Nat
  BY DEF Base, TypeOK
<1>1. ASSUME pc'[Worker] \in {"unlock", "free"} PROVE HeadTraced(Trace', arg'[Worker].exec)
  <2>1. CASE Serving
    <3>1. ~Serving' /\ arg' = arg
      BY <1>1, <2>1, ServedIsTraced DEF Serving
    <3>2. /\ Len(Trace') \in 1 .. Len(Trace')
          /\ Trace'[Len(Trace')] = HeadOf(arg[Worker])
      BY <2>1, <3>1, ServedIsTraced
    <3> QED
      BY <3>1, <3>2 DEF HeadOf, IsHead, HeadTraced
  <2>2. CASE ~Serving
    <3>1. pc[Worker] # "idle" /\ arg'[Worker].exec = arg[Worker].exec
      <4>1. ~TakeWork /\ ~FreeWork
        BY <1>1, <1>t DEF TakeWork, FreeWork, Goto
      <4>2. pc'[Worker] # "idle"
        BY <1>1
      <4> QED
        BY <4>1, <4>2, QueueKinds DEF Enqueue, Passes, Same
    <3>2. pc[Worker] \in {"unlock", "free"}
      <4>1. pc[Worker] \in StepsOf(Worker)
        BY DEF Base, TypeOK
      <4> QED
        BY <2>2, <3>1, <4>1 DEF StepsOf, LogSteps, Serving
    <3> QED
      BY <3>1, <3>2, PresentStep DEF WaitInv
  <2> QED
    BY <2>1, <2>2
<1>2. ASSUME NEW c \in Callers, pc'[c] = "flushwq" PROVE Present(arg[c].exec)'
  <2>1. CASE \E r : Enqueue(c, r)
    <3>1. PICK r : Enqueue(c, r)
      BY <2>1
    <3>2. /\ Len(wq) + 1 \in 1 .. Len(wq') /\ wq'[Len(wq) + 1] = r
          /\ r.exec = arg[c].exec /\ arg'[c] = arg[c]
      BY <1>t, <1>2, <3>1 DEF Enqueue
    <3> QED
      BY <3>2 DEF Present
  <2>2. CASE pc[c] = "flushwq" /\ arg'[c] = arg[c]
    <3>1. PICK x : x = arg[c].exec
      OBVIOUS
    <3>2. Present(x)
      BY <2>2, <3>1 DEF WaitInv, Present
    <3>3. Present(x)'
      BY <3>2, PresentStep
    <3> QED
      BY <2>2, <3>1, <3>3 DEF Present
  <2> QED
    BY <1>2, <2>1, <2>2, CallerSteps DEF DataSteps
<1>3. ASSUME NEW c \in Callers, pc'[c] \in DataSteps PROVE HeadTraced(Trace', arg'[c].exec)
  <2>1. CASE flush_workqueue(c) /\ arg'[c] = arg[c]
    <3>1. pc[c] = "flushwq" /\ ~InQueue(arg[c])
      BY <2>1 DEF flush_workqueue, Goto
    <3>2. HeadTraced(Trace, arg[c].exec)
      <4>1. DOMAIN wq = 1 .. Len(wq)
        BY <1>t
      <4> QED
        BY <3>1, <4>1 DEF InQueue, WaitInv, Present
    <3> QED
      BY <2>1, <3>2, PresentStep
  <2>2. CASE pc[c] \in DataSteps /\ arg'[c] = arg[c]
    BY <2>2, PresentStep DEF WaitInv
  <2> QED
    BY <1>3, <2>1, <2>2, CallerSteps DEF DataSteps
<1> QED
  BY <1>1, <1>2, <1>3 DEF WaitInv

LEMMA HeaderFirstStep ==
  ASSUME ~WriteFaults, Base, WaitInv, HeaderBeforePayload, [Next]_vars
  PROVE  HeaderBeforePayload'
<1> USE ActorsAre
<1>1. /\ Trace \in Seq(Entry) /\ Trace' \in Seq(Entry) /\ Len(Trace) \in Nat
      /\ DOMAIN Trace = 1 .. Len(Trace) /\ DOMAIN Trace' = 1 .. Len(Trace')
  BY TracesTyped DEF TypedTrace
<1>2. \A i \in 1 .. Len(Trace) : i \in 1 .. Len(Trace') /\ Trace'[i] = Trace[i]
  BY Grows
<1>3. ASSUME NEW i \in 1 .. Len(Trace), IsData(Trace'[i])
      PROVE  \E j \in 1 .. (i - 1) : IsHead(Trace'[j]) /\ Trace'[j].rec.exec = Trace'[i].rec.exec
  <2>1. IsData(Trace[i]) /\ Trace'[i] = Trace[i]
    BY <1>2, <1>3
  <2>2. PICK j \in 1 .. (i - 1) : IsHead(Trace[j]) /\ Trace[j].rec.exec = Trace[i].rec.exec
    BY <1>1, <2>1 DEF HeaderBeforePayload
  <2>3. Trace'[j] = Trace[j]
    BY <1>1, <1>2
  <2> QED
    BY <2>1, <2>2, <2>3
<1>4. ASSUME NEW e \in Entry, Trace' = Append(Trace, e)
      PROVE  /\ Len(Trace') = Len(Trace) + 1 /\ Trace'[Len(Trace) + 1] = e
             /\ \A i \in 1 .. Len(Trace') : i \in 1 .. Len(Trace) \/ i = Len(Trace) + 1
  BY <1>1, <1>4
<1>5. CASE Trace' = Trace
  BY <1>1, <1>3, <1>5 DEF HeaderBeforePayload
<1>6. ASSUME NEW a \in Actors, Trace' = Append(Trace, HeadOf(arg[a])) PROVE HeaderBeforePayload'
  <2>1. HeadOf(arg[a]) \in Entry /\ ~IsData(HeadOf(arg[a]))
    BY EntryType DEF HeadOf, IsData, Base, TypeOK
  <2> QED
    BY <1>1, <1>3, <1>4, <1>6, <2>1 DEF HeaderBeforePayload
<1>7. ASSUME NEW c \in Callers, WriteData(c), NEW w \in BOOLEAN,
             Trace' = Append(Trace, Block(arg[c], w))
      PROVE  HeaderBeforePayload'
  <2>1. Block(arg[c], w) \in Entry /\ Block(arg[c], w).rec = arg[c]
    BY EntryType DEF Block, Base, TypeOK
  <2>2. HeadTraced(Trace, arg[c].exec)
    BY <1>7 DEF WriteData, Goto, WaitInv, DataSteps
  <2>3. PICK j \in 1 .. Len(Trace) : IsHead(Trace[j]) /\ Trace[j].rec.exec = arg[c].exec
    BY <2>2 DEF HeadTraced
  <2>4. j \in 1 .. ((Len(Trace) + 1) - 1) /\ Trace'[j] = Trace[j]
    BY <1>1, <1>2
  <2>5. Len(Trace') = Len(Trace) + 1 /\ Trace'[Len(Trace) + 1].rec.exec = arg[c].exec
    BY <1>4, <1>7, <2>1
  <2>6. \A i \in 1 .. Len(Trace') : i \in 1 .. Len(Trace) \/ i = Len(Trace) + 1
    BY <1>4, <1>7, <2>1
  <2>7. \E k \in 1 .. ((Len(Trace) + 1) - 1) :
          IsHead(Trace'[k]) /\ Trace'[k].rec.exec = Trace'[Len(Trace) + 1].rec.exec
    BY <2>3, <2>4, <2>5
  <2> QED
    BY <1>1, <1>3, <2>6, <2>7 DEF HeaderBeforePayload
<1> QED
  BY <1>5, <1>6, <1>7, TraceKinds DEF Kept

(* A large operation writes its data only after its header is in the       *)
(* trace, however many callers, directories and flushes interfere.         *)
THEOREM HeaderIsFirst == Reliable => (Spec => []HeaderBeforePayload)
<1> SUFFICES ASSUME Reliable PROVE Spec => []HeaderBeforePayload
  OBVIOUS
<1>1. Init => WaitInv /\ HeaderBeforePayload
  <2> SUFFICES ASSUME Init PROVE WaitInv /\ HeaderBeforePayload
    OBVIOUS
  <2>1. \A a \in Callers \cup {Worker} : pc[a] = "idle"
    BY ActorsAre DEF Init
  <2>2. WaitInv
    BY <2>1 DEF WaitInv, DataSteps
  <2>3. HeaderBeforePayload
    BY InitTrace DEF HeaderBeforePayload
  <2> QED
    BY <2>2, <2>3
<1>2. Base /\ Unsignalled /\ WaitInv /\ HeaderBeforePayload /\ [Next]_vars
        => (WaitInv /\ HeaderBeforePayload)'
  BY WaitStep, HeaderFirstStep DEF Reliable
<1> QED
  BY <1>1, <1>2, BaseInvariant, UnsignalledInvariant, PTL DEF Spec

-----------------------------------------------------------------------------
(***************************************************************************)
(* A header promises data: until its caller has written them, the caller   *)
(* is at one of the steps between.                                         *)
(***************************************************************************)
WaitsFor(x) == \E c \in Callers : pc[c] = "flushwq" /\ arg[c].exec = x

Writes(x) ==
  \E c \in Callers : pc[c] \in DataSteps \cup {"flushwq"} /\ arg[c].exec = x

DataAfter(s, i) ==
  \E j \in (i + 1) .. Len(s) : IsData(s[j]) /\ s[j].rec.exec = s[i].rec.exec

QueuePromised ==
  /\ \A i \in 1 .. Len(wq) : wq[i].large => WaitsFor(wq[i].exec)
  /\ Serving /\ arg[Worker].large => WaitsFor(arg[Worker].exec)

TracePromised ==
  \A i \in 1 .. Len(Trace) :
    IsHead(Trace[i]) /\ Trace[i].rec.large
      => Writes(Trace[i].rec.exec) \/ DataAfter(Trace, i)

(* A caller goes on waiting while its header is queued or served.          *)
LEMMA WaitsOn ==
  ASSUME Base, [Next]_vars, NEW r, WaitsFor(r.exec), InQueue(r)
  PROVE  \E c \in Callers : pc'[c] = "flushwq" /\ arg'[c] = arg[c] /\ arg[c].exec = r.exec
<1>1. PICK c \in Callers : pc[c] = "flushwq" /\ arg[c].exec = r.exec
  BY DEF WaitsFor
<1>2. ~flush_workqueue(c)
  BY <1>1 DEF flush_workqueue, InQueue
<1>3. pc'[c] = "flushwq" /\ arg'[c] = arg[c]
  BY <1>1, <1>2, CallerSteps DEF DataSteps, WriteData, Goto
<1> QED
  BY <1>1, <1>3

(* It is at a step before the write of its data, or it writes them.        *)
LEMMA WritesOn ==
  ASSUME Base, [Next]_vars, NEW x, Writes(x)
  PROVE  \/ \E c \in Callers : pc'[c] \in DataSteps \cup {"flushwq"} /\ arg'[c].exec = x
         \/ \E c \in Callers : WriteData(c) /\ arg[c].exec = x
<1>1. PICK c \in Callers : pc[c] \in DataSteps \cup {"flushwq"} /\ arg[c].exec = x
  BY DEF Writes
<1> QED
  BY <1>1, CallerSteps DEF DataSteps

LEMMA QueuePromisedStep ==
  ASSUME Base, QueuePromised, [Next]_vars PROVE QueuePromised'
<1> USE ActorsAre
<1>t. wq \in Seq(Record) /\ Len(wq) \in Nat /\ DOMAIN wq = 1 .. Len(wq)
  BY DEF Base, TypeOK
<1> DEFINE Next_(x) == \E c \in Callers : pc'[c] = "flushwq" /\ arg'[c].exec = x
<1>1. ASSUME NEW i \in 1 .. Len(wq), wq[i].large PROVE Next_(wq[i].exec)
  <2>1. PICK r : r = wq[i]
    OBVIOUS
  <2>2. WaitsFor(r.exec) /\ InQueue(r)
    BY <1>t, <1>1, <2>1 DEF QueuePromised, InQueue
  <2> QED
    BY <2>1, <2>2, WaitsOn
<1>2. ASSUME Serving, arg[Worker].large PROVE Next_(arg[Worker].exec)
  <2>1. PICK r : r = arg[Worker]
    OBVIOUS
  <2>2. WaitsFor(r.exec) /\ InQueue(r)
    BY <1>2, <2>1 DEF QueuePromised, InQueue
  <2> QED
    BY <2>1, <2>2, WaitsOn
<1>3. ASSUME NEW i \in 1 .. Len(wq'), wq'[i].large PROVE Next_(wq'[i].exec)
  <2>1. ASSUME NEW c \in Callers, NEW r, Enqueue(c, r) PROVE Next_(wq'[i].exec)
    <3>1. /\ i <= Len(wq) => wq'[i] = wq[i]
          /\ i > Len(wq) => wq'[i] = r
          /\ i \in 1 .. Len(wq) \/ i > Len(wq)
      BY <1>t, <2>1 DEF Enqueue
    <3>2. CASE i \in 1 .. Len(wq)
      BY <1>1, <1>3, <3>1, <3>2
    <3>3. CASE i > Len(wq)
      <4>1. r.large /\ wq'[i] = r
        BY <1>3, <3>1, <3>3
      <4>2. pc'[c] = "flushwq" /\ arg'[c] = arg[c] /\ r.exec = arg[c].exec
        BY <2>1, <4>1 DEF Enqueue
      <4> QED
        BY <4>1, <4>2
    <3> QED
      BY <3>1, <3>2, <3>3
  <2>2. CASE TakeWork
    <3>1. i + 1 \in 1 .. Len(wq) /\ wq'[i] = wq[i + 1]
      BY <1>t, <2>2, TakeFields
    <3> QED
      BY <1>1, <1>3, <3>1
  <2>3. CASE wq' = wq
    BY <1>1, <1>3, <2>3
  <2> QED
    BY <2>1, <2>2, <2>3, QueueKinds DEF FreeWork, Passes
<1>4. ASSUME Serving', arg'[Worker].large PROVE Next_(arg'[Worker].exec)
  <2>1. CASE TakeWork
    <3>1. 1 \in 1 .. Len(wq) /\ arg'[Worker] = wq[1]
      BY <1>t, <2>1, TakeFields
    <3> QED
      BY <1>1, <1>4, <3>1
  <2>2. CASE ~TakeWork
    <3>1. ~FreeWork
      BY <1>4 DEF FreeWork, Goto, Serving, Base, TypeOK
    <3>2. /\ arg'[Worker].exec = arg[Worker].exec /\ arg'[Worker].large = arg[Worker].large
          /\ Serving
      BY <1>4, <2>2, <3>1, QueueKinds DEF Enqueue, Passes, Same, Serving
    <3> QED
      BY <1>2, <1>4, <3>2
  <2> QED
    BY <2>1, <2>2
<1> QED
  BY <1>3, <1>4 DEF QueuePromised, WaitsFor

LEMMA TracePromisedStep ==
  ASSUME ~WriteFaults, Base, QueueInv, QueuePromised, TracePromised, [Next]_vars
  PROVE  TracePromised'
<1> USE ActorsAre
<1>1. /\ Trace \in Seq(Entry) /\ Trace' \in Seq(Entry) /\ Len(Trace) \in Nat
      /\ Len(Trace') \in Nat /\ Len(Trace) <= Len(Trace')
      /\ \A i \in 1 .. Len(Trace) : i \in 1 .. Len(Trace') /\ Trace'[i] = Trace[i]
  BY TracesTyped, Grows DEF TypedTrace
<1> DEFINE NextWrites(x) ==
             \E c \in Callers : pc'[c] \in DataSteps \cup {"flushwq"} /\ arg'[c].exec = x
<1>2. ASSUME NEW i \in 1 .. Len(Trace), DataAfter(Trace, i) PROVE DataAfter(Trace', i)
  <2>1. PICK j \in (i + 1) .. Len(Trace) : IsData(Trace[j]) /\ Trace[j].rec.exec = Trace[i].rec.exec
    BY <1>2 DEF DataAfter
  <2>2. j \in (i + 1) .. Len(Trace') /\ Trace'[j] = Trace[j] /\ Trace'[i] = Trace[i]
    BY <1>1
  <2> QED
    BY <2>1, <2>2 DEF DataAfter
<1>3. ASSUME NEW c \in Callers, WriteData(c)
      PROVE  /\ Len(Trace') = Len(Trace) + 1
             /\ IsData(Trace'[Len(Trace) + 1]) /\ Trace'[Len(Trace) + 1].rec = arg[c]
  <2>1. PICK w \in BOOLEAN : Trace' = Append(Trace, Block(arg[c], w))
    BY <1>3, DataEntryStep, Zenon DEF Block
  <2>2. Block(arg[c], w) \in Entry /\ Block(arg[c], w).rec = arg[c] /\ IsData(Block(arg[c], w))
    BY EntryType DEF Block, IsData, Base, TypeOK
  <2> QED
    BY <1>1, <2>1, <2>2
<1>4. ASSUME NEW i \in 1 .. Len(Trace), IsHead(Trace[i]), Trace[i].rec.large
      PROVE  NextWrites(Trace[i].rec.exec) \/ DataAfter(Trace', i)
  <2>1. PICK x : x = Trace[i].rec.exec
    OBVIOUS
  <2>2. CASE DataAfter(Trace, i)
    BY <1>2, <2>2
  <2>3. CASE Writes(x)
    <3>1. CASE NextWrites(x)
      BY <2>1, <3>1
    <3>2. ASSUME NEW c \in Callers, WriteData(c), arg[c].exec = x PROVE DataAfter(Trace', i)
      <4>1. /\ Len(Trace) + 1 \in (i + 1) .. Len(Trace') /\ IsData(Trace'[Len(Trace) + 1])
            /\ Trace'[Len(Trace) + 1].rec.exec = x
        BY <1>1, <1>3, <3>2
      <4>2. Trace'[i].rec.exec = x
        BY <1>1, <2>1
      <4> QED
        BY <4>1, <4>2 DEF DataAfter
    <3> QED
      BY <2>3, <3>1, <3>2, WritesOn
  <2> QED
    BY <1>4, <2>1, <2>2, <2>3 DEF TracePromised
<1>5. ASSUME NEW i \in 1 .. Len(Trace'), i \notin 1 .. Len(Trace),
             IsHead(Trace'[i]), Trace'[i].rec.large
      PROVE  NextWrites(Trace'[i].rec.exec)
  <2>1. CASE \E c \in Callers : WriteData(c)
    <3>1. i = Len(Trace) + 1 /\ IsData(Trace'[i])
      BY <1>1, <1>3, <1>5, <2>1
    <3> QED
      BY <1>5, <3>1 DEF IsHead, IsData
  <2>2. CASE Trace' = Trace
    BY <1>5, <2>2
  <2>3. ASSUME NEW a \in Actors, sync_log_record(a), Trace' = Append(Trace, HeadOf(arg[a]))
        PROVE  NextWrites(Trace'[i].rec.exec)
    <3>1. HeadOf(arg[a]) \in Entry /\ HeadOf(arg[a]).rec = arg[a]
      BY EntryType DEF HeadOf, Base, TypeOK
    <3>2. i = Len(Trace) + 1 /\ Trace'[i] = HeadOf(arg[a])
      BY <1>1, <1>5, <2>3, <3>1
    <3>3. arg[a].large /\ a = Worker
      BY <1>5, <3>1, <3>2 DEF QueueInv
    <3>4. Serving /\ arg' = arg /\ \A c \in Callers : pc'[c] = pc[c]
      BY <2>3, <3>3 DEF sync_log_record, CopyRecord, Goto, Serving, Base, TypeOK
    <3>5. WaitsFor(arg[Worker].exec)
      BY <3>3, <3>4 DEF QueuePromised
    <3> QED
      BY <3>1, <3>2, <3>3, <3>4, <3>5 DEF WaitsFor
  <2> QED
    BY <2>1, <2>2, <2>3, TraceKinds DEF Kept
<1>6. ASSUME NEW i \in 1 .. Len(Trace'), IsHead(Trace'[i]), Trace'[i].rec.large
      PROVE  NextWrites(Trace'[i].rec.exec) \/ DataAfter(Trace', i)
  <2>1. CASE i \in 1 .. Len(Trace)
    <3>1. Trace'[i] = Trace[i]
      BY <1>1, <2>1
    <3> QED
      BY <1>4, <1>6, <2>1, <3>1
  <2>2. CASE i \notin 1 .. Len(Trace)
    BY <1>5, <1>6, <2>2
  <2> QED
    BY <2>1, <2>2
<1> QED
  BY <1>6 DEF TracePromised, Writes, DataAfter

(* No header is left without its data when its caller has returned,        *)
(* whatever bits an ioctl clears or sets between the two.                  *)
THEOREM HeaderKeepsItsData == ~WriteFaults => (Spec => []HeaderHasPayload)
<1> SUFFICES ASSUME ~WriteFaults PROVE Spec => []HeaderHasPayload
  OBVIOUS
<1>1. Init => QueuePromised /\ TracePromised
  <2> SUFFICES ASSUME Init PROVE QueuePromised /\ TracePromised
    OBVIOUS
  <2>1. Trace = <<>> /\ wq = <<>> /\ pc[Worker] = "idle"
    BY InitTrace
  <2> QED
    BY <2>1 DEF QueuePromised, TracePromised, Serving
<1>2. Base /\ QueueInv /\ QueuePromised /\ TracePromised /\ [Next]_vars
        => (QueuePromised /\ TracePromised)'
  BY QueuePromisedStep, TracePromisedStep
<1>3. ASSUME Base, TracePromised PROVE HeaderHasPayload
  <2>1. DOMAIN Trace = 1 .. Len(Trace)
    BY <1>3, TraceType DEF Base
  <2> QED
    BY <1>3, <2>1 DEF TracePromised, HeaderHasPayload, Writes, DataAfter
<1> QED
  BY <1>1, <1>2, <1>3, BaseInvariant, QueueInvariant, PTL DEF Spec

-----------------------------------------------------------------------------
(***************************************************************************)
(* Directory order.  Keys has, of each record that was queued, its number, *)
(* the order of its operation and the directories that this locked.        *)
(***************************************************************************)
KeyOf(r) == [q |-> r.q, exec |-> r.exec, dirs |-> r.dirs]

Keys ==
  {KeyOf(wq[i]) : i \in 1 .. Len(wq)}
    \cup {KeyOf(r) : r \in {s \in {arg[Worker]} : pc[Worker] # "idle"}}
    \cup {KeyOf(Trace[i].rec) :
            i \in {j \in 1 .. Len(Trace) : IsHead(Trace[j]) /\ Trace[j].rec.q > 0}}

LEMMA KeysType ==
  ASSUME Base, NEW k \in Keys
  PROVE  k.q \in Nat /\ k.exec \in Nat /\ k.dirs \in SUBSET Dirs
<1>1. ASSUME NEW r \in Record, k = KeyOf(r)
      PROVE  k.q \in Nat /\ k.exec \in Nat /\ k.dirs \in SUBSET Dirs
  BY <1>1 DEF KeyOf, Record
<1>2. /\ \A i \in 1 .. Len(wq) : wq[i] \in Record
      /\ arg[Worker] \in Record
  BY ActorsAre DEF Base, TypeOK
<1>3. \A i \in 1 .. Len(Trace) : Trace[i].rec \in Record
  <2>1. Trace \in Seq(Entry)
    BY TraceType DEF Base
  <2>2. \A i \in 1 .. Len(Trace) : Trace[i] \in Entry
    BY <2>1
  <2> QED
    BY <2>2 DEF Entry
<1>4. \E r \in Record : k = KeyOf(r)
  BY <1>2, <1>3 DEF Keys
<1> QED
  BY <1>1, <1>4

LEMMA KeysStep ==
  ASSUME Base, QueueInv, [Next]_vars
  PROVE  \/ \E c \in Callers : \E r : Enqueue(c, r) /\ Keys' \subseteq Keys \cup {KeyOf(r)}
         \/ Keys' \subseteq Keys /\ queued' = queued /\ \A c \in Callers : \A r : ~Enqueue(c, r)
<1> USE ActorsAre
<1>t. wq \in Seq(Record) /\ Len(wq) \in Nat /\ queued \in Nat
  BY DEF Base, TypeOK
<1>1. ASSUME NEW i \in 1 .. Len(Trace'), IsHead(Trace'[i]), Trace'[i].rec.q > 0
      PROVE  KeyOf(Trace'[i].rec) \in Keys
  <2>1. Trace \in Seq(Entry) /\ Trace' \in Seq(Entry) /\ Len(Trace) \in Nat
    BY TracesTyped DEF TypedTrace
  <2>2. ASSUME i \in 1 .. Len(Trace), Trace'[i].kind = Trace[i].kind, Trace'[i].rec = Trace[i].rec
        PROVE  KeyOf(Trace'[i].rec) \in Keys
    BY <1>1, <2>2 DEF Keys, IsHead
  <2>3. CASE Kept(Trace, Trace')
    <3>1. i \in 1 .. Len(Trace) /\ Trace'[i].kind = Trace[i].kind /\ Trace'[i].rec = Trace[i].rec
      BY <1>1, <2>1, <2>3 DEF Kept
    <3> QED
      BY <2>2, <3>1
  <2>4. ASSUME NEW e \in Entry, Trace' = Append(Trace, e)
        PROVE  Trace'[i] = e \/ (i \in 1 .. Len(Trace) /\ Trace'[i] = Trace[i])
    BY <1>1, <2>1, <2>4
  <2>5. ASSUME NEW a \in Actors, sync_log_record(a), Trace' = Append(Trace, HeadOf(arg[a]))
        PROVE  KeyOf(Trace'[i].rec) \in Keys
    <3>1. HeadOf(arg[a]) \in Entry /\ HeadOf(arg[a]).rec = arg[a]
      BY EntryType DEF HeadOf, Base, TypeOK
    <3>2. CASE Trace'[i] = HeadOf(arg[a])
      <4>1. arg[a].q > 0 /\ Trace'[i].rec = arg[a]
        BY <1>1, <3>1, <3>2
      <4>2. a = Worker
        BY <4>1 DEF QueueInv
      <4>3. pc[Worker] # "idle"
        BY <2>5, <4>2 DEF sync_log_record, CopyRecord, Goto
      <4> QED
        BY <4>1, <4>2, <4>3 DEF Keys
    <3> QED
      BY <2>2, <2>4, <2>5, <3>1, <3>2
  <2>6. ASSUME NEW c \in Callers, NEW w \in BOOLEAN, Trace' = Append(Trace, Block(arg[c], w))
        PROVE  KeyOf(Trace'[i].rec) \in Keys
    <3>1. Block(arg[c], w) \in Entry /\ ~IsHead(Block(arg[c], w))
      BY EntryType DEF Block, IsHead, Base, TypeOK
    <3> QED
      BY <1>1, <2>2, <2>4, <2>6, <3>1
  <2> QED
    BY <2>3, <2>5, <2>6, TraceKinds
<1>2. ASSUME NEW K, \A i \in 1 .. Len(wq') : KeyOf(wq'[i]) \in K, Keys \subseteq K,
             pc'[Worker] # "idle" => KeyOf(arg'[Worker]) \in K
      PROVE  Keys' \subseteq K
  BY <1>1, <1>2 DEF Keys
<1>3. ASSUME NEW c \in Callers, NEW r, Enqueue(c, r) PROVE Keys' \subseteq Keys \cup {KeyOf(r)}
  <2>1. \A i \in 1 .. Len(wq') : wq'[i] = r \/ (i \in 1 .. Len(wq) /\ wq'[i] = wq[i])
    BY <1>t, <1>3 DEF Enqueue
  <2>2. \A i \in 1 .. Len(wq') : KeyOf(wq'[i]) \in Keys \cup {KeyOf(r)}
    BY <2>1 DEF Keys
  <2>3. pc'[Worker] = pc[Worker] /\ arg'[Worker] = arg[Worker]
    BY <1>3 DEF Enqueue
  <2>4. pc'[Worker] # "idle" => KeyOf(arg'[Worker]) \in Keys
    BY <2>3 DEF Keys
  <2> QED
    BY <1>2, <2>2, <2>4
<1>4. ASSUME TakeWork PROVE Keys' \subseteq Keys /\ queued' = queued
  <2>1. /\ Len(wq) >= 1 /\ arg'[Worker] = wq[1] /\ queued' = queued
        /\ Len(wq') = Len(wq) - 1 /\ \A i \in 1 .. Len(wq') : wq'[i] = wq[i + 1]
    BY <1>4, TakeFields
  <2>2. 1 \in 1 .. Len(wq) /\ \A i \in 1 .. Len(wq') : i + 1 \in 1 .. Len(wq)
    BY <1>t, <2>1
  <2>3. \A i \in 1 .. Len(wq) : KeyOf(wq[i]) \in Keys
    BY DEF Keys
  <2> QED
    BY <1>2, <2>1, <2>2, <2>3
<1>5. ASSUME FreeWork \/ Passes PROVE Keys' \subseteq Keys /\ queued' = queued
  <2>1. UNCHANGED <<wq, queued>>
    BY <1>5 DEF FreeWork, Passes
  <2>2. pc'[Worker] # "idle" => pc[Worker] # "idle" /\ KeyOf(arg'[Worker]) = KeyOf(arg[Worker])
    BY <1>5 DEF FreeWork, Goto, Passes, Same, KeyOf, Base, TypeOK
  <2>3. \A i \in 1 .. Len(wq') : KeyOf(wq'[i]) \in Keys
    BY <2>1 DEF Keys
  <2>4. pc'[Worker] # "idle" => KeyOf(arg'[Worker]) \in Keys
    BY <2>2 DEF Keys
  <2> QED
    BY <1>2, <2>1, <2>3, <2>4
<1>6. ASSUME queued' = queued PROVE \A c \in Callers : \A r : ~Enqueue(c, r)
  BY <1>t, <1>6 DEF Enqueue
<1> QED
  BY <1>3, <1>4, <1>5, <1>6, QueueKinds

(* A caller that has run its operation but not queued its record holds its *)
(* directories; every queued operation on one of them ran before its own.  *)
LocksHeld(c) ==
  pc[c] = "built" => arg[c].exec <= ops /\ \A d \in arg[c].dirs : held[d] = c

KeysOrdered ==
  /\ \A k \in Keys : k.q <= queued /\ k.exec <= ops
  /\ \A k, l \in Keys : k.q < l.q /\ k.dirs \cap l.dirs # {} => k.exec < l.exec

KeysEarlier(c) ==
  pc[c] = "built" => \A k \in Keys : k.dirs \cap arg[c].dirs # {} => k.exec < arg[c].exec

DirInv ==
  /\ KeysOrdered
  /\ \A c \in Callers : LocksHeld(c) /\ KeysEarlier(c)

LEMMA BuiltStep ==
  ASSUME Base, NEW c \in Callers, LocksHeld(c), [Next]_vars, pc'[c] = "built"
  PROVE  /\ arg'[c].exec <= ops' /\ \A d \in arg'[c].dirs : held'[d] = c
         /\ (pc[c] = "built" /\ arg'[c] = arg[c]) \/ arg'[c].exec > ops
<1> USE ActorsAre
<1>t. /\ pc \in [Actors -> Steps] /\ arg \in [Actors -> Record] /\ ops \in Nat
      /\ held \in [Dirs -> Callers \cup {NoOne}]
      /\ \A a \in Actors : arg[a].dirs \in SUBSET Dirs
  BY DEF Base, TypeOK, Record
<1>1. CASE CallStep(c)
  <2>1. PICK type \in Types, sizes \in SUBSET Nat, D \in SUBSET Dirs, uninit \in SUBSET BOOLEAN :
          Call(c, type, sizes, D, uninit)
    BY <1>1 DEF CallStep
  <2>2. PICK n \in sizes, s \in uninit :
          arg' = [arg EXCEPT ![c] =
                    [Blank EXCEPT !.type = type, !.size = n, !.sig = s,
                                  !.exec = ops + 1, !.dirs = D, !.by = c]]
    BY <2>1 DEF Call
  <2>3. arg'[c].exec = ops + 1 /\ arg'[c].dirs = D /\ ops' = ops + 1
    BY <1>t, <2>1, <2>2 DEF Call, Blank
  <2>4. \A d \in D : held'[d] = c
    BY <2>1 DEF Call
  <2> QED
    BY <1>t, <2>3, <2>4
<1>2. ASSUME pc[c] = "built", arg'[c] = arg[c], ops' \in {ops, ops + 1},
             \A d \in Dirs : held[d] = c => held'[d] = c
      PROVE  /\ arg'[c].exec <= ops' /\ \A d \in arg'[c].dirs : held'[d] = c
             /\ (pc[c] = "built" /\ arg'[c] = arg[c]) \/ arg'[c].exec > ops
  <2>1. arg[c].exec <= ops /\ \A d \in arg[c].dirs : held[d] = c
    BY <1>2 DEF LocksHeld
  <2>2. arg[c].exec \in Nat
    BY <1>t DEF Record
  <2>3. arg[c].exec <= ops'
    BY <1>t, <1>2, <2>1, <2>2
  <2> QED
    BY <1>t, <1>2, <2>1, <2>3
<1>3. ASSUME NEW b \in Callers, b # c, CallStep(b)
      PROVE  /\ pc[c] = "built" /\ arg'[c] = arg[c] /\ ops' = ops + 1
             /\ \A d \in Dirs : held[d] = c => held'[d] = c
  <2>1. PICK type \in Types, sizes \in SUBSET Nat, D \in SUBSET Dirs, uninit \in SUBSET BOOLEAN :
          Call(b, type, sizes, D, uninit)
    BY <1>3 DEF CallStep
  <2>2. pc[c] = "built" /\ arg'[c] = arg[c] /\ ops' = ops + 1
    BY <1>t, <1>3, <2>1 DEF Call, Goto
  <2>3. \A d \in Dirs : held[d] = c => d \notin D /\ held'[d] = c
    BY <1>t, <2>1 DEF Call
  <2> QED
    BY <2>2, <2>3
<1>4. ASSUME NEW b \in Callers, CallerStep(b) \/ DataStep(b)
      PROVE  /\ pc[c] = "built" /\ arg'[c] = arg[c] /\ ops' = ops
             /\ \A d \in Dirs : held[d] = c => held'[d] = c
  <2>1. b # c /\ pc[c] = "built" /\ arg'[c] = arg[c]
    BY <1>t, <1>4 DEF CallerStep, Untraced, eworkqueue_init, LogReaddir, SkipLarge,
                QueueLarge, flush_workqueue, Leave, DataStep, LockForData, FlushForData,
                ResetForData, WriteData, file_write, ResetBuffer, Goto
  <2>2. held' \in {held, Unlocked(b)} /\ ops' = ops
    BY <1>4 DEF CallerStep, Untraced, eworkqueue_init, LogReaddir, SkipLarge,
                QueueLarge, flush_workqueue, Leave, DataStep, LockForData, FlushForData,
                ResetForData, WriteData, file_write, ResetBuffer
  <2> QED
    BY <1>t, <2>1, <2>2 DEF Unlocked
<1>5. ASSUME NEW a \in Actors, Log(a)
      PROVE  /\ pc[c] = "built" /\ arg'[c] = arg[c] /\ ops' = ops
             /\ \A d \in Dirs : held[d] = c => held'[d] = c
  <2>1. a # c /\ pc[c] = "built" /\ arg'[c] = arg[c]
    BY <1>t, <1>5 DEF Log, log_record_skip, log_record, LockForRecord, LockForFlush, FlushBuffer,
                FlushDone, sync_log_record, CopyRecord, mutex_unlock, Return, After,
                file_write, ResetBuffer, Goto
  <2>2. held' \in {held, Unlocked(a)} /\ ops' = ops
    BY <1>5 DEF Log, log_record_skip, log_record, LockForRecord, LockForFlush, FlushBuffer,
                FlushDone, sync_log_record, CopyRecord, mutex_unlock, Return,
                file_write, ResetBuffer
  <2> QED
    BY <1>t, <2>1, <2>2 DEF Unlocked
<1>6. ASSUME IdleStep
      PROVE  pc[c] = "built" /\ arg'[c] = arg[c] /\ ops' = ops /\ held' = held
  BY <1>t, <1>6 DEF IdleStep, TakeWork, FreeWork, SignalFlush, NothingToFlush, Wake,
                trfs_unlocked_ioctl, Goto, vars
<1>7. CASE \E b \in Callers : CallStep(b) \/ CallerStep(b) \/ DataStep(b)
  BY <1>1, <1>2, <1>3, <1>4, <1>7
<1>8. CASE (\E a \in Actors : Log(a)) \/ IdleStep
  BY <1>2, <1>5, <1>6, <1>8
<1> QED
  BY <1>7, <1>8, NextCases

LEMMA CountsGrow ==
  ASSUME Base, [Next]_vars
  PROVE  /\ ops \in Nat /\ queued \in Nat /\ ops' \in Nat /\ queued' \in Nat
         /\ ops <= ops' /\ queued <= queued'
<1>t. ops \in Nat /\ queued \in Nat /\ ops' \in Nat /\ queued' \in Nat
  BY NextType DEF Base, TypeOK
<1>1. ops' \in {ops, ops + 1}
  BY NextCases DEF CallStep, Call, CallerStep, Untraced, eworkqueue_init, LogReaddir, SkipLarge,
         QueueLarge, flush_workqueue, DataStep, LockForData, FlushForData,
         ResetForData, WriteData, file_write, ResetBuffer, Log, log_record_skip, log_record,
         LockForRecord, LockForFlush, FlushBuffer, FlushDone, sync_log_record, CopyRecord,
         mutex_unlock, IdleStep, TakeWork, FreeWork, SignalFlush, NothingToFlush, Wake,
         trfs_unlocked_ioctl, vars
<1>2. queued' \in {queued, queued + 1}
  BY QueueKinds DEF Enqueue, TakeWork, FreeWork, Passes
<1> QED
  BY <1>t, <1>1, <1>2

LEMMA DirStep ==
  ASSUME Base, QueueInv, DirInv, [Next]_vars PROVE DirInv'
<1> USE ActorsAre
<1>1. /\ ops \in Nat /\ queued \in Nat /\ ops' \in Nat /\ queued' \in Nat
      /\ ops <= ops' /\ queued <= queued'
  BY CountsGrow
<1>2. \A k \in Keys : k.q \in Nat /\ k.exec \in Nat
  BY KeysType
<1>3. ASSUME NEW c \in Callers PROVE LocksHeld(c)'
  BY <1>3, BuiltStep DEF LocksHeld, DirInv
<1>4. ASSUME Keys' \subseteq Keys, NEW c \in Callers PROVE KeysEarlier(c)'
  <2> SUFFICES ASSUME pc'[c] = "built", NEW k \in Keys', k.dirs \cap arg'[c].dirs # {}
               PROVE  k.exec < arg'[c].exec
    BY DEF KeysEarlier
  <2>1. k \in Keys /\ k.exec <= ops
    BY <1>4 DEF DirInv, KeysOrdered
  <2>2. CASE pc[c] = "built" /\ arg'[c] = arg[c]
    BY <2>1, <2>2 DEF DirInv, KeysEarlier
  <2>3. CASE arg'[c].exec > ops
    <3>1. arg'[c].exec \in Nat
      BY NextType DEF Base, TypeOK, Record
    <3> QED
      BY <1>1, <1>2, <2>1, <2>3, <3>1
  <2> QED
    BY <2>2, <2>3, BuiltStep DEF DirInv
<1>5. ASSUME Keys' \subseteq Keys PROVE KeysOrdered'
  <2>1. \A k \in Keys' : k.q <= queued' /\ k.exec <= ops'
    BY <1>1, <1>2, <1>5 DEF DirInv, KeysOrdered
  <2>2. \A k, l \in Keys' : k.q < l.q /\ k.dirs \cap l.dirs # {} => k.exec < l.exec
    BY <1>5 DEF DirInv, KeysOrdered
  <2> QED
    BY <2>1, <2>2 DEF KeysOrdered
<1>6. ASSUME NEW b \in Callers, NEW r, Enqueue(b, r), Keys' \subseteq Keys \cup {KeyOf(r)}
      PROVE  KeysOrdered' /\ \A c \in Callers : KeysEarlier(c)'
  <2> DEFINE n == KeyOf(r)
  <2>1. n.q = queued + 1 /\ n.exec = arg[b].exec /\ n.dirs = arg[b].dirs /\ queued' = queued + 1
    BY <1>6 DEF Enqueue, KeyOf
  <2>2. pc[b] = "built" /\ arg[b].exec \in Nat
    BY <1>6 DEF Enqueue, Base, TypeOK, Record
  <2>3. arg[b].exec <= ops /\ \A d \in arg[b].dirs : held[d] = b
    BY <2>2 DEF DirInv, LocksHeld
  <2>4. \A k \in Keys : k.dirs \cap n.dirs # {} => k.exec < n.exec
    BY <2>1, <2>2 DEF DirInv, KeysEarlier
  <2> HIDE DEF n
  <2>5. \A k \in Keys' : k \in Keys \/ k = n
    BY <1>6 DEF n
  <2>6. \A k \in Keys : k.q <= queued /\ k.exec <= ops
    BY DEF DirInv, KeysOrdered
  <2>7. \A k \in Keys' : k.q <= queued' /\ k.exec <= ops'
    BY <1>1, <1>2, <2>1, <2>2, <2>3, <2>5, <2>6
  <2>8. ASSUME NEW k \in Keys', NEW l \in Keys', k.q < l.q, k.dirs \cap l.dirs # {}
        PROVE  k.exec < l.exec
    <3>1. CASE k \in Keys /\ l \in Keys
      BY <2>8, <3>1 DEF DirInv, KeysOrdered
    <3>2. CASE k \in Keys /\ l = n
      BY <2>4, <2>8, <3>2
    <3>3. CASE k = n
      <4>1. l.q <= queued + 1 /\ l.q \in Nat
        BY <1>1, <1>2, <2>1, <2>5, <2>6
      <4> QED
        BY <1>1, <2>1, <2>8, <3>3, <4>1
    <3> QED
      BY <2>5, <3>1, <3>2, <3>3
  <2>9. ASSUME NEW c \in Callers, pc'[c] = "built", NEW k \in Keys',
               k.dirs \cap arg'[c].dirs # {}
        PROVE  k.exec < arg'[c].exec
    <3>1. c # b /\ pc[c] = "built" /\ arg'[c] = arg[c]
      BY <1>6, <2>9 DEF Enqueue
    <3>2. CASE k \in Keys
      BY <2>9, <3>1, <3>2 DEF DirInv, KeysEarlier
    <3>3. CASE k = n
      <4>1. PICK d : d \in n.dirs /\ d \in arg[c].dirs
        BY <2>9, <3>1, <3>3
      <4>2. held[d] = b /\ held[d] = c
        BY <2>1, <2>3, <3>1, <4>1 DEF DirInv, LocksHeld
      <4> QED
        BY <3>1, <4>2
    <3> QED
      BY <2>5, <3>2, <3>3
  <2> QED
    BY <2>7, <2>8, <2>9 DEF KeysOrdered, KeysEarlier
<1> QED
  BY <1>3, <1>4, <1>5, <1>6, KeysStep DEF DirInv

(* Queued operations on a common directory are traced in the order in      *)
(* which they ran, for any number of directories and for renames, which    *)
(* lock two.                                                               *)
THEOREM TracedInDirOrder == Spec => []DirOrder
<1>1. Init => DirInv
  <2> SUFFICES ASSUME Init PROVE DirInv
    OBVIOUS
  <2>1. Trace = <<>> /\ wq = <<>> /\ pc[Worker] = "idle" /\ \A c \in Callers : pc[c] = "idle"
    BY InitTrace, ActorsAre DEF Init
  <2>2. Keys = {}
    BY <2>1 DEF Keys
  <2> QED
    BY <2>1, <2>2 DEF DirInv, KeysOrdered, LocksHeld, KeysEarlier
<1>2. Base /\ QueueInv /\ DirInv /\ [Next]_vars => DirInv'
  BY DirStep
<1>3. ASSUME Base, TraceInv, DirInv PROVE DirOrder
  <2> SUFFICES ASSUME NEW i \in DOMAIN Trace, NEW j \in DOMAIN Trace, i < j,
                      IsHead(Trace[i]), IsHead(Trace[j]),
                      Trace[i].rec.q > 0, Trace[j].rec.q > 0,
                      Trace[i].rec.dirs \cap Trace[j].rec.dirs # {}
               PROVE  Trace[i].rec.exec < Trace[j].rec.exec
    BY DEF DirOrder
  <2>1. DOMAIN Trace = 1 .. Len(Trace)
    BY <1>3, TraceType DEF Base
  <2> DEFINE k == KeyOf(Trace[i].rec)
             l == KeyOf(Trace[j].rec)
  <2>2. k \in Keys /\ l \in Keys
    BY <2>1 DEF Keys
  <2>3. Trace[i].rec.q < Trace[j].rec.q
    BY <1>3 DEF TraceInv, Ordered
  <2>4. /\ k.q = Trace[i].rec.q /\ k.exec = Trace[i].rec.exec /\ k.dirs = Trace[i].rec.dirs
        /\ l.q = Trace[j].rec.q /\ l.exec = Trace[j].rec.exec /\ l.dirs = Trace[j].rec.dirs
    BY DEF KeyOf
  <2> HIDE DEF k, l
  <2>5. k.exec < l.exec
    BY <1>3, <2>2, <2>3, <2>4 DEF DirInv, KeysOrdered
  <2> QED
    BY <2>4, <2>5
<1> QED
  BY <1>1, <1>2, <1>3, BaseInvariant, QueueInvariant, PTL DEF Spec
=============================================================================
