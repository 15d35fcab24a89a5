------------------------------ MODULE TraceLog ------------------------------
(***************************************************************************)
(* What the trace pipeline promises to a reader of the trace file: a log   *)
(* that only grows, in which the records carry consecutive sequence        *)
(* numbers, and of which the part known to be in the file (stable) only    *)
(* grows.  A block of data written directly goes to the file, after all    *)
(* that was logged before it.                                              *)
(***************************************************************************)
EXTENDS Naturals, Sequences

VARIABLES
  log,     (* the records and blocks, in order                             *)
  stable,  (* how many of them are in the file                             *)
  next     (* the sequence number of the next record                       *)

vars == <<log, stable, next>>

RecordItem(n) == [kind |-> "head", pos |-> n]
BlockItem     == [kind |-> "data", pos |-> 0]

Init == log = <<>> /\ stable = 0 /\ next = 0

AddRecord ==
  /\ log' = Append(log, RecordItem(next))
  /\ next' = next + 1
  /\ UNCHANGED stable

Sync ==
  /\ stable' = Len(log)
  /\ UNCHANGED <<log, next>>

AddBlock ==
  /\ stable = Len(log)
  /\ log' = Append(log, BlockItem)
  /\ stable' = Len(log')
  /\ UNCHANGED next

Next == AddRecord \/ Sync \/ AddBlock

Spec == Init /\ [][Next]_vars
=============================================================================
