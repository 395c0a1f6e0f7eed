------------------------------ MODULE LogBuffer ------------------------------
(***************************************************************************)
(* What the two log shippers of the agent have in common: the sizes they   *)
(* are configured with, and what a failed push leaves of a buffer.         *)
(***************************************************************************)
EXTENDS Naturals, Sequences

CONSTANTS
  MaxBatch,     \* log_max_batch: the length of a buffer at which it is pushed
  MaxBuffer,    \* log_max_buffer: what a failed push leaves of a buffer
  MaxAccept     \* the most entries the server takes in one request

ASSUME LogSizesAssumption ==
  /\ MaxBatch \in Nat
  /\ MaxBuffer \in Nat
  /\ MaxAccept \in Nat

BatchIsFull(length) == length >= MaxBatch

(* The body limit of the server and the parameters of one INSERT bound the *)
(* entries of a request.                                                   *)
Accepts(batch) == Len(batch) <= MaxAccept

BugNewest(s) == IF Len(s) > MaxBuffer THEN SubSeq(s, 1, MaxBuffer) ELSE s

(* A failed push leaves the newest entries, as many as the cap allows.     *)
Newest(s) == IF Len(s) > MaxBuffer THEN SubSeq(s, Len(s) - MaxBuffer + 1, Len(s)) ELSE s

(* An entry is only added to a buffer that is shorter than a batch, or     *)
(* that a failed push has just cut.                                        *)
WithinBounds(s) == Len(s) <= MaxBatch \/ Len(s) <= MaxBuffer + 1
=============================================================================
