------------------------------ MODULE FileCopy ------------------------------
(***************************************************************************)
(* What project3 promises to the user of rcopy: the copy grows at its end  *)
(* only, by chunks of the file in their order, and the transfer ends       *)
(* either complete, with the whole file, or failed, with a prefix of it.   *)
(***************************************************************************)
EXTENDS Naturals, Sequences

CONSTANT NumChunks

VARIABLES
  copy,   \* the chunks in the copy
  status  \* "copying", "complete" or "failed"

Chunks(from, to) == [k \in 1 .. to - from |-> from + k]

Init == copy = <<>> /\ status = "copying"

Grow ==
  /\ status = "copying"
  /\ \E n \in Len(copy) + 1 .. NumChunks :
       copy' = copy \o Chunks(Len(copy), n)
  /\ UNCHANGED status

Complete ==
  /\ status = "copying" /\ Len(copy) = NumChunks
  /\ status' = "complete"
  /\ UNCHANGED copy

Fail ==
  /\ status = "copying"
  /\ status' = "failed"
  /\ UNCHANGED copy

Next == Grow \/ Complete \/ Fail

Spec == Init /\ [][Next]_<<copy, status>>
=============================================================================
