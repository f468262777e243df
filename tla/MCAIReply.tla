----------------------------- MODULE MCAIReply -----------------------------
(* Small instances of AIReply for TLC. *)
EXTENDS AIReply, TLC

TwoItems == {1, 2}

WorkerSymmetry == Permutations(Workers)

=============================================================================
