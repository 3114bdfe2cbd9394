-------------------------- MODULE MCSequentialBatch --------------------------
(* SequentialBatch on a batch that repeats an index and names one that     *)
(* only the longest list has.                                              *)
EXTENDS SequentialBatch

MCIndices == <<0, 2, 0, 1>>
MCErrors  == { Error("Timeout"), StatusError(404) }
=============================================================================
