------------------------------ MODULE ByteRuns ------------------------------
(***************************************************************************)
(* Bytes of a TCP stream are numbered in the order they were sent, so a     *)
(* buffer holding a piece of the stream is a run of consecutive numbers.    *)
(***************************************************************************)
EXTENDS Integers, Sequences

\* The n consecutive bytes of a stream that start with byte f.
Run(f, n) == [i \in 1 .. n |-> f + i - 1]
=============================================================================
