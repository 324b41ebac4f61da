------------------------------ MODULE MCStreams -------------------------------
(* An instance of Streams for TLC.                                           *)
EXTENDS Streams

\* The arguments of the first call parse when two pieces of them have come, not
\* after one; those of the second after one.
MCParses == {<<1, 2>>, <<2, 1>>}
===============================================================================
