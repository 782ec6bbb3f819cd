--------------------------- MODULE MCThreadWriter ---------------------------
(* Three buffers of sizes 1, 2 and 3, blocks of 2 bytes. *)
EXTENDS ThreadWriter

MCBuffers == {"a", "b", "c"}
MCBufferSize == [a |-> 1, b |-> 2, c |-> 3]
=============================================================================
