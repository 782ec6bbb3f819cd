------------------------- MODULE MCStreamAsioClient -------------------------
(* A client of two servers: requests to both, and a tunnel to the first. *)
EXTENDS StreamAsioClient

\* "t1" asks both servers in turn, "t2" writes to them without a reply.
MCRequests ==
  [c \in {"t1", "t2"} |->
     IF c = "t1"
     THEN <<[id |-> 1, reply |-> TRUE], [id |-> 2, reply |-> TRUE]>>
     ELSE <<[id |-> 1, reply |-> FALSE], [id |-> 2, reply |-> FALSE]>>]
=============================================================================
