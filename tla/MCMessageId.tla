---------------------------- MODULE MCMessageId ----------------------------
(***************************************************************************)
(* Two instances; a has two goroutines and segments of two IDs, b has one  *)
(* goroutine and segments of three, so that the last segment is clipped.   *)
(***************************************************************************)
EXTENDS MessageId

MCInstances == {"a", "b"}
MCCallers == {"a1", "a2", "b1"}
MCInstanceOf == [c \in MCCallers |-> IF c = "b1" THEN "b" ELSE "a"]
MCSegmentSize == [i \in MCInstances |-> IF i = "b" THEN 3 ELSE 2]

=============================================================================
