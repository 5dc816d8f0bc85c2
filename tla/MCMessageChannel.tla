-------------------------- MODULE MCMessageChannel --------------------------
(* Instances of MessageChannel for TLC: messages with and without an id,   *)
(* with and without data.                                                  *)
EXTENDS MessageChannel
ThreeFrames == <<[id |-> FALSE, len |-> 0], [id |-> TRUE, len |-> 1], [id |-> FALSE, len |-> 2]>>
ThreeStarts == <<0, 6, 15, 23>>
=============================================================================
