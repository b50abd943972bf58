--------------------------- MODULE MCMediaQueues ---------------------------
(* Five packets of one or two bytes.                                       *)
EXTENDS MediaQueues

Sizes == [p \in Packets |-> 1 + (p % 2)]
=============================================================================
