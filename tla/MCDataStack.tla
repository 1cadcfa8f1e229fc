---------------------------- MODULE MCDataStack ----------------------------
(* Model-checking instance of DataStackSpec: element hashes are the free   *)
(* term <<"h", v>> over two model values.                                   *)
EXTENDS DataStackSpec

MCHashOf(v) == <<"h", v>>

MCEmptyTupleHash == <<TUPLE>>
=============================================================================
