--------------------------- MODULE AbstractStack ---------------------------
(***************************************************************************)
(* What the datastack promises its users, with no cache: a sequence of     *)
(* values (bottom first) that push, pop and slot writes change, and two    *)
(* queries that leave it unchanged.  hash() answers the hash of the whole  *)
(* stack; marshalForProof(info) answers, for the top Len(info) values, top *)
(* first, each value's hash and whether it is revealed, together with the  *)
(* hash of the stack under them.                                           *)
(***************************************************************************)
EXTENDS Naturals, Sequences

CONSTANTS
    Values,
    MaxDepth,
    HashOf(_),
    EmptyTupleHash

VARIABLES contents, answer

LOCAL DS == INSTANCE DataStack

NoAnswer == [kind |-> "none"]

\* The top k values, top first.
TopItems(vals, info) ==
    [j \in 1..Len(info) |-> [revealed |-> info[j], hash |-> HashOf(vals[Len(vals) + 1 - j])]]

Init ==
    /\ contents = <<>>
    /\ answer = NoAnswer

Push(v) ==
    /\ Len(contents) < MaxDepth
    /\ contents' = Append(contents, v)
    /\ answer' = NoAnswer

Pop ==
    /\ contents # <<>>
    /\ contents' = SubSeq(contents, 1, Len(contents) - 1)
    /\ answer' = NoAnswer

\* Overwrite slot i counted from the top.
Write(i, v) ==
    /\ i < Len(contents)
    /\ contents' = [contents EXCEPT ![Len(contents) - i] = v]
    /\ answer' = NoAnswer

Hash ==
    /\ answer' = [kind |-> "hash", hash |-> DS!StackHashOf(contents)]
    /\ UNCHANGED contents

Proof(info) ==
    /\ Len(info) <= Len(contents)
    /\ answer' = [kind |-> "proof",
                  base |-> DS!StackHashOf(SubSeq(contents, 1, Len(contents) - Len(info))),
                  items |-> TopItems(contents, info)]
    /\ UNCHANGED contents

Next ==
    \/ \E v \in Values : Push(v)
    \/ Pop
    \/ \E i \in 0..MaxDepth - 1, v \in Values : Write(i, v)
    \/ Hash
    \/ \E info \in UNION {[1..k -> BOOLEAN] : k \in 0..MaxDepth} : Proof(info)

Spec == Init /\ [][Next]_<<contents, answer>>

=============================================================================
