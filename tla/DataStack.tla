----------------------------- MODULE DataStack -----------------------------
(***************************************************************************)
(* The AVM data stack (avm/src/datastack.cpp) with its lazily extended     *)
(* cumulative hash cache.  A stack is a record                             *)
(*     [values |-> <<v1, ..., vn>>, hashes |-> <<h1, ..., hk>>]            *)
(* with values[1] the bottom of the stack (the C++ std::vector order) and  *)
(* hashes[i] the cached hash of the stack made of values[1..i].  The cache *)
(* may be shorter than the stack (k <= n): it is extended on demand by     *)
(* addHash / calculateAllHashes and cut back by every pop and by prepForMod *)
(* before a slot is overwritten.                                           *)
(*                                                                         *)
(* Keccak-256 is a black box assumed collision free: a hash is modelled as *)
(* the term that records what was hashed, so two hashes are equal exactly  *)
(* when their preimages are.  HashOf is the hash of one stack element      *)
(* (::hash(value)) and EmptyTupleHash is ::hash(Tuple()).                  *)
(***************************************************************************)
EXTENDS Naturals, Sequences

CONSTANTS
    HashOf(_),        \* ::hash(value) of one stack element
    EmptyTupleHash    \* ::hash(Tuple())

\* The type tag byte of a tuple; a tuple of n elements is tagged TUPLE + n.
TUPLE == 3

\* Keccak([TUPLE+2] ++ be256(valHash) ++ be256(prev)): the hash of the pair
\* (value, rest-of-stack) that addHash computes.
PairHash(valHash, prev) == <<TUPLE + 2, valHash, prev>>

\* The hash of a stack computed from scratch, bottom first: the reference
\* against which the cached hashes are judged.
RECURSIVE StackHashOf(_)
StackHashOf(vals) ==
    IF vals = <<>> THEN EmptyTupleHash
    ELSE PairHash(HashOf(vals[Len(vals)]), StackHashOf(SubSeq(vals, 1, Len(vals) - 1)))

EmptyStack == [values |-> <<>>, hashes |-> <<>>]

LOCAL MinOf(a, b) == IF a <= b THEN a ELSE b

\* Keep only the first n cached hashes.
Truncate(hs, n) == SubSeq(hs, 1, MinOf(Len(hs), n))

(***************************************************************************)
(* Operations declared in avm/datastack.hpp (not part of the sources);      *)
(* their behaviour is the one the spec gives in section 3 and 4.D.          *)
(***************************************************************************)
Push(s, v) == [s EXCEPT !.values = Append(@, v)]

\* A faulty variant: the cache keeps the entry of the popped slot.
PopClearMut(s) ==
    [values |-> SubSeq(s.values, 1, Len(s.values) - 1),
     hashes |-> Truncate(s.hashes, Len(s.values))]

\* pop / popClear: the caller guarantees a non-empty stack.
PopClear(s) ==
    [values |-> SubSeq(s.values, 1, Len(s.values) - 1),
     hashes |-> Truncate(s.hashes, Len(s.values) - 1)]

\* stack[i]: slot i counted from the top (0 = top).
Peek(s, i) == s.values[Len(s.values) - i]

\* prepForMod(n): the top n slots are about to be written, so every cached
\* hash covering one of them is dropped.
PrepForMod(s, n) == [s EXCEPT !.hashes = Truncate(@, Len(s.values) - n)]

\* stack[i] = v, after a prepForMod(n) with i < n.
SetSlot(s, i, v) == [s EXCEPT !.values[Len(s.values) - i] = v]

(***************************************************************************)
(* The code of datastack.cpp.                                              *)
(***************************************************************************)
\* A faulty variant: every new entry is chained onto the empty-stack hash
\* instead of the last cached one.
AddHashMut(s) ==
    [s EXCEPT !.hashes = Append(@, PairHash(HashOf(s.values[Len(s.hashes) + 1]), EmptyTupleHash))]

\* addHash: cache the hash of the next uncached slot on top of the last
\* cached hash (or of the empty tuple when nothing is cached).
AddHash(s) ==
    LET prev == IF Len(s.hashes) > 0 THEN s.hashes[Len(s.hashes)]
                ELSE EmptyTupleHash
    IN  [s EXCEPT !.hashes = Append(@, PairHash(HashOf(s.values[Len(s.hashes) + 1]), prev))]

\* calculateAllHashes: addHash until every slot is cached.
RECURSIVE CalculateAllHashes(_)
CalculateAllHashes(s) ==
    IF Len(s.hashes) < Len(s.values) THEN CalculateAllHashes(AddHash(s)) ELSE s

\* A faulty variant: a non-empty cache is taken as complete.
HashResultMut(s) ==
    IF s.values = <<>> THEN [hash |-> EmptyTupleHash, stack |-> s]
    ELSE LET full == IF s.hashes = <<>> THEN CalculateAllHashes(s) ELSE s
         IN  [hash |-> full.hashes[Len(full.hashes)], stack |-> full]

\* hash(): the hash of the whole stack, and the stack with its (mutable)
\* cache filled in, as the const method leaves it.
HashResult(s) ==
    IF s.values = <<>> THEN [hash |-> EmptyTupleHash, stack |-> s]
    ELSE LET full == CalculateAllHashes(s)
         IN  [hash |-> full.hashes[Len(full.hashes)], stack |-> full]

StackHash(s) == HashResult(s).hash

\* A faulty variant: the slot is never popped, so every item is the top
\* value and the base is the hash of the whole stack.
RECURSIVE PopForProofMut(_, _, _)
PopForProofMut(c, info, items) ==
    IF info = <<>> THEN [base |-> StackHash(c), items |-> items]
    ELSE PopForProofMut(c, Tail(info),
                        Append(items, [revealed |-> Head(info), hash |-> HashOf(Peek(c, 0))]))

\* marshalForProof(stackInfo): fill the cache, pop Len(stackInfo) values off
\* a copy, revealing the ones flagged TRUE (marshalShallow) and giving only
\* the hash of the others (HASH_ONLY), and return the hash of what remains.
\* The items are listed in the order they were popped, top first.
RECURSIVE PopForProof(_, _, _)
PopForProof(c, info, items) ==
    IF info = <<>> THEN [base |-> StackHash(c), items |-> items]
    ELSE LET val  == Peek(c, 0)
             item == IF Head(info) THEN [revealed |-> TRUE, hash |-> HashOf(val)]
                     ELSE [revealed |-> FALSE, hash |-> HashOf(val)]
         IN  PopForProof(PopClear(c), Tail(info), Append(items, item))

MarshalForProof(s, info) ==
    LET full == CalculateAllHashes(s)
    IN  [proof |-> PopForProof(full, info, <<>>), stack |-> full]

\* What a verifier does with a proof: fold the popped items back on top of
\* the base hash, deepest item first.
RECURSIVE RebuildHash(_, _)
RebuildHash(base, items) ==
    IF items = <<>> THEN base
    ELSE PairHash(items[1].hash, RebuildHash(base, Tail(items)))

=============================================================================
