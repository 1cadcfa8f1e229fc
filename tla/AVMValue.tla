------------------------------ MODULE AVMValue ------------------------------
(***************************************************************************)
(* AVM values (spec section 3) and their hashes.  A value is a record      *)
(*   Num:       [type |-> NUM,    val |-> n]                               *)
(*   Tuple:     [type |-> TUPLE,  elems |-> <<v1, ..., vk>>]   (k <= 8)    *)
(*   CodePoint: [type |-> CODEPT, pc |-> p, op |-> o, nextHash |-> h]      *)
(* and an Operation is [opcode |-> name, imm |-> <<>> or <<value>>].       *)
(*                                                                         *)
(* Keccak-256 is assumed collision free and is modelled as the term of     *)
(* what it hashes: <<tag, ...>> with the type tag byte first.  A raw word  *)
(* that stands where a hash would (the zero nextHash of the last code      *)
(* point, the status hashes 0 and 1) is the term <<RAW, n>>, and the       *)
(* six-word machine hash is <<MACHINE, h1, ..., h6>>; RAW and MACHINE are  *)
(* tags no value hash carries.                                             *)
(***************************************************************************)
EXTENDS AVMArith, Sequences

NUM       == 0
CODEPT    == 1
HASH_ONLY == 2
TUPLE     == 3
RAW       == -1
MACHINE   == -2

RawWord(n) == <<RAW, n>>

\* The unset code point (errpc before any ERRSET) has pc = uint64 max.
UnsetPc == MaxU64

Num(n)    == [type |-> NUM, val |-> n]
Tuple(es) == [type |-> TUPLE, elems |-> es]
EmptyTuple == Tuple(<<>>)

NoOperation == [opcode |-> "NONE", imm |-> <<>>]
UnsetCodePoint ==
    [type |-> CODEPT, pc |-> UnsetPc, op |-> NoOperation, nextHash |-> RawWord(0)]

IsNum(v)       == v.type = NUM
IsTuple(v)     == v.type = TUPLE
IsCodePoint(v) == v.type = CODEPT
IsSet(cp)      == cp.pc # UnsetPc
HasImm(op)     == op.imm # <<>>

(***************************************************************************)
(* hash(value) (value.cpp, spec section 3 "Hash contracts").               *)
(***************************************************************************)
RECURSIVE ValueHash(_), CodePointHash(_, _)

ValueHash(v) ==
    CASE IsNum(v)       -> <<NUM, v.val>>
      [] IsTuple(v)     -> <<TUPLE + Len(v.elems)>> \o
                           [i \in 1..Len(v.elems) |-> ValueHash(v.elems[i])]
      [] IsCodePoint(v) -> IF IsSet(v) THEN CodePointHash(v.op, v.nextHash)
                           ELSE ValueHash(EmptyTuple)

\* [CODEPT] ++ [opcode] ++ hash(immediate)? ++ nextHash
CodePointHash(op, nextHash) ==
    <<CODEPT, op.opcode, IF HasImm(op) THEN ValueHash(op.imm[1]) ELSE <<>>, nextHash>>

EmptyTupleHash == ValueHash(EmptyTuple)

=============================================================================
