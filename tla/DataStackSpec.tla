--------------------------- MODULE DataStackSpec ---------------------------
(***************************************************************************)
(* One datastack driven by an arbitrary client, the way the interpreter     *)
(* drives MachineState::stack: pushes, pops, prepForMod(n) followed by a    *)
(* write to one of the top n slots, hash() and marshalForProof(stackInfo).  *)
(* The two queries are const methods that fill the mutable hash cache; the *)
(* value they return is kept in lastResult until the next call.             *)
(***************************************************************************)
EXTENDS DataStack

CONSTANTS
    Values,     \* the elements a stack may hold
    MaxDepth    \* bound on the stack height

ASSUME MaxDepth \in Nat \ {0}

VARIABLES
    stk,         \* [values, hashes]
    lastResult   \* what the last query returned, or NoResult

vars == <<stk, lastResult>>

NoResult == [kind |-> "none"]

Init ==
    /\ stk = EmptyStack
    /\ lastResult = NoResult

\* push(v)
PushOp(v) ==
    /\ Len(stk.values) < MaxDepth
    /\ stk' = Push(stk, v)
    /\ lastResult' = NoResult

\* popClear()
PopOp ==
    /\ stk.values # <<>>
    /\ stk' = PopClear(stk)
    /\ lastResult' = NoResult

\* prepForMod(n); stack[i] = v   (i < n), as every modifying opcode does.
ModifyOp(n, i, v) ==
    /\ i < n
    /\ n <= Len(stk.values)
    /\ stk' = SetSlot(PrepForMod(stk, n), i, v)
    /\ lastResult' = NoResult

\* hash()
HashOp ==
    LET r == HashResult(stk)
    IN  /\ stk' = r.stack
        /\ lastResult' = [kind |-> "hash", hash |-> r.hash]

\* marshalForProof(stackInfo), for a stackInfo no longer than the stack.
MarshalOp(info) ==
    /\ Len(info) <= Len(stk.values)
    /\ LET r == MarshalForProof(stk, info)
       IN  /\ stk' = r.stack
           /\ lastResult' = [kind |-> "proof", base |-> r.proof.base,
                             items |-> r.proof.items]

ProofInfos == UNION {[1..k -> BOOLEAN] : k \in 0..MaxDepth}

Next ==
    \/ \E v \in Values : PushOp(v)
    \/ PopOp
    \/ \E n \in 1..MaxDepth, i \in 0..MaxDepth - 1, v \in Values : ModifyOp(n, i, v)
    \/ HashOp
    \/ \E info \in ProofInfos : MarshalOp(info)

Spec == Init /\ [][Next]_vars

-----------------------------------------------------------------------------
TypeOK ==
    /\ stk.values \in Seq(Values)
    /\ Len(stk.values) <= MaxDepth
    /\ Len(stk.hashes) <= Len(stk.values)
    /\ lastResult.kind \in {"none", "hash", "proof"}

(***************************************************************************)
(* Cache consistency: after any sequence of pushes, pops and prepForMod    *)
(* writes, every hash the cache still holds is the from-scratch hash of    *)
(* the slots under it.  A pop or prepForMod that keeps one cached entry    *)
(* too many leaves a stale hash that addHash then builds on.               *)
(***************************************************************************)
HashCacheConsistent ==
    \A k \in 1..Len(stk.hashes) : stk.hashes[k] = StackHashOf(SubSeq(stk.values, 1, k))

(***************************************************************************)
(* The answers of the queries are the hash of the stack's actual contents: *)
(* hash() returns the from-scratch stack hash, and folding the items a     *)
(* marshalForProof reveals back onto its base hash rebuilds that same hash *)
(* (the check a verifier makes of the stack half of a one-step proof).     *)
(***************************************************************************)
QueryResultsCorrect ==
    /\ lastResult.kind = "hash" => lastResult.hash = StackHashOf(stk.values)
    /\ lastResult.kind = "proof" =>
           RebuildHash(lastResult.base, lastResult.items) = StackHashOf(stk.values)

-----------------------------------------------------------------------------
(***************************************************************************)
(* Refinement: with the cache hidden, the datastack is the abstract stack. *)
(* Every push, pop, slot write, hash() and marshalForProof of the cached   *)
(* implementation is a step of AbstractStack (or leaves it unchanged), so  *)
(* the lazy cache never shows through: the queries leave the contents     *)
(* alone and answer what the uncached stack would, the proof's items in    *)
(* pop order with the flags asked for.                                     *)
(***************************************************************************)
Abstract == INSTANCE AbstractStack WITH contents <- stk.values, answer <- lastResult

RefinesAbstractStack == Abstract!Spec

=============================================================================
