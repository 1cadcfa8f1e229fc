----------------------------- MODULE ArithCheck -----------------------------
(***************************************************************************)
(* Every numeric kernel of AVMArith applied to every word of the model's   *)
(* width: a state holds the opcode and its operands, one step computes the *)
(* kernel's result, and the invariants compare it with the reference.      *)
(***************************************************************************)
EXTENDS AVMArith

CONSTANT Ops    \* the opcodes under check

VARIABLES op, a, b, result

vars == <<op, a, b, result>>

NoResult == -1

\* The kernel the opcode's handler applies, on the operands it reads.
Kernel(o, x, y) ==
    CASE o = "SDIV"       -> SDivCode(x, y)
      [] o = "SMOD"       -> SModCode(x, y)
      [] o = "SLT"        -> SltCode(x, y)
      [] o = "SGT"        -> SgtCode(x, y)
      [] o = "BYTE"       -> ByteCode(x, y)
      [] o = "SIGNEXTEND" -> SignExtendCode(x, y)

\* The handlers of SDIV and SMOD enter the Error state on a zero divisor
\* before computing anything.
Defined(o, y) == o \in {"SDIV", "SMOD"} => y # 0

Init ==
    /\ op \in Ops
    /\ a \in Word
    /\ b \in Word
    /\ result = NoResult

Compute ==
    /\ result = NoResult
    /\ Defined(op, b)
    /\ result' = Kernel(op, a, b)
    /\ UNCHANGED <<op, a, b>>

Next == Compute

Spec == Init /\ [][Next]_vars

(***************************************************************************)
(* The signed opcodes agree with two's-complement integer arithmetic on    *)
(* every pair of words: SDIV rounds toward zero (min_int / -1 = min_int),  *)
(* SMOD takes the sign of the dividend, SLT/SGT order the signed readings, *)
(* although the code decodes signs by hand and stores them in uint8_t.     *)
(***************************************************************************)
SignedOpsMatchReference ==
    result # NoResult =>
        CASE op = "SDIV" -> result = SDivRef(a, b)
          [] op = "SMOD" -> result = SModRef(a, b)
          [] op = "SLT"  -> result = SltRef(a, b)
          [] op = "SGT"  -> result = SgtRef(a, b)
          [] OTHER       -> TRUE

(***************************************************************************)
(* BYTE and SIGNEXTEND compute what spec 4.E says of "BYTE idx x" and     *)
(* "SIGNEXTEND pos x": idx and pos are taken from the top of the stack,   *)
(* x from the slot under it.                                               *)
(***************************************************************************)
OperandOrderMatchesSpec ==
    /\ (result # NoResult /\ op = "BYTE") => result = ByteSpec(a, b)
    /\ (result # NoResult /\ op = "SIGNEXTEND") => result = SignExtendSpec(a, b)

=============================================================================
