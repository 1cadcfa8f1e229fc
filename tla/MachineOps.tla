----------------------------- MODULE MachineOps -----------------------------
(***************************************************************************)
(* The opcode handlers of avm/src/machine.cpp (the static functions of the *)
(* anonymous namespace and MachineState::runOp) as operators from a        *)
(* MachineState record m to [st |-> m', exc |-> e]: e is "none" or the     *)
(* exception the handler throws, and m' holds every change the handler     *)
(* made before it returned or threw.                                       *)
(*                                                                         *)
(* m.stack and m.auxstack are the stacks' values, bottom first; stack[i]  *)
(* of the code (i counted from the top) is At(m.stack, i).  A handler that *)
(* reads or prepares more slots than the stack holds throws                *)
(* "stack_too_small" (datastack.hpp); runOne does not catch it.           *)
(***************************************************************************)
EXTENDS AVMValue

LOCAL INSTANCE Bitwise

CONSTANT IndexBits   \* width of the uint32_t a tuple index is cast to

At(s, i)       == s[Len(s) - i]
SetAt(s, i, v) == [s EXCEPT ![Len(s) - i] = v]
PopN(s, k)     == SubSeq(s, 1, Len(s) - k)

Ok(m)       == [st |-> m, exc |-> "none"]
Raise(m, e) == [st |-> m, exc |-> e]

\* static_cast<uint32_t>(index)
ToUint32(n) == n % 2^IndexBits

-----------------------------------------------------------------------------
(* Message and TokenTracker (message.hpp, tokenTracker.hpp; spec 4.E       *)
(* "System"): a message travels as the tuple (data, currency, token).      *)
MessageValue(msg) == Tuple(<<Num(msg.data), Num(msg.currency), Num(msg.token)>>)

DecodesAsMessage(v) ==
    IsTuple(v) /\ Len(v.elems) = 3 /\ \A i \in 1..3 : IsNum(v.elems[i])

DecodeMessage(v) ==
    [data |-> v.elems[1].val, currency |-> v.elems[2].val, token |-> v.elems[3].val]

\* balance.Spend(token, currency) succeeds when the tracker holds enough.
CanSpend(bal, msg)  == bal[msg.token] >= msg.currency
Spend(bal, msg)     == [bal EXCEPT ![msg.token] = @ - msg.currency]

-----------------------------------------------------------------------------
(* Shapes shared by the arithmetic handlers.                               *)

\* prepForMod(2); a = assumeInt(stack[0]); b = assumeInt(stack[1]);
\* stack[1] = f(a, b); popClear(); ++pc
NumBinary(m, f(_, _)) ==
    CASE Len(m.stack) < 2 -> Raise(m, "stack_too_small")
      [] ~IsNum(At(m.stack, 0)) \/ ~IsNum(At(m.stack, 1)) -> Raise(m, "bad_pop_type")
      [] OTHER -> Ok([m EXCEPT !.stack = PopN(SetAt(@, 1, Num(f(At(m.stack, 0).val,
                                                                At(m.stack, 1).val))), 1),
                               !.pc = @ + 1])

\* As NumBinary, but a zero b enters Error, leaving stack[1] as it was
\* (div, sdiv, mod, smod).
NumDivide(m, f(_, _)) ==
    IF Len(m.stack) >= 2 /\ IsNum(At(m.stack, 0)) /\ IsNum(At(m.stack, 1))
       /\ At(m.stack, 1).val = 0
    THEN Ok([m EXCEPT !.status = "Error", !.stack = PopN(@, 1), !.pc = @ + 1])
    ELSE NumBinary(m, f)

\* prepForMod(3); a, b, c from stack[0..2]; c = 0 enters Error, otherwise
\* stack[2] = f(a, b, c); popClear() twice; ++pc   (addmod, mulmod)
NumTernary(m, f(_, _, _)) ==
    CASE Len(m.stack) < 3 -> Raise(m, "stack_too_small")
      [] \E i \in 0..2 : ~IsNum(At(m.stack, i)) -> Raise(m, "bad_pop_type")
      [] At(m.stack, 2).val = 0 ->
             Ok([m EXCEPT !.status = "Error", !.stack = PopN(@, 2), !.pc = @ + 1])
      [] OTHER -> Ok([m EXCEPT !.stack = PopN(SetAt(@, 2, Num(f(At(m.stack, 0).val,
                                At(m.stack, 1).val, At(m.stack, 2).val))), 2),
                               !.pc = @ + 1])

\* prepForMod(1); stack[0] = f(assumeInt(stack[0])); ++pc
NumUnary(m, f(_)) ==
    CASE m.stack = <<>> -> Raise(m, "stack_too_small")
      [] ~IsNum(At(m.stack, 0)) -> Raise(m, "bad_pop_type")
      [] OTHER -> Ok([m EXCEPT !.stack = SetAt(@, 0, Num(f(At(m.stack, 0).val))),
                               !.pc = @ + 1])

-----------------------------------------------------------------------------
(* Arithmetic, comparison and bitwise handlers.                            *)
Add(m)    == NumBinary(m, LAMBDA a, b : (a + b) % Modulus)
Mul(m)    == NumBinary(m, LAMBDA a, b : (a * b) % Modulus)
Sub(m)    == NumBinary(m, LAMBDA a, b : (a - b) % Modulus)
Div(m)    == NumDivide(m, LAMBDA a, b : a \div b)
SDiv(m)   == NumDivide(m, SDivCode)
Mod(m)    == NumDivide(m, LAMBDA a, b : a % b)
SMod(m)   == NumDivide(m, SModCode)
AddMod(m) == NumTernary(m, AddModCode)
MulMod(m) == NumTernary(m, MulModCode)

\* exp: the exponent b must fit a uint64_t, else assumeInt64 throws
\* int_out_of_bounds.
Exp(m) ==
    IF Len(m.stack) >= 2 /\ IsNum(At(m.stack, 0)) /\ IsNum(At(m.stack, 1))
       /\ At(m.stack, 1).val > MaxU64
    THEN Raise(m, "int_out_of_bounds")
    ELSE NumBinary(m, PowerMod)

Lt(m)         == NumBinary(m, LAMBDA a, b : IF a < b THEN 1 ELSE 0)
Gt(m)         == NumBinary(m, LAMBDA a, b : IF a > b THEN 1 ELSE 0)
Slt(m)        == NumBinary(m, SltCode)
Sgt(m)        == NumBinary(m, SgtCode)
IsZero(m)     == NumUnary(m, LAMBDA a : IF a = 0 THEN 1 ELSE 0)
BitwiseNot(m) == NumUnary(m, LAMBDA a : Modulus - 1 - a)
BitwiseAnd(m) == NumBinary(m, LAMBDA a, b : a & b)
BitwiseOr(m)  == NumBinary(m, LAMBDA a, b : a | b)
BitwiseXor(m) == NumBinary(m, LAMBDA a, b : a ^^ b)
Byte(m)       == NumBinary(m, ByteCode)
SignExtend(m) == NumBinary(m, SignExtendCode)

\* eq: structural equality of any two values.
Eq(m) ==
    IF Len(m.stack) < 2 THEN Raise(m, "stack_too_small")
    ELSE Ok([m EXCEPT !.stack = PopN(SetAt(@, 1, Num(IF At(m.stack, 0) = At(m.stack, 1)
                                                     THEN 1 ELSE 0)), 1),
                      !.pc = @ + 1])

-----------------------------------------------------------------------------
(* Hashing, stack, register and flow handlers.                             *)

\* hashOp: the top is replaced by its hash, a number; the model keeps the
\* hash term as that number's val.
HashOp(m) ==
    IF m.stack = <<>> THEN Raise(m, "stack_too_small")
    ELSE Ok([m EXCEPT !.stack = SetAt(@, 0, Num(ValueHash(At(m.stack, 0)))), !.pc = @ + 1])

TypeOp(m) ==
    IF m.stack = <<>> THEN Raise(m, "stack_too_small")
    ELSE Ok([m EXCEPT !.stack = SetAt(@, 0, Num(At(m.stack, 0).type)), !.pc = @ + 1])

Pop(m) ==
    IF m.stack = <<>> THEN Raise(m, "stack_too_small")
    ELSE Ok([m EXCEPT !.stack = PopN(@, 1), !.pc = @ + 1])

\* spush / rpush / pcPush / errPush: push a copy; stackEmpty and
\* auxStackEmpty push 1 or 0.
PushValue(m, v) == Ok([m EXCEPT !.stack = Append(@, v), !.pc = @ + 1])
SPush(m)         == PushValue(m, m.staticVal)
RPush(m)         == PushValue(m, m.registerVal)
StackEmpty(m)    == PushValue(m, Num(IF m.stack = <<>> THEN 1 ELSE 0))
PcPush(m)        == PushValue(m, m.code[m.pc + 1])
AuxStackEmpty(m) == PushValue(m, Num(IF m.auxstack = <<>> THEN 1 ELSE 0))
ErrPush(m)       == PushValue(m, m.errpc)
Nop(m)           == Ok([m EXCEPT !.pc = @ + 1])

RSet(m) ==
    IF m.stack = <<>> THEN Raise(m, "stack_too_small")
    ELSE Ok([m EXCEPT !.registerVal = At(m.stack, 0), !.stack = PopN(@, 1), !.pc = @ + 1])

\* jump: pc = target.pc, or Error when the top is not a code point; the top
\* is popped either way and pc is not incremented.
Jump(m) ==
    IF m.stack = <<>> THEN Raise(m, "stack_too_small")
    ELSE LET target == At(m.stack, 0)
         IN  Ok([m EXCEPT !.pc = IF IsCodePoint(target) THEN target.pc ELSE @,
                          !.status = IF IsCodePoint(target) THEN @ ELSE "Error",
                          !.stack = PopN(@, 1)])

\* cjump: the condition (stack[1]) must be a number; when it is non-zero the
\* target must be a code point; when it is zero pc falls through.
CJump(m) ==
    CASE Len(m.stack) < 2 -> Raise(m, "stack_too_small")
      [] ~IsNum(At(m.stack, 1)) -> Raise(m, "bad_pop_type")
      [] OTHER ->
         LET target == At(m.stack, 0)
             taken  == At(m.stack, 1).val # 0
         IN  Ok([m EXCEPT !.pc = IF ~taken THEN @ + 1
                                 ELSE IF IsCodePoint(target) THEN target.pc ELSE @,
                          !.status = IF taken /\ ~IsCodePoint(target) THEN "Error" ELSE @,
                          !.stack = PopN(@, 2)])

AuxPush(m) ==
    IF m.stack = <<>> THEN Raise(m, "stack_too_small")
    ELSE Ok([m EXCEPT !.auxstack = Append(@, At(m.stack, 0)), !.stack = PopN(@, 1),
                      !.pc = @ + 1])

AuxPop(m) ==
    IF m.auxstack = <<>> THEN Raise(m, "stack_too_small")
    ELSE Ok([m EXCEPT !.stack = Append(@, At(m.auxstack, 0)), !.auxstack = PopN(@, 1),
                      !.pc = @ + 1])

\* errSet: errpc = top when it is a code point, else Error; popped and pc
\* incremented either way.
ErrSet(m) ==
    IF m.stack = <<>> THEN Raise(m, "stack_too_small")
    ELSE LET cp == At(m.stack, 0)
         IN  Ok([m EXCEPT !.errpc = IF IsCodePoint(cp) THEN cp ELSE @,
                          !.status = IF IsCodePoint(cp) THEN @ ELSE "Error",
                          !.stack = PopN(@, 1), !.pc = @ + 1])

\* dup0 / dup1 / dup2 read stack[i] without prepForMod.
Dup(m, i) ==
    IF Len(m.stack) <= i THEN Raise(m, "stack_too_small")
    ELSE PushValue(m, At(m.stack, i))

\* swap1 / swap2: prepForMod(i + 1), then exchange stack[0] and stack[i].
Swap(m, i) ==
    IF Len(m.stack) <= i THEN Raise(m, "stack_too_small")
    ELSE Ok([m EXCEPT !.stack = SetAt(SetAt(@, 0, At(m.stack, i)), i, At(m.stack, 0)),
                      !.pc = @ + 1])

-----------------------------------------------------------------------------
(* Tuple, logging and system handlers.                                     *)

\* tget: index = assumeInt(stack[0]), tup = assumeTuple(stack[1]);
\* get_element(static_cast<uint32_t>(index)) throws bad_tuple_index when
\* the cast index is not below the size.
TGet(m) ==
    CASE Len(m.stack) < 2 -> Raise(m, "stack_too_small")
      [] ~IsNum(At(m.stack, 0)) \/ ~IsTuple(At(m.stack, 1)) -> Raise(m, "bad_pop_type")
      [] ToUint32(At(m.stack, 0).val) >= Len(At(m.stack, 1).elems) ->
             Raise(m, "bad_tuple_index")
      [] OTHER ->
         LET elem == At(m.stack, 1).elems[ToUint32(At(m.stack, 0).val) + 1]
         IN  Ok([m EXCEPT !.stack = PopN(SetAt(@, 1, elem), 1), !.pc = @ + 1])

\* tset: stack[2] = tup with slot index := stack[2]; two pops.
TSet(m) ==
    CASE Len(m.stack) < 3 -> Raise(m, "stack_too_small")
      [] ~IsNum(At(m.stack, 0)) \/ ~IsTuple(At(m.stack, 1)) -> Raise(m, "bad_pop_type")
      [] ToUint32(At(m.stack, 0).val) >= Len(At(m.stack, 1).elems) ->
             Raise(m, "bad_tuple_index")
      [] OTHER ->
         LET tup == At(m.stack, 1)
             new == [tup EXCEPT !.elems[ToUint32(At(m.stack, 0).val) + 1] = At(m.stack, 2)]
         IN  Ok([m EXCEPT !.stack = PopN(SetAt(@, 2, new), 2), !.pc = @ + 1])

TLen(m) ==
    CASE m.stack = <<>> -> Raise(m, "stack_too_small")
      [] ~IsTuple(At(m.stack, 0)) -> Raise(m, "bad_pop_type")
      [] OTHER -> Ok([m EXCEPT !.stack = SetAt(@, 0, Num(Len(At(m.stack, 0).elems))),
                               !.pc = @ + 1])

\* A faulty variant: breakpoint advances pc like the other opcodes.
BreakpointMut(m) == Ok([m EXCEPT !.status = "Blocked", !.pc = @ + 1])

Breakpoint(m) == Ok([m EXCEPT !.status = "Blocked"])

Log(m) ==
    IF m.stack = <<>> THEN Raise(m, "stack_too_small")
    ELSE Ok([m EXCEPT !.context.logs = Append(@, At(m.stack, 0)), !.stack = PopN(@, 1),
                      !.pc = @ + 1])

\* debug moves every value to a temporary stack and back: no net change.
Debug(m) == Nop(m)

\* send: a top that is no message enters Error (nothing popped); a balance
\* too small blocks (nothing popped, pc kept: the opcode is retried);
\* otherwise the message is popped, spent and appended to the assertion.
Send(m) ==
    CASE m.stack = <<>> -> Raise(m, "stack_too_small")
      [] ~DecodesAsMessage(At(m.stack, 0)) -> Ok([m EXCEPT !.status = "Error"])
      [] ~CanSpend(m.balance, DecodeMessage(At(m.stack, 0))) ->
             Ok([m EXCEPT !.status = "Blocked"])
      [] OTHER ->
         LET msg == DecodeMessage(At(m.stack, 0))
         IN  Ok([m EXCEPT !.balance = Spend(@, msg), !.stack = PopN(@, 1),
                          !.context.outMessage = Append(@, msg), !.pc = @ + 1])

\* A faulty variant: the message is appended whether or not it was spent.
NbSendMut(m) ==
    CASE m.stack = <<>> -> Raise(m, "stack_too_small")
      [] ~DecodesAsMessage(At(m.stack, 0)) -> Ok([m EXCEPT !.status = "Error"])
      [] OTHER ->
         LET msg   == DecodeMessage(At(m.stack, 0))
             spent == CanSpend(m.balance, msg)
         IN  Ok([m EXCEPT !.balance = IF spent THEN Spend(@, msg) ELSE @,
                          !.context.outMessage = Append(@, msg),
                          !.stack = SetAt(@, 0, Num(IF spent THEN 1 ELSE 0)),
                          !.pc = @ + 1])

\* nbsend: as send, but an insufficient balance replaces the top by 0 and
\* a sent message replaces it by 1.
NbSend(m) ==
    CASE m.stack = <<>> -> Raise(m, "stack_too_small")
      [] ~DecodesAsMessage(At(m.stack, 0)) -> Ok([m EXCEPT !.status = "Error"])
      [] OTHER ->
         LET msg   == DecodeMessage(At(m.stack, 0))
             spent == CanSpend(m.balance, msg)
         IN  Ok([m EXCEPT !.balance = IF spent THEN Spend(@, msg) ELSE @,
                          !.context.outMessage = IF spent THEN Append(@, msg) ELSE @,
                          !.stack = SetAt(@, 0, Num(IF spent THEN 1 ELSE 0)),
                          !.pc = @ + 1])

GetTime(m) ==
    PushValue(m, Tuple(<<Num(m.context.timeBounds[1]), Num(m.context.timeBounds[2])>>))

\* inboxOp: a top equal to the current inbox blocks (pc kept, retried on
\* the next run); anything else is replaced by a copy of the inbox.
InboxOp(m) ==
    CASE m.stack = <<>> -> Raise(m, "stack_too_small")
      [] IsTuple(At(m.stack, 0)) /\ At(m.stack, 0) = m.inbox ->
             Ok([m EXCEPT !.status = "Blocked"])
      [] OTHER -> Ok([m EXCEPT !.stack = SetAt(@, 0, m.inbox), !.pc = @ + 1])

ErrorOp(m) ==
    Ok([m EXCEPT !.status = "Error", !.pc = IF IsSet(m.errpc) THEN m.errpc.pc ELSE @])

Halt(m) == Ok([m EXCEPT !.status = "Halted"])

-----------------------------------------------------------------------------
\* MachineState::runOp: dispatch on the opcode; an opcode with no case
\* throws std::runtime_error.
RunOp(m, opcode) ==
    CASE opcode = "ADD"           -> Add(m)
      [] opcode = "MUL"           -> Mul(m)
      [] opcode = "SUB"           -> Sub(m)
      [] opcode = "DIV"           -> Div(m)
      [] opcode = "SDIV"          -> SDiv(m)
      [] opcode = "MOD"           -> Mod(m)
      [] opcode = "SMOD"          -> SMod(m)
      [] opcode = "ADDMOD"        -> AddMod(m)
      [] opcode = "MULMOD"        -> MulMod(m)
      [] opcode = "EXP"           -> Exp(m)
      [] opcode = "LT"            -> Lt(m)
      [] opcode = "GT"            -> Gt(m)
      [] opcode = "SLT"           -> Slt(m)
      [] opcode = "SGT"           -> Sgt(m)
      [] opcode = "EQ"            -> Eq(m)
      [] opcode = "ISZERO"        -> IsZero(m)
      [] opcode = "BITWISE_AND"   -> BitwiseAnd(m)
      [] opcode = "BITWISE_OR"    -> BitwiseOr(m)
      [] opcode = "BITWISE_XOR"   -> BitwiseXor(m)
      [] opcode = "BITWISE_NOT"   -> BitwiseNot(m)
      [] opcode = "BYTE"          -> Byte(m)
      [] opcode = "SIGNEXTEND"    -> SignExtend(m)
      [] opcode = "HASH"          -> HashOp(m)
      [] opcode = "TYPE"          -> TypeOp(m)
      [] opcode = "POP"           -> Pop(m)
      [] opcode = "SPUSH"         -> SPush(m)
      [] opcode = "RPUSH"         -> RPush(m)
      [] opcode = "RSET"          -> RSet(m)
      [] opcode = "JUMP"          -> Jump(m)
      [] opcode = "CJUMP"         -> CJump(m)
      [] opcode = "STACKEMPTY"    -> StackEmpty(m)
      [] opcode = "PCPUSH"        -> PcPush(m)
      [] opcode = "AUXPUSH"       -> AuxPush(m)
      [] opcode = "AUXPOP"        -> AuxPop(m)
      [] opcode = "AUXSTACKEMPTY" -> AuxStackEmpty(m)
      [] opcode = "NOP"           -> Nop(m)
      [] opcode = "ERRPUSH"       -> ErrPush(m)
      [] opcode = "ERRSET"        -> ErrSet(m)
      [] opcode = "DUP0"          -> Dup(m, 0)
      [] opcode = "DUP1"          -> Dup(m, 1)
      [] opcode = "DUP2"          -> Dup(m, 2)
      [] opcode = "SWAP1"         -> Swap(m, 1)
      [] opcode = "SWAP2"         -> Swap(m, 2)
      [] opcode = "TGET"          -> TGet(m)
      [] opcode = "TSET"          -> TSet(m)
      [] opcode = "TLEN"          -> TLen(m)
      [] opcode = "BREAKPOINT"    -> Breakpoint(m)
      [] opcode = "LOG"           -> Log(m)
      [] opcode = "DEBUG"         -> Debug(m)
      [] opcode = "SEND"          -> Send(m)
      [] opcode = "NBSEND"        -> NbSend(m)
      [] opcode = "GETTIME"       -> GetTime(m)
      [] opcode = "INBOX"         -> InboxOp(m)
      [] opcode = "ERROR"         -> ErrorOp(m)
      [] opcode = "HALT"          -> Halt(m)
      [] OTHER                    -> Raise(m, "runtime_error")

=============================================================================
