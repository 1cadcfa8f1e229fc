---------------------------- MODULE MCMachine ----------------------------
(***************************************************************************)
(* Model-checking instance of Machine: 6-bit words of 2-bit bytes, 4-bit   *)
(* pcs (so the unset code point has pc 15), 2-bit tuple indices, and a     *)
(* suite of .ao files each written to exercise one group of opcodes.       *)
(***************************************************************************)
EXTENDS Machine

Op(o)      == [opcode |-> o, imm |-> <<>>]
OpI(o, v)  == [opcode |-> o, imm |-> <<v>>]
Ref(j)     == [ref |-> j]                    \* the code point at pc j
AO(ops, static) == [version |-> CURRENT_AO_VERSION, ops |-> ops, static |-> static]

MsgA == [data |-> 0, currency |-> 1, token |-> 0]
MsgB == [data |-> 1, currency |-> 1, token |-> 1]

\* Arithmetic with immediates (spec scenario 1 and the signed edge).
ArithProgram == AO(<<OpI("NOP", Num(3)), OpI("ADD", Num(4)), Op("DUP0"), Op("MUL"),
                     OpI("SMOD", Num(5)), OpI("SDIV", Num(63)), OpI("LT", Num(2)),
                     Op("ISZERO"), OpI("EXP", Num(2)), OpI("BITWISE_AND", Num(12)),
                     OpI("BITWISE_OR", Num(1)), OpI("BITWISE_XOR", Num(7)), OpI("EQ", Num(6)),
                     Op("DEBUG"), Op("HALT")>>,
                   Num(0))

\* Modular and byte arithmetic through dup and swap.
ModProgram == AO(<<OpI("NOP", Num(6)), OpI("NOP", Num(5)), Op("DUP1"), Op("DUP1"), Op("DUP2"),
                   Op("ADDMOD"), Op("MULMOD"), Op("BITWISE_NOT"), OpI("SUB", Num(1)),
                   OpI("BYTE", Num(2)), OpI("SIGNEXTEND", Num(7)), OpI("GT", Num(1)),
                   OpI("SLT", Num(60)), OpI("SGT", Num(1)), Op("HALT")>>,
                 Num(0))

\* Tuples (spec scenario 3), hashing and typing.
TupleProgram == AO(<<OpI("NOP", Num(9)), OpI("NOP", Tuple(<<Num(1), Num(2), Num(3)>>)),
                     OpI("TSET", Num(1)), Op("DUP0"), Op("HASH"), Op("SWAP1"), Op("DUP0"),
                     Op("TLEN"), Op("SWAP1"), OpI("TGET", Num(1)), Op("TYPE"), Op("ADD"),
                     Op("POP"), Op("TYPE"), Op("HALT")>>,
                   Tuple(<<>>))

\* An inbox reader: block until the inbox changes, log it, loop.
InboxProgram == AO(<<OpI("NOP", EmptyTuple), Op("PCPUSH"), Op("AUXPUSH"), Op("INBOX"),
                     Op("DUP0"), Op("LOG"), Op("AUXPOP"), Op("JUMP")>>,
                   EmptyTuple)

\* Sending: a blocking send of 1 unit, a non-blocking send, the time.
SendProgram == AO(<<OpI("NOP", MessageValue(MsgA)), Op("SEND"),
                    OpI("NOP", MessageValue(MsgA)), Op("NBSEND"), Op("LOG"),
                    Op("GETTIME"), Op("LOG"), Op("HALT")>>,
                  Num(0))

\* Control flow, registers, the static value, errpc and the breakpoint.
FlowProgram == AO(<<OpI("NOP", Num(1)), OpI("CJUMP", Ref(4)), Op("ERROR"), Op("HALT"),
                    OpI("NOP", Num(0)), OpI("CJUMP", Ref(14)), Op("STACKEMPTY"),
                    Op("AUXSTACKEMPTY"), Op("SPUSH"), Op("RSET"), Op("RPUSH"), Op("ERRPUSH"),
                    Op("BREAKPOINT"), Op("BREAKPOINT"), Op("HALT")>>,
                  Tuple(<<Num(1)>>))

\* SWAP2 and MOD on the way, then a tuple index one past the end, and an
\* arithmetic operand that is a tuple: both end in Error through runOne's
\* catch clauses.
OutOfRangeProgram == AO(<<OpI("NOP", Num(1)), OpI("NOP", Num(2)), OpI("NOP", Num(7)), Op("SWAP2"),
                          Op("MOD"), OpI("NOP", Tuple(<<Num(1)>>)), OpI("TGET", Num(1)),
                          Op("HALT")>>,
                        Num(0))
BadTypeProgram == AO(<<OpI("NOP", EmptyTuple), OpI("ADD", Num(1)), Op("HALT")>>, Num(0))

\* A handler installed with ERRSET, then a division by zero (scenario 2).
ErrorProgram == AO(<<OpI("ERRSET", Ref(4)), OpI("NOP", Num(0)), OpI("DIV", Num(5)),
                     Op("HALT"), Op("HALT")>>,
                   Num(0))

MCPrograms == {ArithProgram, ModProgram, TupleProgram, InboxProgram, SendProgram,
               FlowProgram, ErrorProgram, OutOfRangeProgram, BadTypeProgram}

\* INBOX with its tuple as an immediate, on an empty inbox: it blocks, and
\* every retry pushes the immediate again (spec scenario 4).
BlockedInboxProgram == AO(<<OpI("INBOX", EmptyTuple), Op("HALT")>>, Num(0))

\* EXP with an exponent of 16, one past the scaled uint64 range.
ExpProgram == AO(<<OpI("NOP", MessageValue(MsgA)), Op("SEND"),
                   OpI("NOP", Num(16)), OpI("EXP", Num(2)), Op("HALT")>>, Num(0))

\* JUMP to the errpc the program never set.
UnsetJumpProgram == AO(<<Op("ERRPUSH"), Op("JUMP"), Op("HALT")>>, Num(0))

\* TGET with index 4 = 2^IndexBits on a 1-tuple.
IndexWrapProgram == AO(<<OpI("NOP", Tuple(<<Num(7)>>)), OpI("TGET", Num(4)), Op("HALT")>>,
                       Num(0))

\* An .ao file of another version: the loader leaves the machine empty.
WrongVersionProgram == [version |-> CURRENT_AO_VERSION + 1, ops |-> <<Op("HALT")>>,
                        static |-> Num(0)]

MCIndexWrapPrograms    == {IndexWrapProgram}
MCWrongVersionPrograms == {WrongVersionProgram}

\* An .ao file of the current version with codeCount = 0.
EmptyProgram == [version |-> CURRENT_AO_VERSION, ops |-> <<>>, static |-> Num(0)]

MCEmptyPrograms == {EmptyProgram}

\* The spec's scenario 5, [PUSH(7), HALT]: a push is a NOP with an immediate.
PushProgram == AO(<<OpI("NOP", Num(7)), Op("HALT")>>, Num(0))

MCPushPrograms == {PushProgram}
MCBlockedPrograms   == {BlockedInboxProgram}
MCErrorPrograms     == {ErrorProgram}
MCExpPrograms       == {ExpProgram}
MCUnsetJumpPrograms == {UnsetJumpProgram}

MCMessages   == {MsgA, MsgB}
MCTimeBounds == {<<0, 1>>, <<2, 3>>}
=============================================================================
