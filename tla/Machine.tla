------------------------------ MODULE Machine ------------------------------
(***************************************************************************)
(* One AVM machine (avm/src/machine.cpp) and the embedder that drives it:  *)
(* the loader builds the machine from an .ao file, then the embedder calls *)
(* run(stepCount, start, end), sendOnchainMessage, deliverOnchainMessages  *)
(* and sendOffchainMessages in any order.  Each call is one atomic action: *)
(* the VM is single threaded and run() is not re-entrant.                  *)
(*                                                                         *)
(* m is the MachineState; lastAssertion the Assertion the last run()       *)
(* returned; hostFault the exception or undefined behaviour that escaped   *)
(* to the embedder ("none" while there is none); received is every message *)
(* the embedder handed to the machine, in order.                           *)
(***************************************************************************)
EXTENDS MachineOps

LOCAL INSTANCE SequencesExt

CONSTANTS
    Programs,      \* the .ao files the loader may be given
    Messages,      \* the messages the embedder may send
    TimeBounds,    \* the (start, end) pairs run() may be given
    StepCounts,    \* the stepCount values run() may be given
    MaxMessages,   \* bound on the messages handed to the machine
    MaxStack       \* bound on the height of both stacks before a run

CURRENT_AO_VERSION == 1

Tokens == {msg.token : msg \in Messages}

DS == INSTANCE DataStack WITH HashOf <- ValueHash, EmptyTupleHash <- EmptyTupleHash

VARIABLES m, lastAssertion, hostFault, received, loop, credited, paid

vars == <<m, lastAssertion, hostFault, received, loop, credited, paid>>

-----------------------------------------------------------------------------
(* The loader.                                                             *)

\* opsToCodePoints: number the operations, then link each code point to the
\* hash of its successor, from the tail (the last one keeps nextHash 0).
\* An immediate written [ref |-> j] is the code point at pc j > i, which the
\* compiler resolved when it wrote the file.
OpsToCodePoints(ops) ==
    LET N == Len(ops)
        RECURSIVE Build(_)
        Build(i) ==
            IF i = N THEN <<>>
            ELSE LET rest == Build(i + 1)
                     imm  == IF ops[i + 1].imm # <<>> /\ "ref" \in DOMAIN ops[i + 1].imm[1]
                             THEN <<rest[ops[i + 1].imm[1].ref - i]>>
                             ELSE ops[i + 1].imm
                     next == IF i = N - 1 THEN RawWord(0)
                             ELSE CodePointHash(rest[1].op, rest[1].nextHash)
                 IN  <<[type |-> CODEPT, pc |-> i, op |-> [opcode |-> ops[i + 1].opcode, imm |-> imm],
                        nextHash |-> next]>> \o rest
    IN  Build(0)

\* opsToCodePoints's linking loop: i runs while i < cps.size() - 1, and
\* iteration i writes cps[size - 2 - i] from cps[size - 1 - i], all in
\* uint64_t (scaled to MaxU64).  The loop is undefined as soon as an
\* iteration indexes past the vector.  deserialize calls it only for the
\* current version.
LinkIndices(n, i) == {(n - 2 - i) % (MaxU64 + 1), (n - 1 - i) % (MaxU64 + 1)}

LoaderFault(ao) ==
    LET n == Len(ao.ops)
    IN  IF /\ ao.version = CURRENT_AO_VERSION
           /\ \E i \in 0..(((n - 1) % (MaxU64 + 1)) - 1) : \E j \in LinkIndices(n, i) : j >= n
        THEN "undefined_behaviour"
        ELSE "none"

\* MachineState(): the state the constructor leaves.
EmptyMachine ==
    [code |-> <<>>, pc |-> 0, stack |-> <<>>, auxstack |-> <<>>,
     registerVal |-> EmptyTuple, staticVal |-> EmptyTuple, errpc |-> UnsetCodePoint,
     status |-> "Extensive", inbox |-> EmptyTuple, pendingInbox |-> EmptyTuple,
     balance |-> [t \in Tokens |-> 0],
     context |-> [timeBounds |-> <<0, 0>>, logs |-> <<>>, outMessage |-> <<>>]]

\* deserialize: a wrong version leaves the machine empty; extension records
\* are skipped up to the terminating id 0; then the code and the static value.
Deserialize(ao) ==
    IF ao.version # CURRENT_AO_VERSION THEN EmptyMachine
    ELSE [EmptyMachine EXCEPT !.code = OpsToCodePoints(ao.ops), !.staticVal = ao.static,
                              !.pc = 0]

-----------------------------------------------------------------------------
(* The embedder's message calls.                                           *)

\* sendOnchainMessage: cons the message onto the pending tuple (tag 0) and
\* credit its currency to the balance at once.
SendOnchainMessage(s, msg) ==
    [s EXCEPT !.pendingInbox = Tuple(<<Num(0), @, MessageValue(msg)>>),
              !.balance = [@ EXCEPT ![msg.token] = @ + msg.currency]]

\* deliverMessageStack: a non-empty batch is consed onto the inbox (tag 1).
\* A faulty variant: an empty batch is delivered too.
DeliverMessageStackMut(s, batch) == [s EXCEPT !.inbox = Tuple(<<Num(1), @, batch>>)]

DeliverMessageStack(s, batch) ==
    IF batch = EmptyTuple THEN s
    ELSE [s EXCEPT !.inbox = Tuple(<<Num(1), @, batch>>)]

\* sendOffchainMessages: build a batch of the messages (tag 0) and deliver
\* it directly; no currency is credited.
SendOffchainMessages(s, msgs) ==
    LET RECURSIVE Stack(_)
        Stack(k) == IF k = 0 THEN EmptyTuple
                    ELSE Tuple(<<Num(0), Stack(k - 1), MessageValue(msgs[k])>>)
    IN  DeliverMessageStack(s, Stack(Len(msgs)))

\* A faulty variant: the pending tuple is delivered but not cleared.
DeliverOnchainMessagesMut(s) == DeliverMessageStack(s, s.pendingInbox)

DeliverOnchainMessages(s) ==
    [DeliverMessageStack(s, s.pendingInbox) EXCEPT !.pendingInbox = EmptyTuple]

-----------------------------------------------------------------------------
(* The state hash and the one-step proof.                                  *)

\* Keccak over six 32-byte words.
SixWords(cpHash, stackHash, auxHash, regHash, staticHash, errHash) ==
    <<MACHINE, cpHash, stackHash, auxHash, regHash, staticHash, errHash>>

\* MachineState::hash(): 0 when Halted, 1 on Error, else the six words.
MachineHash(s) ==
    CASE s.status = "Halted" -> RawWord(0)
      [] s.status = "Error"  -> RawWord(1)
      [] OTHER -> SixWords(ValueHash(s.code[s.pc + 1]),
                           DS!StackHashOf(s.stack), DS!StackHashOf(s.auxstack),
                           ValueHash(s.registerVal), ValueHash(s.staticVal),
                           ValueHash(s.errpc))

\* InstructionStackPops / InstructionAuxStackPops (opcodes.hpp): one flag
\* per slot the opcode consumes, top first; TRUE reveals the value.
StackPopCount(o) ==
    CASE o \in {"ADDMOD", "MULMOD", "SWAP2", "TSET", "DUP2"} -> 3
      [] o \in {"ADD", "MUL", "SUB", "DIV", "SDIV", "MOD", "SMOD", "EXP", "LT", "GT",
                "SLT", "SGT", "EQ", "BITWISE_AND", "BITWISE_OR", "BITWISE_XOR", "BYTE",
                "SIGNEXTEND", "CJUMP", "SWAP1", "TGET", "DUP1"} -> 2
      [] o \in {"ISZERO", "BITWISE_NOT", "HASH", "TYPE", "POP", "RSET", "JUMP", "AUXPUSH",
                "ERRSET", "DUP0", "TLEN", "LOG", "SEND", "NBSEND", "INBOX"} -> 1
      [] OTHER -> 0

InstructionStackPops(o) ==
    [i \in 1..StackPopCount(o) |-> o \notin {"POP", "HASH"}]

InstructionAuxStackPops(o) == IF o = "AUXPOP" THEN <<TRUE>> ELSE <<>>

\* A faulty variant: the first entry is dropped whether or not the
\* operation carries an immediate.
ProofStackPopsMut(op) ==
    IF InstructionStackPops(op.opcode) = <<>> THEN <<>> ELSE Tail(InstructionStackPops(op.opcode))

\* The main-stack signature minus the slot of the immediate, which the
\* verifier takes from the code point instead of the stack.
ProofStackPops(op) ==
    IF HasImm(op) THEN Tail(InstructionStackPops(op.opcode))
    ELSE InstructionStackPops(op.opcode)

\* A faulty variant: the register and static hashes written in each
\* other's place.
MarshalForProofMut(s) ==
    LET instr == s.code[s.pc + 1]
        sp    == DS!MarshalForProof([values |-> s.stack, hashes |-> <<>>],
                                    ProofStackPops(instr.op)).proof
        ap    == DS!MarshalForProof([values |-> s.auxstack, hashes |-> <<>>],
                                    InstructionAuxStackPops(instr.op.opcode)).proof
    IN  [nextHash |-> instr.nextHash, baseStackHash |-> sp.base,
         baseAuxStackHash |-> ap.base, registerHash |-> ValueHash(s.staticVal),
         staticHash |-> ValueHash(s.registerVal), errHandlerHash |-> ValueHash(s.errpc),
         op |-> instr.op, stackVals |-> sp.items, auxStackVals |-> ap.items]

\* MachineState::marshalForProof, with the stack halves of
\* datastack::marshalForProof (SolidityProofValue).
MarshalForProof(s) ==
    LET instr == s.code[s.pc + 1]
        sp    == DS!MarshalForProof([values |-> s.stack, hashes |-> <<>>],
                                    ProofStackPops(instr.op)).proof
        ap    == DS!MarshalForProof([values |-> s.auxstack, hashes |-> <<>>],
                                    InstructionAuxStackPops(instr.op.opcode)).proof
    IN  [nextHash |-> instr.nextHash, baseStackHash |-> sp.base,
         baseAuxStackHash |-> ap.base, registerHash |-> ValueHash(s.registerVal),
         staticHash |-> ValueHash(s.staticVal), errHandlerHash |-> ValueHash(s.errpc),
         op |-> instr.op, stackVals |-> sp.items, auxStackVals |-> ap.items]

\* The verifier's reconstruction of the pre-step hash (spec 4.H).
VerifierPreStateHash(w) ==
    SixWords(CodePointHash(w.op, w.nextHash),
             DS!RebuildHash(w.baseStackHash, w.stackVals),
             DS!RebuildHash(w.baseAuxStackHash, w.auxStackVals),
             w.registerHash, w.staticHash, w.errHandlerHash)

-----------------------------------------------------------------------------
(* runOne and run.                                                         *)

\* The exceptions runOne catches and turns into the Error state.  Any
\* other, stack_too_small and int_out_of_bounds included, escapes run().
CaughtExceptions == {"bad_pop_type", "bad_tuple_index"}

PcInCode(s) == s.pc \in 0..(Len(s.code) - 1)

\* Machine::runOne: returns [st, ret, exc]; exc is what escapes to the
\* caller.  Reading code[pc] past the end of the code is undefined.
RunOne(s) ==
    CASE s.status = "Error"  -> [st |-> s, ret |-> -1, exc |-> "none"]
      [] s.status = "Halted" -> [st |-> [s EXCEPT !.stack = <<>>], ret |-> -2, exc |-> "none"]
      [] ~PcInCode(s)        -> [st |-> s, ret |-> 0, exc |-> "undefined_behaviour"]
      [] OTHER ->
         LET instr == s.code[s.pc + 1]
             s1    == IF HasImm(instr.op) THEN [s EXCEPT !.stack = Append(@, instr.op.imm[1])]
                      ELSE s
             r     == RunOp(s1, instr.op.opcode)
         IN  CASE r.exc = "none"             -> [st |-> r.st, ret |-> 0, exc |-> "none"]
               [] r.exc \in CaughtExceptions -> [st |-> [r.st EXCEPT !.status = "Error"],
                                                 ret |-> 0, exc |-> "none"]
               [] OTHER                      -> [st |-> r.st, ret |-> 0, exc |-> r.exc]

\* A faulty variant: a Blocked machine is not promoted to Extensive.
RunEntryMut(s, tb) ==
    [s EXCEPT !.context = [timeBounds |-> tb, logs |-> <<>>, outMessage |-> <<>>]]

\* Machine::run, entry: reset the context and promote Blocked to Extensive.
RunEntry(s, tb) ==
    [s EXCEPT !.context = [timeBounds |-> tb, logs |-> <<>>, outMessage |-> <<>>],
              !.status = IF @ = "Blocked" THEN "Extensive" ELSE @]

\* The loop's exit: i reached stepCount, the status stops it, or runOne
\* returned < 0.
LoopDone(s, l) ==
    l.broke \/ l.i >= l.stepCount \/ s.status \in {"Error", "Halted", "Blocked"}

\* Machine::run, exit: do not count a step that blocked, and on Error
\* resume pc at errpc when it is set (the status stays Error).
RunExit(s) ==
    IF s.status = "Error" /\ IsSet(s.errpc) THEN [s EXCEPT !.pc = s.errpc.pc] ELSE s

\* A faulty variant: a step that blocked is counted as executed.
StepsTakenMut(s, i) == i

StepsTaken(s, i) == IF s.status = "Blocked" THEN i - 1 ELSE i

-----------------------------------------------------------------------------
(* The specification.                                                      *)

NoAssertion == [numSteps |-> 0, outMessages |-> <<>>, logs |-> <<>>]

\* run()'s loop: its counter i, the stepCount it was given, whether runOne
\* returned < 0 (broke), and the hash of a machine that entered Blocked.
\* Ghost ledger: credited[t] is the currency of token t that
\* sendOnchainMessage has added to the balance; paid[t] that of the
\* messages run() has handed the embedder in its Assertions.
CurrencyOf(msgs, t) ==
    FoldLeft(LAMBDA acc, msg : acc + (IF msg.token = t THEN msg.currency ELSE 0), 0, msgs)

NotRunning == [active |-> FALSE, i |-> 0, stepCount |-> 0, broke |-> FALSE,
               startHash |-> <<>>, pre |-> EmptyMachine]

Init ==
    /\ \E ao \in Programs : m = Deserialize(ao) /\ hostFault = LoaderFault(ao)
    /\ lastAssertion = NoAssertion
    /\ received = <<>>
    /\ loop = NotRunning
    /\ credited = [t \in Tokens |-> 0]
    /\ paid = [t \in Tokens |-> 0]

\* Machine::run(stepCount, timeBoundStart, timeBoundEnd), its entry.
RunStart(stepCount, tb) ==
    /\ hostFault = "none"
    /\ ~loop.active
    /\ Len(m.stack) + Len(m.auxstack) <= MaxStack
    /\ m' = RunEntry(m, tb)
    /\ loop' = [active |-> TRUE, i |-> 0, stepCount |-> stepCount, broke |-> FALSE,
                startHash |-> IF m.status = "Blocked" THEN MachineHash(m) ELSE <<>>,
                pre |-> m]
    /\ UNCHANGED <<lastAssertion, hostFault, received, credited, paid>>

\* One iteration of run()'s loop: runOne, then i++ unless it returned < 0.
\* An exception that escapes runOne aborts run() without an Assertion.
RunStep ==
    /\ loop.active
    /\ ~LoopDone(m, loop)
    /\ LET r == RunOne(m)
       IN  /\ m' = r.st
           /\ hostFault' = r.exc
           /\ loop' = CASE r.exc # "none" -> NotRunning
                         [] r.ret < 0      -> [loop EXCEPT !.broke = TRUE]
                         [] OTHER          -> [loop EXCEPT !.i = @ + 1]
    /\ UNCHANGED <<lastAssertion, received, credited, paid>>

\* The loop has ended: run() fixes up the state and returns the Assertion.
RunEnd ==
    /\ loop.active
    /\ LoopDone(m, loop)
    /\ m' = RunExit(m)
    /\ lastAssertion' = [numSteps |-> StepsTaken(m, loop.i),
                         outMessages |-> m.context.outMessage, logs |-> m.context.logs]
    /\ loop' = NotRunning
    /\ paid' = [t \in Tokens |-> paid[t] + CurrencyOf(m.context.outMessage, t)]
    /\ UNCHANGED <<hostFault, received, credited>>

\* Machine::sendOnchainMessage(msg)
SendOnchain(msg) ==
    /\ hostFault = "none" /\ ~loop.active
    /\ Len(received) < MaxMessages
    /\ m' = SendOnchainMessage(m, msg)
    /\ received' = Append(received, msg)
    /\ credited' = [credited EXCEPT ![msg.token] = @ + msg.currency]
    /\ UNCHANGED <<lastAssertion, hostFault, loop, paid>>

\* Machine::deliverOnchainMessages()
DeliverOnchain ==
    /\ hostFault = "none" /\ ~loop.active
    /\ m' = DeliverOnchainMessages(m)
    /\ UNCHANGED <<lastAssertion, hostFault, received, loop, credited, paid>>

\* Machine::sendOffchainMessages(messages), the empty batch included.
SendOffchain(msgs) ==
    /\ hostFault = "none" /\ ~loop.active
    /\ Len(received) + Len(msgs) <= MaxMessages
    /\ m' = SendOffchainMessages(m, msgs)
    /\ received' = received \o msgs
    /\ UNCHANGED <<lastAssertion, hostFault, loop, credited, paid>>

Batches == UNION {[1..k -> Messages] : k \in 0..MaxMessages}

Next ==
    \/ \E n \in StepCounts, tb \in TimeBounds : RunStart(n, tb)
    \/ RunStep
    \/ RunEnd
    \/ \E msg \in Messages : SendOnchain(msg)
    \/ DeliverOnchain
    \/ \E msgs \in Batches : SendOffchain(msgs)

Spec == Init /\ [][Next]_vars

\* The embedder keeps calling run().
FairSpec == /\ Spec
            /\ WF_vars(\E n \in StepCounts, tb \in TimeBounds : RunStart(n, tb))
            /\ WF_vars(RunStep) /\ WF_vars(RunEnd)

-----------------------------------------------------------------------------
(* Properties.                                                             *)

Statuses == {"Extensive", "Blocked", "Halted", "Error"}

TypeOK ==
    /\ m.status \in Statuses
    /\ m.pc \in Nat
    /\ \A i \in DOMAIN m.stack : m.stack[i].type \in {NUM, CODEPT, TUPLE}
    /\ \A i \in DOMAIN m.auxstack : m.auxstack[i].type \in {NUM, CODEPT, TUPLE}
    /\ m.balance \in [Tokens -> Nat]
    /\ IsCodePoint(m.errpc)
    /\ IsTuple(m.inbox) /\ IsTuple(m.pendingInbox)
    /\ received \in Seq(Messages)
    /\ credited \in [Tokens -> Nat] /\ paid \in [Tokens -> Nat]
    /\ lastAssertion.numSteps \in Nat
    /\ hostFault \in {"none", "int_out_of_bounds", "runtime_error", "undefined_behaviour"}

\* A proof can be asked of the next step: the machine is running, pc is in
\* the code, the stacks hold the slots the signatures name, and an
\* immediate has a signature entry to drop.
ProofDefined(s) ==
    /\ s.status \in {"Extensive", "Blocked"}
    /\ PcInCode(s)
    /\ LET op == s.code[s.pc + 1].op
       IN  /\ HasImm(op) => StackPopCount(op.opcode) >= 1
           /\ Len(ProofStackPops(op)) <= Len(s.stack)
           /\ Len(InstructionAuxStackPops(op.opcode)) <= Len(s.auxstack)

(***************************************************************************)
(* Proof round trip (spec section 8): in every reachable running state the *)
(* witness marshalForProof emits lets the verifier rebuild the machine's   *)
(* hash: the code point from nextHash and the operation, each stack from   *)
(* its base hash and the popped values, the immediate excluded from the    *)
(* stack half because runOne pushes it only when the step starts.          *)
(***************************************************************************)
ProofRoundTrip ==
    (hostFault = "none" /\ ProofDefined(m)) =>
        VerifierPreStateHash(MarshalForProof(m)) = MachineHash(m)

(***************************************************************************)
(* A step stays within its proof (spec 4.H): when a step that a proof can  *)
(* be made for does not end in Error, every slot of either stack below the *)
(* ones the proof's signature pops is left as it was, so the verifier can  *)
(* rebuild the post-state from baseStackHash and the values it re-executes *)
(* on.  A handler that reads or writes deeper than its signature, or a     *)
(* signature that drops the immediate's slot when there is none, breaks it.*)
(***************************************************************************)
ProofCoversStepFootprint ==
    [][(RunStep /\ ProofDefined(m) /\ m'.status # "Error") =>
         LET op   == m.code[m.pc + 1].op
             keep == Len(m.stack) - Len(ProofStackPops(op))
             keepAux == Len(m.auxstack) - Len(InstructionAuxStackPops(op.opcode))
         IN  /\ Len(m'.stack) >= keep
             /\ SubSeq(m'.stack, 1, keep) = SubSeq(m.stack, 1, keep)
             /\ Len(m'.auxstack) >= keepAux
             /\ SubSeq(m'.auxstack, 1, keepAux) = SubSeq(m.auxstack, 1, keepAux)]_vars

(***************************************************************************)
(* No exception or undefined behaviour reaches the embedder: every failure *)
(* of the program ends in the machine's Error state (spec section 7a), and *)
(* run() never reads code[pc] outside the code.                            *)
(***************************************************************************)
HostNeverFaults == hostFault = "none"

(***************************************************************************)
(* A witness can be asked for in every running state (spec section 2 and  *)
(* scenario 5: "at any time marshalForProof() gives the witness for the    *)
(* next step"): when pc is in the code and the operation carries an       *)
(* immediate, its stack-pop signature has a first entry for               *)
(* marshalForProof to erase.  NOP (the compiler's push) and every other   *)
(* opcode that pops nothing leave erase(begin()) on an empty vector.      *)
(***************************************************************************)
ProofWitnessDefined ==
    (hostFault = "none" /\ m.status \in {"Extensive", "Blocked"} /\ PcInCode(m)) =>
        LET op == m.code[m.pc + 1].op
        IN  HasImm(op) => InstructionStackPops(op.opcode) # <<>>

(***************************************************************************)
(* Currency is conserved across the embedder's calls (spec 4.F and 4.J):  *)
(* whenever no run() is in progress, the balance of each token plus what   *)
(* the Assertions have handed out equals what sendOnchainMessage credited. *)
(* send and nbsend must debit exactly the messages they append to the     *)
(* context, and run() must hand over, and then reset, that context once;  *)
(* a run() that an exception aborts hands over nothing it has debited.    *)
(***************************************************************************)
TokensConserved ==
    ~loop.active =>
        \A t \in Tokens : m.balance[t] + paid[t] = credited[t]

\* The main stack as the handler sees it: with the immediate pushed.
StepStack(s) ==
    IF HasImm(s.code[s.pc + 1].op) THEN Append(s.stack, s.code[s.pc + 1].op.imm[1])
    ELSE s.stack

\* The next step is a TGET or TSET whose index is past the end of its tuple.
TupleIndexOutOfRange(s) ==
    /\ s.status = "Extensive"
    /\ PcInCode(s)
    /\ s.code[s.pc + 1].op.opcode \in {"TGET", "TSET"}
    /\ LET st == StepStack(s)
       IN  /\ Len(st) >= 2
           /\ IsNum(At(st, 0)) /\ IsTuple(At(st, 1))
           /\ At(st, 0).val >= Len(At(st, 1).elems)

(***************************************************************************)
(* Tuple bounds (spec 4.E and 7a): a TGET or TSET whose index is not below *)
(* the tuple's size ends the step in Error (bad_tuple_index, caught by     *)
(* runOne), whatever the index's width.                                    *)
(***************************************************************************)
OutOfRangeIndexIsError ==
    [][(RunStep /\ TupleIndexOutOfRange(m)) => m'.status = "Error"]_vars

\* The messages of a batch (tag-0 cons list), oldest first.
RECURSIVE BatchMessages(_)
BatchMessages(t) ==
    IF t = EmptyTuple THEN <<>> ELSE BatchMessages(t.elems[2]) \o <<t.elems[3]>>

\* The messages of the inbox (tag-1 cons list of batches), oldest first.
RECURSIVE InboxMessages(_)
InboxMessages(t) ==
    IF t = EmptyTuple THEN <<>> ELSE InboxMessages(t.elems[2]) \o BatchMessages(t.elems[3])

(***************************************************************************)
(* Every message the embedder handed over, on chain or off chain, is in    *)
(* exactly one place, the inbox or the pending tuple, and nowhere twice,   *)
(* however sendOnchainMessage, deliverOnchainMessages and                  *)
(* sendOffchainMessages interleave.                                        *)
(***************************************************************************)
InboxHoldsEveryMessageOnce ==
    ToBag(InboxMessages(m.inbox) \o BatchMessages(m.pendingInbox))
        = ToBag([i \in DOMAIN received |-> MessageValue(received[i])])

\* v is the inbox ib or one it grew from.
RECURSIVE EarlierInbox(_, _)
EarlierInbox(v, ib) == v = ib \/ (ib # EmptyTuple /\ EarlierInbox(v, ib.elems[2]))

(***************************************************************************)
(* INBOX waits for new messages (spec 4.E: "if it equals the current inbox,*)
(* enter Blocked (re-try when more messages arrive)"): when a program      *)
(* hands INBOX the inbox it last read, or one before it, and the opcode    *)
(* completes, the inbox it gets holds more messages than that one.  An     *)
(* empty off-chain batch, or deliverOnchainMessages with nothing pending,  *)
(* must leave the inbox as it is, or the program wakes on no message.      *)
(***************************************************************************)
InboxReturnsOnlyNewMessages ==
    [][(/\ RunStep
        /\ m.code[m.pc + 1].op.opcode = "INBOX"
        /\ m'.status # "Error"
        /\ m'.pc = m.pc + 1
        /\ EarlierInbox(Last(StepStack(m)), m.inbox))
       => Len(InboxMessages(Last(m'.stack))) > Len(InboxMessages(Last(StepStack(m))))]_vars

(***************************************************************************)
(* Blocked retry (spec sections 5 and 8): a run() that starts Blocked and   *)
(* blocks again without executing a step leaves the machine as it was: the *)
(* blocking opcode is simply retried, so the state hash does not change.   *)
(***************************************************************************)
BlockedRetryIsIdempotent ==
    [][(/\ RunEnd
        /\ loop.startHash # <<>>
        /\ m'.status = "Blocked"
        /\ lastAssertion'.numSteps = 0)
       => MachineHash(m') = loop.startHash]_vars

(***************************************************************************)
(* Error handler (spec section 7a and scenario 2): once a step ends in     *)
(* Error while errpc is set, a later run() resumes at the handler, so the  *)
(* machine eventually leaves the Error state.                              *)
(***************************************************************************)
ErrorHandlerResumes ==
    (m.status = "Error" /\ IsSet(m.errpc)) ~> (m.status # "Error")


\* The blocking opcode at pc would complete if it ran now: INBOX's operand
\* is no longer the inbox, or SEND's message decodes and is covered.
ReadyToResume(s) ==
    LET op  == s.code[s.pc + 1].op.opcode
        stk == StepStack(s)
        top == stk[Len(stk)]
    IN  /\ stk # <<>>
        /\ \/ op = "INBOX" /\ top # s.inbox
           \/ op = "SEND" /\ DecodesAsMessage(top) /\ CanSpend(s.balance, DecodeMessage(top))

(***************************************************************************)
(* Blocked is a cooperative pause (spec 5 and the Blocked-retry property   *)
(* of section 8): once the condition a blocked INBOX or SEND waits on is  *)
(* met (a new inbox, or enough balance), the retried opcode completes and *)
(* the machine leaves Blocked.  run() must promote Blocked to Extensive    *)
(* before its loop's status check, and the handlers must re-read the      *)
(* inbox and the balance on every retry.                                  *)
(***************************************************************************)
BlockedResumesWhenReady ==
    (hostFault = "none" /\ ~loop.active /\ m.status = "Blocked" /\ ReadyToResume(m))
        ~> (m.status # "Blocked")


-----------------------------------------------------------------------------
(***************************************************************************)
(* Refinement of the atomic run() of spec 4.F.  While run() is in its loop *)
(* the abstract machine is still the one the call started from (the ghost  *)
(* loop.pre); RunStart and every RunStep that does not throw are stutter   *)
(* steps, and RunEnd, or a RunStep that throws, is the one abstract call.  *)
(***************************************************************************)
MessageCalls(s) ==
    {SendOnchainMessage(s, msg) : msg \in Messages}
    \cup {DeliverOnchainMessages(s)}
    \cup {SendOffchainMessages(s, msgs) : msgs \in Batches}

Atomic == INSTANCE AtomicRun
              WITH mach <- IF loop.active THEN loop.pre ELSE m,
                   assertion <- lastAssertion,
                   fault <- hostFault,
                   Loaded <- {<<Deserialize(ao), LoaderFault(ao)>> : ao \in Programs},
                   Step <- RunOne,
                   Calls <- MessageCalls

(***************************************************************************)
(* run() split into entry, one action per loop iteration and exit, with    *)
(* its counter i, the i-- after a blocked step and the errpc resume, does  *)
(* what the single call of spec 4.F does: the same post-state, the same    *)
(* numSteps ("steps actually executed"), messages and logs, and the same   *)
(* escaping exceptions.                                                    *)
(***************************************************************************)
RefinesAtomicRun == Atomic!Spec

=============================================================================
