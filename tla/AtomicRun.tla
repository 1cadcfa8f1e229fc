----------------------------- MODULE AtomicRun -----------------------------
(***************************************************************************)
(* run(stepCount, tStart, tEnd) as spec 4.F describes it: one atomic call  *)
(* that resets the assertion context, promotes Blocked, executes steps     *)
(* until stepCount is spent or the status stops it, counts the steps that  *)
(* did not block, moves pc to a set errpc after an Error, and returns the  *)
(* Assertion.  An exception that escapes a step aborts the call with no    *)
(* Assertion.  Between calls the embedder may make any message call.       *)
(*                                                                         *)
(* One step and the message calls are parameters, so that the detailed     *)
(* model of the machine can supply its own.                                *)
(***************************************************************************)
EXTENDS Naturals, Sequences

CONSTANTS
    Loaded,        \* the <<machine, fault>> pairs the loader can leave
    Step(_),       \* one step: [st |-> machine, exc |-> exception or "none"]
    Calls(_),      \* the machines the embedder's message calls can lead to
    IsSet(_),      \* whether a code point is set
    StepCounts,
    TimeBounds

VARIABLES mach, assertion, fault

vars == <<mach, assertion, fault>>

NoAssertion == [numSteps |-> 0, outMessages |-> <<>>, logs |-> <<>>]

Stopped(s) == s.status \in {"Error", "Halted", "Blocked"}

\* Up to k steps from s; done counts the steps that completed.
RECURSIVE Steps(_, _, _)
Steps(s, k, done) ==
    IF k = 0 \/ Stopped(s) THEN [st |-> s, done |-> done, exc |-> "none"]
    ELSE LET r == Step(s)
         IN  IF r.exc # "none" THEN [st |-> r.st, done |-> done, exc |-> r.exc]
             ELSE Steps(r.st, k - 1, IF r.st.status = "Blocked" THEN done ELSE done + 1)

Entered(s, tb) ==
    [s EXCEPT !.context = [timeBounds |-> tb, logs |-> <<>>, outMessage |-> <<>>],
              !.status = IF @ = "Blocked" THEN "Extensive" ELSE @]

Resumed(s) == IF s.status = "Error" /\ IsSet(s.errpc) THEN [s EXCEPT !.pc = s.errpc.pc] ELSE s

Init ==
    /\ <<mach, fault>> \in Loaded
    /\ assertion = NoAssertion

\* run() returns its Assertion.
Run(n, tb) ==
    LET r == Steps(Entered(mach, tb), n, 0)
    IN  /\ fault = "none"
        /\ r.exc = "none"
        /\ mach' = Resumed(r.st)
        /\ assertion' = [numSteps |-> r.done, outMessages |-> r.st.context.outMessage,
                         logs |-> r.st.context.logs]
        /\ UNCHANGED fault

\* run() is aborted by an exception a step lets escape.
RunAborted(n, tb) ==
    LET r == Steps(Entered(mach, tb), n, 0)
    IN  /\ fault = "none"
        /\ r.exc # "none"
        /\ mach' = r.st
        /\ fault' = r.exc
        /\ UNCHANGED assertion

Call ==
    /\ fault = "none"
    /\ mach' \in Calls(mach)
    /\ UNCHANGED <<assertion, fault>>

Next ==
    \/ \E n \in StepCounts, tb \in TimeBounds : Run(n, tb) \/ RunAborted(n, tb)
    \/ Call

Spec == Init /\ [][Next]_vars

=============================================================================
