---------------------------- MODULE LoopThread ----------------------------
(***************************************************************************)
(* The thread an agent run lives on.  A tool call that needs approval      *)
(* waits for a client's answer in decide, inside its own poll: the thread  *)
(* blocks, so neither the select of the serial loop nor the one of a batch *)
(* looks at the token, and no other call of the batch makes progress.      *)
(* Which calls need approval is policy: any may.  A call asks at most      *)
(* once; a delegation, whose calls ask one by one, is a long question here *)
(* (Delegation has them all).                                              *)
(***************************************************************************)
EXTENDS AgentLoop

VARIABLES
    asking,      \* does a call wait for an answer inside its poll?
    asked        \* the calls of the step that have asked

threadVars == <<loopVars, asking, asked>>

ThreadInit == LoopInit /\ asking = FALSE /\ asked = {}

(* The calls the loop polls: the one of its turn, unless the token is seen *)
(* first (its select is biased), or all that have no output yet.           *)
Polled ==
    IF pc = "serial" THEN {n \in {next} : ~cancelled /\ batch[n].kind # "malformed"}
    ELSE IF pc = "inflight" THEN DOMAIN batch \ slots
    ELSE {}

(* decide, up to rx.recv.                                                  *)
Ask(n) ==
    /\ ~asking
    /\ n \in Polled \ asked
    /\ asking' = TRUE
    /\ asked' = asked \cup {n}
    /\ UNCHANGED loopVars

(* respond: somebody answered, and the poll goes on.                       *)
Respond ==
    /\ asking
    /\ asking' = FALSE
    /\ UNCHANGED <<loopVars, asked>>

(* The token may be cancelled meanwhile; nobody looks at it.               *)
CancelUnseen ==
    /\ asking
    /\ CancelToken
    /\ UNCHANGED <<asking, asked>>

(* The loop moves only while its thread is not blocked.                    *)
Moves ==
    /\ ~asking
    /\ asked' = IF pc' = pc THEN asked ELSE {}
    /\ UNCHANGED asking

Run == LoopNext /\ Moves

ThreadNext ==
    \/ Run \/ Respond \/ CancelUnseen
    \/ \E n \in DOMAIN batch : Ask(n)

(* The executor polls the loop whenever its thread is not blocked; tools,  *)
(* providers and clients may be silent for ever.                           *)
ThreadSpec == ThreadInit /\ [][ThreadNext]_threadVars /\ WF_threadVars(LoopStep /\ Moves)

-----------------------------------------------------------------------------
(* CancelStops: a cancelled run returns, even if the provider never        *)
(* answers and no tool ever finishes, provided every approval it asks for  *)
(* is answered: nothing wakes a thread that waits in decide.               *)
CancelStops == []<>~asking => (cancelled ~> pc = "returned")
=============================================================================
