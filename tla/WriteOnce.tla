------------------------------ MODULE WriteOnce ------------------------------
(***************************************************************************)
(* What the idempotency convention of platform-api promises to a client    *)
(* that sends a key: whatever it retries, submits twice or gives up on,    *)
(* its request takes effect at most once, and every success it is told of  *)
(* is that one effect.  A request without a key promises nothing of the    *)
(* sort.  This is the abstract specification; PerformWrite refines it.     *)
(***************************************************************************)
CONSTANTS Attempts, Keys, Requests, Null

VARIABLES
    call,       \* what each attempt asked: [key, request], or Null
    effects,    \* the attempts whose write has landed
    answer      \* Null, "failed", "reused", or the attempt whose answer it is

vars == <<call, effects, answer>>

Call == [key : Keys \cup {Null}, request : Requests]

Init ==
    /\ call = [a \in Attempts |-> Null]
    /\ effects = {}
    /\ answer = [a \in Attempts |-> Null]

Ask(a) ==
    /\ call[a] = Null
    /\ \E c \in Call : call' = [call EXCEPT ![a] = c]
    /\ UNCHANGED <<effects, answer>>

\* The attempts whose effect stands for the key of attempt a.
Landed(a) == {b \in effects : call[b].key = call[a].key}

\* The write lands, with its answer or after the client has given up.
Land(a) ==
    /\ call[a] # Null
    /\ a \notin effects
    /\ call[a].key # Null => Landed(a) = {}
    /\ effects' = effects \cup {a}
    /\ \/ answer[a] = Null /\ answer' = [answer EXCEPT ![a] = a]
       \/ answer[a] = "failed" /\ UNCHANGED answer
    /\ UNCHANGED call

\* An earlier effect of the key is the answer, to the same request only.
Replay(a) ==
    /\ call[a] # Null
    /\ call[a].key # Null
    /\ answer[a] = Null
    /\ \E b \in Landed(a) :
          answer' = [answer EXCEPT ![a] =
              IF call[b].request = call[a].request THEN b ELSE "reused"]
    /\ UNCHANGED <<call, effects>>

Fail(a) ==
    /\ call[a] # Null
    /\ answer[a] = Null
    /\ answer' = [answer EXCEPT ![a] = "failed"]
    /\ UNCHANGED <<call, effects>>

Next == \E a \in Attempts : Ask(a) \/ Land(a) \/ Replay(a) \/ Fail(a)

Spec == Init /\ [][Next]_vars
=============================================================================
