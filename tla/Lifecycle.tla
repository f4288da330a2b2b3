------------------------------ MODULE Lifecycle ------------------------------
(***************************************************************************)
(* What a connection promises, seen from outside: its stages, how many     *)
(* requests it serves, what reaches the access log and the counter of open *)
(* connections.  Connection.tla implements it.                             *)
(***************************************************************************)
EXTENDS Integers

CONSTANT MaxRequests        \* answered requests after which keep-alive ends

VARIABLES
    stage,                  \* free, request, response, failed, linger
    requests,               \* requests begun on this connection
    logged,                 \* is the last of them in the access log?
    open                    \* open connections

vars == <<stage, requests, logged, open>>

Init == stage = "free" /\ requests = 0 /\ logged = 0 /\ open = 0

Accepted ==
    /\ stage = "free" /\ stage' = "request"
    /\ requests' = 0 /\ open' = open + 1
    /\ UNCHANGED logged

\* a request begins only when the one before it is in the log
Begin ==
    /\ stage = "request" /\ (requests = 0 \/ logged = 1)
    /\ requests <= MaxRequests
    /\ requests' = requests + 1 /\ logged' = 0
    /\ UNCHANGED <<stage, open>>

Answer ==
    /\ stage = "request" /\ requests > 0 /\ logged = 0
    /\ stage' = "response"
    /\ UNCHANGED <<requests, logged, open>>

\* the counter is corrected when the server has sent its last byte, not when
\* it gives the descriptor back
Leave ==
    /\ stage' \in {"linger", "free"} /\ open' = open - 1
    /\ requests' = IF stage' = "free" THEN 0 ELSE requests

Finish ==
    /\ stage = "response" /\ logged = 0 /\ logged' = 1
    /\ \/ /\ requests <= MaxRequests
          /\ stage' = "request" /\ UNCHANGED <<requests, open>>
       \/ Leave

Fail ==
    /\ stage \in {"request", "response"} /\ requests > 0 /\ logged = 0
    /\ stage' = "failed"
    /\ UNCHANGED <<requests, logged, open>>

GiveUp == stage = "failed" /\ logged = 0 /\ logged' \in {0, 1} /\ Leave

Release ==
    /\ stage = "linger" /\ stage' = "free" /\ requests' = 0
    /\ UNCHANGED <<logged, open>>

Next == Accepted \/ Begin \/ Answer \/ Finish \/ Fail \/ GiveUp \/ Release

Spec == Init /\ [][Next]_vars
=============================================================================
