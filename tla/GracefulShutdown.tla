--------------------------- MODULE GracefulShutdown ---------------------------
(***************************************************************************)
(* What a stopping server promises, without requests, semaphores or        *)
(* databases: it is withdrawn from traffic before it stops accepting, and  *)
(* the connection pool is closed under nobody.  Only a failure of the      *)
(* server itself, or the kernel, ends connections that are open.           *)
(***************************************************************************)
CONSTANT Clients    \* whoever may have a connection open

VARIABLES
    stage,  \* of the process
    open,   \* clients with an open connection
    pool    \* the database connections: "open" or "closed"

gvars == <<stage, open, pool>>

Stages == {"off", "ready", "unready", "closed", "down", "failed"}

Init == stage = "off" /\ open = {} /\ pool = "closed"

Boot == stage = "off" /\ stage' = "ready" /\ pool' = "open" /\ UNCHANGED open

Accept(c) ==
    /\ stage \in {"ready", "unready"}
    /\ c \notin open
    /\ open' = open \cup {c}
    /\ UNCHANGED <<stage, pool>>

HangUp(c) == c \in open /\ open' = open \ {c} /\ UNCHANGED <<stage, pool>>

\* Readiness goes first, then the listener, then the wait for the connections.
Withdraw      == stage = "ready" /\ stage' = "unready" /\ UNCHANGED <<open, pool>>
CloseListener == stage = "unready" /\ stage' = "closed" /\ UNCHANGED <<open, pool>>
Drained       == stage = "closed" /\ open = {} /\ stage' = "down" /\ UNCHANGED <<open, pool>>

Fail == stage = "ready" /\ stage' = "failed" /\ UNCHANGED <<open, pool>>

ReleasePool == stage \in {"down", "failed"} /\ pool' = "closed" /\ UNCHANGED <<stage, open>>

Exit == pool = "closed" /\ stage' = "off" /\ open' = {} /\ UNCHANGED pool

Kill == stage # "off" /\ stage' = "off" /\ open' = {} /\ pool' = "closed"

Next ==
    \/ Boot \/ Withdraw \/ CloseListener \/ Drained \/ Fail
    \/ ReleasePool \/ Exit \/ Kill
    \/ \E c \in Clients : Accept(c) \/ HangUp(c)

Spec == Init /\ [][Next]_gvars
===============================================================================
