------------------------ MODULE MCIdempotentMutation ------------------------
(* Small instances of IdempotentMutation for TLC.                          *)
EXTENDS IdempotentMutation

CONSTANTS p1, p2, sT, sC, red, blue

Req(s, k, b) == [slot |-> s, kind |-> k, body |-> b, spelling |-> "plain"]
Respelled(r) == [r EXCEPT !.spelling = "respelled"]

\* One key on the tenant route, used with two labels and in two spellings, and
\* one key on the credential route; requests without a key compete for the
\* label.
MixedRequests ==
    {Req(sT, "tenant", red), Respelled(Req(sT, "tenant", red)), Req(sT, "tenant", blue),
     Req(NoSlot, "tenant", red), Req(sC, "credential", red)}
==============================================================================
