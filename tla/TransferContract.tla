--------------------------- MODULE TransferContract ---------------------------
(***************************************************************************)
(* What an internal transfer promises, however many calls and services it  *)
(* takes: the amount leaves the source once, and from then on it reaches   *)
(* the destination, converted, or comes back to the source, never both.    *)
(***************************************************************************)
EXTENDS Integers

CONSTANTS Transfers, Requests, Legs, Scale, Initial

VARIABLES request, balance, phase

Converted(r) == (r.amount * Scale[r.to]) \div Scale[r.from]

Init ==
    /\ request \in [Transfers -> Requests]
    /\ balance = Initial
    /\ phase = [t \in Transfers |-> "none"]

Becomes(t, from, to) ==
    phase[t] = from /\ phase' = [phase EXCEPT ![t] = to] /\ UNCHANGED request

Take(t) ==
    /\ Becomes(t, "none", "taken")
    /\ balance' = [balance EXCEPT ![request[t].from] = @ - request[t].amount]

Give(t) ==
    /\ Becomes(t, "taken", "given")
    /\ balance' = [balance EXCEPT ![request[t].to] = @ + Converted(request[t])]

Return(t) ==
    /\ Becomes(t, "taken", "returned")
    /\ balance' = [balance EXCEPT ![request[t].from] = @ + request[t].amount]

Next == \E t \in Transfers : Take(t) \/ Give(t) \/ Return(t)

Spec == Init /\ [][Next]_<<request, balance, phase>>
=============================================================================
