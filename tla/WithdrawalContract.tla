------------------------- MODULE WithdrawalContract -------------------------
(***************************************************************************)
(* What a withdrawal promises its owner, whatever handlers, webhooks and   *)
(* admins do to keep the promise: the amount leaves Savings when the       *)
(* withdrawal is requested, and from then on it is either paid out once or *)
(* put back once, never both.                                              *)
(***************************************************************************)
EXTENDS Integers

CONSTANTS Users, Withdrawals, Amounts, Channels, InitialSavings

VARIABLES request, savings, outcome

Init ==
    /\ request \in [Withdrawals -> [user: Users, amount: Amounts, channel: Channels]]
    /\ savings = [u \in Users |-> InitialSavings]
    /\ outcome = [w \in Withdrawals |-> "none"]

Becomes(w, from, to) ==
    outcome[w] = from /\ outcome' = [outcome EXCEPT ![w] = to]

Reserve(w) ==
    /\ Becomes(w, "none", "reserved")
    /\ savings[request[w].user] >= request[w].amount
    /\ savings' = [savings EXCEPT ![request[w].user] = @ - request[w].amount]
    /\ UNCHANGED request

Pay(w) == Becomes(w, "reserved", "paid") /\ UNCHANGED <<request, savings>>

Refund(w) ==
    /\ Becomes(w, "reserved", "refunded")
    /\ savings' = [savings EXCEPT ![request[w].user] = @ + request[w].amount]
    /\ UNCHANGED request

Next == \E w \in Withdrawals : Reserve(w) \/ Pay(w) \/ Refund(w)

Spec == Init /\ [][Next]_<<request, savings, outcome>>
=============================================================================
