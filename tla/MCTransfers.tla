----------------------------- MODULE MCTransfers -----------------------------
(***************************************************************************)
(* Small instances of Transfers for TLC: a Savings wallet, a standard      *)
(* account `std' and a scaled one `cent', of which two units are worth one *)
(* unit of the others.                                                     *)
(***************************************************************************)
EXTENDS Transfers, TLC

CONSTANTS std, cent, k1, k2

Ask(f, t, n, k) == [from |-> f, to |-> t, amount |-> n, key |-> k]

MCScale   == [l \in Legs |-> IF l = cent THEN 2 ELSE 1]
MCInitial == [l \in Legs |-> IF l = cent THEN 4 ELSE 2]

InRequests     == {Ask(Savings, std, 1, k1), Ask(Savings, cent, 2, k1)}
OutRequests    == {Ask(cent, Savings, 2, NoKey), Ask(std, Savings, 2, k2)}
AcrossRequests == {Ask(std, cent, 1, k1), Ask(cent, std, 4, k2)}
AllRequests    == InRequests \cup OutRequests \cup AcrossRequests
Tap            == {Ask(std, cent, 1, k1)}

At(m, p) == [withheld |-> m, realised |-> p]

\* Nothing is open; the unrealised profit exceeds the margin; all is used after
\* a loss of more than std had, or a gain of cent.
Busy == [a \in Accounts |->
    IF a = std THEN {At(0, 0), At(-1, 0), At(4, -4)} ELSE {At(0, 0), At(8, 1)}]
Flat      == [a \in Accounts |-> {At(0, 0)}]
FullyUsed == [a \in Accounts |-> {At(0, 0), At(8, 0)}]

\* Requests arrive in any order, so which of them is which does not matter.
Alike == Permutations(Transfers)
=============================================================================
