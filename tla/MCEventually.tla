---------------------------- MODULE MCEventually ----------------------------
(***************************************************************************)
(* Small instances of the components of Eventually for TLC.                *)
(***************************************************************************)
EXTENDS Eventually

(* Staking: two ids with one email; an algorithm with limits, one paused.   *)

CONSTANTS ann, bob

MCVisitors   == {[id |-> ann, email |-> "mail"], [id |-> bob, email |-> "mail"]}
MCAlgorithms == {[status |-> "ACTIVE", min |-> 2, max |-> 3], [status |-> "PAUSED", min |-> 1, max |-> 0]}

(* Deposits: two that the cap of 4 does not allow together.                 *)

CONSTANTS d1, d2

MCDollars == [r \in {d1, d2} |-> IF r = d1 THEN 2 ELSE 3]

(* AccountView: an account with an option, one without.                     *)

CONSTANTS a1, a2, o1

MCBought == [a \in {a1, a2} |-> IF a = a1 THEN {o1} ELSE {}]

(* Transfers: two requests, with one key or none, into Savings, out of it   *)
(* and between a standard account and a scaled one; positions withhold      *)
(* nothing or all.                                                          *)

CONSTANTS std, cent, key

Ask(f, t, n, k) == [from |-> f, to |-> t, amount |-> n, key |-> k]

MCRequests == {Ask(Savings, cent, 2, key), Ask(std, Savings, 1, key), Ask(std, cent, 1, NoKey)}
MCUnits    == [l \in Accounts \cup {Savings} |-> IF l = cent THEN 2 ELSE 1]
MCPositions == [a \in Accounts |-> {[withheld |-> 0, realised |-> 0], [withheld |-> 8, realised |-> 0]}]
MCFunds    == [l \in Accounts \cup {Savings} |-> IF l = cent THEN 4 ELSE 2]

(* Withdrawals: two of one wallet, two providers of which the first sends   *)
(* settlement events; handlers run to their end.                            *)

CONSTANTS alice

MCFirst == [w \in Withdrawals |-> [user |-> alice, amount |-> 1, channel |-> "usdt"]]

-----------------------------------------------------------------------------

\* Only the component in focus starts in any of its states.
MCInit ==
    /\ EventuallyInit
    /\ focus # "payout" => wRequest = MCFirst
    /\ focus # "transfer" => tRequest = [t \in Transfers |-> Ask(std, cent, 1, NoKey)]

MCSpec == MCInit /\ [][EventuallyNext]_allVars /\ EventuallyFairness
=============================================================================
