---------------------------- MODULE Provisioning ----------------------------
(***************************************************************************)
(* One trading account in its two places: Postgres (accounts.balance) and  *)
(* the engine's book.  Deposits change the first and are pushed to the     *)
(* second; trades change the second only; the page sends every balance it  *)
(* reads from /auth/me to the engine (page.tsx, the effect that            *)
(* provisions).  The engine takes a caller's balance when the book is      *)
(* flat (engine_service.rs create_account), in whatever order calls come.  *)
(***************************************************************************)
EXTENDS Integers

CONSTANTS
    Deposits,     \* bound: deposits credited
    Trades,       \* bound: trades opened
    PageLoads     \* bound: page loads and refreshes of the balances

VARIABLES
    ledger,       \* accounts.balance
    bookBalance,  \* the engine's balance, -1 if there is no book
    inFlight,     \* a position or an option is open
    shownBalance, \* user.accounts[].balance, -1 before the first answer
    reads,        \* answers of /auth/me on their way
    syncs,        \* balances on their way to the engine
    realised,     \* ghost: what trading has added, or taken
    irregular,    \* what has happened that the properties depend on
    spent         \* [deposits, trades, loads] so far

engineBook == <<bookBalance, inFlight, realised>>
provisioningVars == <<ledger, engineBook, shownBalance, reads, syncs, irregular, spent>>

Tally(what, bound) == spent[what] < bound /\ spent' = [spent EXCEPT ![what] = @ + 1]

Init ==
    /\ ledger = 0 /\ bookBalance = -1 /\ inFlight = FALSE
    /\ shownBalance = -1 /\ reads = {} /\ syncs = {}
    /\ realised = 0 /\ irregular = {}
    /\ spent = [deposits |-> 0, trades |-> 0, loads |-> 0]

\* creditDeposit: Postgres first, then syncEngineBalance, whose failure is
\* only logged.
Deposit ==
    /\ Tally("deposits", Deposits)
    /\ ledger' = ledger + 1
    /\ \E pushed \in BOOLEAN : syncs' = IF pushed THEN syncs \cup {ledger + 1} ELSE syncs
    /\ UNCHANGED <<engineBook, shownBalance, reads, irregular>>

\* A sign-in, a page load, refreshBalances after a trade or a sheet.
ReadBalances ==
    /\ Tally("loads", PageLoads)
    /\ reads' = reads \cup {ledger}
    /\ UNCHANGED <<ledger, engineBook, shownBalance, syncs, irregular>>

\* A slip: the effect runs for the first user object only.
ProvisionFirst(balance) == IF shownBalance = -1 THEN {balance} ELSE {}
\* Every new user object is provisioned: its accounts, with their balances.
ProvisionCalls(balance) == {balance}

BalancesRead(balance) ==
    /\ reads' = reads \ {balance}
    /\ shownBalance' = balance
    /\ syncs' = syncs \cup ProvisionCalls(balance)
    /\ UNCHANGED <<ledger, engineBook, irregular, spent>>

\* create_account: the book is made, or synced when nothing is in flight.
Synced(balance) == IF bookBalance = -1 \/ ~ inFlight THEN balance ELSE bookBalance

SyncArrives(balance) ==
    /\ bookBalance' = Synced(balance)
    /\ syncs' = syncs \ {balance}
    /\ irregular' = irregular \cup (IF balance # ledger THEN {"stale_sync"} ELSE {})
                              \cup (IF inFlight THEN {"sync_in_flight"} ELSE {})
    /\ UNCHANGED <<ledger, inFlight, realised, shownBalance, reads, spent>>

\* open_cfd: its margin leaves the balance as it is.
OpenTrade ==
    /\ bookBalance > 0 /\ ~ inFlight
    /\ Tally("trades", Trades)
    /\ inFlight' = TRUE
    /\ UNCHANGED <<ledger, bookBalance, realised, shownBalance, reads, syncs, irregular>>

\* close_cfd, with a profit or a loss of 1 or at its entry.
CloseTrade ==
    /\ inFlight /\ inFlight' = FALSE
    /\ \E pnl \in {-1, 0, 1} :
          /\ bookBalance' = bookBalance + pnl
          /\ realised' = realised + pnl
          /\ irregular' = irregular \cup (IF pnl # 0 THEN {"realised"} ELSE {})
    /\ UNCHANGED <<ledger, shownBalance, reads, syncs, spent>>

Next ==
    \/ Deposit \/ ReadBalances \/ OpenTrade \/ CloseTrade
    \/ \E balance \in reads : BalancesRead(balance)
    \/ \E balance \in syncs : SyncArrives(balance)

Spec == Init /\ [][Next]_provisioningVars

-----------------------------------------------------------------------------
(* Properties. *)

TypeOK ==
    /\ ledger \in 0..Deposits /\ bookBalance \in -1..(Deposits + Trades)
    /\ inFlight \in BOOLEAN /\ shownBalance \in -1..Deposits
    /\ reads \subseteq 0..Deposits /\ syncs \subseteq 0..Deposits
    /\ realised \in -Trades..Trades
    /\ irregular \subseteq {"stale_sync", "sync_in_flight", "realised"}
    /\ spent \in [deposits: 0..Deposits, trades: 0..Trades, loads: 0..PageLoads]

\* A push of a deposit that was lost is made good by the page: when it shows
\* the balance Postgres has and its calls have arrived, the engine has that
\* balance too, unless an older balance arrived after a newer one, a trade
\* was open, or trading has changed the book ("the user's next page load
\* will reconcile", monitor.go:254; page.tsx).
ShownIsTradeable ==
    (shownBalance = ledger /\ syncs = {} /\ irregular = {})
        => bookBalance = ledger

\* The comment in create_account: "in both cases the caller has the
\* authoritative Postgres balance"; so a sync never takes away what was
\* realised by trading.
RealisedKept == bookBalance # -1 => bookBalance >= realised
=============================================================================
