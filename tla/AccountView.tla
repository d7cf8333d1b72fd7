---------------------------- MODULE AccountView ----------------------------
(***************************************************************************)
(* What the trading page knows of the account it shows (useAccount.ts,     *)
(* useTicks.ts): the engine's state arrives over a WebSocket that pushes   *)
(* it and over HTTP fetches, and both are applied to the same React state  *)
(* and refs.  The engine tells nobody how an option ended: the page        *)
(* compares each state with the one before, writes down the options that   *)
(* are gone, and reads win or loss off the balance.                        *)
(*                                                                         *)
(* A fetch or a push takes its data from the engine when it is served and  *)
(* is applied when it arrives, whatever account is selected by then.       *)
(***************************************************************************)
EXTENDS Integers, FiniteSets

CONSTANTS
    Accounts,     \* the user's accounts, demo and real
    Guest,        \* the account id `demo' of a visitor who is signed out
    OptionsOf,    \* the options each account may buy; a stake is 1
    Payouts,      \* what an option may pay in the end
    Topups,       \* bound: deposits that change a balance
    Switches,     \* bound: times another account is selected
    Drops,        \* bound: times the WebSocket is lost
    NoState       \* no data; nothing shown

VARIABLES
    engine,       \* the account in the engine: [balance, open, seq]
    paid,         \* what each option paid when it ended, -1 until then
    current,      \* accountId
    view,         \* what is shown: a state of some account, or NoState
    prevState,    \* prevBinariesRef and prevBalanceRef
    historyRef,   \* the records of the account selected last
    stored,       \* localStorage: the records of each account
    fetch,        \* the request inflightRef stands for: its account and data,
                  \* and (ghost) whether another account was selected since
    socket,       \* the WebSocket: [of, up, data], data the push on its way
    events,       \* what has happened that the properties depend on
    budget        \* [topups, switches, drops] so far

viewVars == <<engine, paid, current, view, prevState, historyRef, stored,
              fetch, socket, events, budget>>
market  == <<engine, paid>>
display == <<view, prevState, historyRef, stored, events>>

Options   == UNION {OptionsOf[a] : a \in Accounts}
Owner(o)  == CHOOSE a \in Accounts : o \in OptionsOf[a]
Ids       == Accounts \cup {Guest}
\* How often an option was written down, and what was said of it last.
Records   == [times: Nat, said: {"open", "win", "loss"}]
Blank     == [o \in Options |-> [times |-> 0, said |-> "open"]]
AllEvents == {"late_reply", "reordered", "mixed"}

\* GET /api/state and the pushes; `seq' counts what happened to the account.
State(a) == [of |-> a, balance |-> engine[a].balance, open |-> engine[a].open, seq |-> engine[a].seq]
Asked(a) == [of |-> a, data |-> NoState, busy |-> TRUE, late |-> FALSE]
Idle     == [Asked(Guest) EXCEPT !.busy = FALSE]
Socket(a) == [of |-> a, up |-> TRUE, data |-> NoState]

Init ==
    /\ engine = [a \in Accounts |-> [balance |-> Cardinality(OptionsOf[a]), open |-> {}, seq |-> 0]]
    /\ paid = [o \in Options |-> -1]
    /\ current = Guest
    /\ view = NoState /\ prevState = NoState /\ historyRef = Blank
    /\ stored = [a \in Accounts |-> Blank]
    /\ fetch = Idle
    /\ socket = Socket(Guest)
    /\ events = {}
    /\ budget = [topups |-> 0, switches |-> 0, drops |-> 0]

Spend(what, bound) == budget[what] < bound /\ budget' = [budget EXCEPT ![what] = @ + 1]

-----------------------------------------------------------------------------
(* The engine. *)

Changes(a, balance, open) ==
    engine' = [engine EXCEPT ![a] = [balance |-> balance, open |-> open, seq |-> @.seq + 1]]

\* placeBinary, by the customer on the account that is selected.
PlaceBinary(o) ==
    /\ current = Owner(o) /\ paid[o] = -1 /\ o \notin engine[current].open
    /\ engine[current].balance >= 1
    /\ Changes(current, engine[current].balance - 1, engine[current].open \cup {o})
    /\ UNCHANGED <<paid, current, display, fetch, socket, budget>>

\* An option runs out of ticks.
Settle(o) ==
    LET a == Owner(o)
    IN  /\ o \in engine[a].open
        /\ \E p \in Payouts :
              /\ paid' = [paid EXCEPT ![o] = p]
              /\ Changes(a, engine[a].balance + p, engine[a].open \ {o})
        /\ UNCHANGED <<current, display, fetch, socket, budget>>

\* A deposit, a transfer or a CFD changes the balance.
Topup(a) ==
    /\ Spend("topups", Topups)
    /\ Changes(a, engine[a].balance + 1, engine[a].open)
    /\ UNCHANGED <<paid, current, display, fetch, socket>>

-----------------------------------------------------------------------------
(* applyState *)

\* A slip: a balance that has not changed is not looked at.
GoneIfPaid(old, new) ==
    IF old = NoState THEN {} ELSE IF old.balance = new.balance THEN {} ELSE old.open \ new.open
\* The options that are gone since the state before.
Gone(old, new) == IF old = NoState THEN {} ELSE old.open \ new.open

\* pnlEach > 0; the shares of several options have one sign.
Outcome(old, new) == IF new.balance > old.balance THEN "win" ELSE "loss"

Written(history, gone, outcome) ==
    [o \in Options |->
        IF o \in gone THEN [times |-> history[o].times + 1, said |-> outcome] ELSE history[o]]

\* What makes the page misread a state: it was asked for before the account
\* was selected, it is older than what is shown, or more than one thing
\* happened since.
Mishaps(new, late) ==
    LET old == prevState
    IN  (IF late THEN {"late_reply"} ELSE {})
        \cup (IF view # NoState /\ view.of = new.of /\ view.seq > new.seq THEN {"reordered"} ELSE {})
        \cup (IF Gone(old, new) # {} /\ new.seq > old.seq + 1 THEN {"mixed"} ELSE {})

\* `key' is the accountId in the closure: that of the fetch, or of the last
\* render for a push.
ApplyState(new, key, late) ==
    LET gone    == Gone(prevState, new)
        updated == Written(historyRef, gone, Outcome(prevState, new))
    IN  /\ IF gone = {} THEN UNCHANGED <<historyRef, stored>>
           ELSE /\ historyRef' = updated
                /\ stored' = [a \in Accounts |-> IF a = key THEN updated ELSE stored[a]]
        /\ prevState' = new
        /\ view' = new
        /\ events' = events \cup Mishaps(new, late)

-----------------------------------------------------------------------------
(* The HTTP fetch. *)

\* refresh() returns at once while a request is out, whose account it may be.
Ask(a) ==
    IF fetch.busy THEN [fetch EXCEPT !.late = TRUE]
    ELSE IF a = Guest THEN Idle ELSE Asked(a)

\* After a trade, or when a sheet asks for it.
Refresh ==
    /\ ~ fetch.busy /\ current # Guest
    /\ fetch' = Ask(current)
    /\ UNCHANGED <<market, current, display, socket, budget>>

\* The gateway reads the engine's state.
Serve ==
    /\ fetch.busy /\ fetch.data = NoState
    /\ fetch' = [fetch EXCEPT !.data = State(fetch.of)]
    /\ UNCHANGED <<market, current, display, socket, budget>>

ReplyArrives ==
    /\ fetch.data # NoState
    /\ ApplyState(fetch.data, fetch.of, fetch.late)
    /\ fetch' = Idle
    /\ UNCHANGED <<market, current, socket, budget>>

\* Not ok, or an exception: silent.
ReplyFails ==
    /\ fetch.busy /\ fetch' = Idle
    /\ UNCHANGED <<market, current, display, socket, budget>>

-----------------------------------------------------------------------------
(* The WebSocket. *)

\* RunStatePump: the gateway pushes the state of the socket's account.
Push ==
    /\ socket.up /\ socket.of # Guest /\ socket.data = NoState
    /\ socket' = [socket EXCEPT !.data = State(socket.of)]
    /\ UNCHANGED <<market, current, display, fetch, budget>>

PushArrives ==
    /\ socket.data # NoState
    /\ ApplyState(socket.data, current, FALSE)
    /\ socket' = [socket EXCEPT !.data = NoState]
    /\ UNCHANGED <<market, current, fetch, budget>>

Drop ==
    /\ socket.up /\ Spend("drops", Drops)
    /\ socket' = [socket EXCEPT !.up = FALSE, !.data = NoState]
    /\ UNCHANGED <<market, current, display, fetch>>

\* The timer of onclose.
Reconnect ==
    /\ ~ socket.up
    /\ socket' = Socket(socket.of)
    /\ UNCHANGED <<market, current, display, fetch, budget>>

-----------------------------------------------------------------------------
(* Another account. *)

\* A slip: the options of the account before stay in the ref.
ResetButOptions(a) ==
    /\ view' = NoState /\ UNCHANGED prevState
    /\ historyRef' = IF a = Guest THEN historyRef ELSE stored[a]

\* The effect on a change of accountId.  Without an account the ref of the
\* history stays what it was.
Reset(a) ==
    /\ view' = NoState /\ prevState' = NoState
    /\ historyRef' = IF a = Guest THEN historyRef ELSE stored[a]

\* The socket is closed, which drops what is on its way, and opened for the
\* account; the first fetch starts unless one is out.
Select(a) ==
    /\ a # current /\ Spend("switches", Switches)
    /\ current' = a
    /\ Reset(a)
    /\ fetch' = Ask(a)
    /\ socket' = Socket(a)
    /\ UNCHANGED <<market, stored, events>>

Next ==
    \/ \E o \in Options : PlaceBinary(o) \/ Settle(o)
    \/ \E a \in Accounts : Topup(a)
    \/ \E a \in Ids : Select(a)
    \/ Refresh \/ Serve \/ ReplyArrives \/ ReplyFails
    \/ Push \/ PushArrives \/ Drop \/ Reconnect

Spec == Init /\ [][Next]_viewVars
\* The pump has a timer, the browser delivers, and onclose has a timer.
ViewFairness == WF_viewVars(Push) /\ WF_viewVars(PushArrives) /\ WF_viewVars(Reconnect)
FairSpec == Spec /\ ViewFairness

-----------------------------------------------------------------------------
(* Properties. *)

States == [of: Accounts, balance: Nat, open: SUBSET Options, seq: Nat]

TypeOK ==
    /\ engine \in [Accounts -> [balance: Nat, open: SUBSET Options, seq: Nat]]
    /\ paid \in [Options -> Payouts \cup {-1}]
    /\ current \in Ids
    /\ view \in States \cup {NoState} /\ prevState \in States \cup {NoState}
    /\ historyRef \in [Options -> Records]
    /\ stored \in [Accounts -> [Options -> Records]]
    /\ fetch \in [of: Ids, data: States \cup {NoState}, busy: BOOLEAN, late: BOOLEAN]
    /\ socket \in [of: Ids, up: BOOLEAN, data: States \cup {NoState}]
    /\ events \subseteq AllEvents
    /\ budget \in [topups: Nat, switches: Nat, drops: Nat]

\* The history an account keeps in the browser has options of that account
\* only, each once, although states come over two channels and accounts are
\* switched in between; unless a fetch of before a switch was applied after
\* it, or a state after a newer one.  What it says of an option is what came
\* of it, unless something else changed the account between the two states
\* that were compared (useAccount.ts, applyState).
HistorySound ==
    {"late_reply", "reordered"} \cap events = {} =>
        \A a \in Accounts, o \in Options :
            LET r == stored[a][o]
            IN  /\ r.times <= IF Owner(o) = a THEN 1 ELSE 0
                /\ (r.times > 0 /\ "mixed" \notin events) =>
                      paid[o] # -1 /\ (r.said = "win" <=> paid[o] > 0)

\* An option that the page shows is written down after its end, won or lost,
\* and whether or not the socket was lost meanwhile, unless another account is
\* selected first or another account's late reply took its place
\* (useAccount.ts, useTicks.ts).
EndedIsWritten ==
    \A o \in Options :
        (view # NoState /\ current = Owner(o) /\ o \in view.open /\ paid[o] # -1)
            ~> (stored[Owner(o)][o].times > 0 \/ current # Owner(o) \/ "late_reply" \in events)
=============================================================================
