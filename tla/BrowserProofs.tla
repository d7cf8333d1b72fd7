--------------------------- MODULE BrowserProofs ---------------------------
(***************************************************************************)
(* What Browser promises, for any number of symbols, accounts, orders,     *)
(* deposits, prices and requests: each component's inductive invariant,    *)
(* and the theorems of the composition that follow.                        *)
(***************************************************************************)
EXTENDS Browser, SessionProofs, DemoProofs, Sequences

(* A step of the composition is a step of one component and a stutter of   *)
(* every other.                                                            *)
LEMMA ProvisionSteps == BrowserSpec => Provision!Spec
<1>1. BrowserInit => Provision!Init
  BY DEF BrowserInit
<1>2. [BrowserNext]_allVars => [Provision!Next]_(Provision!provisioningVars)
  BY DEF BrowserNext, allVars, provisionPart, Provision!provisioningVars, Provision!engineBook
<1> QED
  BY <1>1, <1>2, PTL DEF BrowserSpec, Provision!Spec

LEMMA DeskSteps == BrowserSpec => Desk!Spec
<1>1. BrowserInit => Desk!Init
  BY DEF BrowserInit
<1>2. [BrowserNext]_allVars => [Desk!Next]_(Desk!deskVars)
  BY DEF BrowserNext, allVars, deskPart, Desk!deskVars, Desk!page, Desk!engineSide
<1> QED
  BY <1>1, <1>2, PTL DEF BrowserSpec, Desk!Spec

LEMMA SheetSteps == BrowserSpec => Sheets!Spec
<1>1. BrowserInit => Sheets!Init
  BY DEF BrowserInit
<1>2. [BrowserNext]_allVars => [Sheets!Next]_(Sheets!moneyVars)
  BY DEF BrowserNext, allVars, sheetPart, Sheets!moneyVars
<1> QED
  BY <1>1, <1>2, PTL DEF BrowserSpec, Sheets!Spec

LEMMA ViewSteps == BrowserSpec => View!Spec
<1>1. BrowserInit => View!Init
  BY DEF BrowserInit
<1>2. [BrowserNext]_allVars => [View!Next]_(View!viewVars)
  BY DEF BrowserNext, allVars, viewPart, View!viewVars
<1> QED
  BY <1>1, <1>2, PTL DEF BrowserSpec, View!Spec

-----------------------------------------------------------------------------
(* Provisioning. *)

Irregular == {"stale_sync", "sync_in_flight", "realised"}
Closed == spent.trades - (IF inFlight THEN 1 ELSE 0)

(* What is on its way to the page or the engine was Postgres's balance      *)
(* once; trading adds or takes what it realised, one at a time, and what is *)
(* open was opened with a balance.                                          *)
ProvisionTyped ==
    /\ Provision!TypeOK
    /\ shownBalance <= ledger /\ ledger = spent.deposits
    /\ \A b \in reads \cup syncs : b <= ledger
    /\ 0 <= Closed /\ -Closed <= realised /\ realised <= Closed
    /\ bookBalance <= Credits + Closed /\ (inFlight => bookBalance > 0)

(* While nothing is irregular the engine is at most a push behind: it has   *)
(* the balance the page shows, or a call with that is on its way.           *)
CatchesUp ==
    irregular = {} =>
        /\ bookBalance <= ledger
        /\ shownBalance = -1 \/ shownBalance \in syncs \/ shownBalance <= bookBalance

LEMMA ProvisionNumbers ==
  ASSUME ProvisionTyped
  PROVE  /\ Credits \in Nat /\ Trades \in Nat /\ PageLoads \in Nat
         /\ ledger \in Nat /\ ledger <= Credits /\ bookBalance \in Int /\ bookBalance >= -1
         /\ realised \in Int /\ Closed \in Nat /\ Closed <= spent.trades /\ spent.trades <= Trades
         /\ spent.deposits \in Nat /\ spent.trades \in Nat /\ spent.loads \in Nat
         /\ shownBalance \in Int /\ shownBalance >= -1
         /\ reads \subseteq Nat /\ syncs \subseteq Nat
<1>1. Credits \in Nat /\ Trades \in Nat /\ PageLoads \in Nat
  BY BrowserGiven
<1> QED
  BY <1>1 DEF ProvisionTyped, Provision!TypeOK, Closed

(* What a step leaves alone needs no second look.                           *)
LEMMA ProvisionKept ==
  ASSUME ProvisionTyped, UNCHANGED <<bookBalance, inFlight, realised, irregular>>,
         spent' \in [deposits: 0..Credits, trades: 0..Trades, loads: 0..PageLoads],
         spent'.trades = spent.trades, ledger' \in 0..Credits, ledger' = spent'.deposits,
         shownBalance' \in -1..Credits, shownBalance' <= ledger',
         reads' \subseteq 0..Credits, syncs' \subseteq 0..Credits,
         \A b \in reads' \cup syncs' : b <= ledger'
  PROVE  ProvisionTyped'
<1>1. Closed' = Closed
  BY DEF Closed
<1> QED
  BY <1>1 DEF ProvisionTyped, Provision!TypeOK

LEMMA ProvisionTypedStep ==
  ASSUME ProvisionTyped, Provision!Next PROVE ProvisionTyped'
<1>n. /\ Credits \in Nat /\ Trades \in Nat /\ PageLoads \in Nat
      /\ ledger \in Nat /\ ledger <= Credits /\ bookBalance \in Int /\ bookBalance >= -1
      /\ realised \in Int /\ Closed \in Nat /\ Closed <= spent.trades /\ spent.trades <= Trades
      /\ spent.deposits \in Nat /\ spent.trades \in Nat /\ spent.loads \in Nat
      /\ shownBalance \in Int /\ shownBalance >= -1
      /\ reads \subseteq Nat /\ syncs \subseteq Nat
  BY ProvisionNumbers
<1>t. /\ spent \in [deposits: 0..Credits, trades: 0..Trades, loads: 0..PageLoads]
      /\ ledger \in 0..Credits /\ shownBalance \in -1..Credits /\ inFlight \in BOOLEAN
      /\ reads \subseteq 0..Credits /\ syncs \subseteq 0..Credits /\ irregular \subseteq Irregular
      /\ bookBalance \in -1..(Credits + Trades)
  BY DEF ProvisionTyped, Provision!TypeOK, Irregular
<1>h. /\ shownBalance <= ledger /\ ledger = spent.deposits
      /\ \A b \in reads \cup syncs : b <= ledger
      /\ -Closed <= realised /\ realised <= Closed
      /\ bookBalance <= Credits + Closed /\ (inFlight => bookBalance > 0)
  BY DEF ProvisionTyped
<1>1. CASE Provision!Deposit
  <2>1. spent' = [spent EXCEPT !.deposits = @ + 1] /\ spent.deposits < Credits
    BY <1>1 DEF Provision!Deposit, Provision!Tally
  <2>2. /\ spent' \in [deposits: 0..Credits, trades: 0..Trades, loads: 0..PageLoads]
        /\ spent'.deposits = spent.deposits + 1 /\ spent'.trades = spent.trades
    BY <2>1, <1>n, <1>t
  <2>3. /\ ledger' = ledger + 1 /\ syncs' \subseteq syncs \cup {ledger + 1}
        /\ UNCHANGED <<bookBalance, inFlight, realised, shownBalance, reads, irregular>>
    BY <1>1 DEF Provision!Deposit, Provision!engineBook
  <2>4. ledger' \in 0..Credits /\ ledger' = spent'.deposits /\ shownBalance' <= ledger'
    BY <2>1, <2>2, <2>3, <1>n, <1>h
  <2>5. /\ reads' \subseteq 0..Credits /\ syncs' \subseteq 0..Credits
        /\ \A b \in reads' \cup syncs' : b <= ledger'
    BY <2>3, <2>4, <1>n, <1>t, <1>h
  <2> QED
    BY <2>2, <2>3, <2>4, <2>5, <1>t, ProvisionKept
<1>2. CASE Provision!ReadBalances
  <2>1. spent' = [spent EXCEPT !.loads = @ + 1] /\ spent.loads < PageLoads
    BY <1>2 DEF Provision!ReadBalances, Provision!Tally
  <2>2. /\ spent' \in [deposits: 0..Credits, trades: 0..Trades, loads: 0..PageLoads]
        /\ spent'.deposits = spent.deposits /\ spent'.trades = spent.trades
    BY <2>1, <1>n, <1>t
  <2>3. /\ reads' = reads \cup {ledger}
        /\ UNCHANGED <<ledger, bookBalance, inFlight, realised, shownBalance, syncs, irregular>>
    BY <1>2 DEF Provision!ReadBalances, Provision!engineBook
  <2>4. reads' \subseteq 0..Credits /\ syncs' \subseteq 0..Credits
    BY <2>3, <1>t
  <2>5. ledger <= ledger
    BY <1>n
  <2>6. \A b \in reads' \cup syncs' : b <= ledger'
    BY <2>3, <2>5, <1>h
  <2> QED
    BY <2>2, <2>3, <2>4, <2>6, <1>t, <1>h, ProvisionKept
<1>3. CASE Provision!OpenTrade
  <2>1. spent' = [spent EXCEPT !.trades = @ + 1] /\ spent.trades < Trades
    BY <1>3 DEF Provision!OpenTrade, Provision!Tally
  <2>2. /\ spent' \in [deposits: 0..Credits, trades: 0..Trades, loads: 0..PageLoads]
        /\ spent'.deposits = spent.deposits /\ spent'.trades = spent.trades + 1
    BY <2>1, <1>n, <1>t
  <2>3. /\ inFlight = FALSE /\ inFlight' = TRUE /\ bookBalance > 0
        /\ UNCHANGED <<ledger, bookBalance, realised, shownBalance, reads, syncs, irregular>>
    BY <1>3 DEF Provision!OpenTrade
  <2>4. Closed' = Closed
    BY <2>2, <2>3, <1>n DEF Closed
  <2> QED
    BY <2>2, <2>3, <2>4 DEF ProvisionTyped, Provision!TypeOK
<1>4. CASE Provision!CloseTrade
  <2>1. PICK pnl \in {-1, 0, 1} : /\ bookBalance' = bookBalance + pnl
                                  /\ realised' = realised + pnl
                                  /\ irregular' \subseteq irregular \cup {"realised"}
    BY <1>4 DEF Provision!CloseTrade
  <2>2. /\ inFlight = TRUE /\ inFlight' = FALSE
        /\ UNCHANGED <<ledger, shownBalance, reads, syncs, spent>>
    BY <1>4 DEF Provision!CloseTrade
  <2>3. Closed' = Closed + 1 /\ Closed' <= Trades
    BY <2>2, <1>n DEF Closed
  <2>4. /\ bookBalance' >= 0 /\ bookBalance' <= Credits + Closed' /\ bookBalance' \in Int
        /\ -Closed' <= realised' /\ realised' <= Closed' /\ realised' \in Int
    <3>1. bookBalance > 0
      BY <2>2, <1>h
    <3>2. pnl \in Int /\ -1 <= pnl /\ pnl <= 1
      OBVIOUS
    <3> QED
      BY <2>1, <2>3, <3>1, <3>2, <1>n, <1>h
  <2>5. bookBalance' \in -1..(Credits + Trades) /\ realised' \in -Trades..Trades
    BY <2>3, <2>4, <1>n
  <2>6. irregular' \subseteq Irregular
    BY <2>1, <1>t DEF Irregular
  <2>7. Provision!TypeOK'
    BY <2>2, <2>5, <2>6, <1>t DEF Provision!TypeOK, Irregular
  <2>8. 0 <= Closed'
    BY <2>3, <1>n
  <2>9. shownBalance' <= ledger' /\ ledger' = spent'.deposits /\ \A b \in reads' \cup syncs' : b <= ledger'
    BY <2>2, <1>h
  <2> QED
    BY <2>2, <2>4, <2>7, <2>8, <2>9 DEF ProvisionTyped
<1>5. ASSUME NEW b \in reads, Provision!BalancesRead(b) PROVE ProvisionTyped'
  <2>1. /\ reads' = reads \ {b} /\ shownBalance' = b /\ syncs' = syncs \cup {b}
        /\ UNCHANGED <<ledger, bookBalance, inFlight, realised, irregular, spent>>
    BY <1>5 DEF Provision!BalancesRead, Provision!ProvisionCalls, Provision!engineBook
  <2>2. b \in 0..Credits /\ b \in -1..Credits /\ b <= ledger
    BY <1>n, <1>t, <1>h
  <2> QED
    BY <2>1, <2>2, <1>t, <1>h, ProvisionKept
<1>6. ASSUME NEW b \in syncs, Provision!SyncArrives(b) PROVE ProvisionTyped'
  <2>1. /\ syncs' = syncs \ {b} /\ irregular' \subseteq irregular \cup Irregular
        /\ UNCHANGED <<ledger, inFlight, realised, shownBalance, reads, spent>>
    BY <1>6 DEF Provision!SyncArrives, Irregular
  <2>2. bookBalance' = IF bookBalance = -1 \/ ~ inFlight THEN b ELSE bookBalance
    BY <1>6 DEF Provision!SyncArrives, Provision!Synced
  <2>3. Closed' = Closed
    BY <2>1 DEF Closed
  <2>4. CASE inFlight
    <3>1. bookBalance' = bookBalance
      BY <2>2, <2>4, <1>h
    <3> QED
      BY <2>1, <2>3, <3>1, <1>t, <1>h DEF ProvisionTyped, Provision!TypeOK, Irregular
  <2>5. CASE ~ inFlight
    <3>1. bookBalance' = b /\ b \in 0..Credits
      BY <2>2, <2>5, <1>t
    <3>2. bookBalance' \in -1..(Credits + Trades) /\ bookBalance' <= Credits + Closed
      BY <3>1, <1>n
    <3> QED
      BY <2>1, <2>3, <2>5, <3>2, <1>t, <1>h DEF ProvisionTyped, Provision!TypeOK, Irregular
  <2> QED
    BY <2>4, <2>5
<1> QED
  BY <1>1, <1>2, <1>3, <1>4, <1>5, <1>6 DEF Provision!Next

LEMMA CatchesUpStep ==
  ASSUME ProvisionTyped, CatchesUp, Provision!Next PROVE CatchesUp'
<1> USE BrowserGiven
<1>0. /\ ledger \in Nat /\ bookBalance \in Int /\ shownBalance \in Int /\ realised \in Int
      /\ syncs \subseteq Nat /\ reads \subseteq Nat /\ shownBalance <= ledger
      /\ \A b \in reads \cup syncs : b <= ledger
  BY DEF ProvisionTyped, Provision!TypeOK
<1>1. CASE Provision!Deposit
  BY <1>0, <1>1 DEF CatchesUp, Provision!Deposit, Provision!engineBook
<1>2. CASE Provision!ReadBalances
  BY <1>0, <1>2 DEF CatchesUp, Provision!ReadBalances, Provision!engineBook
<1>3. CASE Provision!OpenTrade
  BY <1>0, <1>3 DEF CatchesUp, Provision!OpenTrade
<1>4. CASE Provision!CloseTrade
  BY <1>0, <1>4 DEF CatchesUp, Provision!CloseTrade
<1>5. ASSUME NEW b \in reads, Provision!BalancesRead(b) PROVE CatchesUp'
  BY <1>0, <1>5 DEF CatchesUp, Provision!BalancesRead, Provision!ProvisionCalls,
      Provision!engineBook
<1>6. ASSUME NEW b \in syncs, Provision!SyncArrives(b) PROVE CatchesUp'
  BY <1>0, <1>6 DEF CatchesUp, Provision!SyncArrives, Provision!Synced
<1> QED
  BY <1>1, <1>2, <1>3, <1>4, <1>5, <1>6 DEF Provision!Next

LEMMA ProvisionInvariant == BrowserSpec => [](ProvisionTyped /\ CatchesUp)
<1>1. Provision!Init => ProvisionTyped /\ CatchesUp
  <2> SUFFICES ASSUME Provision!Init PROVE ProvisionTyped /\ CatchesUp
    OBVIOUS
  <2>1. Credits \in Nat /\ Trades \in Nat /\ PageLoads \in Nat
    BY BrowserGiven
  <2>2. spent \in [deposits: 0..Credits, trades: 0..Trades, loads: 0..PageLoads]
    BY <2>1 DEF Provision!Init
  <2>3. ledger \in 0..Credits /\ realised \in -Trades..Trades /\ shownBalance \in -1..Credits
    BY <2>1 DEF Provision!Init
  <2>4. bookBalance \in -1..(Credits + Trades) /\ bookBalance <= Credits + Closed /\ Closed = 0
    BY <2>1 DEF Provision!Init, Closed
  <2>5. Provision!TypeOK
    BY <2>2, <2>3, <2>4 DEF Provision!Init, Provision!TypeOK
  <2>6. ProvisionTyped
    BY <2>4, <2>5 DEF Provision!Init, ProvisionTyped
  <2> QED
    BY <2>6 DEF Provision!Init, CatchesUp
<1>2. ProvisionTyped /\ CatchesUp /\ [Provision!Next]_(Provision!provisioningVars)
        => (ProvisionTyped /\ CatchesUp)'
  <2>1. CASE Provision!Next
    BY <2>1, ProvisionTypedStep, CatchesUpStep
  <2>2. CASE UNCHANGED Provision!provisioningVars
    BY <2>2 DEF Provision!provisioningVars, Provision!engineBook, ProvisionTyped, CatchesUp,
                Closed, Provision!TypeOK
  <2> QED
    BY <2>1, <2>2
<1> QED
  BY <1>1, <1>2, ProvisionSteps, PTL DEF Provision!Spec

(* A lost push of a deposit is made good by the page's next answer of       *)
(* /auth/me, in whatever order calls arrive (page.tsx, create_account).     *)
THEOREM PageReconciles == BrowserSpec => []ShownIsTradeable
<1>1. ProvisionTyped /\ CatchesUp => ShownIsTradeable
  BY DEF ProvisionTyped, CatchesUp, ShownIsTradeable, Provision!ShownIsTradeable, Provision!TypeOK
<1> QED
  BY <1>1, ProvisionInvariant, PTL

-----------------------------------------------------------------------------
(* TradeDesk. *)

Intents == [acct: DeskAccounts, symbol: DeskSymbols, kind: Desk!Kinds, number: 0..DeskOrders]

(* Orders are numbered as they are sent, each once.                         *)
Logged ==
    /\ log \subseteq Desk!Orders /\ IsFiniteSet(log)
    /\ deskUsed \in [orders: 0..DeskOrders, changes: Nat, deposits: Nat]
    /\ Cardinality(log) = deskUsed.orders
    /\ \A o \in log : o.number < deskUsed.orders
    /\ \A o, p \in log : o.number = p.number => o = p

OnPage ==
    /\ symbol \in DeskSymbols /\ acct \in DeskAccounts /\ market \subseteq DeskSymbols
    /\ tabs \in [{"panel", "mobile"} -> Desk!Kinds]
    /\ flight \in [Desk!Forms -> 0..DeskOrders \cup {None}]
    /\ depositOpen \in BOOLEAN /\ ticket \in DeskSymbols \cup {None}

Intended == intent = None \/ (intent \in Intents /\ intent.number <= deskUsed.orders)

Held ==
    /\ funds \in [DeskAccounts -> Nat] /\ brought \in [DeskAccounts -> Int]
    /\ positions \subseteq Desk!Positions
    /\ closing \subseteq {p \in Desk!Positions : p.kind # "binary"} \X {1, 2}

(* An order of the sheet, and only such, has an intent, captured before it. *)
Sourced == \A o \in log :
    /\ o.source # None <=> o.form = "pending"
    /\ o.source # None => o.source <= o.number

(* An order of the sheet whose answer was not lost.                         *)
Live(o) == o.source # None /\ o.answer # "lost"

(* While an order of the sheet is unanswered it keeps the sheet's buttons   *)
(* disabled; once one is placed and answered its intent is gone; of one     *)
(* intent all orders but one are refused.                                   *)
Placing ==
    /\ \A o \in log : Live(o) /\ o.state = "sent" => flight["pending"] = o.number
    /\ \A o \in log : Live(o) /\ o.state = "placed" /\ flight["pending"] # o.number
           => intent = None \/ o.source < intent.number
    /\ \A o, p \in log : Live(o) /\ Live(p) /\ o # p /\ o.source = p.source
           => "refused" \in {o.state, p.state}

DeskTyped == Logged /\ OnPage /\ Intended /\ Held

LEMMA DeskBounds ==
    /\ DeskOrders \in Nat /\ DeskChanges \in Nat /\ DeskDeposits \in Nat
    /\ None \notin Nat /\ None \notin DeskSymbols /\ DeskReal \subseteq DeskAccounts
    /\ WithSpot \subseteq DeskSymbols
BY BrowserGiven

(* Send adds one order, with the next number, and its form waits for it.    *)
OrderOf(form, a, s, kind, source) ==
    [number |-> deskUsed.orders, form |-> form, acct |-> a, symbol |-> s, kind |-> kind,
     source |-> source, state |-> "sent", answer |-> "due"]

LEMMA OrderSent ==
  ASSUME DeskTyped, NEW form \in Desk!Forms, NEW a \in DeskAccounts, NEW s \in DeskSymbols,
         NEW kind \in Desk!Kinds, NEW source \in 0..DeskOrders \cup {None},
         Desk!Send(form, a, s, kind, source)
  PROVE  /\ Logged'
         /\ log' = log \cup {OrderOf(form, a, s, kind, source)}
         /\ \A o \in log : o.number < deskUsed.orders
         /\ flight' = [flight EXCEPT ![form] = deskUsed.orders]
         /\ flight' \in [Desk!Forms -> 0..DeskOrders \cup {None}]
         /\ deskUsed'.orders = deskUsed.orders + 1
<1> DEFINE o == OrderOf(form, a, s, kind, source)
<1>0. /\ deskUsed.orders \in 0..DeskOrders /\ deskUsed.orders \in Nat /\ DeskOrders \in Nat
      /\ \A p \in log : p.number \in Nat /\ p.number < deskUsed.orders
  BY DeskBounds DEF DeskTyped, Logged, Desk!Orders
<1>1. deskUsed.orders < DeskOrders /\ deskUsed' = [deskUsed EXCEPT !.orders = @ + 1]
  BY DEF Desk!Send, Desk!Take
<1>2. /\ deskUsed' \in [orders: 0..DeskOrders, changes: Nat, deposits: Nat]
      /\ deskUsed'.orders = deskUsed.orders + 1
  <2>1. deskUsed.orders + 1 \in 0..DeskOrders
    BY <1>0, <1>1
  <2> QED
    BY <2>1, <1>1 DEF DeskTyped, Logged
<1>3. log' = log \cup {o} /\ flight' = [flight EXCEPT ![form] = deskUsed.orders]
  BY DEF Desk!Send, OrderOf
<1>4. o \in Desk!Orders /\ o.number = deskUsed.orders
  BY <1>0 DEF OrderOf, Desk!Orders
<1>5. o \notin log
  BY <1>0, <1>4
<1> HIDE DEF o
<1>6. IsFiniteSet(log') /\ Cardinality(log') = deskUsed'.orders
  BY <1>2, <1>3, <1>5, FS_AddElement DEF DeskTyped, Logged
<1>7. \A p \in log' : p.number < deskUsed.orders + 1
  BY <1>0, <1>3, <1>4
<1>8. \A p, q \in log' : p.number = q.number => p = q
  BY <1>0, <1>3, <1>4 DEF DeskTyped, Logged
<1>9. Logged'
  BY <1>2, <1>3, <1>4, <1>6, <1>7, <1>8 DEF DeskTyped, Logged
<1>10. flight' \in [Desk!Forms -> 0..DeskOrders \cup {None}]
  BY <1>0, <1>3 DEF DeskTyped, OnPage
<1> QED
  BY <1>0, <1>2, <1>3, <1>9, <1>10 DEF o

(* An order is replaced by one of its number.                               *)
LEMMA OrderReplaced ==
  ASSUME Logged, NEW o \in log, NEW p \in Desk!Orders, p.number = o.number,
         log' = (log \ {o}) \cup {p}, UNCHANGED deskUsed
  PROVE  Logged'
<1>1. IsFiniteSet(log \ {o}) /\ Cardinality(log \ {o}) = Cardinality(log) - 1
  BY FS_RemoveElement DEF Logged
<1>2. p \notin log \ {o}
  BY DEF Logged
<1>3. /\ IsFiniteSet(log') /\ Cardinality(log') = Cardinality(log \ {o}) + 1
  BY <1>1, <1>2, FS_AddElement
<1>4. Cardinality(log) \in Nat
  BY FS_CardinalityType DEF Logged
<1>5. Cardinality(log') = Cardinality(log)
  BY <1>1, <1>3, <1>4
<1> QED
  BY <1>3, <1>5 DEF Logged

LEMMA DepositSheetTyped ==
  ASSUME NEW opened0, NEW cash, NEW i, NEW a, Desk!DepositSheet(opened0, cash, i, a)
  PROVE  depositOpen' \in BOOLEAN
BY Zenon DEF Desk!DepositSheet

(* The three steps that only turn a knob of the page.                       *)
LEMMA Changed ==
  ASSUME Logged, Intended, NEW what \in {"changes", "deposits"}, NEW bound,
         Desk!Take(what, bound), UNCHANGED <<log, intent>>
  PROVE  Logged' /\ Intended' /\ deskUsed'.orders = deskUsed.orders
<1>1. /\ deskUsed' \in [orders: 0..DeskOrders, changes: Nat, deposits: Nat]
      /\ deskUsed'.orders = deskUsed.orders
  BY DEF Logged, Desk!Take
<1> QED
  BY <1>1 DEF Logged, Intended

LEMMA DeskTypedKnobs ==
  ASSUME DeskTyped, NEW s \in DeskSymbols, NEW a \in DeskAccounts,
         NEW form \in {"panel", "mobile"}, NEW tab \in Desk!Kinds,
         \/ Desk!SelectSymbol(s) \/ Desk!MarketTurns(s) \/ Desk!OpenTicket(s)
         \/ Desk!SwitchAccount(a) \/ Desk!Deposit(a) \/ Desk!PickTab(form, tab)
  PROVE  DeskTyped'
<1> USE DEF DeskTyped
<1>1. CASE Desk!SelectSymbol(s)
  <2>1. Logged' /\ Intended'
    BY <1>1, Changed DEF Desk!SelectSymbol
  <2>2. OnPage' /\ Held'
    BY <1>1 DEF Desk!SelectSymbol, Desk!engineSide, OnPage, Held
  <2> QED
    BY <2>1, <2>2
<1>2. CASE Desk!MarketTurns(s)
  <2>1. Logged' /\ Intended'
    BY <1>2, Changed DEF Desk!MarketTurns
  <2>2. OnPage' /\ Held'
    BY <1>2 DEF Desk!MarketTurns, Desk!engineSide, OnPage, Held
  <2> QED
    BY <2>1, <2>2
<1>3. CASE Desk!OpenTicket(s)
  <2>1. Logged' /\ Intended'
    BY <1>3, Changed DEF Desk!OpenTicket
  <2>2. OnPage' /\ Held'
    BY <1>3 DEF Desk!OpenTicket, Desk!engineSide, OnPage, Held
  <2> QED
    BY <2>1, <2>2
<1>4. CASE Desk!SwitchAccount(a)
  <2>1. Logged' /\ Intended'
    BY <1>4, Changed DEF Desk!SwitchAccount
  <2>2. depositOpen' \in BOOLEAN
    BY <1>4, DepositSheetTyped DEF Desk!SwitchAccount
  <2>3. OnPage' /\ Held'
    BY <1>4, <2>2 DEF Desk!SwitchAccount, Desk!engineSide, OnPage, Held
  <2> QED
    BY <2>1, <2>3
<1>5. CASE Desk!Deposit(a)
  <2>1. Logged' /\ Intended'
    BY <1>5, Changed DEF Desk!Deposit
  <2>2. depositOpen' \in BOOLEAN
    BY <1>5, DepositSheetTyped DEF Desk!Deposit
  <2>3. OnPage'
    BY <1>5, <2>2 DEF Desk!Deposit, OnPage
  <2>4. funds' \in [DeskAccounts -> Nat]
    BY <1>5 DEF Desk!Deposit, Held
  <2>5. Held'
    BY <1>5, <2>4 DEF Desk!Deposit, Held
  <2> QED
    BY <2>1, <2>3, <2>5
<1>6. CASE Desk!PickTab(form, tab)
  <2>1. Logged' /\ Intended'
    BY <1>6, Changed DEF Desk!PickTab
  <2>2. OnPage' /\ Held'
    BY <1>6 DEF Desk!PickTab, Desk!engineSide, OnPage, Held
  <2> QED
    BY <2>1, <2>2
<1> QED
  BY <1>1, <1>2, <1>3, <1>4, <1>5, <1>6

LEMMA DeskCounts == Desk!Cardinality(log) = Cardinality(log)
BY DEF Desk!Cardinality, Cardinality

(* A form's button: an order is sent, or an intent is captured.             *)
LEMMA Captured ==
  ASSUME DeskTyped, NEW kind \in Desk!Kinds, Desk!Capture(kind)
  PROVE  /\ Logged' /\ Intended' /\ depositOpen' \in BOOLEAN
         /\ intent' # None => intent'.number = deskUsed.orders
         /\ UNCHANGED <<flight, log, deskUsed>>
<1>1. /\ intent' = [acct |-> acct, symbol |-> symbol, kind |-> kind, number |-> Cardinality(log)]
      /\ UNCHANGED <<flight, log, deskUsed>>
  BY DeskCounts DEF Desk!Capture
<1>o. depositOpen' \in BOOLEAN
  BY Zenon DEF Desk!Capture
<1>2. Cardinality(log) = deskUsed.orders /\ deskUsed.orders \in 0..DeskOrders
  BY DEF DeskTyped, Logged
<1>3. deskUsed.orders <= deskUsed.orders
  BY <1>2, DeskBounds
<1>4. Intended'
  BY <1>1, <1>2, <1>3 DEF DeskTyped, OnPage, Intended, Intents
<1> QED
  BY <1>o, <1>1, <1>2, <1>4 DEF DeskTyped, Logged

LEMMA DeskTypedPlacing ==
  ASSUME DeskTyped,
         \/ Desk!PanelTrade \/ Desk!MobileTrade \/ Desk!TicketTrade \/ Desk!ConfirmIntent
         \/ Desk!DropIntent \/ Desk!CloseTicket \/ Desk!CloseDeposit
  PROVE  DeskTyped'
<1> USE DEF DeskTyped
<1>0. /\ "panel" \in Desk!Forms /\ "mobile" \in Desk!Forms /\ "ticket" \in Desk!Forms
      /\ "pending" \in Desk!Forms /\ tabs.panel \in Desk!Kinds /\ tabs.mobile \in Desk!Kinds
      /\ "cfd" \in Desk!Kinds /\ "binary" \in Desk!Kinds
      /\ acct \in DeskAccounts /\ symbol \in DeskSymbols
      /\ None \in 0..DeskOrders \cup {None}
  BY DEF OnPage, Desk!Forms, Desk!Kinds
<1>i. intent # None => /\ intent.acct \in DeskAccounts /\ intent.symbol \in DeskSymbols
                       /\ intent.kind \in Desk!Kinds /\ intent.number \in 0..DeskOrders
  BY DEF Intended, Intents
<1>u. ASSUME deskUsed'.orders = deskUsed.orders + 1, UNCHANGED intent PROVE Intended'
  <2>1. deskUsed.orders \in Nat /\ (intent # None => intent.number \in Nat)
    BY <1>i, DeskBounds DEF Logged
  <2>2. intent # None => intent.number <= deskUsed.orders + 1
    BY <2>1 DEF Intended
  <2> QED
    BY <1>u, <2>2 DEF Intended
<1>1. CASE Desk!PanelTrade
  <2>1. CASE Desk!Capture(tabs.panel)
    BY <1>0, <1>1, <2>1, Captured DEF Desk!PanelTrade, Desk!engineSide, OnPage, Held
  <2>2. CASE Desk!Send("panel", acct, symbol, tabs.panel, None) /\ UNCHANGED <<intent, depositOpen>>
    <3>1. /\ Logged' /\ deskUsed'.orders = deskUsed.orders + 1
          /\ flight' \in [Desk!Forms -> 0..DeskOrders \cup {None}]
      BY <1>0, <2>2, OrderSent
    <3> QED
      BY <1>1, <1>u, <2>2, <3>1 DEF Desk!PanelTrade, Desk!engineSide, OnPage, Held
  <2> QED
    BY <1>1, <2>1, <2>2 DEF Desk!PanelTrade
<1>2. CASE Desk!MobileTrade
  <2>0. Desk!MobileShows(tabs.mobile) \in Desk!Kinds
    BY <1>0 DEF Desk!MobileShows
  <2>1. CASE Desk!Capture(Desk!MobileShows(tabs.mobile))
    BY <1>2, <2>0, <2>1, Captured DEF Desk!MobileTrade, Desk!engineSide, OnPage, Held
  <2>2. CASE Desk!Send("mobile", acct, symbol, Desk!MobileShows(tabs.mobile), None)
             /\ UNCHANGED <<intent, depositOpen>>
    <3>1. /\ Logged' /\ deskUsed'.orders = deskUsed.orders + 1
          /\ flight' \in [Desk!Forms -> 0..DeskOrders \cup {None}]
      BY <1>0, <2>0, <2>2, OrderSent
    <3> QED
      BY <1>2, <1>u, <2>2, <3>1 DEF Desk!MobileTrade, Desk!engineSide, OnPage, Held
  <2> QED
    BY <1>2, <2>1, <2>2 DEF Desk!MobileTrade
<1>3. CASE Desk!TicketTrade
  <2>1. ticket \in DeskSymbols
    BY <1>3 DEF Desk!TicketTrade, Desk!TicketOffered, OnPage
  <2>2. Desk!Send("ticket", acct, ticket, "cfd", None)
    BY <1>3 DEF Desk!TicketTrade
  <2>3. /\ Logged' /\ deskUsed'.orders = deskUsed.orders + 1
        /\ flight' \in [Desk!Forms -> 0..DeskOrders \cup {None}]
    BY <1>0, <2>1, <2>2, OrderSent
  <2> QED
    BY <1>3, <1>u, <2>3 DEF Desk!TicketTrade, Desk!page, Desk!engineSide, OnPage, Held
<1>4. CASE Desk!ConfirmIntent
  <2>1. intent # None
    BY <1>4 DEF Desk!ConfirmIntent, Desk!Funded
  <2>2. Desk!Send("pending", intent.acct, intent.symbol, intent.kind, intent.number)
    BY <1>4 DEF Desk!ConfirmIntent
  <2>3. /\ Logged' /\ deskUsed'.orders = deskUsed.orders + 1
        /\ flight' \in [Desk!Forms -> 0..DeskOrders \cup {None}]
    BY <1>0, <1>i, <2>1, <2>2, OrderSent
  <2> QED
    BY <1>4, <1>u, <2>3 DEF Desk!ConfirmIntent, Desk!page, Desk!engineSide, OnPage, Held
<1>5. CASE Desk!DropIntent
  <2>1. Logged' /\ Intended' /\ Held'
    BY <1>5 DEF Desk!DropIntent, Desk!engineSide, Logged, Intended, Held
  <2>2. OnPage'
    BY <1>5 DEF Desk!DropIntent, Desk!page, OnPage
  <2> QED
    BY <2>1, <2>2
<1>6. CASE Desk!CloseTicket
  <2>1. Logged' /\ Intended' /\ Held'
    BY <1>6 DEF Desk!CloseTicket, Desk!engineSide, Logged, Intended, Held
  <2>2. OnPage'
    BY <1>6 DEF Desk!CloseTicket, OnPage
  <2> QED
    BY <2>1, <2>2
<1>7. CASE Desk!CloseDeposit
  <2>1. Logged' /\ Intended' /\ Held'
    BY <1>7 DEF Desk!CloseDeposit, Desk!engineSide, Logged, Intended, Held
  <2>2. OnPage'
    BY <1>7 DEF Desk!CloseDeposit, OnPage
  <2> QED
    BY <2>1, <2>2
<1> QED
  BY <1>1, <1>2, <1>3, <1>4, <1>5, <1>6, <1>7

(* The engine and its answers: an order is served, or its answer is lost.   *)
LEMMA Resolves ==
  ASSUME DeskTyped, NEW o \in log, NEW p, p.number = o.number, p \in Desk!Orders,
         log' = (log \ {o}) \cup {p}, UNCHANGED <<deskUsed, intent>>
  PROVE  Logged' /\ Intended'
<1>1. Logged'
  BY OrderReplaced DEF DeskTyped
<1> QED
  BY <1>1 DEF DeskTyped, Intended

(* The position an order opens.                                             *)
Opened(o) == [number |-> o.number, acct |-> o.acct, symbol |-> o.symbol, kind |-> o.kind]

LEMMA OrderStates ==
  ASSUME NEW o \in Desk!Orders, NEW state \in {"sent", "placed", "refused"}
  PROVE  /\ [o EXCEPT !.state = state] \in Desk!Orders
         /\ [o EXCEPT !.answer = "lost"] \in Desk!Orders
         /\ [o EXCEPT !.state = state] =
               [number |-> o.number, form |-> o.form, acct |-> o.acct, symbol |-> o.symbol,
                kind |-> o.kind, source |-> o.source, state |-> state, answer |-> o.answer]
         /\ [o EXCEPT !.answer = "lost"] =
               [number |-> o.number, form |-> o.form, acct |-> o.acct, symbol |-> o.symbol,
                kind |-> o.kind, source |-> o.source, state |-> o.state, answer |-> "lost"]
BY DEF Desk!Orders

(* What the engine makes of an order that is sent.                          *)
Outcome(o, state) == [o EXCEPT !.state = state]

LEMMA Taken ==
  ASSUME DeskTyped, NEW o \in log, Desk!EngineTakes(o)
  PROVE  \E state \in {"placed", "refused"} :
         /\ o.state = "sent" /\ log' = (log \ {o}) \cup {Outcome(o, state)}
         /\ Outcome(o, state) \in Desk!Orders /\ Outcome(o, state).state = state
         /\ Outcome(o, state).number = o.number /\ Outcome(o, state).form = o.form
         /\ Outcome(o, state).answer = o.answer /\ Outcome(o, state).source = o.source
         /\ UNCHANGED <<flight, intent, deskUsed>>
         /\ state = "placed" =>
                /\ funds[o.acct] >= 1 /\ funds' = [funds EXCEPT ![o.acct] = @ - 1]
                /\ positions' = positions \cup {Opened(o)}
         /\ state = "refused" => UNCHANGED <<funds, positions>>
<1>1. PICK ok \in {FALSE, funds[o.acct] >= 1 /\ o.symbol \in market} :
         /\ log' = (log \ {o}) \cup {Outcome(o, IF ok THEN "placed" ELSE "refused")}
         /\ funds' = IF ok THEN [funds EXCEPT ![o.acct] = @ - 1] ELSE funds
         /\ positions' = IF ok THEN positions \cup {Opened(o)} ELSE positions
  BY DEF Desk!EngineTakes, Outcome, Opened
<1> DEFINE state == IF ok THEN "placed" ELSE "refused"
<1>2. o.state = "sent" /\ UNCHANGED <<flight, intent, deskUsed>>
  BY DEF Desk!EngineTakes
<1>3. /\ state \in {"placed", "refused"} /\ log' = (log \ {o}) \cup {Outcome(o, state)}
      /\ state = "placed" => /\ funds[o.acct] >= 1 /\ funds' = [funds EXCEPT ![o.acct] = @ - 1]
                             /\ positions' = positions \cup {Opened(o)}
      /\ state = "refused" => UNCHANGED <<funds, positions>>
  BY <1>1
<1> HIDE DEF state
<1>4. o \in Desk!Orders
  BY DEF DeskTyped, Logged
<1>5. /\ Outcome(o, state) \in Desk!Orders
      /\ Outcome(o, state) =
             [number |-> o.number, form |-> o.form, acct |-> o.acct, symbol |-> o.symbol,
              kind |-> o.kind, source |-> o.source, state |-> state, answer |-> o.answer]
  BY <1>3, <1>4, OrderStates DEF Outcome
<1>6. /\ Outcome(o, state).number = o.number /\ Outcome(o, state).form = o.form
      /\ Outcome(o, state).answer = o.answer /\ Outcome(o, state).source = o.source
      /\ Outcome(o, state).state = state
  BY <1>5
<1> QED
  BY <1>2, <1>3, <1>5, <1>6

(* An order whose answer never reached the form.                            *)
Failed(o) == [o EXCEPT !.answer = "lost"]

LEMMA Lost ==
  ASSUME DeskTyped, NEW o \in log, Desk!AnswerLost(o)
  PROVE  /\ flight[o.form] = o.number /\ flight' = [flight EXCEPT ![o.form] = None]
         /\ log' = (log \ {o}) \cup {Failed(o)} /\ UNCHANGED <<intent, deskUsed>>
         /\ Failed(o) \in Desk!Orders
         /\ Failed(o).number = o.number /\ Failed(o).form = o.form /\ Failed(o).kind = o.kind
         /\ Failed(o).answer = "lost" /\ Failed(o).source = o.source /\ Failed(o).state = o.state
<1>1. /\ flight[o.form] = o.number /\ flight' = [flight EXCEPT ![o.form] = None]
      /\ log' = (log \ {o}) \cup {Failed(o)} /\ UNCHANGED <<intent, deskUsed>>
  BY DEF Desk!AnswerLost, Failed
<1>2. o \in Desk!Orders
  BY DEF DeskTyped, Logged
<1>3. /\ Failed(o) \in Desk!Orders
      /\ Failed(o) = [number |-> o.number, form |-> o.form, acct |-> o.acct, symbol |-> o.symbol,
                      kind |-> o.kind, source |-> o.source, state |-> o.state, answer |-> "lost"]
  BY <1>2, OrderStates DEF Failed
<1>4. /\ Failed(o).number = o.number /\ Failed(o).form = o.form /\ Failed(o).kind = o.kind
      /\ Failed(o).answer = "lost" /\ Failed(o).source = o.source /\ Failed(o).state = o.state
  BY <1>3
<1> QED
  BY <1>1, <1>3, <1>4

LEMMA DeskTypedEngine ==
  ASSUME DeskTyped, NEW o \in log,
         Desk!EngineTakes(o) \/ Desk!Answered(o) \/ Desk!AnswerLost(o)
  PROVE  DeskTyped'
<1> USE DEF DeskTyped
<1>0. /\ o \in Desk!Orders /\ o.acct \in DeskAccounts /\ o.symbol \in DeskSymbols
      /\ o.kind \in Desk!Kinds /\ o.number \in 0..DeskOrders /\ o.form \in Desk!Forms
  BY DEF Logged, Desk!Orders
<1>1. CASE Desk!EngineTakes(o)
  <2>1. Logged' /\ Intended'
    <3>1. PICK state : /\ log' = (log \ {o}) \cup {Outcome(o, state)}
                       /\ Outcome(o, state) \in Desk!Orders /\ Outcome(o, state).number = o.number
                       /\ UNCHANGED <<intent, deskUsed>>
      BY <1>1, Taken
    <3> QED
      BY <3>1, Resolves
  <2>2. depositOpen' \in BOOLEAN
    BY <1>1, DepositSheetTyped DEF Desk!EngineTakes
  <2>3. OnPage'
    BY <1>1, <2>2 DEF Desk!EngineTakes, OnPage
  <2>4. Opened(o) \in Desk!Positions
    BY <1>0 DEF Opened, Desk!Positions
  <2>5. funds' \in [DeskAccounts -> Nat] /\ positions' \subseteq Desk!Positions
    <3>1. funds[o.acct] \in Nat
      BY <1>0 DEF Held
    <3> QED
      BY <1>0, <1>1, <2>4, <3>1, Taken DEF Held
  <2>6. UNCHANGED <<closing, brought>>
    BY <1>1 DEF Desk!EngineTakes
  <2> QED
    BY <2>1, <2>3, <2>5, <2>6 DEF Held
<1>2. CASE Desk!Answered(o)
  <2>1. /\ flight' = [flight EXCEPT ![o.form] = None] /\ ticket' \in {None, ticket}
        /\ intent' \in {None, intent}
        /\ UNCHANGED <<symbol, acct, market, tabs, depositOpen, funds, positions, brought, closing, log,
                       deskUsed>>
    BY <1>2 DEF Desk!Answered, Desk!engineSide
  <2>2. flight' \in [Desk!Forms -> 0..DeskOrders \cup {None}]
    BY <2>1 DEF OnPage
  <2> QED
    BY <2>1, <2>2 DEF Logged, OnPage, Intended, Held
<1>3. CASE Desk!AnswerLost(o)
  <2>1. /\ flight' = [flight EXCEPT ![o.form] = None]
        /\ UNCHANGED <<symbol, acct, market, tabs, depositOpen, ticket, funds, positions, brought, closing>>
    BY <1>3 DEF Desk!AnswerLost, Desk!page, Desk!engineSide
  <2>2. Logged' /\ Intended'
    BY <1>3, Lost, Resolves
  <2>3. flight' \in [Desk!Forms -> 0..DeskOrders \cup {None}]
    BY <2>1 DEF OnPage
  <2>4. OnPage'
    BY <2>1, <2>3 DEF OnPage
  <2> QED
    BY <2>1, <2>2, <2>4 DEF Held
<1> QED
  BY <1>1, <1>2, <1>3

(* Closing.                                                                 *)
LEMMA ClosesSent ==
  ASSUME DeskTyped, NEW batch \in SUBSET positions, \A p \in batch : p.kind # "binary",
         Desk!SendClose(batch)
  PROVE  DeskTyped'
<1>1. /\ closing' = closing \cup {<<p, IF <<p, 1>> \in closing THEN 2 ELSE 1>> : p \in batch}
      /\ UNCHANGED <<symbol, acct, market, tabs, depositOpen, ticket, flight, intent, funds,
                     positions, brought, log, deskUsed>>
  BY DEF Desk!SendClose, Desk!page, Desk!engineSide
<1>2. batch \subseteq {p \in Desk!Positions : p.kind # "binary"}
  BY DEF DeskTyped, Held
<1>3. closing' \subseteq {p \in Desk!Positions : p.kind # "binary"} \X {1, 2}
  <2> SUFFICES ASSUME NEW call \in closing'
               PROVE  call \in {p \in Desk!Positions : p.kind # "binary"} \X {1, 2}
    OBVIOUS
  <2>1. CASE call \in closing
    BY <2>1 DEF DeskTyped, Held
  <2>2. CASE call \notin closing
    <3>1. PICK p \in batch : call = <<p, IF <<p, 1>> \in closing THEN 2 ELSE 1>>
      BY <1>1, <2>2
    <3>2. call \in {<<p, 1>>, <<p, 2>>}
      BY <3>1
    <3> QED
      BY <1>2, <3>2
  <2> QED
    BY <2>1, <2>2
<1> QED
  BY <1>1, <1>3 DEF DeskTyped, Logged, OnPage, Intended, Held

LEMMA DeskTypedClosing ==
  ASSUME DeskTyped,
         \/ \E s \in DeskSymbols : Desk!CloseBatch(s)
         \/ \E p \in positions : \/ Desk!ClosePosition(p) \/ Desk!PressClose(p)
                                \/ Desk!SwipeClose(p) \/ Desk!OptionSettles(p)
         \/ \E call \in closing : Desk!EngineCloses(call)
  PROVE  DeskTyped'
<1> USE DEF DeskTyped
<1>1. ASSUME NEW s \in DeskSymbols, Desk!CloseBatch(s) PROVE DeskTyped'
  BY <1>1, ClosesSent DEF Desk!CloseBatch, Desk!CfdRows, Desk!SpotRows, Desk!Listed
<1>2. ASSUME NEW p \in positions,
             Desk!ClosePosition(p) \/ Desk!PressClose(p) \/ Desk!SwipeClose(p)
      PROVE  DeskTyped'
  <2>1. Desk!SendClose({p})
    BY <1>2 DEF Desk!ClosePosition, Desk!PressClose, Desk!SwipeClose
  <2>2. p.kind # "binary"
    BY <1>2 DEF Desk!ClosePosition, Desk!PressClose, Desk!SwipeClose,
                Desk!SwipeableRow, Desk!CfdRows, Desk!SpotRows
  <2>3. {p} \in SUBSET positions /\ \A q \in {p} : q.kind # "binary"
    BY <2>2
  <2> QED
    BY <2>1, <2>3, ClosesSent
<1>3. ASSUME NEW p \in positions, Desk!OptionSettles(p) PROVE DeskTyped'
  <2>1. PICK gain \in {0, 2} : /\ funds' = [funds EXCEPT ![p.acct] = @ + gain]
                               /\ brought' = [brought EXCEPT ![p.acct] = @ + gain - 1]
    BY <1>3 DEF Desk!OptionSettles
  <2>f. funds' \in [DeskAccounts -> Nat]
    <3>1. p.acct \in DeskAccounts
      BY DEF Held, Desk!Positions
    <3>2. funds[p.acct] + gain \in Nat
      BY <3>1 DEF Held
    <3> QED
      BY <2>1, <3>2 DEF Held
  <2>b. brought' \in [DeskAccounts -> Int]
    <3>1. p.acct \in DeskAccounts
      BY DEF Held, Desk!Positions
    <3>2. brought[p.acct] + gain - 1 \in Int
      BY <3>1 DEF Held
    <3> QED
      BY <2>1, <3>2 DEF Held
  <2>3. depositOpen' \in BOOLEAN
    BY <1>3, DepositSheetTyped DEF Desk!OptionSettles
  <2>4. /\ positions' = positions \ {p}
        /\ UNCHANGED <<symbol, acct, market, tabs, ticket, flight, intent, closing, log, deskUsed>>
    BY <1>3 DEF Desk!OptionSettles
  <2>5. Logged' /\ Intended' /\ OnPage'
    BY <2>3, <2>4 DEF Logged, OnPage, Intended
  <2> QED
    BY <2>f, <2>b, <2>4, <2>5 DEF Held
<1>4. ASSUME NEW call \in closing, Desk!EngineCloses(call) PROVE DeskTyped'
  <2>1. funds' \in {funds, [funds EXCEPT ![call[1].acct] = @ + 1]}
    BY <1>4 DEF Desk!EngineCloses
  <2>2. funds' \in [DeskAccounts -> Nat]
    BY <2>1 DEF Held
  <2>3. depositOpen' \in BOOLEAN
    BY <1>4, DepositSheetTyped DEF Desk!EngineCloses
  <2>4. /\ positions' = positions \ {call[1]} /\ closing' = closing \ {call}
        /\ UNCHANGED <<symbol, acct, market, tabs, ticket, flight, intent, brought, log, deskUsed>>
    BY <1>4 DEF Desk!EngineCloses
  <2>5. Logged' /\ Intended' /\ OnPage'
    BY <2>3, <2>4 DEF Logged, OnPage, Intended
  <2> QED
    BY <2>2, <2>4, <2>5 DEF Held
<1> QED
  BY <1>1, <1>2, <1>3, <1>4

LEMMA DeskTypedStep == DeskTyped /\ [Desk!Next]_(Desk!deskVars) => DeskTyped'
<1> SUFFICES ASSUME DeskTyped, [Desk!Next]_(Desk!deskVars) PROVE DeskTyped'
  OBVIOUS
<1>1. CASE UNCHANGED Desk!deskVars
  BY <1>1 DEF Desk!deskVars, Desk!page, Desk!engineSide, DeskTyped, Logged, OnPage, Intended, Held
<1>2. ASSUME NEW s \in DeskSymbols,
             Desk!SelectSymbol(s) \/ Desk!MarketTurns(s) \/ Desk!OpenTicket(s)
      PROVE  DeskTyped'
  BY <1>2, DeskTypedKnobs DEF DeskTyped, OnPage, Desk!Kinds
<1>3. ASSUME NEW a \in DeskAccounts, Desk!SwitchAccount(a) \/ Desk!Deposit(a) PROVE DeskTyped'
  BY <1>3, DeskTypedKnobs DEF DeskTyped, OnPage, Desk!Kinds
<1>4. ASSUME NEW form \in {"panel", "mobile"}, NEW tab \in Desk!Kinds, Desk!PickTab(form, tab)
      PROVE  DeskTyped'
  BY <1>4, DeskTypedKnobs DEF DeskTyped, OnPage
<1> QED
  BY <1>1, <1>2, <1>3, <1>4, DeskTypedPlacing, DeskTypedEngine, DeskTypedClosing DEF Desk!Next

-----------------------------------------------------------------------------
(* What is said of the orders. *)

OrdersSound == Sourced /\ Placing

(* Most steps leave the orders, the intent and the sheet's button alone.    *)
LEMMA DeskQuiet ==
  ASSUME OrdersSound, UNCHANGED <<log, intent>>, flight'["pending"] = flight["pending"]
  PROVE  OrdersSound'
BY DEF OrdersSound, Sourced, Placing, Live

LEMMA SoundCaptured ==
  ASSUME DeskTyped, OrdersSound, NEW kind \in Desk!Kinds, Desk!Capture(kind)
  PROVE  OrdersSound'
<1>1. /\ UNCHANGED <<log, flight>> /\ Intended'
      /\ intent' # None => intent'.number = deskUsed.orders
  BY Captured
<1>2. Sourced'
  BY <1>1 DEF OrdersSound, Sourced
<1>3. \A o \in log : o.source # None => o.source < deskUsed.orders
  <2> SUFFICES ASSUME NEW o \in log, o.source # None PROVE o.source < deskUsed.orders
    OBVIOUS
  <2>1. o.number \in Nat /\ o.source \in Nat /\ deskUsed.orders \in Nat /\ o.number < deskUsed.orders
    BY DeskBounds DEF DeskTyped, Logged, Desk!Orders
  <2>2. o.source <= o.number
    BY DEF OrdersSound, Sourced
  <2> QED
    BY <2>1, <2>2
<1> QED
  BY <1>1, <1>2, <1>3 DEF OrdersSound, Placing, Live

(* An order of another form than the sheet.                                 *)
LEMMA SoundSent ==
  ASSUME DeskTyped, OrdersSound, NEW form \in {"panel", "mobile", "ticket"},
         NEW a \in DeskAccounts, NEW s \in DeskSymbols, NEW kind \in Desk!Kinds,
         Desk!Send(form, a, s, kind, None), UNCHANGED intent
  PROVE  OrdersSound'
<1>0. form \in Desk!Forms /\ "pending" \in Desk!Forms /\ form # "pending"
  BY DEF Desk!Forms
<1> DEFINE o == OrderOf(form, a, s, kind, None)
<1>1. /\ log' = log \cup {o} /\ flight' = [flight EXCEPT ![form] = deskUsed.orders]
  BY <1>0, OrderSent
<1>2. flight'["pending"] = flight["pending"]
  BY <1>0, <1>1 DEF DeskTyped, OnPage
<1>3. o.form = form /\ o.source = None
  BY DEF OrderOf
<1> HIDE DEF o
<1>4. ~ Live(o)
  BY <1>3 DEF Live
<1>5. Sourced'
  BY <1>0, <1>1, <1>3 DEF OrdersSound, Sourced
<1>6. Placing'
  BY <1>1, <1>2, <1>4 DEF OrdersSound, Placing, Live
<1> QED
  BY <1>5, <1>6 DEF OrdersSound

(* The sheet's own order, while no other waits for its answer.              *)
LEMMA SoundConfirmed ==
  ASSUME DeskTyped, OrdersSound, Desk!ConfirmIntent
  PROVE  OrdersSound'
<1>0. "pending" \in Desk!Forms
  BY DEF Desk!Forms
<1>1. /\ intent # None /\ flight["pending"] = None /\ UNCHANGED intent
      /\ Desk!Send("pending", intent.acct, intent.symbol, intent.kind, intent.number)
  BY DEF Desk!ConfirmIntent, Desk!Funded, Desk!PendingReady
<1>2. /\ intent.acct \in DeskAccounts /\ intent.symbol \in DeskSymbols
      /\ intent.kind \in Desk!Kinds /\ intent.number \in 0..DeskOrders
      /\ intent.number \in Nat /\ intent.number # None /\ intent.number <= deskUsed.orders
  BY <1>1, DeskBounds DEF DeskTyped, Intended, Intents
<1> DEFINE o == OrderOf("pending", intent.acct, intent.symbol, intent.kind, intent.number)
<1>3. /\ log' = log \cup {o} /\ flight' = [flight EXCEPT !["pending"] = deskUsed.orders]
      /\ \A p \in log : p.number < deskUsed.orders
  BY <1>0, <1>1, <1>2, OrderSent
<1>4. flight'["pending"] = deskUsed.orders
  BY <1>0, <1>3 DEF DeskTyped, OnPage
<1>5. /\ o.form = "pending" /\ o.source = intent.number
      /\ o.state = "sent" /\ o.number = deskUsed.orders
  BY DEF OrderOf
<1> HIDE DEF o
<1>6. Sourced'
  BY <1>2, <1>3, <1>5 DEF OrdersSound, Sourced
<1>8. \A p \in log : Live(p) => p.state # "sent"
  BY <1>1, DeskBounds DEF OrdersSound, Placing, DeskTyped, Logged, Desk!Orders
<1>9. \A p \in log : /\ flight["pending"] # p.number
                     /\ p.source # None => p.source \in Nat
                     /\ p.state \in {"sent", "placed", "refused"}
  BY <1>1, DeskBounds DEF DeskTyped, Logged, Desk!Orders
<1>10. \A p \in log : Live(p) /\ p.state = "placed" => p.source < intent.number
  BY <1>1, <1>9 DEF OrdersSound, Placing
<1>11. \A p \in log : Live(p) /\ p.source = o.source => p.state = "refused"
  <2> SUFFICES ASSUME NEW p \in log, Live(p), p.source = o.source PROVE p.state = "refused"
    OBVIOUS
  <2>1. ~ (p.source < intent.number)
    BY <1>2, <1>5
  <2> QED
    BY <2>1, <1>8, <1>9, <1>10
<1>12. \A p \in log' : Live(p) /\ p.state = "sent" => flight'["pending"] = p.number
  BY <1>3, <1>4, <1>5, <1>8
<1>13. \A p \in log' : Live(p) /\ p.state = "placed" => p.source < intent.number
  BY <1>3, <1>5, <1>10
<1>14. \A p, q \in log' : Live(p) /\ Live(q) /\ p # q /\ p.source = q.source
           => "refused" \in {p.state, q.state}
  BY <1>3, <1>11 DEF OrdersSound, Placing
<1>15. Placing'
  BY <1>1, <1>12, <1>13, <1>14 DEF Placing, Live
<1> QED
  BY <1>6, <1>15 DEF OrdersSound

(* An order is replaced by one that differs in its state, or is lost.       *)
LEMMA SoundTaken ==
  ASSUME DeskTyped, OrdersSound, NEW o \in log, Desk!EngineTakes(o)
  PROVE  OrdersSound'
<1>0. PICK state \in {"placed", "refused"} :
         /\ o.state = "sent" /\ log' = (log \ {o}) \cup {Outcome(o, state)}
         /\ Outcome(o, state).state = state
         /\ Outcome(o, state).number = o.number /\ Outcome(o, state).form = o.form
         /\ Outcome(o, state).answer = o.answer /\ Outcome(o, state).source = o.source
         /\ UNCHANGED <<flight, intent>>
  BY Taken
<1> DEFINE p == Outcome(o, state)
<1>1. /\ o.state = "sent" /\ log' = (log \ {o}) \cup {p} /\ p.state \in {"placed", "refused"}
      /\ p.number = o.number /\ p.form = o.form /\ p.answer = o.answer /\ p.source = o.source
      /\ UNCHANGED <<flight, intent>>
  BY <1>0
<1> HIDE DEF p
<1>2. Sourced'
  BY <1>1 DEF OrdersSound, Sourced
<1>3. Live(p) <=> Live(o)
  BY <1>1 DEF Live
<1>4. Live(o) => flight["pending"] = p.number
  BY <1>1 DEF OrdersSound, Placing
<1>5. \A q \in log : Live(o) /\ Live(q) /\ o # q /\ o.source = q.source => q.state = "refused"
  BY <1>1 DEF OrdersSound, Placing
<1>6. \A q \in log' : Live(q) /\ q.state = "sent" => flight["pending"] = q.number
  BY <1>1, <1>4 DEF OrdersSound, Placing
<1>7. \A q \in log' : Live(q) /\ q.state = "placed" /\ flight["pending"] # q.number
           => intent = None \/ q.source < intent.number
  BY <1>1, <1>3, <1>4 DEF OrdersSound, Placing
<1>8. \A q, r \in log' : Live(q) /\ Live(r) /\ q # r /\ q.source = r.source
           => "refused" \in {q.state, r.state}
  BY <1>1, <1>3, <1>5 DEF OrdersSound, Placing
<1>9. Placing'
  BY <1>1, <1>6, <1>7, <1>8 DEF Placing, Live
<1> QED
  BY <1>2, <1>9 DEF OrdersSound

LEMMA SoundAnswered ==
  ASSUME DeskTyped, OrdersSound, NEW o \in log, Desk!Answered(o)
  PROVE  OrdersSound'
<1>1. /\ o.state \in {"placed", "refused"} /\ flight[o.form] = o.number
      /\ flight' = [flight EXCEPT ![o.form] = None] /\ UNCHANGED log
      /\ intent' = IF o.form = "pending" /\ o.state = "placed" THEN None ELSE intent
  BY DEF Desk!Answered
<1>2. CASE o.form # "pending"
  <2>1. intent' = intent
    BY <1>1, <1>2
  <2>2. flight'["pending"] = flight["pending"]
    BY <1>1, <1>2 DEF DeskTyped, OnPage, Desk!Forms
  <2> QED
    BY <1>1, <2>1, <2>2, DeskQuiet
<1>3. CASE o.form = "pending"
  <2>1. flight["pending"] = o.number /\ flight'["pending"] = None
    BY <1>1, <1>3 DEF DeskTyped, OnPage, Desk!Forms
  <2>2. \A q \in log : flight["pending"] = q.number => q = o
    BY <2>1 DEF DeskTyped, Logged
  <2>3. \A q \in log : Live(q) => q.state # "sent"
    BY <1>1, <2>2 DEF OrdersSound, Placing
  <2>4. \A q \in log : Live(q) /\ q.state = "placed" => intent' = None \/ q.source < intent'.number
    BY <1>1, <1>3, <2>2 DEF OrdersSound, Placing
  <2>5. Sourced'
    BY <1>1 DEF OrdersSound, Sourced
  <2>6. Placing'
    BY <1>1, <2>3, <2>4 DEF OrdersSound, Placing, Live
  <2> QED
    BY <2>5, <2>6 DEF OrdersSound
<1> QED
  BY <1>2, <1>3

LEMMA SoundLost ==
  ASSUME DeskTyped, OrdersSound, NEW o \in log, Desk!AnswerLost(o)
  PROVE  OrdersSound'
<1> DEFINE p == Failed(o)
<1>1. /\ flight[o.form] = o.number /\ flight' = [flight EXCEPT ![o.form] = None]
      /\ log' = (log \ {o}) \cup {p} /\ UNCHANGED intent
      /\ p.number = o.number /\ p.form = o.form /\ p.kind = o.kind
      /\ p.answer = "lost" /\ p.source = o.source
  BY Lost
<1> HIDE DEF p
<1>2. Sourced'
  BY <1>1 DEF OrdersSound, Sourced
<1>3. ~ Live(p)
  BY <1>1 DEF Live
<1>4. \A q \in log' : Live(q) => q \in log /\ q # o
  BY <1>1, <1>3
<1>5. \A q \in log : Live(q) /\ q # o =>
          /\ q.state # "sent" \/ flight'["pending"] = q.number
          /\ q.state = "placed" => (flight'["pending"] = q.number \/ intent = None
                                      \/ q.source < intent.number)
  <2>1. CASE o.form = "pending"
    <3>1. \A q \in log : flight["pending"] = q.number => q = o
      BY <1>1, <2>1 DEF DeskTyped, Logged
    <3> QED
      BY <3>1 DEF OrdersSound, Placing
  <2>2. CASE o.form # "pending"
    <3>1. flight'["pending"] = flight["pending"]
      BY <1>1, <2>2 DEF DeskTyped, OnPage, Desk!Forms
    <3> QED
      BY <3>1 DEF OrdersSound, Placing
  <2> QED
    BY <2>1, <2>2
<1>6. \A q, r \in log' : Live(q) /\ Live(r) /\ q # r /\ q.source = r.source
           => "refused" \in {q.state, r.state}
  BY <1>4 DEF OrdersSound, Placing
<1>7. Placing'
  BY <1>1, <1>4, <1>5, <1>6 DEF Placing, Live
<1> QED
  BY <1>2, <1>7 DEF OrdersSound

LEMMA SoundStep == DeskTyped /\ OrdersSound /\ [Desk!Next]_(Desk!deskVars) => OrdersSound'
<1> SUFFICES ASSUME DeskTyped, OrdersSound, [Desk!Next]_(Desk!deskVars) PROVE OrdersSound'
  OBVIOUS
<1>q. ASSUME UNCHANGED <<log, intent, flight>> PROVE OrdersSound'
  BY <1>q, DeskQuiet
<1>k. /\ acct \in DeskAccounts /\ symbol \in DeskSymbols
      /\ tabs.panel \in Desk!Kinds /\ Desk!MobileShows(tabs.mobile) \in Desk!Kinds /\ "cfd" \in Desk!Kinds
  BY DEF DeskTyped, OnPage, Desk!Kinds, Desk!MobileShows
<1>1. CASE UNCHANGED Desk!deskVars
  BY <1>1, <1>q DEF Desk!deskVars
<1>2. ASSUME NEW s \in DeskSymbols,
             Desk!SelectSymbol(s) \/ Desk!MarketTurns(s) \/ Desk!CloseBatch(s)
      PROVE  OrdersSound'
  BY <1>2, <1>q DEF Desk!SelectSymbol, Desk!MarketTurns, Desk!CloseBatch, Desk!SendClose
<1>3. ASSUME NEW s \in DeskSymbols, Desk!OpenTicket(s) PROVE OrdersSound'
  <2>1. flight'["pending"] = flight["pending"] /\ UNCHANGED <<log, intent>>
    BY <1>3 DEF Desk!OpenTicket, DeskTyped, OnPage, Desk!Forms
  <2> QED
    BY <2>1, DeskQuiet
<1>4. ASSUME NEW a \in DeskAccounts, Desk!SwitchAccount(a) \/ Desk!Deposit(a) PROVE OrdersSound'
  BY <1>4, <1>q DEF Desk!SwitchAccount, Desk!Deposit
<1>5. ASSUME NEW form \in {"panel", "mobile"}, NEW tab \in Desk!Kinds, Desk!PickTab(form, tab)
      PROVE  OrdersSound'
  BY <1>5, <1>q DEF Desk!PickTab
<1>6. CASE Desk!PanelTrade
  <2>1. CASE Desk!Capture(tabs.panel)
    BY <1>k, <2>1, SoundCaptured
  <2>2. CASE Desk!Send("panel", acct, symbol, tabs.panel, None) /\ UNCHANGED intent
    BY <1>k, <2>2, SoundSent
  <2> QED
    BY <1>6, <2>1, <2>2 DEF Desk!PanelTrade
<1>7. CASE Desk!MobileTrade
  <2>1. CASE Desk!Capture(Desk!MobileShows(tabs.mobile))
    BY <1>k, <2>1, SoundCaptured
  <2>2. CASE Desk!Send("mobile", acct, symbol, Desk!MobileShows(tabs.mobile), None) /\ UNCHANGED intent
    BY <1>k, <2>2, SoundSent
  <2> QED
    BY <1>7, <2>1, <2>2 DEF Desk!MobileTrade
<1>8. CASE Desk!TicketTrade
  <2>1. ticket \in DeskSymbols /\ Desk!Send("ticket", acct, ticket, "cfd", None) /\ UNCHANGED intent
    BY <1>8 DEF Desk!TicketTrade, Desk!TicketOffered, DeskTyped, OnPage
  <2> QED
    BY <1>k, <2>1, SoundSent
<1>9. CASE Desk!CloseTicket \/ Desk!CloseDeposit
  BY <1>9, <1>q DEF Desk!CloseTicket, Desk!CloseDeposit
<1>10. CASE Desk!DropIntent
  BY <1>10 DEF Desk!DropIntent, OrdersSound, Sourced, Placing, Live
<1>11. ASSUME NEW o \in log, Desk!EngineTakes(o) \/ Desk!Answered(o) \/ Desk!AnswerLost(o)
       PROVE  OrdersSound'
  BY <1>11, SoundTaken, SoundAnswered, SoundLost
<1>12. ASSUME NEW p \in positions,
              \/ Desk!ClosePosition(p) \/ Desk!PressClose(p)
              \/ Desk!SwipeClose(p) \/ Desk!OptionSettles(p)
       PROVE  OrdersSound'
  BY <1>12, <1>q DEF Desk!ClosePosition, Desk!PressClose, Desk!SwipeClose, Desk!OptionSettles,
                     Desk!SendClose
<1>13. ASSUME NEW call \in closing, Desk!EngineCloses(call) PROVE OrdersSound'
  BY <1>13, <1>q DEF Desk!EngineCloses
<1> QED
  BY <1>1, <1>2, <1>3, <1>4, <1>5, <1>6, <1>7, <1>8, <1>9, <1>10, <1>11, <1>12, <1>13,
      SoundConfirmed
     DEF Desk!Next

LEMMA DeskInit == Desk!Init => DeskTyped /\ OrdersSound
<1> SUFFICES ASSUME Desk!Init PROVE DeskTyped /\ OrdersSound
  OBVIOUS
<1>0. /\ 0 \in 0..DeskOrders /\ 0 \in Nat /\ 2 \in Nat
  BY DeskBounds
<1>1. Logged
  BY <1>0, FS_EmptySet DEF Desk!Init, Logged
<1>2. OnPage
  <2>1. depositOpen \in BOOLEAN
    BY DEF Desk!Init
  <2>2. tabs \in [{"panel", "mobile"} -> Desk!Kinds]
    BY DEF Desk!Init, Desk!Kinds
  <2>3. flight \in [Desk!Forms -> 0..DeskOrders \cup {None}]
    BY DEF Desk!Init
  <2> QED
    BY <2>1, <2>2, <2>3, DeskBounds DEF Desk!Init, OnPage
<1>3. Intended /\ Held
  BY <1>0 DEF Desk!Init, Intended, Held
<1>4. OrdersSound
  BY DEF Desk!Init, OrdersSound, Sourced, Placing
<1> QED
  BY <1>1, <1>2, <1>3, <1>4 DEF DeskTyped

-----------------------------------------------------------------------------
(* What is said of the money. *)

LEMMA DeskCardinality == ASSUME NEW S PROVE Desk!Cardinality(S) = Cardinality(S)
BY DEF Desk!Cardinality, Cardinality

InPositions(a) == {p \in positions : p.acct = a}

(* A position is of an order that was placed: an order still to be placed   *)
(* has none, and opens a new one.                                           *)
FromOrders ==
    /\ IsFiniteSet(positions)
    /\ \A p \in positions : /\ p.number < deskUsed.orders
                            /\ \A o \in log : o.number = p.number => o.state = "placed"
Balanced == \A a \in DeskAccounts : funds[a] + Cardinality(InPositions(a)) = brought[a]
MoneySound == FromOrders /\ Balanced

LEMMA BalancedIsKept == Balanced <=> MoneyKept
BY DeskCardinality DEF Balanced, InPositions, MoneyKept, Desk!MoneyKept

LEMMA MoneyQuiet ==
  ASSUME MoneySound, UNCHANGED <<positions, funds, brought, log>>,
         deskUsed'.orders = deskUsed.orders
  PROVE  MoneySound'
BY DEF MoneySound, FromOrders, Balanced, InPositions

(* An order is sent: it has a number no position has.                       *)
LEMMA MoneySent ==
  ASSUME DeskTyped, MoneySound, NEW form \in Desk!Forms, NEW a \in DeskAccounts,
         NEW s \in DeskSymbols, NEW kind \in Desk!Kinds, NEW source \in 0..DeskOrders \cup {None},
         Desk!Send(form, a, s, kind, source), UNCHANGED <<positions, funds, brought>>
  PROVE  MoneySound'
<1>1. /\ log' = log \cup {OrderOf(form, a, s, kind, source)}
      /\ deskUsed'.orders = deskUsed.orders + 1
      /\ OrderOf(form, a, s, kind, source).number = deskUsed.orders
  BY OrderSent DEF OrderOf
<1>2. deskUsed.orders \in Nat /\ \A p \in positions : p.number \in Nat
  BY DeskBounds DEF DeskTyped, Logged, Held, Desk!Positions
<1>3. \A p \in positions : /\ p.number < deskUsed'.orders
                           /\ \A o \in log' : o.number = p.number => o.state = "placed"
  <2> SUFFICES ASSUME NEW p \in positions
               PROVE  /\ p.number < deskUsed'.orders
                      /\ \A o \in log' : o.number = p.number => o.state = "placed"
    OBVIOUS
  <2>1. p.number < deskUsed.orders /\ p.number \in Nat
    BY <1>2 DEF MoneySound, FromOrders
  <2>2. \A o \in log : o.number = p.number => o.state = "placed"
    BY DEF MoneySound, FromOrders
  <2> QED
    BY <1>1, <1>2, <2>1, <2>2
<1> QED
  BY <1>3 DEF MoneySound, FromOrders, Balanced, InPositions

(* One position more, or one less.                                          *)
LEMMA OneMore ==
  ASSUME FromOrders, NEW q, q \notin positions, positions' = positions \cup {q}
  PROVE  /\ IsFiniteSet(positions')
         /\ \A a \in DeskAccounts : Cardinality(InPositions(a)') =
                Cardinality(InPositions(a)) + (IF a = q.acct THEN 1 ELSE 0)
<1>1. IsFiniteSet(positions')
  BY FS_AddElement DEF FromOrders
<1>2. ASSUME NEW a \in DeskAccounts
      PROVE  Cardinality(InPositions(a)') = Cardinality(InPositions(a))
                                              + (IF a = q.acct THEN 1 ELSE 0)
  <2>1. IsFiniteSet(InPositions(a)) /\ Cardinality(InPositions(a)) \in Nat
    BY FS_Subset, FS_CardinalityType DEF FromOrders, InPositions
  <2>2. CASE a = q.acct
    <3>1. InPositions(a)' = InPositions(a) \cup {q} /\ q \notin InPositions(a)
      BY <2>2 DEF InPositions
    <3> QED
      BY <2>1, <2>2, <3>1, FS_AddElement
  <2>3. CASE a # q.acct
    <3>1. InPositions(a)' = InPositions(a)
      BY <2>3 DEF InPositions
    <3> QED
      BY <2>1, <2>3, <3>1
  <2> QED
    BY <2>2, <2>3
<1> QED
  BY <1>1, <1>2

LEMMA OneLess ==
  ASSUME FromOrders, NEW q \in positions, positions' = positions \ {q}
  PROVE  /\ IsFiniteSet(positions')
         /\ \A a \in DeskAccounts : Cardinality(InPositions(a)') =
                Cardinality(InPositions(a)) - (IF a = q.acct THEN 1 ELSE 0)
<1>1. IsFiniteSet(positions')
  BY FS_RemoveElement DEF FromOrders
<1>2. ASSUME NEW a \in DeskAccounts
      PROVE  Cardinality(InPositions(a)') = Cardinality(InPositions(a))
                                              - (IF a = q.acct THEN 1 ELSE 0)
  <2>1. IsFiniteSet(InPositions(a)) /\ Cardinality(InPositions(a)) \in Nat
    BY FS_Subset, FS_CardinalityType DEF FromOrders, InPositions
  <2>2. CASE a = q.acct
    <3>1. InPositions(a)' = InPositions(a) \ {q} /\ q \in InPositions(a)
      BY <2>2 DEF InPositions
    <3> QED
      BY <2>1, <2>2, <3>1, FS_RemoveElement
  <2>3. CASE a # q.acct
    <3>1. InPositions(a)' = InPositions(a)
      BY <2>3 DEF InPositions
    <3> QED
      BY <2>1, <2>3, <3>1
  <2> QED
    BY <2>2, <2>3
<1> QED
  BY <1>1, <1>2

LEMMA MoneyTaken ==
  ASSUME DeskTyped, MoneySound, NEW o \in log, Desk!EngineTakes(o)
  PROVE  MoneySound'
<1>1. PICK state \in {"placed", "refused"} :
         /\ o.state = "sent" /\ log' = (log \ {o}) \cup {Outcome(o, state)}
         /\ Outcome(o, state).state = state /\ Outcome(o, state).number = o.number
         /\ UNCHANGED deskUsed
         /\ state = "placed" => /\ funds[o.acct] >= 1 /\ funds' = [funds EXCEPT ![o.acct] = @ - 1]
                                /\ positions' = positions \cup {Opened(o)}
         /\ state = "refused" => UNCHANGED <<funds, positions>>
  BY Taken
<1>2. brought' = brought
  BY DEF Desk!EngineTakes
<1>3. \A p \in positions : p.number # o.number
  BY <1>1 DEF MoneySound, FromOrders
<1>4. Opened(o).number = o.number /\ Opened(o).acct = o.acct
  BY DEF Opened
<1>5. o.acct \in DeskAccounts /\ o.number < deskUsed.orders
  BY DEF DeskTyped, Logged, Desk!Orders
<1>6. \A p \in positions : /\ p.number < deskUsed'.orders
                           /\ \A q \in log' : q.number = p.number => q.state = "placed"
  BY <1>1, <1>3 DEF MoneySound, FromOrders
<1>7. CASE state = "refused"
  BY <1>1, <1>2, <1>6, <1>7 DEF MoneySound, FromOrders, Balanced, InPositions
<1>8. CASE state = "placed"
  <2>1. Opened(o) \notin positions
    BY <1>3, <1>4
  <2>2. /\ IsFiniteSet(positions')
        /\ \A a \in DeskAccounts : Cardinality(InPositions(a)') =
               Cardinality(InPositions(a)) + (IF a = o.acct THEN 1 ELSE 0)
    BY <1>1, <1>4, <1>8, <2>1, OneMore DEF MoneySound
  <2>3. \A q \in log' : q.number = o.number => q.state = "placed"
    BY <1>1, <1>8 DEF DeskTyped, Logged
  <2>4. FromOrders'
    BY <1>1, <1>4, <1>5, <1>6, <1>8, <2>2, <2>3 DEF FromOrders
  <2>5. ASSUME NEW a \in DeskAccounts
        PROVE  funds'[a] + Cardinality(InPositions(a)') = brought'[a]
    <3>1. /\ funds[a] + Cardinality(InPositions(a)) = brought[a]
          /\ IsFiniteSet(InPositions(a)) /\ Cardinality(InPositions(a)) \in Nat
      BY FS_Subset, FS_CardinalityType DEF MoneySound, Balanced, FromOrders, InPositions
    <3>2. funds'[a] = funds[a] - (IF a = o.acct THEN 1 ELSE 0) /\ funds[a] \in Nat
      BY <1>1, <1>8 DEF DeskTyped, Held
    <3>3. Cardinality(InPositions(a)') = Cardinality(InPositions(a)) + (IF a = o.acct THEN 1 ELSE 0)
      BY <2>2
    <3> QED
      BY <1>2, <3>1, <3>2, <3>3
  <2> QED
    BY <2>4, <2>5 DEF MoneySound, Balanced
<1> QED
  BY <1>7, <1>8

(* An option ends, or a call closes a position: if it is there it is paid,  *)
(* and is there no more.                                                    *)
LEMMA MoneyPaid ==
  ASSUME DeskTyped, MoneySound, NEW p \in positions, NEW gain \in Nat,
         positions' = positions \ {p}, UNCHANGED <<log, deskUsed>>,
         funds' = [funds EXCEPT ![p.acct] = @ + gain],
         brought' = [brought EXCEPT ![p.acct] = @ + gain - 1]
  PROVE  MoneySound'
<1>1. /\ IsFiniteSet(positions')
      /\ \A a \in DeskAccounts : Cardinality(InPositions(a)') =
             Cardinality(InPositions(a)) - (IF a = p.acct THEN 1 ELSE 0)
  BY OneLess DEF MoneySound
<1>2. FromOrders'
  BY <1>1 DEF MoneySound, FromOrders
<1>3. ASSUME NEW a \in DeskAccounts
      PROVE  funds'[a] + Cardinality(InPositions(a)') = brought'[a]
  <2>1. /\ funds[a] + Cardinality(InPositions(a)) = brought[a]
        /\ IsFiniteSet(InPositions(a)) /\ Cardinality(InPositions(a)) \in Nat
    BY FS_Subset, FS_CardinalityType DEF MoneySound, Balanced, FromOrders, InPositions
  <2>2. /\ funds'[a] = funds[a] + (IF a = p.acct THEN gain ELSE 0) /\ funds[a] \in Nat
        /\ brought'[a] = brought[a] + (IF a = p.acct THEN gain - 1 ELSE 0) /\ brought[a] \in Int
    BY DEF DeskTyped, Held
  <2>3. Cardinality(InPositions(a)') = Cardinality(InPositions(a)) - (IF a = p.acct THEN 1 ELSE 0)
    BY <1>1
  <2> QED
    BY <2>1, <2>2, <2>3
<1> QED
  BY <1>2, <1>3 DEF MoneySound, Balanced

LEMMA MoneyClosed ==
  ASSUME DeskTyped, MoneySound, NEW call \in closing, Desk!EngineCloses(call)
  PROVE  MoneySound'
<1>1. /\ positions' = positions \ {call[1]} /\ UNCHANGED <<log, deskUsed, brought>>
      /\ funds' = IF call[1] \in positions THEN [funds EXCEPT ![call[1].acct] = @ + 1] ELSE funds
  BY DEF Desk!EngineCloses, Desk!Found
<1>2. CASE call[1] \in positions
  <2>1. brought' = [brought EXCEPT ![call[1].acct] = @ + 1 - 1]
    BY <1>1, <1>2 DEF DeskTyped, Held, Desk!Positions
  <2> QED
    BY <1>1, <1>2, <2>1, MoneyPaid
<1>3. CASE call[1] \notin positions
  BY <1>1, <1>3, MoneyQuiet
<1> QED
  BY <1>2, <1>3

LEMMA MoneyDeposited ==
  ASSUME DeskTyped, MoneySound, NEW a \in DeskAccounts, Desk!Deposit(a)
  PROVE  MoneySound'
<1>1. /\ funds' = [funds EXCEPT ![a] = @ + 1] /\ brought' = [brought EXCEPT ![a] = @ + 1]
      /\ UNCHANGED <<positions, log>> /\ deskUsed'.orders = deskUsed.orders
  BY DEF Desk!Deposit, Desk!Take, DeskTyped, Logged
<1>2. ASSUME NEW b \in DeskAccounts
      PROVE  funds'[b] + Cardinality(InPositions(b)') = brought'[b]
  <2>1. /\ funds[b] + Cardinality(InPositions(b)) = brought[b] /\ InPositions(b)' = InPositions(b)
        /\ IsFiniteSet(InPositions(b)) /\ Cardinality(InPositions(b)) \in Nat
    BY <1>1, FS_Subset, FS_CardinalityType DEF MoneySound, Balanced, FromOrders, InPositions
  <2>2. /\ funds'[b] = funds[b] + (IF b = a THEN 1 ELSE 0) /\ funds[b] \in Nat
        /\ brought'[b] = brought[b] + (IF b = a THEN 1 ELSE 0) /\ brought[b] \in Int
    BY <1>1 DEF DeskTyped, Held
  <2> QED
    BY <2>1, <2>2
<1>3. FromOrders'
  BY <1>1 DEF MoneySound, FromOrders
<1> QED
  BY <1>2, <1>3 DEF MoneySound, Balanced

LEMMA MoneyLost ==
  ASSUME DeskTyped, MoneySound, NEW o \in log, Desk!AnswerLost(o)
  PROVE  MoneySound'
<1>1. /\ log' = (log \ {o}) \cup {Failed(o)} /\ UNCHANGED deskUsed
      /\ Failed(o).number = o.number /\ Failed(o).state = o.state
  BY Lost
<1>2. UNCHANGED <<positions, funds, brought>>
  BY DEF Desk!AnswerLost, Desk!engineSide
<1> QED
  BY <1>1, <1>2 DEF MoneySound, FromOrders, Balanced, InPositions

LEMMA MoneyStep == DeskTyped /\ MoneySound /\ [Desk!Next]_(Desk!deskVars) => MoneySound'
<1> SUFFICES ASSUME DeskTyped, MoneySound, [Desk!Next]_(Desk!deskVars) PROVE MoneySound'
  OBVIOUS
<1>k. /\ acct \in DeskAccounts /\ symbol \in DeskSymbols /\ None \in 0..DeskOrders \cup {None}
      /\ tabs.panel \in Desk!Kinds /\ Desk!MobileShows(tabs.mobile) \in Desk!Kinds
      /\ "cfd" \in Desk!Kinds /\ {"panel", "mobile", "ticket", "pending"} \subseteq Desk!Forms
  BY DEF DeskTyped, OnPage, Desk!Kinds, Desk!Forms, Desk!MobileShows
<1>q. ASSUME UNCHANGED <<positions, funds, brought, log, deskUsed>> PROVE MoneySound'
  BY <1>q, MoneyQuiet
<1>1. CASE UNCHANGED Desk!deskVars
  BY <1>1, <1>q DEF Desk!deskVars, Desk!engineSide
<1>2. ASSUME NEW s \in DeskSymbols, NEW a \in DeskAccounts,
             NEW form \in {"panel", "mobile"}, NEW tab \in Desk!Kinds,
             \/ Desk!SelectSymbol(s) \/ Desk!MarketTurns(s) \/ Desk!OpenTicket(s)
             \/ Desk!SwitchAccount(a) \/ Desk!PickTab(form, tab)
      PROVE  MoneySound'
  <2>1. UNCHANGED <<positions, funds, brought, log>> /\ Desk!Take("changes", DeskChanges)
    BY <1>2 DEF Desk!SelectSymbol, Desk!MarketTurns, Desk!OpenTicket, Desk!SwitchAccount,
                Desk!PickTab, Desk!engineSide
  <2>2. deskUsed'.orders = deskUsed.orders
    BY <2>1 DEF Desk!Take, DeskTyped, Logged
  <2> QED
    BY <2>1, <2>2, MoneyQuiet
<1>3. ASSUME NEW s \in DeskSymbols, Desk!CloseBatch(s) PROVE MoneySound'
  BY <1>3, <1>q DEF Desk!CloseBatch, Desk!SendClose, Desk!engineSide
<1>4. CASE Desk!PanelTrade
  <2>1. UNCHANGED <<positions, funds, brought>>
    BY <1>4 DEF Desk!PanelTrade, Desk!engineSide
  <2>2. CASE Desk!Capture(tabs.panel)
    BY <2>1, <2>2, <1>q DEF Desk!Capture
  <2>3. CASE Desk!Send("panel", acct, symbol, tabs.panel, None)
    BY <1>k, <2>1, <2>3, MoneySent
  <2> QED
    BY <1>4, <2>2, <2>3 DEF Desk!PanelTrade
<1>5. CASE Desk!MobileTrade
  <2>1. UNCHANGED <<positions, funds, brought>>
    BY <1>5 DEF Desk!MobileTrade, Desk!engineSide
  <2>2. CASE Desk!Capture(Desk!MobileShows(tabs.mobile))
    BY <2>1, <2>2, <1>q DEF Desk!Capture
  <2>3. CASE Desk!Send("mobile", acct, symbol, Desk!MobileShows(tabs.mobile), None)
    BY <1>k, <2>1, <2>3, MoneySent
  <2> QED
    BY <1>5, <2>2, <2>3 DEF Desk!MobileTrade
<1>6. CASE Desk!TicketTrade
  <2>1. /\ ticket \in DeskSymbols /\ Desk!Send("ticket", acct, ticket, "cfd", None)
        /\ UNCHANGED <<positions, funds, brought>>
    BY <1>6 DEF Desk!TicketTrade, Desk!TicketOffered, DeskTyped, OnPage, Desk!engineSide
  <2> QED
    BY <1>k, <2>1, MoneySent
<1>7. CASE Desk!ConfirmIntent
  <2>1. /\ intent # None /\ UNCHANGED <<positions, funds, brought>>
        /\ Desk!Send("pending", intent.acct, intent.symbol, intent.kind, intent.number)
    BY <1>7 DEF Desk!ConfirmIntent, Desk!Funded, Desk!engineSide
  <2>2. /\ intent.acct \in DeskAccounts /\ intent.symbol \in DeskSymbols
        /\ intent.kind \in Desk!Kinds /\ intent.number \in 0..DeskOrders \cup {None}
    BY <2>1 DEF DeskTyped, Intended, Intents
  <2> QED
    BY <1>k, <2>1, <2>2, MoneySent
<1>8. CASE Desk!CloseTicket \/ Desk!CloseDeposit \/ Desk!DropIntent
  BY <1>8, <1>q DEF Desk!CloseTicket, Desk!CloseDeposit, Desk!DropIntent, Desk!engineSide
<1>9. ASSUME NEW o \in log, Desk!Answered(o) PROVE MoneySound'
  BY <1>9, <1>q DEF Desk!Answered, Desk!engineSide
<1>10. ASSUME NEW p \in positions,
              Desk!ClosePosition(p) \/ Desk!PressClose(p) \/ Desk!SwipeClose(p)
       PROVE  MoneySound'
  BY <1>10, <1>q DEF Desk!ClosePosition, Desk!PressClose, Desk!SwipeClose, Desk!SendClose,
                     Desk!engineSide
<1>11. ASSUME NEW p \in positions, Desk!OptionSettles(p) PROVE MoneySound'
  <2>1. PICK gain \in {0, 2} : /\ funds' = [funds EXCEPT ![p.acct] = @ + gain]
                               /\ brought' = [brought EXCEPT ![p.acct] = @ + gain - 1]
    BY <1>11 DEF Desk!OptionSettles
  <2>2. positions' = positions \ {p} /\ UNCHANGED <<log, deskUsed>>
    BY <1>11 DEF Desk!OptionSettles
  <2> QED
    BY <2>1, <2>2, MoneyPaid
<1> QED
  BY <1>k, <1>1, <1>2, <1>3, <1>4, <1>5, <1>6, <1>7, <1>8, <1>9, <1>10, <1>11, MoneyTaken,
      MoneyLost, MoneyClosed, MoneyDeposited
     DEF Desk!Next

LEMMA MoneyInit == Desk!Init => MoneySound
<1> SUFFICES ASSUME Desk!Init PROVE MoneySound
  OBVIOUS
<1>1. positions = {} /\ brought = funds /\ \A a \in DeskAccounts : funds[a] \in Nat
  BY DEF Desk!Init
<1>2. \A a \in DeskAccounts : InPositions(a) = {}
  BY <1>1 DEF InPositions
<1> QED
  BY <1>1, <1>2, FS_EmptySet DEF MoneySound, FromOrders, Balanced

LEMMA DeskInvariant == BrowserSpec => [](DeskTyped /\ OrdersSound /\ MoneySound)
BY DeskInit, DeskTypedStep, SoundStep, MoneyInit, MoneyStep, DeskSteps, PTL DEF Desk!Spec

(* However often and in whatever order positions are closed, by the rows,   *)
(* the swipes and the batches of the page, each is paid back once: what an  *)
(* account can pay with and what is open is what it was given and its       *)
(* options won or lost (useSwipeToClose, close_cfd, close_spot).            *)
THEOREM ClosesPayOnce == BrowserSpec => []MoneyKept
<1>1. DeskTyped /\ OrdersSound /\ MoneySound => MoneyKept
  BY BalancedIsKept DEF MoneySound
<1> QED
  BY <1>1, DeskInvariant, PTL

(* Of one intent at most one order is placed, through confirmations,        *)
(* refusals, sheets closed and opened, deposits and changes of account,     *)
(* unless an answer was lost (PendingTradeSheet confirm, page.tsx onDone).  *)
THEOREM PlacesIntentOnce == BrowserSpec => []IntentPlacedOnce
<1>1. DeskTyped /\ OrdersSound /\ MoneySound => IntentPlacedOnce
  BY DEF OrdersSound, Placing, Live, IntentPlacedOnce, Desk!IntentPlacedOnce
<1> QED
  BY <1>1, DeskInvariant, PTL

-----------------------------------------------------------------------------
(* MoneySheets. *)

SheetLegs == SheetAccounts \cup {Savings, None}
WithdrawForms ==
    [amount: SheetAmounts \cup {None}, dest: SheetDests \cup {None}, holder: SheetDests \cup {None},
     resolving: Nat, confirm: BOOLEAN, busy: Nat,
     reviewed: {None} \cup [amount: SheetAmounts \cup {None}, who: SheetDests \cup {None}]]

Tallied == moneyUsed \in [opens: Nat, edits: Nat, presses: 0..SheetPresses]

CallShape(c) == c = [kind |-> c.kind, n |-> c.n, what |-> c.what, state |-> c.state]

(* Requests are numbered as they go out; a name is asked for a destination  *)
(* by a form, which is there only once a sheet was opened.                  *)
GoneOut(c, number) ==
    /\ CallShape(c) /\ c.n \in Nat /\ c.n < number
    /\ c.kind \in {"status", "submit"} => c.state \in {"out", "verified", "unverified"}
    /\ c.kind = "resolve" => 0 < c.n /\ c.what \in SheetDests
Called == \A c \in waiting : GoneOut(c, Sheets!Number)

(* What the form shows of a holder is the destination's, and the name that  *)
(* is awaited is too; a review that stands is of what is typed.             *)
Formed == wform # None =>
    /\ wform \in WithdrawForms /\ 0 < moneyUsed.opens /\ wform.resolving < Sheets!Number
    /\ wform.holder # None => wform.holder = Sheets!NameOf(wform.dest)
    /\ \A c \in waiting : c.kind = "resolve" /\ c.n = wform.resolving => c.what = wform.dest
    /\ wform.confirm => /\ wform.reviewed = Sheets!Label(wform)
                        /\ channel = "ngn" => wform.resolving = 0

SentSound(s) ==
    /\ s = [kind |-> s.kind, n |-> s.n, what |-> s.what, reviewed |-> s.reviewed, moved |-> s.moved]
    /\ s.kind = "withdraw" =>
          LET ngn == s.what.channel = "ngn"
          IN  /\ s.reviewed = [amount |-> s.what.amount,
                               who |-> IF ngn THEN s.what.name ELSE s.what.dest]
              /\ ngn => s.what.name = Sheets!NameOf(s.what.dest)
Sent == \A s \in sent : SentSound(s)

LEMMA SheetBounds == SheetOpens \in Nat /\ SheetEdits \in Nat /\ SheetPresses \in Nat
BY BrowserGiven

LEMMA NumberType == Tallied => Sheets!Number \in Nat
BY SheetBounds DEF Tallied, Sheets!Number

(* A press, an edit or an opening counts one.                               *)
LEMMA Counted ==
  ASSUME Tallied, NEW what \in {"opens", "edits", "presses"}, NEW bound \in Nat,
         what = "presses" => bound = SheetPresses, Sheets!Bound(what, bound)
  PROVE  /\ Tallied' /\ Sheets!Number' = Sheets!Number + 1 /\ Sheets!Number \in Nat
         /\ moneyUsed'.opens \in {moneyUsed.opens, moneyUsed.opens + 1}
         /\ what = "opens" => moneyUsed'.opens = moneyUsed.opens + 1
         /\ what = "presses" => moneyUsed'.presses = moneyUsed.presses + 1
         /\ what # "presses" => moneyUsed'.presses = moneyUsed.presses
<1>0. /\ moneyUsed.opens \in Nat /\ moneyUsed.edits \in Nat /\ moneyUsed.presses \in Nat
      /\ moneyUsed.presses \in 0..SheetPresses
  BY SheetBounds DEF Tallied
<1>1. moneyUsed[what] < bound /\ moneyUsed' = [moneyUsed EXCEPT ![what] = @ + 1]
  BY DEF Sheets!Bound
<1>2. CASE what = "opens"
  <2>1. /\ moneyUsed'.opens = moneyUsed.opens + 1 /\ moneyUsed'.edits = moneyUsed.edits
        /\ moneyUsed'.presses = moneyUsed.presses
        /\ Tallied'
    BY <1>0, <1>1, <1>2 DEF Tallied
  <2>2. Sheets!Number' = (moneyUsed.opens + 1) + moneyUsed.edits + moneyUsed.presses
    BY <2>1 DEF Sheets!Number
  <2> QED
    BY <1>0, <1>2, <2>1, <2>2 DEF Sheets!Number
<1>3. CASE what = "edits"
  <2>1. /\ moneyUsed'.opens = moneyUsed.opens /\ moneyUsed'.edits = moneyUsed.edits + 1
        /\ moneyUsed'.presses = moneyUsed.presses
        /\ Tallied'
    BY <1>0, <1>1, <1>3 DEF Tallied
  <2>2. Sheets!Number' = moneyUsed.opens + (moneyUsed.edits + 1) + moneyUsed.presses
    BY <2>1 DEF Sheets!Number
  <2> QED
    BY <1>0, <1>3, <2>1, <2>2 DEF Sheets!Number
<1>4. CASE what = "presses"
  <2>0. moneyUsed.presses + 1 \in 0..SheetPresses
    BY <1>0, <1>1, <1>4, SheetBounds
  <2>1. /\ moneyUsed'.opens = moneyUsed.opens /\ moneyUsed'.edits = moneyUsed.edits
        /\ moneyUsed'.presses = moneyUsed.presses + 1
        /\ Tallied'
    BY <1>0, <1>1, <1>4, <2>0 DEF Tallied
  <2>2. Sheets!Number' = moneyUsed.opens + moneyUsed.edits + (moneyUsed.presses + 1)
    BY <2>1 DEF Sheets!Number
  <2> QED
    BY <1>0, <1>4, <2>1, <2>2 DEF Sheets!Number
<1> QED
  BY <1>2, <1>3, <1>4

Counts(what, bound) == Sheets!Bound(what, bound) \/ UNCHANGED moneyUsed

LEMMA CountedOrNot ==
  ASSUME Tallied, NEW what \in {"opens", "edits", "presses"}, NEW bound \in Nat,
         what = "presses" => bound = SheetPresses, Counts(what, bound)
  PROVE  /\ Tallied' /\ Sheets!Number \in Nat
         /\ Sheets!Number' \in {Sheets!Number, Sheets!Number + 1}
         /\ moneyUsed'.opens \in {moneyUsed.opens, moneyUsed.opens + 1}
         /\ moneyUsed'.presses \in {moneyUsed.presses, moneyUsed.presses + 1}
<1>1. CASE Sheets!Bound(what, bound)
  BY <1>1, Counted
<1>2. CASE UNCHANGED moneyUsed
  BY <1>2, NumberType DEF Tallied, Sheets!Number
<1> QED
  BY <1>1, <1>2 DEF Counts

LEMMA EveryStepCounts ==
  ASSUME Tallied, [Sheets!Next]_(Sheets!moneyVars)
  PROVE  /\ Tallied' /\ Sheets!Number \in Nat
         /\ Sheets!Number' \in {Sheets!Number, Sheets!Number + 1}
         /\ moneyUsed'.opens \in {moneyUsed.opens, moneyUsed.opens + 1}
         /\ moneyUsed'.presses \in {moneyUsed.presses, moneyUsed.presses + 1}
<1>1. \/ Counts("opens", SheetOpens) \/ Counts("edits", SheetEdits) \/ Counts("presses", SheetPresses)
  <2>1. ASSUME NEW s, Sheets!OpenSheet(s) PROVE Counts("opens", SheetOpens)
    BY <2>1 DEF Sheets!OpenSheet, Counts
  <2>2. ASSUME NEW c, Sheets!SwitchChannel(c) PROVE Counts("opens", SheetOpens)
    BY <2>2 DEF Sheets!SwitchChannel, Counts
  <2>3. ASSUME NEW n, Sheets!TypeAmount(n) \/ Sheets!TypeTransfer(n) PROVE Counts("edits", SheetEdits)
    BY <2>3 DEF Sheets!TypeAmount, Sheets!TypeTransfer, Counts
  <2>4. ASSUME NEW d, Sheets!TypeDest(d) PROVE Counts("edits", SheetEdits)
    BY <2>4 DEF Sheets!TypeDest, Counts
  <2>5. ASSUME NEW leg, Sheets!PickFrom(leg) \/ Sheets!PickTo(leg) PROVE Counts("edits", SheetEdits)
    BY <2>5 DEF Sheets!PickFrom, Sheets!PickTo, Counts
  <2>6. CASE Sheets!Review
    BY <2>6 DEF Sheets!Review, Counts
  <2>7. CASE Sheets!Withdraw \/ Sheets!Transfer \/ Sheets!SubmitKyc
    BY <2>7 DEF Sheets!Withdraw, Sheets!Transfer, Sheets!SubmitKyc, Counts
  <2>8. CASE Sheets!CloseSheet \/ Sheets!Unmount \/ Sheets!TimedClose \/ UNCHANGED Sheets!moneyVars
    BY <2>8 DEF Sheets!CloseSheet, Sheets!Unmount, Sheets!TimedClose, Sheets!moneyVars, Counts
  <2>9. ASSUME NEW c \in waiting,
               \/ Sheets!Resolved(c) \/ Sheets!WithdrawServed(c) \/ Sheets!WithdrawAnswered(c)
               \/ Sheets!WithdrawFails(c) \/ Sheets!TransferServed(c) \/ Sheets!TransferAnswered(c)
               \/ Sheets!TransferFails(c) \/ Sheets!BalancesArrive(c)
        PROVE  Counts("opens", SheetOpens)
    BY <2>9 DEF Sheets!Resolved, Sheets!WithdrawServed, Sheets!WithdrawAnswered,
                Sheets!WithdrawFails, Sheets!TransferServed, Sheets!TransferAnswered,
                Sheets!TransferFails, Sheets!BalancesArrive, Counts
  <2>10. ASSUME NEW c \in waiting,
                \/ Sheets!StatusServed(c) \/ Sheets!StatusAnswered(c) \/ Sheets!KycServed(c)
                \/ Sheets!KycAnswered(c) \/ Sheets!KycFails(c)
         PROVE  Counts("opens", SheetOpens)
    BY <2>10 DEF Sheets!StatusServed, Sheets!StatusAnswered, Sheets!KycServed, Sheets!KycAnswered,
                 Sheets!KycFails, Counts
  <2> QED
    BY <2>1, <2>2, <2>3, <2>4, <2>5, <2>6, <2>7, <2>8, <2>9, <2>10 DEF Sheets!Next
<1> QED
  BY <1>1, CountedOrNot, SheetBounds

(* The requests: some are answered, one is served, one goes out.            *)
ResolvesKept == \A c \in waiting' : c.kind = "resolve" => c \in waiting

LEMMA NumberGrows ==
  ASSUME NEW c, NEW n \in Nat, NEW m \in {n, n + 1}, GoneOut(c, n)
  PROVE  GoneOut(c, m)
BY DEF GoneOut, CallShape

LEMMA CallsStay ==
  ASSUME Tallied, Called, [Sheets!Next]_(Sheets!moneyVars), waiting' \subseteq waiting
  PROVE  Called' /\ ResolvesKept
<1>1. \A c \in waiting' : GoneOut(c, Sheets!Number')
  BY EveryStepCounts, NumberGrows DEF Called
<1> QED
  BY <1>1 DEF Called, ResolvesKept

LEMMA CallsMove ==
  ASSUME Tallied, Called, [Sheets!Next]_(Sheets!moneyVars), NEW c \in waiting, NEW d,
         waiting' = (waiting \ {c}) \cup {d}, CallShape(d), d.n = c.n, d.kind # "resolve",
         d.kind \in {"status", "submit"} => d.state \in {"out", "verified", "unverified"}
  PROVE  Called' /\ ResolvesKept
<1>1. GoneOut(d, Sheets!Number)
  BY DEF Called, GoneOut
<1>2. \A e \in waiting' : GoneOut(e, Sheets!Number')
  BY <1>1, EveryStepCounts, NumberGrows DEF Called
<1> QED
  BY <1>2 DEF Called, ResolvesKept

LEMMA CallsAdd ==
  ASSUME Tallied, Called, Sheets!Number' = Sheets!Number + 1, NEW kind, NEW what,
         waiting' = waiting \cup {Sheets!Call(kind, what)},
         kind = "resolve" => 0 < Sheets!Number /\ what \in SheetDests
  PROVE  Called' /\ (kind # "resolve" => ResolvesKept)
<1> DEFINE d == Sheets!Call(kind, what)
<1>1. Sheets!Number \in Nat
  BY NumberType
<1>2. CallShape(d) /\ d.kind = kind /\ d.n = Sheets!Number /\ d.state = "out" /\ d.what = what
  BY DEF Sheets!Call, CallShape
<1> HIDE DEF d
<1>3. GoneOut(d, Sheets!Number + 1)
  BY <1>1, <1>2 DEF GoneOut
<1>4. \A e \in waiting : GoneOut(e, Sheets!Number + 1)
  BY <1>1, NumberGrows DEF Called
<1>5. \A e \in waiting' : GoneOut(e, Sheets!Number')
  BY <1>3, <1>4 DEF d
<1>6. kind # "resolve" => ResolvesKept
  BY <1>2 DEF ResolvesKept, d
<1> QED
  BY <1>5, <1>6 DEF Called

LEMMA ServedShape ==
  ASSUME NEW c, CallShape(c), NEW state
  PROVE  LET d == [c EXCEPT !.state = state]
         IN  CallShape(d) /\ d.kind = c.kind /\ d.n = c.n /\ d.what = c.what /\ d.state = state
BY DEF CallShape

LEMMA CalledServed ==
  ASSUME Tallied, Called, [Sheets!Next]_(Sheets!moneyVars), NEW c \in waiting,
         c.kind # "resolve", NEW state, waiting' = Sheets!With(c, state),
         c.kind \in {"status", "submit"} => state \in {"out", "verified", "unverified"}
  PROVE  Called' /\ ResolvesKept
<1> DEFINE d == [c EXCEPT !.state = state]
<1>1. CallShape(c)
  BY DEF Called, GoneOut
<1>2. CallShape(d) /\ d.kind = c.kind /\ d.n = c.n /\ d.state = state
  BY <1>1, ServedShape
<1>3. waiting' = (waiting \ {c}) \cup {d}
  BY DEF Sheets!With
<1> HIDE DEF d
<1> QED
  BY <1>2, <1>3, CallsMove

LEMMA CalledBalances ==
  ASSUME Tallied, Called, [Sheets!Next]_(Sheets!moneyVars), NEW c \in waiting,
         waiting' = Sheets!Balances(c)
  PROVE  Called' /\ ResolvesKept
<1> DEFINE d == [kind |-> "balances", n |-> c.n, what |-> None, state |-> "out"]
<1>2. CallShape(d) /\ d.kind = "balances" /\ d.n = c.n
  BY DEF CallShape
<1>3. waiting' = (waiting \ {c}) \cup {d}
  BY DEF Sheets!Balances
<1> HIDE DEF d
<1> QED
  BY <1>2, <1>3, CallsMove

LEMMA CalledStep ==
  ASSUME Tallied, Called, Formed, [Sheets!Next]_(Sheets!moneyVars)
  PROVE  Called' /\ (ResolvesKept \/ \E d \in SheetDests \cup {None} : Sheets!TypeDest(d))
<1>s. ASSUME waiting' \subseteq waiting PROVE Called' /\ ResolvesKept
  BY <1>s, CallsStay
<1>1. ASSUME NEW s \in Sheets!Sheets, Sheets!OpenSheet(s) PROVE Called' /\ ResolvesKept
  <2>1. Sheets!Number' = Sheets!Number + 1
    BY <1>1, Counted, SheetBounds DEF Sheets!OpenSheet
  <2>2. CASE s = "kyc"
    <3>1. waiting' = waiting \cup {Sheets!Call("status", None)}
      BY <1>1, <2>2 DEF Sheets!OpenSheet
    <3> QED
      BY <2>1, <3>1, CallsAdd
  <2>3. CASE s # "kyc"
    BY <1>1, <1>s, <2>3 DEF Sheets!OpenSheet
  <2> QED
    BY <2>2, <2>3
<1>2. ASSUME NEW d \in SheetDests \cup {None}, Sheets!TypeDest(d) PROVE Called'
  <2>1. Sheets!Number' = Sheets!Number + 1 /\ Sheets!Number \in Nat
    BY <1>2, Counted, SheetBounds DEF Sheets!TypeDest
  <2>2. CASE channel = "ngn" /\ d # None
    <3>1. waiting' = waiting \cup {Sheets!Call("resolve", d)}
      BY <1>2, <2>2 DEF Sheets!TypeDest
    <3>2. wform # None /\ 0 < moneyUsed.opens
      BY <1>2 DEF Sheets!TypeDest, Sheets!Mounted, Formed
    <3>3. 0 < Sheets!Number
      BY <3>2, SheetBounds DEF Sheets!Number, Tallied
    <3> QED
      BY <2>1, <2>2, <3>1, <3>3, CallsAdd
  <2>3. CASE ~ (channel = "ngn" /\ d # None)
    BY <1>2, <1>s, <2>3 DEF Sheets!TypeDest
  <2> QED
    BY <2>2, <2>3
<1>3. CASE Sheets!Withdraw
  <2>1. Sheets!Number' = Sheets!Number + 1
    BY <1>3, Counted, SheetBounds DEF Sheets!Withdraw
  <2>2. PICK w : waiting' = waiting \cup {Sheets!Call("withdraw", w)}
    BY <1>3 DEF Sheets!Withdraw
  <2> QED
    BY <2>1, <2>2, CallsAdd
<1>4. CASE Sheets!Transfer
  <2>1. Sheets!Number' = Sheets!Number + 1
    BY <1>4, Counted, SheetBounds DEF Sheets!Transfer
  <2>2. waiting' = waiting \cup {Sheets!Call("transfer", xform.form)}
    BY <1>4 DEF Sheets!Transfer
  <2> QED
    BY <2>1, <2>2, CallsAdd
<1>5. CASE Sheets!SubmitKyc
  <2>1. Sheets!Number' = Sheets!Number + 1
    BY <1>5, Counted, SheetBounds DEF Sheets!SubmitKyc
  <2>2. waiting' = waiting \cup {Sheets!Call("submit", None)}
    BY <1>5 DEF Sheets!SubmitKyc
  <2> QED
    BY <2>1, <2>2, CallsAdd
<1>6. CASE \/ Sheets!CloseSheet \/ Sheets!Unmount \/ Sheets!Review \/ Sheets!TimedClose
           \/ UNCHANGED Sheets!moneyVars
  BY <1>6, <1>s DEF Sheets!CloseSheet, Sheets!Unmount, Sheets!Review, Sheets!TimedClose,
                    Sheets!moneyVars
<1>7. ASSUME NEW x, \/ Sheets!SwitchChannel(x) \/ Sheets!TypeAmount(x) \/ Sheets!TypeTransfer(x)
                    \/ Sheets!PickFrom(x) \/ Sheets!PickTo(x)
      PROVE  Called' /\ ResolvesKept
  BY <1>7, <1>s DEF Sheets!SwitchChannel, Sheets!TypeAmount, Sheets!TypeTransfer, Sheets!PickFrom,
                    Sheets!PickTo
<1>8. ASSUME NEW c \in waiting,
             \/ Sheets!Resolved(c) \/ Sheets!WithdrawFails(c) \/ Sheets!TransferFails(c)
             \/ Sheets!BalancesArrive(c) \/ Sheets!StatusAnswered(c) \/ Sheets!KycFails(c)
      PROVE  Called' /\ ResolvesKept
  BY <1>8, <1>s DEF Sheets!Resolved, Sheets!WithdrawFails, Sheets!TransferFails,
                    Sheets!BalancesArrive, Sheets!StatusAnswered, Sheets!KycFails
<1>9. ASSUME NEW c \in waiting, Sheets!WithdrawServed(c) \/ Sheets!TransferServed(c)
      PROVE  Called' /\ ResolvesKept
  <2>1. PICK state : waiting' = Sheets!With(c, state)
    BY <1>9 DEF Sheets!WithdrawServed, Sheets!TransferServed
  <2>2. c.kind \in {"withdraw", "transfer"}
    BY <1>9 DEF Sheets!WithdrawServed, Sheets!TransferServed
  <2> QED
    BY <2>1, <2>2, CalledServed
<1>10. ASSUME NEW c \in waiting, Sheets!StatusServed(c) \/ Sheets!KycServed(c)
       PROVE  Called' /\ ResolvesKept
  <2>1. PICK state \in {"verified", "unverified"} : waiting' = Sheets!With(c, state)
    BY <1>10 DEF Sheets!StatusServed, Sheets!KycServed
  <2>2. c.kind \in {"status", "submit"}
    BY <1>10 DEF Sheets!StatusServed, Sheets!KycServed
  <2> QED
    BY <2>1, <2>2, CalledServed
<1>11. ASSUME NEW c \in waiting, Sheets!WithdrawAnswered(c) \/ Sheets!TransferAnswered(c)
       PROVE  Called' /\ ResolvesKept
  <2>1. waiting' = Sheets!Balances(c)
    BY <1>11 DEF Sheets!WithdrawAnswered, Sheets!TransferAnswered
  <2> QED
    BY <2>1, CalledBalances
<1>12. ASSUME NEW c \in waiting, Sheets!KycAnswered(c) PROVE Called' /\ ResolvesKept
  <2>1. CASE waiting' = Sheets!Balances(c)
    BY <2>1, CalledBalances
  <2>2. CASE waiting' = waiting \ {c}
    BY <2>2, <1>s
  <2> QED
    BY <1>12, <2>1, <2>2 DEF Sheets!KycAnswered
<1> QED
  BY <1>1, <1>2, <1>3, <1>4, <1>5, <1>6, <1>7, <1>8, <1>9, <1>10, <1>11, <1>12 DEF Sheets!Next

(* The withdrawal form.                                                     *)
Named(f, ch) == [amount |-> f.amount, who |-> IF ch = "ngn" THEN f.holder ELSE f.dest]

FormSound(f, ch, number, cs) ==
    /\ f \in WithdrawForms /\ f.resolving < number
    /\ f.holder # None => f.holder = f.dest
    /\ \A c \in cs : c.kind = "resolve" /\ c.n = f.resolving => c.what = f.dest
    /\ f.confirm => f.reviewed = Named(f, ch) /\ (ch = "ngn" => f.resolving = 0)

LEMMA FormedIs ==
    Formed <=> (wform # None =>
                  0 < moneyUsed.opens /\ FormSound(wform, channel, Sheets!Number, waiting))
BY DEF Formed, FormSound, Named, Sheets!NameOf, Sheets!Label, Sheets!NgnLabel, Sheets!UsdtLabel

LEMMA FormedWillBe ==
    Formed' <=> (wform' # None =>
                  0 < moneyUsed'.opens /\ FormSound(wform', channel', Sheets!Number', waiting'))
BY DEF Formed, FormSound, Named, Sheets!NameOf, Sheets!Label, Sheets!NgnLabel, Sheets!UsdtLabel

LEMMA FormKept ==
  ASSUME NEW f, NEW ch, NEW n \in Nat, NEW m \in {n, n + 1}, NEW cs, NEW ds,
         \A c \in ds : c.kind = "resolve" => c \in cs, FormSound(f, ch, n, cs)
  PROVE  FormSound(f, ch, m, ds)
BY DEF FormSound, WithdrawForms

LEMMA FormedStays ==
  ASSUME Tallied, Formed, [Sheets!Next]_(Sheets!moneyVars), ResolvesKept,
         UNCHANGED <<wform, channel>>
  PROVE  Formed'
<1>0. /\ moneyUsed.opens \in Nat /\ moneyUsed'.opens \in {moneyUsed.opens, moneyUsed.opens + 1}
      /\ Sheets!Number \in Nat /\ Sheets!Number' \in {Sheets!Number, Sheets!Number + 1}
  BY EveryStepCounts DEF Tallied
<1>1. 0 < moneyUsed.opens => 0 < moneyUsed'.opens
  BY <1>0
<1>2. FormSound(wform, channel, Sheets!Number, waiting)
         => FormSound(wform, channel, Sheets!Number', waiting')
  BY <1>0, FormKept DEF ResolvesKept
<1> QED
  BY <1>1, <1>2, FormedIs, FormedWillBe

LEMMA BlankSound ==
  ASSUME NEW ch, NEW n \in Nat, 0 < n, NEW cs, \A c \in cs : c.kind = "resolve" => 0 < c.n /\ c.n \in Nat
  PROVE  FormSound(Sheets!BlankForm, ch, n, cs)
<1>1. Sheets!BlankForm \in WithdrawForms
  BY DEF Sheets!BlankForm, WithdrawForms
<1>2. /\ Sheets!BlankForm.resolving = 0 /\ Sheets!BlankForm.holder = None
      /\ Sheets!BlankForm.confirm = FALSE
  BY DEF Sheets!BlankForm
<1> QED
  BY <1>1, <1>2 DEF FormSound

(* What is typed takes the review back.                                     *)
LEMMA AmountSound ==
  ASSUME NEW f, NEW ch, NEW n, NEW cs, FormSound(f, ch, n, cs), NEW x \in SheetAmounts
  PROVE  FormSound([Sheets!Edited(f) EXCEPT !.amount = x], ch, n, cs)
<1> DEFINE g == [Sheets!Edited(f) EXCEPT !.amount = x]
<1>1. f \in WithdrawForms
  BY DEF FormSound
<1>2. /\ g \in WithdrawForms /\ g.dest = f.dest /\ g.holder = f.holder
      /\ g.resolving = f.resolving
  BY <1>1 DEF WithdrawForms, Sheets!Edited
<1>3. g.confirm = FALSE
  BY <1>1 DEF WithdrawForms, Sheets!Edited
<1> HIDE DEF g
<1> QED
  BY <1>2, <1>3 DEF FormSound, g

LEMMA DestSound ==
  ASSUME NEW f, NEW ch, NEW n \in Nat, 0 < n, NEW cs, FormSound(f, ch, n, cs),
         NEW d \in SheetDests \cup {None}, NEW r \in {0, n},
         NEW m, m = n + 1, NEW ds, \A c \in ds : c.kind = "resolve" => 0 < c.n /\ c.n \in Nat,
         \A c \in ds : c.kind = "resolve" /\ c.n = n => c.what = d
  PROVE  FormSound([Sheets!Edited(f) EXCEPT !.dest = d, !.holder = None, !.resolving = r], ch, m, ds)
<1> DEFINE g == [Sheets!Edited(f) EXCEPT !.dest = d, !.holder = None, !.resolving = r]
<1>1. f \in WithdrawForms
  BY DEF FormSound
<1>2. g \in WithdrawForms
  <2>0. r \in Nat
    OBVIOUS
  <2>1. Sheets!Edited(f) \in WithdrawForms
    BY <1>1 DEF WithdrawForms, Sheets!Edited
  <2> QED
    BY <2>0, <2>1 DEF WithdrawForms
<1>3. g.dest = d /\ g.holder = None /\ g.resolving = r
  BY <1>1 DEF WithdrawForms, Sheets!Edited
<1>4. g.confirm = FALSE
  BY <1>1 DEF WithdrawForms, Sheets!Edited
<1> HIDE DEF g
<1>5. r < m
  OBVIOUS
<1> QED
  BY <1>2, <1>3, <1>4, <1>5 DEF FormSound, g

LEMMA HolderSound ==
  ASSUME NEW f, NEW ch, NEW n, NEW cs, FormSound(f, ch, n, cs),
         NEW c \in cs, c.kind = "resolve", c.n = f.resolving, 0 < n, 0 < c.n, c.n \in Nat,
         NEW name \in {c.what, None}, c.what \in SheetDests,
         NEW ds, \A e \in ds : e.kind = "resolve" => 0 < e.n /\ e.n \in Nat
  PROVE  FormSound([f EXCEPT !.holder = name, !.resolving = 0], ch, n, ds)
<1> DEFINE g == [f EXCEPT !.holder = name, !.resolving = 0]
<1>1. f \in WithdrawForms /\ c.what = f.dest
  BY DEF FormSound
<1>2. g \in WithdrawForms
  BY <1>1 DEF WithdrawForms
<1>3. /\ g.dest = f.dest /\ g.holder = name /\ g.resolving = 0 /\ g.amount = f.amount
      /\ g.reviewed = f.reviewed
  BY <1>1 DEF WithdrawForms
<1>4. g.confirm = f.confirm
  BY <1>1 DEF WithdrawForms
<1>5. f.confirm => ch # "ngn" /\ f.reviewed = Named(f, ch)
  BY DEF FormSound
<1> HIDE DEF g
<1>6. g.confirm => g.reviewed = Named(g, ch)
  BY <1>3, <1>4, <1>5 DEF Named
<1> QED
  BY <1>1, <1>2, <1>3, <1>6 DEF FormSound, g

LEMMA ReviewSound ==
  ASSUME NEW f, NEW ch, NEW n \in Nat, NEW cs, FormSound(f, ch, n, cs),
         ch = "ngn" => f.resolving = 0, NEW ds, \A c \in ds : c.kind = "resolve" => c \in cs
  PROVE  FormSound([f EXCEPT !.confirm = TRUE, !.reviewed = Named(f, ch)], ch, n + 1, ds)
<1> DEFINE g == [f EXCEPT !.confirm = TRUE, !.reviewed = Named(f, ch)]
<1>1. f \in WithdrawForms
  BY DEF FormSound
<1>2. Named(f, ch) \in [amount: SheetAmounts \cup {None}, who: SheetDests \cup {None}]
  BY <1>1 DEF Named, WithdrawForms
<1>3. g \in WithdrawForms
  BY <1>1, <1>2 DEF WithdrawForms
<1>4. /\ g.amount = f.amount /\ g.dest = f.dest /\ g.holder = f.holder /\ g.resolving = f.resolving
      /\ g.reviewed = Named(f, ch)
  BY <1>1 DEF WithdrawForms
<1>5. Named(g, ch) = Named(f, ch)
  BY <1>4 DEF Named
<1>6. g.resolving \in Nat /\ g.resolving < n + 1
  BY <1>1, <1>4 DEF FormSound, WithdrawForms
<1> HIDE DEF g
<1>7. FormSound(g, ch, n + 1, ds)
  BY <1>3, <1>4, <1>5, <1>6 DEF FormSound
<1> QED
  BY <1>7 DEF g

LEMMA BusySound ==
  ASSUME NEW f, NEW ch, NEW n, NEW cs, FormSound(f, ch, n, cs), NEW b \in Nat
  PROVE  FormSound([f EXCEPT !.busy = b], ch, n, cs)
<1> DEFINE g == [f EXCEPT !.busy = b]
<1>1. f \in WithdrawForms
  BY DEF FormSound
<1>2. g \in WithdrawForms
  BY <1>1 DEF WithdrawForms
<1>3. /\ g.amount = f.amount /\ g.dest = f.dest /\ g.holder = f.holder /\ g.resolving = f.resolving
      /\ g.reviewed = f.reviewed
  BY <1>1 DEF WithdrawForms
<1>4. g.confirm = f.confirm
  BY <1>1 DEF WithdrawForms
<1>5. Named(g, ch) = Named(f, ch)
  BY <1>3 DEF Named
<1> HIDE DEF g
<1>6. FormSound(g, ch, n, cs)
  BY <1>2, <1>3, <1>4, <1>5 DEF FormSound
<1> QED
  BY <1>6 DEF g

LEMMA EditedSound ==
  ASSUME NEW f, NEW ch, NEW n, NEW cs, FormSound(f, ch, n, cs)
  PROVE  FormSound(Sheets!Edited(f), ch, n, cs)
<1> DEFINE g == Sheets!Edited(f)
<1>1. f \in WithdrawForms
  BY DEF FormSound
<1>2. g \in WithdrawForms /\ g.dest = f.dest /\ g.holder = f.holder /\ g.resolving = f.resolving
  BY <1>1 DEF WithdrawForms, Sheets!Edited
<1>3. g.confirm = FALSE
  BY <1>1 DEF WithdrawForms, Sheets!Edited
<1> HIDE DEF g
<1>4. FormSound(g, ch, n, cs)
  BY <1>2, <1>3 DEF FormSound
<1> QED
  BY <1>4 DEF g

LEMMA FreedSound ==
  ASSUME NEW f, NEW ch, NEW n, NEW cs, FormSound(f, ch, n, cs), NEW c
  PROVE  FormSound(Sheets!Freed(c, f), ch, n, cs)
BY BusySound DEF Sheets!Freed

LEMMA FormedStep ==
  ASSUME Tallied, Called, Formed, [Sheets!Next]_(Sheets!moneyVars)
  PROVE  Formed'
<1>0. /\ moneyUsed.opens \in Nat /\ moneyUsed'.opens \in {moneyUsed.opens, moneyUsed.opens + 1}
      /\ Sheets!Number \in Nat /\ Sheets!Number' \in {Sheets!Number, Sheets!Number + 1}
      /\ Sheets!Number + 1 \in Nat
  BY EveryStepCounts DEF Tallied
<1>c. Called' /\ (ResolvesKept \/ \E d \in SheetDests \cup {None} : Sheets!TypeDest(d))
  BY CalledStep
<1>p. \A c \in waiting' : c.kind = "resolve" => 0 < c.n /\ c.n \in Nat
  BY <1>c DEF Called, GoneOut
<1>o. wform # None => 0 < moneyUsed'.opens
  BY <1>0 DEF Formed
<1>m. ASSUME 0 < moneyUsed'.opens PROVE 0 < Sheets!Number'
  BY <1>m, EveryStepCounts, SheetBounds DEF Tallied, Sheets!Number
<1>f. wform # None => FormSound(wform, channel, Sheets!Number, waiting)
  BY FormedIs
<1>g. ASSUME ResolvesKept, wform # None PROVE FormSound(wform, channel, Sheets!Number', waiting')
  BY <1>0, <1>f, <1>g, FormKept DEF ResolvesKept
<1>k. ASSUME ResolvesKept, UNCHANGED <<wform, channel>> PROVE Formed'
  BY <1>k, FormedStays
<1>w. ASSUME wform' # None => 0 < moneyUsed'.opens
                              /\ FormSound(wform', channel', Sheets!Number', waiting')
      PROVE  Formed'
  BY <1>w, FormedWillBe
<1>1. ASSUME NEW s \in Sheets!Sheets, Sheets!OpenSheet(s) PROVE Formed'
  <2>1. CASE s = "withdraw" /\ wform = None
    <3>1. wform' = Sheets!BlankForm
      BY <1>1, <2>1 DEF Sheets!OpenSheet
    <3>2. moneyUsed'.opens = moneyUsed.opens + 1
      BY <1>1, Counted, SheetBounds DEF Sheets!OpenSheet
    <3>3. 0 < moneyUsed'.opens
      BY <1>0, <3>2
    <3>4. FormSound(wform', channel', Sheets!Number', waiting')
      BY <1>0, <1>p, <1>m, <3>1, <3>3, BlankSound
    <3> QED
      BY <1>w, <3>3, <3>4
  <2>2. CASE ~ (s = "withdraw" /\ wform = None)
    <3>1. UNCHANGED <<wform, channel>>
      BY <1>1, <2>2 DEF Sheets!OpenSheet
    <3>2. Sheets!Number' = Sheets!Number + 1
      BY <1>1, Counted, SheetBounds DEF Sheets!OpenSheet
    <3>3. ResolvesKept
      BY <1>1, <3>2, CallsAdd DEF Sheets!OpenSheet, ResolvesKept
    <3> QED
      BY <1>k, <3>1, <3>3
  <2> QED
    BY <2>1, <2>2
<1>2. CASE Sheets!Unmount
  BY <1>2, <1>w DEF Sheets!Unmount
<1>3. ASSUME NEW c \in Sheets!Channels, Sheets!SwitchChannel(c) PROVE Formed'
  <2>1. wform # None /\ wform' = Sheets!BlankForm
    BY <1>3 DEF Sheets!SwitchChannel, Sheets!Mounted
  <2>2. FormSound(wform', channel', Sheets!Number', waiting')
    BY <1>0, <1>o, <1>p, <1>m, <2>1, BlankSound
  <2> QED
    BY <1>o, <1>w, <2>1, <2>2
<1>4. ASSUME NEW n \in SheetAmounts, Sheets!TypeAmount(n) PROVE Formed'
  <2>1. /\ wform # None /\ wform' = [Sheets!Edited(wform) EXCEPT !.amount = n]
        /\ ResolvesKept /\ channel' = channel
    BY <1>4 DEF Sheets!TypeAmount, Sheets!Mounted, ResolvesKept
  <2>2. FormSound(wform', channel', Sheets!Number', waiting')
    BY <1>g, <2>1, AmountSound
  <2> QED
    BY <1>o, <1>w, <2>1, <2>2
<1>5. ASSUME NEW d \in SheetDests \cup {None}, Sheets!TypeDest(d) PROVE Formed'
  <2> DEFINE asks == channel = "ngn" /\ d # None
             r    == IF asks THEN Sheets!Number ELSE 0
  <2>1. /\ wform # None /\ channel' = channel
        /\ wform' = [Sheets!Edited(wform) EXCEPT !.dest = d, !.holder = None, !.resolving = r]
        /\ waiting' = IF asks THEN waiting \cup {Sheets!Call("resolve", d)} ELSE waiting
    BY <1>5 DEF Sheets!TypeDest, Sheets!Mounted
  <2>2. Sheets!Number' = Sheets!Number + 1 /\ UNCHANGED moneyUsed.opens
    BY <1>5, Counted, SheetBounds DEF Sheets!TypeDest, Sheets!Bound, Tallied
  <2>3. 0 < Sheets!Number
    BY <2>1, SheetBounds DEF Formed, Tallied, Sheets!Number
  <2>4. r \in {0, Sheets!Number}
    OBVIOUS
  <2>5. \A c \in waiting : c.n # Sheets!Number
    BY <1>0 DEF Called, GoneOut
  <2>6. Sheets!Call("resolve", d).what = d
    BY DEF Sheets!Call
  <2>7. \A c \in waiting' : c.kind = "resolve" /\ c.n = Sheets!Number => c.what = d
    BY <2>1, <2>5, <2>6
  <2> HIDE DEF r, asks
  <2>8. FormSound(wform', channel', Sheets!Number', waiting')
    BY <1>0, <1>f, <1>p, <2>1, <2>2, <2>3, <2>4, <2>7, DestSound
  <2> QED
    BY <1>o, <1>w, <2>1, <2>8
<1>6. ASSUME NEW c \in waiting, Sheets!Resolved(c) PROVE Formed'
  <2>1. /\ c.kind = "resolve" /\ waiting' = waiting \ {c} /\ channel' = channel
        /\ UNCHANGED moneyUsed
    BY <1>6 DEF Sheets!Resolved
  <2>2. ResolvesKept
    BY <2>1 DEF ResolvesKept
  <2>3. PICK name \in {c.what, None} :
           wform' = IF Sheets!Current(c) THEN [wform EXCEPT !.holder = name, !.resolving = 0] ELSE wform
    BY <1>6 DEF Sheets!Resolved, Sheets!NameOf
  <2>4. CASE Sheets!Current(c)
    <3>1. wform # None /\ c.n = wform.resolving
      BY <2>4 DEF Sheets!Current, Sheets!Mounted
    <3>2. 0 < c.n /\ c.n \in Nat /\ c.what \in SheetDests
      BY <2>1 DEF Called, GoneOut
    <3>3. 0 < Sheets!Number
      BY <3>1, SheetBounds DEF Formed, Tallied, Sheets!Number
    <3>4. Sheets!Number' = Sheets!Number
      BY <2>1 DEF Sheets!Number
    <3>5. wform' = [wform EXCEPT !.holder = name, !.resolving = 0]
      BY <2>3, <2>4
    <3>6. FormSound(wform', channel', Sheets!Number', waiting')
      BY <1>f, <1>p, <2>1, <3>1, <3>2, <3>3, <3>4, <3>5, HolderSound
    <3> QED
      BY <1>o, <1>w, <3>1, <3>6
  <2>5. CASE ~ Sheets!Current(c)
    BY <1>k, <2>1, <2>2, <2>3, <2>5
  <2> QED
    BY <2>4, <2>5
<1>7. CASE Sheets!Review
  <2>1. /\ wform # None /\ channel' = channel /\ waiting' = waiting /\ Sheets!Ready(wform)
        /\ wform' = [wform EXCEPT !.confirm = TRUE, !.reviewed = Sheets!Label(wform)]
    BY <1>7 DEF Sheets!Review, Sheets!Mounted
  <2>2. Sheets!Label(wform) = Named(wform, channel)
    BY DEF Sheets!Label, Sheets!NgnLabel, Sheets!UsdtLabel, Named
  <2>3. channel = "ngn" => wform.resolving = 0
    BY <2>1 DEF Sheets!Ready, Sheets!NgnReady
  <2>4. Sheets!Number' = Sheets!Number + 1
    BY <1>7, Counted, SheetBounds DEF Sheets!Review
  <2>5. FormSound(wform', channel', Sheets!Number', waiting')
    BY <1>0, <1>f, <2>1, <2>2, <2>3, <2>4, ReviewSound
  <2> QED
    BY <1>o, <1>w, <2>1, <2>5
<1>8. CASE Sheets!Withdraw
  <2>1. /\ wform # None /\ channel' = channel /\ wform' = [wform EXCEPT !.busy = Sheets!Number]
        /\ \E w : waiting' = waiting \cup {Sheets!Call("withdraw", w)}
    BY <1>8 DEF Sheets!Withdraw, Sheets!Mounted
  <2>2. ResolvesKept
    BY <2>1 DEF ResolvesKept, Sheets!Call
  <2>3. FormSound(wform', channel', Sheets!Number', waiting')
    BY <1>0, <1>g, <2>1, <2>2, BusySound
  <2> QED
    BY <1>o, <1>w, <2>1, <2>3
<1>9. ASSUME NEW c \in waiting, Sheets!WithdrawAnswered(c) \/ Sheets!WithdrawFails(c) PROVE Formed'
  <2>1. /\ channel' = channel
        /\ wform' \in {wform, Sheets!Freed(c, wform), Sheets!Edited(Sheets!Freed(c, wform))}
        /\ wform = None => wform' = None
    BY <1>9 DEF Sheets!WithdrawAnswered, Sheets!WithdrawFails, Sheets!Freed
  <2>2. ResolvesKept
    BY <1>9, <1>c DEF Sheets!WithdrawAnswered, Sheets!WithdrawFails, ResolvesKept, Sheets!Balances
  <2>3. wform # None => FormSound(wform', channel', Sheets!Number', waiting')
    BY <1>g, <2>1, <2>2, FreedSound, EditedSound
  <2> QED
    BY <1>o, <1>w, <2>1, <2>3
<1>10. CASE UNCHANGED <<wform, channel>> /\ ~ \E d \in SheetDests \cup {None} : Sheets!TypeDest(d)
  BY <1>10, <1>c, <1>k
<1>11. ASSUME NEW c \in waiting,
              \/ Sheets!WithdrawServed(c) \/ Sheets!TransferServed(c) \/ Sheets!TransferAnswered(c)
              \/ Sheets!TransferFails(c) \/ Sheets!BalancesArrive(c)
              \/ Sheets!StatusServed(c) \/ Sheets!StatusAnswered(c) \/ Sheets!KycServed(c)
              \/ Sheets!KycAnswered(c) \/ Sheets!KycFails(c)
       PROVE  UNCHANGED <<wform, channel>>
  BY <1>11 DEF Sheets!WithdrawServed, Sheets!TransferServed, Sheets!TransferAnswered,
               Sheets!TransferFails, Sheets!BalancesArrive, Sheets!StatusServed,
               Sheets!StatusAnswered, Sheets!KycServed, Sheets!KycAnswered, Sheets!KycFails
<1>12. ASSUME NEW x, Sheets!TypeTransfer(x) \/ Sheets!PickFrom(x) \/ Sheets!PickTo(x)
       PROVE  UNCHANGED <<wform, channel>>
  BY <1>12 DEF Sheets!TypeTransfer, Sheets!PickFrom, Sheets!PickTo
<1>13. CASE \/ Sheets!CloseSheet \/ Sheets!Transfer \/ Sheets!TimedClose \/ Sheets!SubmitKyc
            \/ UNCHANGED Sheets!moneyVars
  <2>1. UNCHANGED <<wform, channel>>
    BY <1>13 DEF Sheets!CloseSheet, Sheets!Transfer, Sheets!TimedClose, Sheets!SubmitKyc,
                 Sheets!moneyVars
  <2> QED
    BY <1>5, <1>10, <2>1
<1> QED
  BY <1>1, <1>2, <1>3, <1>4, <1>5, <1>6, <1>7, <1>8, <1>9, <1>10, <1>11, <1>12, <1>13
      DEF Sheets!Next

(* What was sent stays as it was: its answer only says whether it moved.    *)
LEMMA SentMoved ==
  ASSUME NEW s, SentSound(s), NEW ok
  PROVE  SentSound([s EXCEPT !.moved = ok])
<1> DEFINE t == [s EXCEPT !.moved = ok]
<1>1. s = [kind |-> s.kind, n |-> s.n, what |-> s.what, reviewed |-> s.reviewed, moved |-> s.moved]
  BY DEF SentSound
<1>2. /\ t = [kind |-> s.kind, n |-> s.n, what |-> s.what, reviewed |-> s.reviewed, moved |-> ok]
      /\ t.kind = s.kind /\ t.n = s.n /\ t.what = s.what /\ t.reviewed = s.reviewed /\ t.moved = ok
  BY <1>1
<1> HIDE DEF t
<1>3. SentSound(t)
  BY <1>2 DEF SentSound
<1> QED
  BY <1>3 DEF t

LEMMA SentServed ==
  ASSUME Sent, NEW c, NEW ok,
         sent' = {IF s.n = c.n THEN [s EXCEPT !.moved = ok] ELSE s : s \in sent}
  PROVE  Sent'
<1>1. \A t \in sent' : \E s \in sent : t = s \/ t = [s EXCEPT !.moved = ok]
  OBVIOUS
<1>2. \A t \in sent' : SentSound(t)
  BY <1>1, SentMoved DEF Sent
<1> QED
  BY <1>2 DEF Sent

LEMMA SentStep ==
  ASSUME Tallied, Formed, Sent, [Sheets!Next]_(Sheets!moneyVars)
  PROVE  Sent'
<1>1. CASE Sheets!Withdraw
  <2> DEFINE w == [n |-> Sheets!Number, amount |-> wform.amount, dest |-> wform.dest,
                   channel |-> channel, name |-> wform.holder]
             s == [kind |-> "withdraw", n |-> Sheets!Number, what |-> w,
                   reviewed |-> wform.reviewed, moved |-> FALSE]
  <2>1. wform # None /\ Sheets!Ready(wform) /\ wform.confirm /\ sent' = sent \cup {s}
    BY <1>1 DEF Sheets!Withdraw, Sheets!Mounted
  <2>2. FormSound(wform, channel, Sheets!Number, waiting)
    BY <2>1, FormedIs
  <2>3. /\ wform.reviewed = Named(wform, channel)
        /\ wform.holder # None => wform.holder = wform.dest
    BY <2>1, <2>2 DEF FormSound
  <2>4. channel = "ngn" => wform.holder # None
    BY <2>1 DEF Sheets!Ready, Sheets!NgnReady
  <2>5. /\ w.amount = wform.amount /\ w.dest = wform.dest /\ w.channel = channel
        /\ w.name = wform.holder
    OBVIOUS
  <2> HIDE DEF w
  <2>6. /\ s = [kind |-> s.kind, n |-> s.n, what |-> s.what, reviewed |-> s.reviewed, moved |-> s.moved]
        /\ s.kind = "withdraw" /\ s.what = w /\ s.reviewed = wform.reviewed
    OBVIOUS
  <2> HIDE DEF s
  <2>7. SentSound(s)
    BY <2>3, <2>4, <2>5, <2>6 DEF SentSound, Named, Sheets!NameOf
  <2> QED
    BY <2>1, <2>7 DEF Sent
<1>2. CASE Sheets!Transfer
  <2> DEFINE s == [kind |-> "transfer", n |-> Sheets!Number, what |-> xform.form,
                   reviewed |-> None, moved |-> FALSE]
  <2>1. sent' = sent \cup {s}
    BY <1>2 DEF Sheets!Transfer
  <2>2. /\ s = [kind |-> s.kind, n |-> s.n, what |-> s.what, reviewed |-> s.reviewed, moved |-> s.moved]
        /\ s.kind = "transfer"
    OBVIOUS
  <2> HIDE DEF s
  <2>3. SentSound(s)
    BY <2>2 DEF SentSound
  <2> QED
    BY <2>1, <2>3 DEF Sent
<1>3. ASSUME NEW c \in waiting, Sheets!WithdrawServed(c) \/ Sheets!TransferServed(c) PROVE Sent'
  BY <1>3, SentServed DEF Sheets!WithdrawServed, Sheets!TransferServed
<1>4. CASE UNCHANGED sent
  BY <1>4 DEF Sent
<1>5. ASSUME NEW c \in waiting,
             \/ Sheets!Resolved(c) \/ Sheets!WithdrawAnswered(c) \/ Sheets!WithdrawFails(c)
             \/ Sheets!TransferAnswered(c) \/ Sheets!TransferFails(c) \/ Sheets!BalancesArrive(c)
             \/ Sheets!StatusServed(c) \/ Sheets!StatusAnswered(c) \/ Sheets!KycServed(c)
             \/ Sheets!KycAnswered(c) \/ Sheets!KycFails(c)
      PROVE  UNCHANGED sent
  BY <1>5 DEF Sheets!Resolved, Sheets!WithdrawAnswered, Sheets!WithdrawFails,
              Sheets!TransferAnswered, Sheets!TransferFails, Sheets!BalancesArrive,
              Sheets!StatusServed, Sheets!StatusAnswered, Sheets!KycServed, Sheets!KycAnswered,
              Sheets!KycFails
<1>6. ASSUME NEW x,
             \/ Sheets!OpenSheet(x) \/ Sheets!SwitchChannel(x) \/ Sheets!TypeAmount(x)
             \/ Sheets!TypeTransfer(x) \/ Sheets!TypeDest(x) \/ Sheets!PickFrom(x) \/ Sheets!PickTo(x)
      PROVE  UNCHANGED sent
  BY <1>6 DEF Sheets!OpenSheet, Sheets!SwitchChannel, Sheets!TypeAmount, Sheets!TypeTransfer,
              Sheets!TypeDest, Sheets!PickFrom, Sheets!PickTo
<1>7. CASE \/ Sheets!CloseSheet \/ Sheets!Unmount \/ Sheets!Review \/ Sheets!TimedClose
           \/ Sheets!SubmitKyc \/ UNCHANGED Sheets!moneyVars
  BY <1>4, <1>7 DEF Sheets!CloseSheet, Sheets!Unmount, Sheets!Review, Sheets!TimedClose,
              Sheets!SubmitKyc, Sheets!moneyVars
<1> QED
  BY <1>1, <1>2, <1>3, <1>4, <1>5, <1>6, <1>7 DEF Sheets!Next

(* What the sheets show, and the timers that close them.                    *)
TransferForms == [from: SheetLegs, to: SheetLegs, amount: SheetAmounts \cup {None}]
TransferSheet == xform \in [form: TransferForms, busy: Nat]
KycShown ==
    /\ kyc \in [status: {None, "verified", "unverified"}, busy: BOOLEAN]
    /\ tier \in BOOLEAN
PageShows == sheet \in Sheets!Sheets \cup {None} /\ channel \in Sheets!Channels /\ saved \in BOOLEAN

LEMMA TransferSheetStep ==
  ASSUME Tallied, TransferSheet, [Sheets!Next]_(Sheets!moneyVars)
  PROVE  TransferSheet'
<1>0. Sheets!BlankTransfer \in TransferForms
  BY DEF Sheets!BlankTransfer, TransferForms, SheetLegs
<1>1. ASSUME NEW form \in TransferForms, xform' = [xform EXCEPT !.form = form] PROVE TransferSheet'
  BY <1>1 DEF TransferSheet
<1>2. ASSUME NEW n \in Nat, xform' = [xform EXCEPT !.busy = n] PROVE TransferSheet'
  BY <1>2 DEF TransferSheet
<1>3. ASSUME xform' \in {xform, Sheets!ResetTransfer} PROVE TransferSheet'
  BY <1>0, <1>1, <1>3 DEF Sheets!ResetTransfer, TransferSheet
<1>f. xform.form \in TransferForms
  BY DEF TransferSheet
<1>4. ASSUME NEW s \in Sheets!Sheets, Sheets!OpenSheet(s) PROVE TransferSheet'
  BY <1>3, <1>4 DEF Sheets!OpenSheet
<1>5. ASSUME NEW leg \in Sheets!Legs, Sheets!PickFrom(leg) PROVE TransferSheet'
  <2>1. leg \in SheetLegs /\ None \in SheetLegs
    BY DEF Sheets!Legs, SheetLegs
  <2>2. Sheets!PickedFrom(xform.form, leg) \in TransferForms
    BY <1>f, <2>1 DEF Sheets!PickedFrom, TransferForms
  <2>3. xform' = [xform EXCEPT !.form = Sheets!PickedFrom(xform.form, leg)]
    BY <1>5 DEF Sheets!PickFrom, Sheets!Filled
  <2> QED
    BY <1>1, <2>2, <2>3
<1>6. ASSUME NEW leg \in Sheets!Legs, Sheets!PickTo(leg) PROVE TransferSheet'
  <2>1. leg \in SheetLegs
    BY DEF Sheets!Legs, SheetLegs
  <2>2. [xform.form EXCEPT !.to = leg] \in TransferForms
    BY <1>f, <2>1 DEF TransferForms
  <2>3. xform' = [xform EXCEPT !.form = [xform.form EXCEPT !.to = leg]]
    BY <1>6 DEF Sheets!PickTo, Sheets!Filled
  <2> QED
    BY <1>1, <2>2, <2>3
<1>7. ASSUME NEW n \in SheetAmounts, Sheets!TypeTransfer(n) PROVE TransferSheet'
  <2>2. [xform.form EXCEPT !.amount = n] \in TransferForms
    BY <1>f DEF TransferForms
  <2>3. xform' = [xform EXCEPT !.form = [xform.form EXCEPT !.amount = n]]
    BY <1>7 DEF Sheets!TypeTransfer, Sheets!Filled
  <2> QED
    BY <1>1, <2>2, <2>3
<1>8. CASE Sheets!Transfer
  BY <1>2, <1>8, NumberType DEF Sheets!Transfer
<1>9. ASSUME NEW c, \/ Sheets!TransferAnswered(c) \/ Sheets!TransferFails(c) PROVE TransferSheet'
  BY <1>2, <1>9 DEF Sheets!TransferAnswered, Sheets!TransferFails
<1>10. ASSUME NEW c, Sheets!BalancesArrive(c) PROVE TransferSheet'
  BY <1>3, <1>10 DEF Sheets!BalancesArrive
<1>11. ASSUME UNCHANGED xform PROVE TransferSheet'
  BY <1>3, <1>11
<1>12. CASE \/ Sheets!CloseSheet \/ Sheets!Unmount \/ Sheets!Review \/ Sheets!Withdraw
            \/ Sheets!TimedClose \/ Sheets!SubmitKyc \/ UNCHANGED Sheets!moneyVars
  BY <1>11, <1>12 DEF Sheets!CloseSheet, Sheets!Unmount, Sheets!Review, Sheets!Withdraw,
                      Sheets!TimedClose, Sheets!SubmitKyc, Sheets!moneyVars
<1>13. ASSUME NEW x, Sheets!SwitchChannel(x) \/ Sheets!TypeAmount(x) \/ Sheets!TypeDest(x)
       PROVE  TransferSheet'
  BY <1>11, <1>13 DEF Sheets!SwitchChannel, Sheets!TypeAmount, Sheets!TypeDest
<1>14. ASSUME NEW c, \/ Sheets!Resolved(c) \/ Sheets!WithdrawServed(c) \/ Sheets!WithdrawAnswered(c)
                     \/ Sheets!WithdrawFails(c) \/ Sheets!TransferServed(c)
                     \/ Sheets!StatusServed(c) \/ Sheets!StatusAnswered(c) \/ Sheets!KycServed(c)
                     \/ Sheets!KycAnswered(c) \/ Sheets!KycFails(c)
       PROVE  TransferSheet'
  BY <1>11, <1>14 DEF Sheets!Resolved, Sheets!WithdrawServed, Sheets!WithdrawAnswered,
       Sheets!WithdrawFails, Sheets!TransferServed, Sheets!StatusServed, Sheets!StatusAnswered,
       Sheets!KycServed, Sheets!KycAnswered, Sheets!KycFails
<1> QED
  BY <1>4, <1>5, <1>6, <1>7, <1>8, <1>9, <1>10, <1>12, <1>13, <1>14 DEF Sheets!Next

LEMMA KycShownStep ==
  ASSUME KycShown, Called, [Sheets!Next]_(Sheets!moneyVars)
  PROVE  KycShown'
<1>1. ASSUME UNCHANGED <<kyc, tier>> PROVE KycShown'
  BY <1>1 DEF KycShown
<1>2. ASSUME NEW st \in {"verified", "unverified"}, kyc' = [kyc EXCEPT !.status = st], UNCHANGED tier
      PROVE  KycShown'
  BY <1>2 DEF KycShown
<1>3. ASSUME NEW b \in BOOLEAN, kyc' = [kyc EXCEPT !.busy = b], UNCHANGED tier
      PROVE  KycShown'
  BY <1>3 DEF KycShown
<1>4. ASSUME NEW c \in waiting, c.kind \in {"status", "submit"}
      PROVE  c.state \in {"out", "verified", "unverified"}
  BY <1>4 DEF Called, GoneOut
<1>5. ASSUME NEW c \in waiting, Sheets!StatusAnswered(c) PROVE KycShown'
  <2>1. c.state \in {"out", "verified", "unverified"}
    BY <1>4, <1>5 DEF Sheets!StatusAnswered
  <2> QED
    BY <1>1, <1>2, <1>5, <2>1 DEF Sheets!StatusAnswered
<1>6. CASE Sheets!SubmitKyc
  BY <1>3, <1>6 DEF Sheets!SubmitKyc
<1>7. ASSUME NEW c \in waiting, Sheets!KycFails(c) PROVE KycShown'
  BY <1>3, <1>7 DEF Sheets!KycFails
<1>8. ASSUME NEW c \in waiting, Sheets!KycServed(c) PROVE KycShown'
  BY <1>8 DEF Sheets!KycServed, KycShown
<1>9. ASSUME NEW c \in waiting, Sheets!KycAnswered(c) PROVE KycShown'
  <2>1. c.state \in {"verified", "unverified"}
    BY <1>4, <1>9 DEF Sheets!KycAnswered
  <2>2. kyc' = [status |-> c.state, busy |-> FALSE] /\ UNCHANGED tier
    BY <1>9 DEF Sheets!KycAnswered
  <2> QED
    BY <2>1, <2>2 DEF KycShown
<1>10. CASE \/ Sheets!CloseSheet \/ Sheets!Unmount \/ Sheets!Review \/ Sheets!Withdraw
            \/ Sheets!Transfer \/ Sheets!TimedClose \/ UNCHANGED Sheets!moneyVars
  BY <1>1, <1>10 DEF Sheets!CloseSheet, Sheets!Unmount, Sheets!Review, Sheets!Withdraw,
                     Sheets!Transfer, Sheets!TimedClose, Sheets!moneyVars
<1>11. ASSUME NEW x, \/ Sheets!OpenSheet(x) \/ Sheets!SwitchChannel(x) \/ Sheets!TypeAmount(x)
                     \/ Sheets!TypeDest(x) \/ Sheets!TypeTransfer(x) \/ Sheets!PickFrom(x)
                     \/ Sheets!PickTo(x)
       PROVE  KycShown'
  BY <1>1, <1>11 DEF Sheets!OpenSheet, Sheets!SwitchChannel, Sheets!TypeAmount, Sheets!TypeDest,
                     Sheets!TypeTransfer, Sheets!PickFrom, Sheets!PickTo
<1>12. ASSUME NEW c, \/ Sheets!Resolved(c) \/ Sheets!WithdrawServed(c) \/ Sheets!WithdrawAnswered(c)
                     \/ Sheets!WithdrawFails(c) \/ Sheets!TransferServed(c)
                     \/ Sheets!TransferAnswered(c) \/ Sheets!TransferFails(c)
                     \/ Sheets!BalancesArrive(c) \/ Sheets!StatusServed(c)
       PROVE  KycShown'
  BY <1>1, <1>12 DEF Sheets!Resolved, Sheets!WithdrawServed, Sheets!WithdrawAnswered,
       Sheets!WithdrawFails, Sheets!TransferServed, Sheets!TransferAnswered, Sheets!TransferFails,
       Sheets!BalancesArrive, Sheets!StatusServed
<1> QED
  BY <1>5, <1>6, <1>7, <1>8, <1>9, <1>10, <1>11, <1>12 DEF Sheets!Next

LEMMA PageShowsStep ==
  ASSUME PageShows, [Sheets!Next]_(Sheets!moneyVars)
  PROVE  PageShows'
<1>1. CASE \/ Sheets!CloseSheet \/ Sheets!Unmount \/ Sheets!Review \/ Sheets!Withdraw
           \/ Sheets!Transfer \/ Sheets!TimedClose \/ Sheets!SubmitKyc \/ UNCHANGED Sheets!moneyVars
  BY <1>1 DEF Sheets!CloseSheet, Sheets!Unmount, Sheets!Review, Sheets!Withdraw, Sheets!SubmitKyc,
              Sheets!Transfer, Sheets!TimedClose, Sheets!moneyVars, PageShows
<1>2. ASSUME NEW s \in Sheets!Sheets, Sheets!OpenSheet(s) PROVE PageShows'
  BY <1>2 DEF Sheets!OpenSheet, PageShows
<1>3. ASSUME NEW c \in Sheets!Channels, Sheets!SwitchChannel(c) PROVE PageShows'
  BY <1>3 DEF Sheets!SwitchChannel, PageShows
<1>4. ASSUME NEW x, \/ Sheets!TypeAmount(x) \/ Sheets!TypeDest(x) \/ Sheets!TypeTransfer(x)
                    \/ Sheets!PickFrom(x) \/ Sheets!PickTo(x)
      PROVE  PageShows'
  BY <1>4 DEF Sheets!TypeAmount, Sheets!TypeDest, Sheets!TypeTransfer, Sheets!PickFrom,
              Sheets!PickTo, PageShows
<1>5. ASSUME NEW c, \/ Sheets!Resolved(c) \/ Sheets!WithdrawServed(c) \/ Sheets!WithdrawAnswered(c)
                    \/ Sheets!WithdrawFails(c) \/ Sheets!TransferServed(c)
                    \/ Sheets!TransferAnswered(c) \/ Sheets!TransferFails(c)
      PROVE  PageShows'
  BY <1>5 DEF Sheets!Resolved, Sheets!WithdrawServed, Sheets!WithdrawAnswered,
       Sheets!WithdrawFails, Sheets!TransferServed, Sheets!TransferAnswered, Sheets!TransferFails,
       PageShows
<1>6. ASSUME NEW c, \/ Sheets!BalancesArrive(c) \/ Sheets!StatusServed(c) \/ Sheets!StatusAnswered(c)
                    \/ Sheets!KycServed(c) \/ Sheets!KycAnswered(c) \/ Sheets!KycFails(c)
      PROVE  PageShows'
  BY <1>6 DEF Sheets!BalancesArrive, Sheets!StatusServed, Sheets!StatusAnswered,
       Sheets!KycServed, Sheets!KycAnswered, Sheets!KycFails, PageShows
<1> QED
  BY <1>1, <1>2, <1>3, <1>4, <1>5, <1>6 DEF Sheets!Next

(* A transfer's answer sets a timer and ends its request; requests that are *)
(* served or asked for balances are no new transfers.                       *)
Transferring(w) == {c \in w : c.kind = "transfer"}
Timed ==
    /\ IsFiniteSet(waiting) /\ closeTimers \in Nat
    /\ closeTimers + Cardinality(Transferring(waiting)) <= moneyUsed.presses

LEMMA FewerTransfers ==
  ASSUME NEW w, NEW v, IsFiniteSet(w), v \subseteq w
  PROVE  /\ IsFiniteSet(v) /\ Cardinality(Transferring(v)) \in Nat
         /\ Cardinality(Transferring(w)) \in Nat
         /\ Cardinality(Transferring(v)) <= Cardinality(Transferring(w))
<1>1. Transferring(v) \subseteq Transferring(w) /\ Transferring(w) \subseteq w
  BY DEF Transferring
<1>2. IsFiniteSet(v) /\ IsFiniteSet(Transferring(w)) /\ IsFiniteSet(Transferring(v))
  BY <1>1, FS_Subset
<1> QED
  BY <1>1, <1>2, FS_Subset, FS_CardinalityType

LEMMA OneMoreTransfer ==
  ASSUME NEW w, NEW d, IsFiniteSet(w)
  PROVE  /\ IsFiniteSet(w \cup {d})
         /\ Cardinality(Transferring(w \cup {d})) \in Nat
         /\ Cardinality(Transferring(w \cup {d})) <= Cardinality(Transferring(w)) + 1
         /\ d.kind # "transfer" =>
               Cardinality(Transferring(w \cup {d})) = Cardinality(Transferring(w))
<1>1. IsFiniteSet(w \cup {d}) /\ IsFiniteSet(Transferring(w))
  BY FewerTransfers, FS_AddElement, FS_Subset DEF Transferring
<1>2. CASE d.kind = "transfer"
  <2>1. Transferring(w \cup {d}) = Transferring(w) \cup {d}
    BY <1>2 DEF Transferring
  <2>2. Cardinality(Transferring(w)) \in Nat
    BY <1>1, FS_CardinalityType
  <2>3. Cardinality(Transferring(w) \cup {d}) \in {Cardinality(Transferring(w)), Cardinality(Transferring(w)) + 1}
    BY <1>1, FS_AddElement
  <2>4. /\ Cardinality(Transferring(w \cup {d})) \in Nat
        /\ Cardinality(Transferring(w \cup {d})) <= Cardinality(Transferring(w)) + 1
    <3>1. Cardinality(Transferring(w \cup {d})) \in {Cardinality(Transferring(w)), Cardinality(Transferring(w)) + 1}
      BY <2>1, <2>3
    <3>2. \A a \in Nat : \A b \in {a, a + 1} : b \in Nat /\ b <= a + 1
      OBVIOUS
    <3> QED
      BY <2>2, <3>1, <3>2
  <2> QED
    BY <1>1, <1>2, <2>4
<1>3. CASE d.kind # "transfer"
  <2>1. Transferring(w \cup {d}) = Transferring(w)
    BY <1>3 DEF Transferring
  <2>2. Cardinality(Transferring(w)) \in Nat
    BY <1>1, FS_CardinalityType
  <2> QED
    BY <1>1, <1>3, <2>1, <2>2
<1> QED
  BY <1>2, <1>3

LEMMA OneTransferLess ==
  ASSUME NEW w, NEW c \in w, IsFiniteSet(w), c.kind = "transfer"
  PROVE  /\ IsFiniteSet(w \ {c}) /\ Cardinality(Transferring(w \ {c})) \in Nat
         /\ Cardinality(Transferring(w \ {c})) + 1 = Cardinality(Transferring(w))
<1>1. Transferring(w \ {c}) = Transferring(w) \ {c} /\ c \in Transferring(w)
  BY DEF Transferring
<1>2. IsFiniteSet(Transferring(w)) /\ IsFiniteSet(w \ {c})
  BY FewerTransfers, FS_Subset DEF Transferring
<1>3. Cardinality(Transferring(w)) \in Nat /\ Cardinality(Transferring(w) \ {c}) \in Nat
  BY <1>2, FS_CardinalityType, FS_RemoveElement
<1>4. Cardinality(Transferring(w) \ {c}) = Cardinality(Transferring(w)) - 1
  BY <1>1, <1>2, FS_RemoveElement
<1>5. /\ Cardinality(Transferring(w \ {c})) = Cardinality(Transferring(w)) - 1
      /\ Cardinality(Transferring(w \ {c})) \in Nat
  BY <1>1, <1>3, <1>4
<1>6. \A a, b \in Nat : a = b - 1 => a + 1 = b
  OBVIOUS
<1> QED
  BY <1>2, <1>3, <1>5, <1>6

LEMMA AddUp ==
  /\ \A t, c, d, p, q \in Nat : t + c <= p /\ d <= c /\ p <= q => t + d <= q
  /\ \A t, c, d, p \in Nat : t + c <= p /\ d <= c + 1 => t + d <= p + 1
  /\ \A t, c, d, p \in Nat : t + c <= p /\ d + 1 = c => (t + 1) + d <= p
  /\ \A t, c, p \in Nat : t + c <= p /\ t > 0 => t - 1 \in Nat /\ (t - 1) + c <= p
OBVIOUS

LEMMA TimedStep ==
  ASSUME Tallied, Called, Timed, [Sheets!Next]_(Sheets!moneyVars)
  PROVE  Timed'
<1> DEFINE n == Cardinality(Transferring(waiting))
           m == Cardinality(Transferring(waiting'))
           p == moneyUsed.presses
           q == moneyUsed'.presses
           t == closeTimers
           u == closeTimers'
<1>0. /\ IsFiniteSet(waiting) /\ n \in Nat /\ t \in Nat /\ t + n <= p
      /\ p \in Nat /\ q \in {p, p + 1} /\ q \in Nat
  BY EveryStepCounts, FewerTransfers, SheetBounds DEF Timed, Tallied
<1>t. Timed' <=> IsFiniteSet(waiting') /\ u \in Nat /\ u + m <= q
  BY DEF Timed
<1>k. \A c \in waiting : CallShape(c)
  BY DEF Called, GoneOut
<1> HIDE DEF n, m, p, q, t, u
(* No new transfer, no new timer. *)
<1>s. ASSUME IsFiniteSet(waiting'), m \in Nat, m <= n, u = t PROVE Timed'
  <2>1. p <= q
    BY <1>0
  <2> QED
    BY <1>0, <1>s, <1>t, <2>1, AddUp
<1>a. ASSUME waiting' \subseteq waiting, UNCHANGED closeTimers PROVE Timed'
  <2>1. IsFiniteSet(waiting') /\ m \in Nat /\ m <= n
    BY <1>a, <1>0, FewerTransfers DEF m, n
  <2> QED
    BY <1>a, <1>s, <2>1 DEF u, t
<1>b. ASSUME NEW d, d.kind # "transfer", NEW w \in SUBSET waiting, waiting' = w \cup {d},
             UNCHANGED closeTimers
      PROVE  Timed'
  <2>1. IsFiniteSet(w) /\ Cardinality(Transferring(w)) \in Nat /\ Cardinality(Transferring(w)) <= n
    BY <1>0, FewerTransfers DEF n
  <2>2. IsFiniteSet(waiting') /\ m \in Nat /\ m = Cardinality(Transferring(w))
    BY <1>b, <2>1, OneMoreTransfer DEF m
  <2> QED
    BY <1>b, <1>s, <2>1, <2>2 DEF u, t
(* A request that is served. *)
<1>c. ASSUME NEW c \in waiting, NEW state, waiting' = Sheets!With(c, state), UNCHANGED closeTimers
      PROVE  Timed'
  <2> DEFINE d == [c EXCEPT !.state = state]
  <2>1. d.kind = c.kind
    BY <1>k, ServedShape
  <2>2. waiting' = (waiting \ {c}) \cup {d}
    BY <1>c DEF Sheets!With
  <2> HIDE DEF d
  <2>3. CASE c.kind # "transfer"
    BY <1>b, <1>c, <2>1, <2>2, <2>3
  <2>4. CASE c.kind = "transfer"
    <3>1. /\ IsFiniteSet(waiting \ {c})
          /\ Cardinality(Transferring(waiting \ {c})) \in Nat
          /\ Cardinality(Transferring(waiting \ {c})) + 1 = n
      BY <1>0, <2>4, OneTransferLess DEF n
    <3>2. IsFiniteSet(waiting') /\ m \in Nat /\ m <= Cardinality(Transferring(waiting \ {c})) + 1
      BY <2>2, <3>1, OneMoreTransfer DEF m
    <3> QED
      BY <1>c, <1>s, <3>1, <3>2 DEF u, t
  <2> QED
    BY <2>3, <2>4
<1>d. ASSUME NEW kind, kind # "transfer", NEW what, waiting' = waiting \cup {Sheets!Call(kind, what)},
             UNCHANGED closeTimers
      PROVE  Timed'
  <2>1. Sheets!Call(kind, what).kind = kind
    BY DEF Sheets!Call
  <2> QED
    BY <1>b, <1>d, <2>1
<1>e. ASSUME NEW c \in waiting, waiting' = Sheets!Balances(c), UNCHANGED closeTimers PROVE Timed'
  <2> DEFINE d == [kind |-> "balances", n |-> c.n, what |-> None, state |-> "out"]
  <2>1. d.kind # "transfer" /\ waiting' = (waiting \ {c}) \cup {d}
    BY <1>e DEF Sheets!Balances
  <2> HIDE DEF d
  <2> QED
    BY <1>b, <1>e, <2>1
<1>1. ASSUME NEW s \in Sheets!Sheets, Sheets!OpenSheet(s) PROVE Timed'
  <2>1. UNCHANGED closeTimers /\ waiting' \in {waiting, waiting \cup {Sheets!Call("status", None)}}
    BY <1>1 DEF Sheets!OpenSheet
  <2> QED
    BY <1>a, <1>d, <2>1
<1>2. ASSUME NEW x, Sheets!TypeDest(x) PROVE Timed'
  <2>1. UNCHANGED closeTimers /\ waiting' \in {waiting, waiting \cup {Sheets!Call("resolve", x)}}
    BY <1>2 DEF Sheets!TypeDest
  <2> QED
    BY <1>a, <1>d, <2>1
<1>3. CASE Sheets!Withdraw
  <2>1. UNCHANGED closeTimers /\ \E w : waiting' = waiting \cup {Sheets!Call("withdraw", w)}
    BY <1>3 DEF Sheets!Withdraw
  <2> QED
    BY <1>d, <2>1
<1>4. CASE Sheets!SubmitKyc
  <2>1. UNCHANGED closeTimers /\ waiting' = waiting \cup {Sheets!Call("submit", None)}
    BY <1>4 DEF Sheets!SubmitKyc
  <2> QED
    BY <1>d, <2>1
(* The press that sends a transfer. *)
<1>5. CASE Sheets!Transfer
  <2>1. u = t /\ waiting' = waiting \cup {Sheets!Call("transfer", xform.form)}
    BY <1>5 DEF Sheets!Transfer, u, t
  <2>2. q = p + 1
    BY <1>5, Counted, SheetBounds DEF Sheets!Transfer, q, p
  <2>3. IsFiniteSet(waiting') /\ m \in Nat /\ m <= n + 1
    BY <1>0, <2>1, OneMoreTransfer DEF m, n
  <2> QED
    BY <1>0, <1>t, <2>1, <2>2, <2>3, AddUp
(* The answer that sets the timer; the timer. *)
<1>6. ASSUME NEW c \in waiting, Sheets!TransferAnswered(c) PROVE Timed'
  <2> DEFINE d == [kind |-> "balances", n |-> c.n, what |-> None, state |-> "out"]
  <2>1. d.kind # "transfer" /\ waiting' = (waiting \ {c}) \cup {d}
    BY <1>6 DEF Sheets!TransferAnswered, Sheets!Balances
  <2>2. u = t + 1 /\ q = p /\ c.kind = "transfer"
    BY <1>6 DEF Sheets!TransferAnswered, u, t, p, q
  <2> HIDE DEF d
  <2>3. /\ IsFiniteSet(waiting \ {c}) /\ Cardinality(Transferring(waiting \ {c})) + 1 = n
    BY <1>0, <2>2, OneTransferLess DEF n
  <2>4. IsFiniteSet(waiting') /\ m \in Nat /\ m = Cardinality(Transferring(waiting \ {c}))
    BY <2>1, <2>3, OneMoreTransfer DEF m
  <2> QED
    BY <1>0, <1>t, <2>2, <2>3, <2>4, AddUp
<1>7. CASE Sheets!TimedClose
  <2>1. u = t - 1 /\ t > 0 /\ q = p /\ m = n /\ waiting' = waiting
    BY <1>7 DEF Sheets!TimedClose, u, t, p, q, m, n
  <2> QED
    BY <1>0, <1>t, <2>1, AddUp
<1>8. ASSUME NEW x, \/ Sheets!SwitchChannel(x) \/ Sheets!TypeAmount(x) \/ Sheets!TypeTransfer(x)
                    \/ Sheets!PickFrom(x) \/ Sheets!PickTo(x)
      PROVE  Timed'
  BY <1>8, <1>a DEF Sheets!SwitchChannel, Sheets!TypeAmount, Sheets!TypeTransfer, Sheets!PickFrom,
                    Sheets!PickTo
<1>9. ASSUME NEW c \in waiting,
             \/ Sheets!Resolved(c) \/ Sheets!WithdrawFails(c) \/ Sheets!TransferFails(c)
             \/ Sheets!BalancesArrive(c) \/ Sheets!StatusAnswered(c) \/ Sheets!KycFails(c)
      PROVE  Timed'
  BY <1>9, <1>a DEF Sheets!Resolved, Sheets!WithdrawFails, Sheets!TransferFails,
                    Sheets!BalancesArrive, Sheets!StatusAnswered, Sheets!KycFails
<1>10. CASE Sheets!CloseSheet \/ Sheets!Unmount \/ Sheets!Review \/ UNCHANGED Sheets!moneyVars
  BY <1>10, <1>a DEF Sheets!CloseSheet, Sheets!Unmount, Sheets!Review, Sheets!moneyVars
<1>11. ASSUME NEW c \in waiting,
              \/ Sheets!WithdrawServed(c) \/ Sheets!TransferServed(c) \/ Sheets!StatusServed(c)
              \/ Sheets!KycServed(c)
       PROVE  Timed'
  <2>1. UNCHANGED closeTimers /\ \E state : waiting' = Sheets!With(c, state)
    BY <1>11 DEF Sheets!WithdrawServed, Sheets!TransferServed, Sheets!StatusServed, Sheets!KycServed
  <2> QED
    BY <1>c, <2>1
<1>12. ASSUME NEW c \in waiting, Sheets!WithdrawAnswered(c) \/ Sheets!KycAnswered(c) PROVE Timed'
  <2>1. UNCHANGED closeTimers /\ waiting' \in {Sheets!Balances(c), waiting \ {c}}
    BY <1>12 DEF Sheets!WithdrawAnswered, Sheets!KycAnswered
  <2> QED
    BY <1>a, <1>e, <2>1
<1> QED
  BY <1>1, <1>2, <1>3, <1>4, <1>5, <1>6, <1>7, <1>8, <1>9, <1>10, <1>11, <1>12 DEF Sheets!Next

SheetsTyped == Tallied /\ PageShows /\ TransferSheet /\ KycShown /\ Timed
SheetsSound == Called /\ Formed /\ Sent

LEMMA SheetsInit == Sheets!Init => SheetsTyped /\ SheetsSound
<1> SUFFICES ASSUME Sheets!Init PROVE SheetsTyped /\ SheetsSound
  OBVIOUS
<1>1. SheetsSound
  BY DEF Sheets!Init, SheetsSound, Called, Formed, Sent
<1>2. Tallied
  BY SheetBounds DEF Sheets!Init, Tallied
<1>3. PageShows /\ KycShown
  BY DEF Sheets!Init, PageShows, KycShown, Sheets!Channels
<1>4. TransferSheet
  BY DEF Sheets!Init, Sheets!BlankTransfer, TransferSheet, TransferForms, SheetLegs
<1>5. Timed
  <2>1. waiting = {} /\ closeTimers = 0 /\ moneyUsed.presses = 0
    BY DEF Sheets!Init
  <2>2. Transferring({}) = {}
    BY DEF Transferring
  <2> QED
    BY <2>1, <2>2, FS_EmptySet DEF Timed
<1> QED
  BY <1>1, <1>2, <1>3, <1>4, <1>5 DEF SheetsTyped

LEMMA SheetsInvariant == BrowserSpec => [](SheetsTyped /\ SheetsSound)
<1>1. SheetsTyped /\ SheetsSound /\ [Sheets!Next]_(Sheets!moneyVars) => SheetsTyped' /\ SheetsSound'
  BY EveryStepCounts, CalledStep, FormedStep, SentStep, TransferSheetStep, KycShownStep,
     PageShowsStep, TimedStep DEF SheetsTyped, SheetsSound
<1> QED
  BY <1>1, SheetsInit, SheetSteps, PTL DEF Sheets!Spec

(* What is withdrawn is what was reviewed, and a payout's name is that of   *)
(* the bank and number sent with it, however requests and answers are       *)
(* ordered and whatever is typed between the two presses (WithdrawSheet).   *)
THEOREM WithdrawsAsReviewed == BrowserSpec => []SentAsReviewed
<1>1. SheetsSound => SentAsReviewed
  BY DEF SheetsSound, Sent, SentSound, SentAsReviewed, Sheets!SentAsReviewed
<1> QED
  BY <1>1, SheetsInvariant, PTL

-----------------------------------------------------------------------------
(* MarketView: the chart of the past. *)

Charts ==
    [resolution: ChartResolutions, shown: View!Keys \cup {None}, loading: BOOLEAN, failed: BOOLEAN,
     bumped: BOOLEAN, fetches: SUBSET [of: View!Keys, aborted: BOOLEAN]]

(* A fetch that is not aborted is for what is selected: so the answer that  *)
(* is taken is for it, and the chart is loading just while there is one.    *)
ChartSound(c, s, a) ==
    LET now == View!Key(s, a, c.resolution)
    IN  /\ \A f \in c.fetches : ~ f.aborted => f.of = now
        /\ c.loading <=> [of |-> now, aborted |-> FALSE] \in c.fetches
        /\ c.shown \in {now, None} \/ c.loading \/ c.failed

LEMMA KeyTyped ==
  ASSUME NEW s \in ChartSymbols, NEW a \in ChartAccounts, NEW r \in ChartResolutions, r # "LIVE"
  PROVE  View!Key(s, a, r) \in View!Keys
BY DEF View!Key, View!Keys

LEMMA RefetchSound ==
  ASSUME NEW c \in Charts, NEW s \in ChartSymbols, NEW a \in ChartAccounts
  PROVE  View!Refetch(c, s, a) \in Charts /\ ChartSound(View!Refetch(c, s, a), s, a)
<1> DEFINE dropped == {[f EXCEPT !.aborted = TRUE] : f \in c.fetches}
           now     == View!Key(s, a, c.resolution)
           wanted  == [of |-> now, aborted |-> FALSE]
           d       == View!Refetch(c, s, a)
<1>1. dropped \subseteq [of: View!Keys, aborted: BOOLEAN] /\ \A f \in dropped : f.aborted = TRUE
  BY DEF Charts
<1>2. CASE c.resolution = "LIVE"
  <2>1. d = [c EXCEPT !.fetches = dropped, !.shown = None, !.loading = FALSE, !.failed = FALSE]
    BY <1>2 DEF View!Refetch
  <2> HIDE DEF dropped
  <2>2. /\ d \in Charts /\ d.fetches = dropped /\ d.shown = None /\ d.resolution = c.resolution
        /\ d.loading = FALSE
    BY <1>1, <2>1 DEF Charts
  <2>3. wanted \notin dropped
    BY <1>1
  <2> HIDE DEF d
  <2>4. ChartSound(d, s, a)
    BY <1>1, <1>2, <2>2, <2>3 DEF ChartSound
  <2> QED
    BY <2>2, <2>4 DEF d
<1>3. CASE c.resolution # "LIVE"
  <2>1. d = [c EXCEPT !.fetches = dropped \cup {wanted}, !.loading = TRUE, !.failed = FALSE]
    BY <1>3 DEF View!Refetch
  <2>2. wanted \in [of: View!Keys, aborted: BOOLEAN]
    BY <1>3, KeyTyped DEF Charts
  <2> HIDE DEF dropped, wanted
  <2>3. /\ d \in Charts /\ d.fetches = dropped \cup {wanted} /\ d.resolution = c.resolution
        /\ d.loading = TRUE
    BY <1>1, <2>1, <2>2 DEF Charts
  <2>4. wanted.of = now /\ wanted.aborted = FALSE
    BY DEF wanted
  <2> HIDE DEF d
  <2>5. \A f \in d.fetches : ~ f.aborted => f.of = now
    BY <1>1, <2>3, <2>4
  <2>6. [of |-> now, aborted |-> FALSE] \in d.fetches
    BY <2>3 DEF wanted
  <2>7. ChartSound(d, s, a)
    BY <2>3, <2>5, <2>6 DEF ChartSound
  <2> QED
    BY <2>3, <2>7 DEF d
<1> QED
  BY <1>2, <1>3

LEMMA BumpSound ==
  ASSUME NEW c \in Charts, NEW seen, NEW s \in ChartSymbols, NEW a \in ChartAccounts,
         ChartSound(c, s, a)
  PROVE  View!Bump(c, seen, s, a) \in Charts /\ ChartSound(View!Bump(c, seen, s, a), s, a)
<1> DEFINE d == [c EXCEPT !.bumped = TRUE, !.resolution = "H1"]
<1>1. d \in Charts
  BY BrowserGiven DEF Charts
<1>2. View!Bump(c, seen, s, a) \in {c, View!Refetch(d, s, a)}
  BY DEF View!Bump
<1> HIDE DEF d
<1> QED
  BY <1>1, <1>2, RefetchSound

LEMMA MountedSound ==
  ASSUME NEW s \in ChartSymbols, NEW a \in ChartAccounts
  PROVE  View!Mounted(s, a) \in Charts /\ ChartSound(View!Mounted(s, a), s, a)
<1>1. View!BlankChart \in Charts
  BY BrowserGiven DEF View!BlankChart, Charts
<1> QED
  BY <1>1, RefetchSound, BumpSound DEF View!Mounted

LEMMA RestartSound ==
  ASSUME NEW c \in Charts, NEW s \in ChartSymbols, NEW a \in ChartAccounts
  PROVE  View!Restart(c, s, a) \in Charts /\ ChartSound(View!Restart(c, s, a), s, a)
<1> DEFINE b == [c EXCEPT !.bumped = FALSE]
           first == View!Refetch(b, s, a)
           d == [first EXCEPT !.resolution = "M1"]
<1>1. b \in Charts
  BY DEF Charts
<1>2. View!Restart(c, s, a) \in {first, View!Bump(View!Refetch(d, s, a), first, s, a)}
  BY DEF View!Restart
<1> HIDE DEF b
<1>3. first \in Charts /\ ChartSound(first, s, a)
  BY <1>1, RefetchSound
<1> HIDE DEF first
<1>4. d \in Charts
  BY <1>3, BrowserGiven DEF Charts
<1> HIDE DEF d
<1> QED
  BY <1>2, <1>3, <1>4, RefetchSound, BumpSound

(* An answer, or an error: the fetch is over, and what it was for is there, *)
(* unless it was aborted.                                                   *)
LEMMA FetchOver ==
  ASSUME NEW c \in Charts, NEW s \in ChartSymbols, NEW a \in ChartAccounts, ChartSound(c, s, a),
         NEW f \in c.fetches
  PROVE  LET rest == [c EXCEPT !.fetches = @ \ {f}]
         IN  /\ rest \in Charts
             /\ rest.fetches = c.fetches \ {f} /\ rest.resolution = c.resolution
             /\ rest.shown = c.shown /\ rest.failed = c.failed /\ rest.loading = c.loading
             /\ f \in [of: View!Keys, aborted: BOOLEAN]
             /\ f.aborted => ChartSound(rest, s, a)
             /\ ~ f.aborted => /\ f.of = View!Key(s, a, c.resolution)
                               /\ \A g \in rest.fetches : g.aborted
<1> DEFINE rest == [c EXCEPT !.fetches = @ \ {f}]
           now  == View!Key(s, a, c.resolution)
<1>1. c.fetches \subseteq [of: View!Keys, aborted: BOOLEAN]
  BY DEF Charts
<1>2. /\ rest \in Charts
      /\ rest.fetches = c.fetches \ {f} /\ rest.resolution = c.resolution
      /\ rest.shown = c.shown /\ rest.failed = c.failed
  BY <1>1 DEF Charts
<1>3. rest.loading = c.loading
  BY DEF Charts
<1> HIDE DEF rest
<1>4. \A g \in c.fetches : ~ g.aborted => g = [of |-> now, aborted |-> FALSE]
  <2> SUFFICES ASSUME NEW g \in c.fetches, ~ g.aborted PROVE g = [of |-> now, aborted |-> FALSE]
    OBVIOUS
  <2>1. g.of = now /\ g.aborted = FALSE
    BY <1>1 DEF ChartSound
  <2> HIDE DEF now
  <2> QED
    BY <1>1, <2>1
<1>5. ASSUME f.aborted PROVE ChartSound(rest, s, a)
  <2>1. [of |-> now, aborted |-> FALSE] # f
    BY <1>5
  <2> QED
    BY <1>2, <1>3, <2>1 DEF ChartSound
<1>6. ASSUME ~ f.aborted PROVE f.of = now /\ \A g \in rest.fetches : g.aborted
  <2> HIDE DEF now
  <2>1. f = [of |-> now, aborted |-> FALSE]
    BY <1>4, <1>6
  <2>2. \A g \in c.fetches \ {f} : g.aborted
    BY <1>4, <2>1
  <2> QED
    BY <1>2, <2>1, <2>2
<1> QED
  BY <1>1, <1>2, <1>3, <1>5, <1>6 DEF rest

LEMMA ChartAnswered ==
  ASSUME NEW c \in Charts, NEW s \in ChartSymbols, NEW a \in ChartAccounts, ChartSound(c, s, a),
         NEW f \in c.fetches, ~ f.aborted
  PROVE  LET rest == [c EXCEPT !.fetches = @ \ {f}]
             done == [rest EXCEPT !.shown = f.of, !.loading = FALSE]
             none == [rest EXCEPT !.shown = None, !.loading = FALSE]
             lost == [rest EXCEPT !.failed = TRUE, !.loading = FALSE]
         IN  /\ done \in Charts /\ ChartSound(done, s, a)
             /\ none \in Charts /\ ChartSound(none, s, a)
             /\ lost \in Charts /\ ChartSound(lost, s, a)
<1> DEFINE rest == [c EXCEPT !.fetches = @ \ {f}]
           done == [rest EXCEPT !.shown = f.of, !.loading = FALSE]
           none == [rest EXCEPT !.shown = None, !.loading = FALSE]
           lost == [rest EXCEPT !.failed = TRUE, !.loading = FALSE]
           now  == View!Key(s, a, c.resolution)
<1>1. /\ rest \in Charts /\ rest.resolution = c.resolution /\ f.of \in View!Keys
      /\ f.of = now /\ \A g \in rest.fetches : g.aborted
  BY FetchOver
<1> HIDE DEF rest
<1>2. [of |-> now, aborted |-> FALSE] \notin rest.fetches
  BY <1>1
<1>3. /\ done \in Charts /\ done.fetches = rest.fetches /\ done.resolution = c.resolution
      /\ done.shown = f.of /\ done.loading = FALSE
  BY <1>1 DEF Charts
<1>4. /\ lost \in Charts /\ lost.fetches = rest.fetches /\ lost.resolution = c.resolution
      /\ lost.failed = TRUE /\ lost.loading = FALSE
  BY <1>1 DEF Charts
<1>n. /\ none \in Charts /\ none.fetches = rest.fetches /\ none.resolution = c.resolution
      /\ none.shown = None /\ none.loading = FALSE
  BY <1>1 DEF Charts
<1> HIDE DEF done, none, lost
<1>5. ChartSound(done, s, a)
  BY <1>1, <1>2, <1>3 DEF ChartSound
<1>6. ChartSound(lost, s, a)
  BY <1>1, <1>2, <1>4 DEF ChartSound
<1>7. ChartSound(none, s, a)
  BY <1>1, <1>2, <1>n DEF ChartSound
<1> QED
  BY <1>3, <1>4, <1>n, <1>5, <1>6, <1>7 DEF done, none, lost, rest

-----------------------------------------------------------------------------
(* MarketView: prices, ranges and live candles. *)

Priced  == ChartMids \cup {None}
Ranged  == {None} \cup [high: Int, low: Int]
Candles == [time: Nat, open: Int, high: Int, low: Int, close: Int]
Heard   == [time: Nat, mid: ChartMids]

RangeHolds(r, mid) == r # None => mid # None /\ r.low <= mid /\ mid <= r.high

LEMMA WidenedSound ==
  ASSUME NEW r \in Ranged, NEW mid \in Priced, mid = None => r = None
  PROVE  View!Widened(r, mid) \in Ranged /\ RangeHolds(View!Widened(r, mid), mid)
<1> DEFINE w == View!Widened(r, mid)
<1>1. CASE mid = None
  BY <1>1 DEF View!Widened, RangeHolds
<1>2. CASE mid # None /\ r = None
  <2>1. w = [high |-> mid, low |-> mid] /\ mid \in Int
    BY <1>2, BrowserGiven DEF View!Widened, Priced
  <2>2. w \in [high: Int, low: Int] /\ w.low = mid /\ w.high = mid
    BY <2>1
  <2> HIDE DEF w
  <2>3. w \in Ranged /\ RangeHolds(w, mid)
    BY <1>2, <2>1, <2>2 DEF Ranged, RangeHolds
  <2> QED
    BY <2>3 DEF w
<1>3. CASE mid # None /\ r # None
  <2>1. /\ w = [high |-> View!Higher(r.high, mid), low |-> View!Lower(r.low, mid)]
        /\ mid \in Int /\ r.high \in Int /\ r.low \in Int
    BY <1>3, BrowserGiven DEF View!Widened, Priced, Ranged
  <2>2. /\ View!Higher(r.high, mid) \in Int /\ mid <= View!Higher(r.high, mid)
        /\ View!Lower(r.low, mid) \in Int /\ View!Lower(r.low, mid) <= mid
    BY <2>1 DEF View!Higher, View!Lower
  <2>3. w \in [high: Int, low: Int] /\ w.low <= mid /\ mid <= w.high
    BY <2>1, <2>2
  <2> HIDE DEF w
  <2>4. w \in Ranged /\ RangeHolds(w, mid)
    BY <1>3, <2>3 DEF Ranged, RangeHolds
  <2> QED
    BY <2>4 DEF w
<1> QED
  BY <1>1, <1>2, <1>3

AllHold(rs, prices) == \A s \in ChartSymbols : RangeHolds(rs[s], prices[s])

LEMMA RangesSound ==
  ASSUME NEW rs \in [ChartSymbols -> Ranged], NEW prices \in [ChartSymbols -> Priced],
         \A s \in ChartSymbols : prices[s] = None => rs[s] = None
  PROVE  /\ View!RangesOf(rs, prices) \in [ChartSymbols -> Ranged]
         /\ AllHold(View!RangesOf(rs, prices), prices)
<1>1. \A s \in ChartSymbols : /\ View!Widened(rs[s], prices[s]) \in Ranged
                              /\ RangeHolds(View!Widened(rs[s], prices[s]), prices[s])
  BY WidenedSound
<1> QED
  BY <1>1 DEF View!RangesOf, AllHold

(* What a candle says of the ticks that were heard: the parts of            *)
(* CandlesFaithful for one candle.                                          *)
Moments(hs, t) == {h \in 1..Len(hs) : hs[h].time = t}
CandleOf(c, hs) ==
    /\ \E h \in Moments(hs, c.time) : hs[h].mid = c.open /\ \A g \in Moments(hs, c.time) : h <= g
    /\ \E h \in Moments(hs, c.time) : hs[h].mid = c.close /\ \A g \in Moments(hs, c.time) : g <= h
    /\ \A h \in Moments(hs, c.time) : c.low <= hs[h].mid /\ hs[h].mid <= c.high
    /\ \E h \in Moments(hs, c.time) : c.low = hs[h].mid
    /\ \E h \in Moments(hs, c.time) : c.high = hs[h].mid

Faithful(cs, hs) ==
    /\ Len(cs) <= ChartCandles
    /\ \A h \in 1..Len(hs) :
          \/ \E i \in 1..Len(cs) : cs[i].time = hs[h].time
          \/ Len(cs) = ChartCandles /\ hs[h].time < cs[1].time
    /\ \A i \in 1..Len(cs) : CandleOf(cs[i], hs)
Rising(cs) == \A i, j \in 1..Len(cs) : i < j => cs[i].time < cs[j].time
Past(cs, b) == \A i \in 1..Len(cs) : cs[i].time <= b

LEMMA HeardMore ==
  ASSUME NEW hs \in Seq(Heard), NEW x \in Heard
  PROVE  /\ Append(hs, x) \in Seq(Heard) /\ Len(Append(hs, x)) = Len(hs) + 1 /\ Len(hs) \in Nat
         /\ \A h \in 1..Len(hs) : Append(hs, x)[h] = hs[h]
         /\ Append(hs, x)[Len(hs) + 1] = x
OBVIOUS

LEMMA MomentsOther ==
  ASSUME NEW hs \in Seq(Heard), NEW x \in Heard, NEW t, t # x.time
  PROVE  Moments(Append(hs, x), t) = Moments(hs, t)
<1> DEFINE ks == Append(hs, x)
<1>1. Len(ks) = Len(hs) + 1 /\ Len(hs) \in Nat
  BY HeardMore
<1>2. (\A h \in 1..Len(hs) : ks[h] = hs[h]) /\ ks[Len(hs) + 1] = x
  BY HeardMore
<1> HIDE DEF ks
<1>3. Moments(ks, t) = Moments(hs, t)
  BY <1>1, <1>2 DEF Moments
<1> QED
  BY <1>3 DEF ks

LEMMA MomentsNow ==
  ASSUME NEW hs \in Seq(Heard), NEW x \in Heard
  PROVE  Moments(Append(hs, x), x.time) = Moments(hs, x.time) \cup {Len(hs) + 1}
<1> DEFINE ks == Append(hs, x)
<1>1. Len(ks) = Len(hs) + 1 /\ Len(hs) \in Nat
  BY HeardMore
<1>2. (\A h \in 1..Len(hs) : ks[h] = hs[h]) /\ ks[Len(hs) + 1] = x
  BY HeardMore
<1> HIDE DEF ks
<1>3. Moments(ks, x.time) = Moments(hs, x.time) \cup {Len(hs) + 1}
  BY <1>1, <1>2 DEF Moments
<1> QED
  BY <1>3 DEF ks

LEMMA CandleOther ==
  ASSUME NEW hs \in Seq(Heard), NEW x \in Heard, NEW c, c.time # x.time, CandleOf(c, hs)
  PROVE  CandleOf(c, Append(hs, x))
<1> DEFINE ks == Append(hs, x)
<1>1. Moments(ks, c.time) = Moments(hs, c.time)
  BY MomentsOther
<1>2. \A h \in Moments(hs, c.time) : ks[h] = hs[h]
  BY HeardMore DEF Moments
<1> HIDE DEF ks
<1>3. CandleOf(c, ks)
  BY <1>1, <1>2 DEF CandleOf
<1> QED
  BY <1>3 DEF ks

LEMMA CandleGrows ==
  ASSUME NEW hs \in Seq(Heard), NEW x \in Heard, NEW c \in Candles, c.time = x.time,
         CandleOf(c, hs)
  PROVE  View!Grown(c, x.mid) \in Candles /\ View!Grown(c, x.mid).time = c.time
         /\ CandleOf(View!Grown(c, x.mid), Append(hs, x))
<1> DEFINE ks == Append(hs, x)
           d  == View!Grown(c, x.mid)
           n  == Len(hs) + 1
           now == Moments(hs, c.time)
<1>m. ChartMids \subseteq Int /\ \A y \in Heard : y.mid \in ChartMids
  BY BrowserGiven DEF Heard
<1>s. Len(hs) \in Nat /\ \A h \in 1..Len(hs) : hs[h] \in Heard
  OBVIOUS
<1>0. /\ x.mid \in Int /\ c.low \in Int /\ c.high \in Int /\ Len(hs) \in Nat
      /\ \A h \in 1..Len(hs) : hs[h].mid \in Int
  BY <1>m, <1>s DEF Candles
<1>h. View!Higher(c.high, x.mid) \in Int /\ View!Lower(c.low, x.mid) \in Int
  BY <1>0 DEF View!Higher, View!Lower
<1>1. /\ d \in Candles /\ d.time = c.time /\ d.open = c.open /\ d.close = x.mid
      /\ d.high = View!Higher(c.high, x.mid) /\ d.low = View!Lower(c.low, x.mid)
  BY <1>0, <1>h, BrowserGiven DEF View!Grown, Candles
<1>2. Moments(ks, d.time) = now \cup {n}
  BY <1>1, MomentsNow
<1>3. ks[n] = x /\ \A h \in now : ks[h] = hs[h] /\ h \in Int /\ h <= Len(hs) /\ hs[h].mid \in Int
  BY <1>0, HeardMore DEF Moments
<1>4. n \in Int /\ \A h \in now : h <= n
  BY <1>0, <1>3
<1>c. /\ \E h \in now : hs[h].mid = c.open /\ \A g \in now : h <= g
      /\ \A h \in now : c.low <= hs[h].mid /\ hs[h].mid <= c.high
      /\ \E h \in now : c.low = hs[h].mid
      /\ \E h \in now : c.high = hs[h].mid
  BY DEF CandleOf
<1> HIDE DEF ks, d, n, now
<1>5. \E h \in now \cup {n} : ks[h].mid = d.open /\ \A g \in now \cup {n} : h <= g
  BY <1>1, <1>3, <1>4, <1>c
<1>6. \E h \in now \cup {n} : ks[h].mid = d.close /\ \A g \in now \cup {n} : g <= h
  BY <1>1, <1>3, <1>4
<1>7. d.low <= x.mid /\ x.mid <= d.high /\ d.low <= c.low /\ c.high <= d.high
  BY <1>0, <1>1 DEF View!Higher, View!Lower
<1>t. d.low \in Int /\ d.high \in Int
  BY <1>1, <1>h
<1>8. \A h \in now \cup {n} : d.low <= ks[h].mid /\ ks[h].mid <= d.high
  <2>1. \A h \in now : d.low <= hs[h].mid /\ hs[h].mid <= d.high
    BY <1>0, <1>3, <1>c, <1>7, <1>t
  <2> QED
    BY <1>3, <1>7, <2>1
<1>9. \E h \in now \cup {n} : d.low = ks[h].mid
  BY <1>1, <1>3, <1>c DEF View!Lower
<1>10. \E h \in now \cup {n} : d.high = ks[h].mid
  BY <1>1, <1>3, <1>c DEF View!Higher
<1>11. CandleOf(d, ks)
  BY <1>2, <1>5, <1>6, <1>8, <1>9, <1>10 DEF CandleOf
<1> QED
  BY <1>1, <1>11 DEF d, ks

LEMMA CandleStarts ==
  ASSUME NEW hs \in Seq(Heard), NEW x \in Heard, Moments(hs, x.time) = {},
         NEW c \in Candles, c.time = x.time,
         c.open = x.mid, c.high = x.mid, c.low = x.mid, c.close = x.mid
  PROVE  CandleOf(c, Append(hs, x))
<1> DEFINE ks == Append(hs, x)
           n  == Len(hs) + 1
<1>1. Moments(ks, c.time) = {n}
  BY MomentsNow
<1>n. ks[n] = x /\ n \in Int
  BY HeardMore
<1>2. x.mid \in Int
  BY BrowserGiven DEF Heard
<1> HIDE DEF ks, n
<1>3. CandleOf(c, ks)
  BY <1>1, <1>2, <1>n DEF CandleOf
<1> QED
  BY <1>3 DEF ks

LEMMA TickHeeded ==
  ASSUME NEW cs \in Seq(Candles), NEW hs \in Seq(Heard), NEW x \in Heard,
         Faithful(cs, hs), Rising(cs), Past(cs, x.time)
  PROVE  LET ds == View!BuildCandle(cs, x)
             ks == Append(hs, x)
         IN  /\ ds \in Seq(Candles) /\ ks \in Seq(Heard)
             /\ Faithful(ds, ks) /\ Rising(ds) /\ Past(ds, x.time)
<1> DEFINE ds == View!BuildCandle(cs, x)
           ks == Append(hs, x)
           n  == Len(cs)
<1>1. x.time \in Nat /\ x.mid \in ChartMids
  BY DEF Heard
<1>2. /\ ks \in Seq(Heard) /\ Len(ks) = Len(hs) + 1 /\ Len(hs) \in Nat
      /\ \A h \in 1..Len(hs) : ks[h] = hs[h]
      /\ ks[Len(hs) + 1] = x
  BY HeardMore
<1>3. n \in Nat /\ \A i \in 1..n : cs[i] \in Candles /\ cs[i].time \in Nat
  <2>1. n \in Nat /\ \A i \in 1..n : cs[i] \in Candles
    OBVIOUS
  <2> QED
    BY <2>1 DEF Candles
<1>m. ChartCandles \in Nat /\ ChartCandles > 1 /\ n <= ChartCandles
  BY BrowserGiven DEF Faithful
<1>t. \A h \in 1..Len(hs) : hs[h].time \in Nat
  <2>1. \A h \in 1..Len(hs) : hs[h] \in Heard
    OBVIOUS
  <2> QED
    BY <2>1 DEF Heard
<1>4. CASE cs # <<>> /\ cs[n].time = x.time
  <2>1. n \in 1..n /\ ds = [cs EXCEPT ![n] = View!Grown(cs[n], x.mid)]
    BY <1>4 DEF View!BuildCandle
  <2>2. /\ View!Grown(cs[n], x.mid) \in Candles /\ View!Grown(cs[n], x.mid).time = x.time
        /\ CandleOf(View!Grown(cs[n], x.mid), ks)
    BY <1>1, <1>3, <1>4, <2>1, CandleGrows DEF Faithful
  <2>3. /\ ds \in Seq(Candles) /\ Len(ds) = n
        /\ \A i \in 1..n : i # n => ds[i] = cs[i]
        /\ ds[n] = View!Grown(cs[n], x.mid)
    BY <2>1, <2>2
  <2> HIDE DEF ks, ds
  <2>4. \A i \in 1..n : ds[i].time = cs[i].time
    BY <1>4, <2>2, <2>3
  <2>5. \A i \in 1..n : CandleOf(ds[i], ks)
    <3> SUFFICES ASSUME NEW i \in 1..n, i # n PROVE CandleOf(ds[i], ks)
      BY <2>2, <2>3
    <3>1. i < n
      BY <1>3
    <3>2. cs[i].time < cs[n].time
      BY <2>1, <3>1 DEF Rising
    <3>3. cs[i].time # x.time
      BY <1>1, <1>3, <1>4, <2>1, <3>2
    <3>4. CandleOf(cs[i], ks)
      BY <1>1, <3>3, CandleOther DEF Faithful, ks
    <3> QED
      BY <2>3, <3>4
  <2>6. ASSUME NEW h \in 1..Len(ks)
        PROVE  \/ \E i \in 1..n : ds[i].time = ks[h].time
               \/ n = ChartCandles /\ ks[h].time < ds[1].time
    <3>1. CASE h = Len(hs) + 1
      BY <1>1, <1>2, <1>4, <2>1, <2>4, <3>1
    <3>2. CASE h \in 1..Len(hs)
      <4>1. 1 \in 1..n /\ ks[h] = hs[h]
        BY <1>2, <1>3, <2>1, <3>2
      <4> QED
        BY <2>4, <3>2, <4>1 DEF Faithful
    <3> QED
      BY <1>2, <3>1, <3>2
  <2>7. Faithful(ds, ks) /\ Rising(ds) /\ Past(ds, x.time)
    BY <1>m, <2>3, <2>4, <2>5, <2>6 DEF Faithful, Rising, Past
  <2> QED
    BY <1>2, <2>3, <2>7 DEF ds, ks
<1>5. CASE ~ (cs # <<>> /\ cs[n].time = x.time)
  <2> DEFINE c  == View!Candle(x)
             k  == IF n < ChartCandles THEN 0 ELSE 1
             m  == n - k
             rs == View!Recent(cs)
  <2>1. ds = Append(rs, c)
    BY <1>5 DEF View!BuildCandle
  <2>2. /\ c \in Candles /\ c.time = x.time
        /\ c.open = x.mid /\ c.high = x.mid /\ c.low = x.mid /\ c.close = x.mid
    BY <1>1, BrowserGiven DEF View!Candle, Candles
  <2> HIDE DEF c
  <2>k. /\ k \in {0, 1} /\ m \in Nat /\ m + 1 <= ChartCandles
        /\ k = 1 => m + 1 = ChartCandles /\ n = ChartCandles /\ m \in 1..m
        /\ k = 0 => n # ChartCandles
    BY <1>3, <1>m
  <2>r. rs \in Seq(Candles) /\ Len(rs) = m /\ \A i \in 1..m : rs[i] = cs[i + k]
    <3>1. CASE n < ChartCandles
      BY <1>3, <3>1 DEF View!Recent
    <3>2. CASE ~ (n < ChartCandles)
      <4>1. rs = Tail(cs) /\ cs # <<>>
        BY <1>3, <1>m, <3>2 DEF View!Recent
      <4>2. rs \in Seq(Candles) /\ Len(rs) = n - 1 /\ \A i \in 1..n - 1 : rs[i] = cs[i + 1]
        BY <4>1
      <4> QED
        BY <3>2, <4>2
    <3> QED
      BY <3>1, <3>2
  <2> HIDE DEF rs
  <2>3. /\ ds \in Seq(Candles) /\ Len(ds) = m + 1
        /\ (\A i \in 1..m : ds[i] = cs[i + k]) /\ ds[m + 1] = c
    <3>1. /\ Append(rs, c) \in Seq(Candles) /\ Len(Append(rs, c)) = m + 1
          /\ (\A i \in 1..m : Append(rs, c)[i] = rs[i]) /\ Append(rs, c)[m + 1] = c
      BY <2>2, <2>r
    <3> QED
      BY <2>1, <2>r, <3>1
  <2> HIDE DEF ds
  <2>i. \A i \in 1..m : i + k \in 1..n
    BY <1>3, <2>k
  <2> HIDE DEF k
  <2>4. \A i \in 1..n : cs[i].time < x.time
    <3> SUFFICES ASSUME NEW i \in 1..n PROVE cs[i].time < x.time
      OBVIOUS
    <3>1. cs # <<>> /\ n \in 1..n
      BY <1>3
    <3>2. cs[n].time < x.time
      BY <1>1, <1>3, <1>5, <3>1 DEF Past
    <3>3. CASE i = n
      BY <3>2, <3>3
    <3>4. CASE i # n
      BY <1>1, <1>3, <3>1, <3>2, <3>4 DEF Rising
    <3> QED
      BY <3>3, <3>4
  <2>5. Moments(hs, x.time) = {}
    <3>1. ASSUME NEW h \in 1..Len(hs) PROVE hs[h].time # x.time
      <4>1. CASE \E i \in 1..n : cs[i].time = hs[h].time
        BY <1>1, <1>3, <2>4, <4>1
      <4>2. CASE n = ChartCandles /\ hs[h].time < cs[1].time
        <5>1. 1 \in 1..n
          BY <1>m, <4>2
        <5> QED
          BY <1>1, <1>3, <1>t, <2>4, <4>2, <5>1
      <4> QED
        BY <4>1, <4>2 DEF Faithful
    <3> QED
      BY <3>1 DEF Moments
  <2>6. CandleOf(c, ks)
    BY <2>2, <2>5, CandleStarts
  <2>7. \A i \in 1..n : CandleOf(cs[i], ks)
    BY <1>1, <1>3, <2>4, CandleOther DEF Faithful
  <2> HIDE DEF ks
  <2>8. ASSUME NEW h \in 1..Len(ks)
        PROVE  \/ \E i \in 1..m + 1 : ds[i].time = ks[h].time
               \/ m + 1 = ChartCandles /\ ks[h].time < ds[1].time
    <3>1. CASE h = Len(hs) + 1
      BY <1>2, <2>2, <2>3, <2>k, <3>1
    <3>2. CASE h \in 1..Len(hs)
      <4>0. ks[h] = hs[h]
        BY <1>2, <3>2
      <4>k. ASSUME k = 1
            PROVE  /\ m + 1 = ChartCandles /\ 1 \in 1..n /\ ds[1].time = cs[2].time
                   /\ cs[1].time < cs[2].time /\ {cs[1].time, cs[2].time} \subseteq Nat
        <5>1. m \in 1..m /\ m + 1 = ChartCandles /\ n = ChartCandles
          BY <2>k, <4>k
        <5>2. 1 \in 1..m /\ 1 \in 1..n /\ 2 \in 1..n
          BY <1>m, <5>1
        <5>3. ds[1] = cs[2]
          BY <2>3, <4>k, <5>2
        <5> QED
          BY <1>3, <5>1, <5>2, <5>3 DEF Rising
      <4>1. CASE \E i \in 1..n : cs[i].time = hs[h].time
        <5>1. PICK i \in 1..n : cs[i].time = hs[h].time
          BY <4>1
        <5>2. CASE i > k
          <6>1. i - k \in 1..m /\ (i - k) + k = i
            BY <1>3, <2>k, <5>2
          <6>2. ds[i - k] = cs[i] /\ i - k \in 1..m + 1
            BY <2>3, <2>k, <6>1
          <6> QED
            BY <4>0, <5>1, <6>2
        <5>3. CASE ~ (i > k)
          <6>1. k = 1 /\ i = 1
            BY <1>3, <2>k, <5>3
          <6> QED
            BY <4>0, <4>k, <5>1, <6>1
        <5> QED
          BY <5>2, <5>3
      <4>2. CASE n = ChartCandles /\ hs[h].time < cs[1].time
        <5>1. k = 1
          BY <2>k, <4>2
        <5> QED
          BY <1>t, <3>2, <4>0, <4>2, <4>k, <5>1
      <4> QED
        BY <3>2, <4>1, <4>2 DEF Faithful
    <3> QED
      BY <1>2, <3>1, <3>2
  <2>9. \A i \in 1..m + 1 : CandleOf(ds[i], ks)
    <3>1. \A i \in 1..m : CandleOf(ds[i], ks)
      BY <2>3, <2>7, <2>i
    <3> QED
      BY <2>3, <2>6, <2>k, <3>1
  <2>10. Rising(ds)
    <3> SUFFICES ASSUME NEW i \in 1..m + 1, NEW j \in 1..m + 1, i < j PROVE ds[i].time < ds[j].time
      BY <2>3 DEF Rising
    <3>1. i \in 1..m /\ i + k \in 1..n /\ ds[i] = cs[i + k]
      BY <2>3, <2>i, <2>k
    <3>2. CASE j = m + 1
      BY <2>2, <2>3, <2>4, <3>1, <3>2
    <3>3. CASE j \in 1..m
      <4>1. j + k \in 1..n /\ ds[j] = cs[j + k] /\ i + k < j + k
        BY <2>3, <2>i, <2>k, <3>1, <3>3
      <4> QED
        BY <3>1, <4>1 DEF Rising
    <3> QED
      BY <2>k, <3>2, <3>3
  <2>11. Past(ds, x.time)
    <3> SUFFICES ASSUME NEW i \in 1..m + 1 PROVE ds[i].time <= x.time
      BY <2>3 DEF Past
    <3>1. CASE i = m + 1
      BY <1>1, <2>2, <2>3, <3>1
    <3>2. CASE i \in 1..m
      <4>1. i + k \in 1..n /\ ds[i] = cs[i + k]
        BY <2>3, <2>i, <3>2
      <4> QED
        BY <1>1, <1>3, <2>4, <4>1
    <3> QED
      BY <2>k, <3>1, <3>2
  <2>12. Faithful(ds, ks)
    BY <2>3, <2>8, <2>9, <2>k DEF Faithful
  <2> QED
    BY <1>2, <2>3, <2>10, <2>11, <2>12 DEF ds, ks
<1> QED
  BY <1>4, <1>5

(* MarketView: the invariant.                                               *)
ViewTyped ==
    /\ chartSymbol \in ChartSymbols /\ chartAcct \in ChartAccounts /\ chart \in Charts
    /\ ticks \in [ChartSymbols -> Priced] /\ cache \in [ChartSymbols -> Priced]
    /\ ranges \in [ChartSymbols -> Ranged] /\ bucket \in Nat
    /\ live \in [last: Priced, candles: Seq(Candles)] /\ heard \in Seq(Heard)

(* The sheet shows the list that is stored.                                 *)
Watched ==
    /\ watch \in [stored: {None} \cup SUBSET ChartSymbols, page: SUBSET ChartSymbols,
                  sheet: SUBSET ChartSymbols]
    /\ watch.sheet = View!Stored(watch)

ViewTrue ==
    /\ ChartSound(chart, chartSymbol, chartAcct)
    /\ Faithful(live.candles, heard) /\ Rising(live.candles) /\ Past(live.candles, bucket)
    /\ AllHold(ranges, ticks)

LEMMA NoCandlesYet ==
    <<>> \in Seq(Candles) /\ <<>> \in Seq(Heard) /\ Faithful(<<>>, <<>>) /\ Rising(<<>>)
    /\ \A b \in Nat : Past(<<>>, b)
BY BrowserGiven DEF Faithful, Rising, Past

LEMMA SeededSound ==
  ASSUME NEW prices \in [ChartSymbols -> Priced], NEW s \in ChartSymbols
  PROVE  /\ View!Seeded(prices, s) \in [last: Priced, candles: Seq(Candles)]
         /\ View!Seeded(prices, s).candles = <<>>
BY NoCandlesYet DEF View!Seeded

LEMMA ViewInit == View!Init => ViewTyped /\ ViewTrue
<1> SUFFICES ASSUME View!Init PROVE ViewTyped /\ ViewTrue
  OBVIOUS
<1>1. chartSymbol \in ChartSymbols /\ chartAcct \in ChartAccounts
  BY BrowserGiven DEF View!Init
<1>2. chart \in Charts /\ ChartSound(chart, chartSymbol, chartAcct)
  BY <1>1, MountedSound DEF View!Init
<1>3. /\ ticks = View!NoPrices /\ cache = View!NoPrices /\ live = View!Seeded(View!NoPrices, chartSymbol)
      /\ bucket = 0 /\ ranges = View!NoRanges /\ heard = <<>>
  BY DEF View!Init
<1>4. View!NoPrices \in [ChartSymbols -> Priced]
  BY DEF View!NoPrices, Priced
<1>5. View!NoRanges \in [ChartSymbols -> Ranged]
  BY DEF View!NoRanges, Ranged
<1>6. AllHold(ranges, ticks)
  BY <1>3 DEF View!NoRanges, AllHold, RangeHolds
<1>7. live \in [last: Priced, candles: Seq(Candles)] /\ live.candles = <<>>
  BY <1>1, <1>3, <1>4, SeededSound
<1>8. ViewTyped
  BY <1>1, <1>2, <1>3, <1>4, <1>5, <1>7, NoCandlesYet DEF ViewTyped
<1>9. ViewTrue
  BY <1>2, <1>3, <1>6, <1>7, NoCandlesYet DEF ViewTrue
<1> QED
  BY <1>8, <1>9

(* What is chosen, and what comes of it.                                    *)
LEMMA ViewChosen ==
  ASSUME ViewTyped, ViewTrue,
         \/ \E s \in ChartSymbols : View!SelectSymbol(s)
         \/ \E a \in ChartAccounts : View!SwitchAccount(a)
  PROVE  ViewTyped' /\ ViewTrue'
<1>1. chartSymbol' \in ChartSymbols /\ chartAcct' \in ChartAccounts
  BY DEF ViewTyped, View!SelectSymbol, View!SwitchAccount
<1>2. /\ chart' \in {View!Restart(chart, chartSymbol', chartAcct'), View!Refetch(chart, chartSymbol', chartAcct')}
      /\ live' = View!Seeded(ticks, chartSymbol') /\ heard' = <<>>
      /\ UNCHANGED <<ticks, bucket, cache, ranges, watch>>
  BY DEF View!SelectSymbol, View!SwitchAccount
<1>3. chart' \in Charts /\ ChartSound(chart', chartSymbol', chartAcct')
  BY <1>1, <1>2, RestartSound, RefetchSound DEF ViewTyped
<1>4. live' \in [last: Priced, candles: Seq(Candles)] /\ live'.candles = <<>>
  BY <1>1, <1>2, SeededSound DEF ViewTyped
<1>5. ViewTyped'
  BY <1>1, <1>2, <1>3, <1>4, NoCandlesYet DEF ViewTyped
<1>6. AllHold(ranges', ticks')
  BY <1>2 DEF ViewTrue
<1>7. Faithful(live'.candles, heard') /\ Rising(live'.candles) /\ Past(live'.candles, bucket')
  BY <1>2, <1>4, NoCandlesYet DEF ViewTyped
<1> QED
  BY <1>3, <1>5, <1>6, <1>7 DEF ViewTrue

(* Only the chart changes.                                                  *)
LEMMA ViewCharted ==
  ASSUME ViewTyped, ViewTrue,
         UNCHANGED <<chartSymbol, chartAcct, ticks, live, bucket, cache, ranges, heard>>,
         chart' \in Charts, ChartSound(chart', chartSymbol, chartAcct)
  PROVE  ViewTyped' /\ ViewTrue'
<1>1. ViewTyped'
  BY DEF ViewTyped
<1>2. ViewTrue'
  BY DEF ViewTrue
<1> QED
  BY <1>1, <1>2

LEMMA ViewFetched ==
  ASSUME ViewTyped, ViewTrue,
         \/ \E r \in ChartResolutions : View!PickResolution(r)
         \/ View!OpenChart
         \/ \E f \in chart.fetches : View!FetchDone(f) \/ View!FetchFails(f)
  PROVE  ViewTyped' /\ ViewTrue'
<1>0. /\ chartSymbol \in ChartSymbols /\ chartAcct \in ChartAccounts /\ chart \in Charts
      /\ ChartSound(chart, chartSymbol, chartAcct)
  BY DEF ViewTyped, ViewTrue
<1>u. UNCHANGED <<chartSymbol, chartAcct, ticks, live, bucket, cache, ranges, heard>>
  BY DEF View!PickResolution, View!OpenChart, View!FetchDone, View!FetchFails
<1>k. SUFFICES chart' \in Charts /\ ChartSound(chart', chartSymbol, chartAcct)
  BY <1>u, ViewCharted
<1>1. ASSUME NEW r \in ChartResolutions, View!PickResolution(r)
      PROVE  chart' \in Charts /\ ChartSound(chart', chartSymbol, chartAcct)
  <2> DEFINE d == [chart EXCEPT !.resolution = r]
  <2>1. d \in Charts
    BY <1>0 DEF Charts
  <2>2. chart' = View!Bump(View!Refetch(d, chartSymbol, chartAcct), chart, chartSymbol, chartAcct)
    BY <1>1 DEF View!PickResolution
  <2> HIDE DEF d
  <2> QED
    BY <1>0, <2>1, <2>2, RefetchSound, BumpSound
<1>2. CASE View!OpenChart
  BY <1>0, <1>2, MountedSound DEF View!OpenChart
<1>3. ASSUME NEW f \in chart.fetches, View!FetchDone(f) \/ View!FetchFails(f)
      PROVE  chart' \in Charts /\ ChartSound(chart', chartSymbol, chartAcct)
  <2> DEFINE rest == [chart EXCEPT !.fetches = @ \ {f}]
             done == [rest EXCEPT !.shown = f.of, !.loading = FALSE]
             none == [rest EXCEPT !.shown = None, !.loading = FALSE]
             lost == [rest EXCEPT !.failed = TRUE, !.loading = FALSE]
  <2>1. CASE f.aborted
    <3>1. chart' = rest
      BY <1>3, <2>1 DEF View!FetchDone, View!FetchFails, View!Taken
    <3>2. rest \in Charts /\ ChartSound(rest, chartSymbol, chartAcct)
      BY <1>0, <2>1, FetchOver
    <3> QED
      BY <3>1, <3>2
  <2>2. CASE ~ f.aborted
    <3>1. chart' \in {View!Bump(done, done, chartSymbol, chartAcct),
                      View!Bump(none, none, chartSymbol, chartAcct),
                      View!Bump(lost, lost, chartSymbol, chartAcct)}
      BY <1>3, <2>2 DEF View!FetchDone, View!FetchFails, View!Taken
    <3>2. /\ done \in Charts /\ ChartSound(done, chartSymbol, chartAcct)
          /\ none \in Charts /\ ChartSound(none, chartSymbol, chartAcct)
          /\ lost \in Charts /\ ChartSound(lost, chartSymbol, chartAcct)
      BY <1>0, <2>2, ChartAnswered
    <3> HIDE DEF done, none, lost
    <3> QED
      BY <1>0, <3>1, <3>2, BumpSound
  <2> QED
    BY <2>1, <2>2
<1> QED
  BY <1>1, <1>2, <1>3

(* Prices come, five seconds pass, the day ends, the page is opened again.  *)
LEMMA ViewTicked ==
  ASSUME ViewTyped, ViewTrue, NEW s \in ChartSymbols,
         NEW tick \in [time: {bucket, bucket + 1}, mid: ChartMids], View!Tick(s, tick)
  PROVE  ViewTyped' /\ ViewTrue'
<1>0. bucket \in Nat /\ tick.mid \in ChartMids /\ tick.time \in {bucket, bucket + 1}
  BY DEF ViewTyped
<1>h. tick \in Heard /\ tick.time \in Nat /\ bucket <= tick.time
  BY <1>0 DEF Heard
<1>1. /\ ticks' = [ticks EXCEPT ![s] = tick.mid] /\ ranges' = View!RangesOf(ranges, ticks')
      /\ live' = IF s = chartSymbol
                 THEN [last |-> tick.mid, candles |-> View!BuildCandle(live.candles, tick)] ELSE live
      /\ heard' = IF s = chartSymbol THEN Append(heard, tick) ELSE heard
      /\ bucket' = tick.time /\ UNCHANGED <<chartSymbol, chartAcct, chart, cache>>
  BY DEF View!Tick
<1>2. /\ ticks' \in [ChartSymbols -> Priced]
      /\ \A t \in ChartSymbols : ticks'[t] = None => ticks[t] = None
  BY <1>0, <1>1, BrowserGiven DEF ViewTyped, Priced
<1>3. \A t \in ChartSymbols : ticks'[t] = None => ranges[t] = None
  BY <1>2 DEF ViewTrue, AllHold, RangeHolds
<1>4. ranges' \in [ChartSymbols -> Ranged] /\ AllHold(ranges', ticks')
  BY <1>1, <1>2, <1>3, RangesSound DEF ViewTyped
<1>5. /\ live' \in [last: Priced, candles: Seq(Candles)] /\ heard' \in Seq(Heard)
      /\ Faithful(live'.candles, heard') /\ Rising(live'.candles) /\ Past(live'.candles, bucket')
  <2>0. /\ live.candles \in Seq(Candles) /\ heard \in Seq(Heard) /\ bucket \in Nat
        /\ Faithful(live.candles, heard) /\ Rising(live.candles) /\ Past(live.candles, bucket)
    BY DEF ViewTyped, ViewTrue
  <2>p. Past(live.candles, tick.time)
    <3>1. \A i \in 1..Len(live.candles) : live.candles[i] \in Candles
      BY <2>0
    <3>2. \A i \in 1..Len(live.candles) : live.candles[i].time \in Nat
      BY <3>1 DEF Candles
    <3> QED
      BY <1>h, <2>0, <3>2 DEF Past
  <2>1. CASE s = chartSymbol
    <3> DEFINE ds == View!BuildCandle(live.candles, tick)
               ks == Append(heard, tick)
    <3>1. /\ ds \in Seq(Candles) /\ ks \in Seq(Heard)
          /\ Faithful(ds, ks) /\ Rising(ds) /\ Past(ds, tick.time)
      BY <1>h, <2>0, <2>p, TickHeeded
    <3>2. live' = [last |-> tick.mid, candles |-> ds] /\ heard' = ks /\ tick.mid \in Priced
      BY <1>0, <1>1, <2>1 DEF Priced
    <3> HIDE DEF ds, ks
    <3>3. live' \in [last: Priced, candles: Seq(Candles)] /\ live'.candles = ds
      BY <3>1, <3>2
    <3>4. bucket' = tick.time
      BY <1>1
    <3>5. heard' \in Seq(Heard) /\ Faithful(live'.candles, heard') /\ Rising(live'.candles)
      BY <3>1, <3>2, <3>3
    <3>6. Past(live'.candles, bucket')
      BY <3>1, <3>3, <3>4
    <3> QED
      BY <3>3, <3>5, <3>6
  <2>2. CASE s # chartSymbol
    BY <1>1, <2>0, <2>p, <2>2 DEF ViewTyped
  <2> QED
    BY <2>1, <2>2
<1>6. ViewTyped'
  BY <1>h, <1>1, <1>2, <1>4, <1>5 DEF ViewTyped
<1>7. ChartSound(chart', chartSymbol', chartAcct')
  BY <1>1 DEF ViewTrue
<1> QED
  BY <1>4, <1>5, <1>6, <1>7 DEF ViewTrue

LEMMA ViewPassed ==
  ASSUME ViewTyped, ViewTrue,
         View!OpenQuotes \/ View!ResetRanges \/ View!PersistTicks
  PROVE  ViewTyped' /\ ViewTrue'
<1>1. UNCHANGED <<chartSymbol, chartAcct, chart, ticks, live, heard>>
  BY DEF View!OpenQuotes, View!ResetRanges, View!PersistTicks
<1>2. bucket' = bucket /\ cache' \in {cache, ticks}
  BY DEF View!OpenQuotes, View!ResetRanges, View!PersistTicks
<1>3. View!NoRanges \in [ChartSymbols -> Ranged] /\ \A s \in ChartSymbols : View!NoRanges[s] = None
  BY DEF View!NoRanges, Ranged
<1>4. ranges' \in {ranges, View!NoRanges, View!RangesOf(View!NoRanges, ticks)}
  BY DEF View!OpenQuotes, View!ResetRanges, View!PersistTicks
<1>5. ranges' \in [ChartSymbols -> Ranged] /\ AllHold(ranges', ticks')
  <2>1. CASE ranges' = ranges
    BY <1>1, <2>1 DEF ViewTyped, ViewTrue
  <2>2. CASE ranges' = View!NoRanges
    BY <1>3, <2>2 DEF AllHold, RangeHolds
  <2>3. CASE ranges' = View!RangesOf(View!NoRanges, ticks)
    BY <1>1, <1>3, <2>3, RangesSound DEF ViewTyped
  <2> QED
    BY <1>4, <2>1, <2>2, <2>3
<1>6. bucket' \in Nat
  BY <1>2 DEF ViewTyped
<1>7. ViewTyped'
  BY <1>1, <1>2, <1>5, <1>6 DEF ViewTyped
<1>8. ViewTrue'
  BY <1>1, <1>2, <1>5 DEF ViewTrue
<1> QED
  BY <1>7, <1>8

LEMMA ViewLoaded ==
  ASSUME ViewTyped, ViewTrue, NEW recent \in SUBSET ChartSymbols, View!LoadPage(recent)
  PROVE  ViewTyped' /\ ViewTrue'
<1>0. chartSymbol \in ChartSymbols /\ chartAcct \in ChartAccounts /\ bucket \in Nat
  BY DEF ViewTyped
<1>1. /\ ticks' = View!HydrateTicks(recent) /\ live' = View!Seeded(ticks', chartSymbol)
      /\ heard' = <<>> /\ chart' = View!Mounted(chartSymbol, chartAcct)
      /\ ranges' = View!RangesOf(View!NoRanges, ticks')
      /\ UNCHANGED <<chartSymbol, chartAcct, bucket, cache>>
  BY DEF View!LoadPage
<1>2. ticks' \in [ChartSymbols -> Priced]
  BY <1>1 DEF ViewTyped, View!HydrateTicks, Priced
<1>3. View!NoRanges \in [ChartSymbols -> Ranged] /\ \A s \in ChartSymbols : View!NoRanges[s] = None
  BY DEF View!NoRanges, Ranged
<1>4. ranges' \in [ChartSymbols -> Ranged] /\ AllHold(ranges', ticks')
  BY <1>1, <1>2, <1>3, RangesSound
<1>5. live' \in [last: Priced, candles: Seq(Candles)] /\ live'.candles = <<>>
  BY <1>0, <1>1, <1>2, SeededSound
<1>6. chart' \in Charts /\ ChartSound(chart', chartSymbol', chartAcct')
  BY <1>0, <1>1, MountedSound
<1>7. ViewTyped'
  BY <1>0, <1>1, <1>2, <1>4, <1>5, <1>6, NoCandlesYet DEF ViewTyped
<1>8. Faithful(live'.candles, heard') /\ Rising(live'.candles) /\ Past(live'.candles, bucket')
  BY <1>0, <1>1, <1>5, NoCandlesYet
<1>9. ViewTrue'
  BY <1>4, <1>6, <1>8 DEF ViewTrue
<1> QED
  BY <1>7, <1>9

LEMMA ViewStep == ViewTyped /\ ViewTrue /\ [View!Next]_(View!viewVars) => ViewTyped' /\ ViewTrue'
<1> SUFFICES ASSUME ViewTyped, ViewTrue, [View!Next]_(View!viewVars) PROVE ViewTyped' /\ ViewTrue'
  OBVIOUS
<1>1. ASSUME UNCHANGED <<chartSymbol, chartAcct, chart, ticks, live, bucket, cache, ranges, heard>>
      PROVE  ViewTyped' /\ ViewTrue'
  BY <1>1, ViewCharted DEF ViewTyped, ViewTrue
<1>2. ASSUME NEW s \in ChartSymbols, View!Toggle(s) PROVE ViewTyped' /\ ViewTrue'
  BY <1>1, <1>2 DEF View!Toggle
<1>3. CASE UNCHANGED View!viewVars
  BY <1>1, <1>3 DEF View!viewVars
<1> QED
  BY <1>2, <1>3, ViewChosen, ViewFetched, ViewTicked, ViewPassed, ViewLoaded DEF View!Next

LEMMA HydrateSound ==
  ASSUME NEW w \in [stored: {None} \cup SUBSET ChartSymbols, page: SUBSET ChartSymbols,
                    sheet: SUBSET ChartSymbols]
  PROVE  LET v == View!Hydrate(w)
         IN  /\ v \in [stored: {None} \cup SUBSET ChartSymbols, page: SUBSET ChartSymbols,
                       sheet: SUBSET ChartSymbols]
             /\ v.sheet = View!Stored(v)
<1>1. View!Stored(w) \in SUBSET ChartSymbols
  BY BrowserGiven DEF View!Stored
<1> QED
  BY <1>1 DEF View!Hydrate, View!Stored

LEMMA WatchedStep == Watched /\ [View!Next]_(View!viewVars) => Watched'
<1> SUFFICES ASSUME Watched, [View!Next]_(View!viewVars) PROVE Watched'
  OBVIOUS
<1>1. ASSUME UNCHANGED watch PROVE Watched'
  BY <1>1 DEF Watched, View!Stored
<1>2. ASSUME NEW s \in ChartSymbols, View!Toggle(s) PROVE Watched'
  <2>1. PICK ids \in SUBSET ChartSymbols : watch' = View!Persist(watch, ids)
    BY <1>2 DEF Watched, View!Toggle
  <2>2. ids # None
    BY BrowserGiven
  <2> QED
    BY <2>1, <2>2 DEF Watched, View!Persist, View!Stored
<1>3. ASSUME NEW recent \in SUBSET ChartSymbols, View!LoadPage(recent) PROVE Watched'
  BY <1>3, HydrateSound DEF Watched, View!LoadPage
<1>4. ASSUME NEW x, \/ View!SelectSymbol(x) \/ View!SwitchAccount(x) \/ View!PickResolution(x)
                    \/ View!FetchDone(x) \/ View!FetchFails(x) \/ \E tick : View!Tick(x, tick)
      PROVE  Watched'
  BY <1>1, <1>4 DEF View!SelectSymbol, View!SwitchAccount, View!PickResolution, View!FetchDone,
                    View!FetchFails, View!Tick
<1>5. CASE \/ View!OpenChart \/ View!OpenQuotes \/ View!ResetRanges
           \/ View!PersistTicks \/ UNCHANGED View!viewVars
  BY <1>1, <1>5 DEF View!OpenChart, View!OpenQuotes, View!ResetRanges,
                    View!PersistTicks, View!viewVars
<1> QED
  BY <1>2, <1>3, <1>4, <1>5 DEF View!Next

LEMMA ViewInvariant == BrowserSpec => [](ViewTyped /\ ViewTrue /\ Watched)
<1>1. View!Init => Watched
  BY BrowserGiven, HydrateSound DEF View!Init, Watched
<1> QED
  BY <1>1, ViewInit, ViewStep, WatchedStep, ViewSteps, PTL DEF View!Spec

(* The chart waits for what is selected and shows that or nothing once it was *)
(* answered; every live candle is that of the ticks heard in its five seconds *)
(* and every tick has its candle, but those before the ChartCandles newest;   *)
(* the range of the day has the price beside it: in whatever order symbols,   *)
(* accounts and resolutions are chosen, fetches answered and prices heard     *)
(* (useChartHistory, Chart, useTicks, useSessionHL).                         *)
THEOREM ViewStaysSound == BrowserSpec => []ViewSound
<1>1. ViewTrue => View!HistoryCurrent
  BY DEF ViewTrue, ChartSound, View!HistoryCurrent
<1>2. ViewTrue => View!RangesHold
  BY DEF ViewTrue, AllHold, RangeHolds, View!RangesHold
<1>3. ViewTyped /\ ViewTrue => View!CandlesFaithful
  <2> SUFFICES ASSUME ViewTyped, ViewTrue PROVE View!CandlesFaithful
    OBVIOUS
  <2>1. Faithful(live.candles, heard) /\ Rising(live.candles)
    BY DEF ViewTrue
  <2>2. Len(live.candles) \in Nat
    BY DEF ViewTyped
  <2>3. \A i \in 1..Len(live.candles) : i > 1 => live.candles[i - 1].time < live.candles[i].time
    BY <2>1, <2>2 DEF Rising
  <2> QED
    BY <2>1, <2>3 DEF View!CandlesFaithful, Faithful, CandleOf, Moments
<1> QED
  BY <1>1, <1>2, <1>3, ViewInvariant, PTL DEF ViewSound, View!ViewSound

-----------------------------------------------------------------------------
(* The composition. *)

LEMMA SessionSteps == BrowserSpec => Spec
<1>1. BrowserInit => Init
  BY DEF BrowserInit
<1>2. [BrowserNext]_allVars => [Next]_sessionVars
  BY DEF BrowserNext, allVars
<1> QED
  BY <1>1, <1>2, PTL DEF BrowserSpec, Spec

(* Whatever runs in the page, its variables keep their types: every order,  *)
(* form, chart and request is one that its handlers know; no more timers    *)
(* run than transfers were sent; the watchlist that is shown is the stored. *)
THEOREM BrowserTypes == BrowserSpec => []TypesOK
<1>1. DeskTyped => Desk!TypeOK
  BY DEF DeskTyped, Logged, OnPage, Held, Desk!TypeOK
<1>2. SheetsTyped /\ SheetsSound => Sheets!TypeOK
  <2> SUFFICES ASSUME SheetsTyped, SheetsSound PROVE Sheets!TypeOK
    OBVIOUS
  <2>1. wform # None => wform.dest \in SheetDests \cup {None} /\ wform.amount \in SheetAmounts \cup {None}
    BY DEF SheetsSound, Formed, WithdrawForms
  <2>2. xform.form \in [from: Sheets!Legs \cup {None}, to: Sheets!Legs \cup {None},
                        amount: SheetAmounts \cup {None}]
    BY DEF SheetsTyped, TransferSheet, TransferForms, SheetLegs, Sheets!Legs
  <2>3. closeTimers \in 0..SheetPresses
    <3>1. /\ closeTimers \in Nat /\ Cardinality(Transferring(waiting)) \in Nat
          /\ closeTimers + Cardinality(Transferring(waiting)) <= moneyUsed.presses
          /\ moneyUsed.presses \in 0..SheetPresses
      BY FewerTransfers DEF SheetsTyped, Timed, Tallied
    <3>2. \A t, c, p \in Nat : \A n \in 0..p : t + c <= n => t \in 0..p
      OBVIOUS
    <3> QED
      BY <3>1, <3>2, SheetBounds
  <2> QED
    BY <2>1, <2>2, <2>3 DEF SheetsTyped, PageShows, KycShown, Sheets!TypeOK
<1>3. ViewTyped /\ Watched => View!TypeOK
  BY DEF ViewTyped, Watched, Charts, Priced, View!TypeOK
<1>4. ProvisionTyped => Provision!TypeOK
  BY DEF ProvisionTyped
<1>5. BrowserSpec => []DemoTyped
  BY DemoStarts, DemoStays, DemoSteps, PTL DEF Demo!Spec
<1>6. TypeOK /\ Provision!TypeOK /\ Desk!TypeOK /\ Sheets!TypeOK /\ Demo!TypeOK /\ View!TypeOK
        => TypesOK
  BY DEF TypesOK
<1> QED
  BY <1>1, <1>2, <1>3, <1>4, <1>5, <1>6, SessionSteps, TypeCorrect, ProvisionInvariant,
     DeskInvariant, SheetsInvariant, DemoTypedOK, ViewInvariant, PTL

=============================================================================
