# Otuburu: TLA+ models and proofs

Otuburu is a retail trading platform.  A Rust engine keeps the books of trading
accounts in memory and matches them against a price feed, a Go gateway exposes
it, a Go wallet service keeps customers' money in Postgres and talks to payment
providers and the TRON chain, a Node service takes stakes, and a Next.js page
is what customers use.  A small JavaScript engine is the demo the Rust engine
was first written as.  This directory holds TLA+ modules that model these parts
from their source, TLC configurations that check them on small instances, and
TLAPS proofs of the statements that matter most for every instance.

Paths below are relative to the repository.  `wallet/` stands for
`go-services/wallet/internal/`, `rust/` for `rust-engine/` and `page/` for
`web/src/`.

## 1. Inventory

| component | state it keeps | operations | who it talks to |
|---|---|---|---|
| Withdrawals (`wallet/wallet/handler.go`, `wallet/payments/`, `wallet/admin/`) | `withdrawals.status`, `savings_wallets.balance` | request USDT, request NGN, payout with fail-over, settlement webhook, approve, reject | payout providers, TronGrid, admins |
| Transfers (`wallet/wallet/transfers.go`) | `transfers`, `savings_wallets`, the mirror `accounts.balance` | Savings to account, account to Savings, account to account, replay, compensation | engine, through the gateway |
| Card deposits (`page/components/DepositModal.tsx`, `wallet/payments/paystack.go`) | `paystack_payments`, the ledger | initiate, webhook, verify, credit | Paystack, engine |
| Other deposits, sweep (`provider_credit.go`, `wallet/wallet/monitor.go`, `wallet/sweep/`) | `provider_deposits`, `seen_deposits`, `swept` | virtual accounts, chain scan, sweep | Monnify, TronGrid |
| Accounts, KYC, affiliates (`wallet/wallet/accounts.go`, `kyc.go`, `wallet/auth/`) | `accounts`, `users`, claims of tokens | sign in, create an account, decide KYC | Google, SmileID, page |
| Order book (`rust/crates/order-book`) | per account: balance, CFDs, spots, options, last quotes | open, close, tick (mark to market, targets, stop-out, expiry) | engine service |
| Engine service, persistence (`rust/src/`) | the map of books behind one lock, `engine_snapshot.json` | gRPC handlers, ticks, save, load | risk engine, liquidity bridge |
| Risk engine, liquidity, feeds (`rust/crates/`) | limits, tickets of liquidity providers, generators | refuse, pass through, reconcile, next tick | OANDA, MetaApi, cTrader |
| Gateway (`go-services/gateway`) | websocket hub, engine streams | REST proxying, pushes | engine, page |
| Staking (`staking/*.js`) | users, stakes, payments in SQLite | init, webhook, callback, admin | Paystack, mail |
| Page: session (`page/hooks/useAuth.ts`, `page/app/page.tsx`, sheets) | token, user, selected account, referral | sign in and out, restore, switch, create, link a broker | gateway, wallet |
| Page: account view (`page/hooks/useAccount.ts`, `useTicks.ts`) | the account that is shown, the history of options | pushes, fetches, reconnection | gateway |
| Page: trading forms | tabs, tickets, a trade that waits for a deposit | order, close, swipe, batch | gateway |
| Page: money sheets | the forms of withdrawal, transfer and KYC | fill in, review, send | wallet |
| Page: market view (chart, quotes, watchlist) | candles, ranges of the day, cached prices | choose, fetch, tick | gateway |
| Demo engine (`engine/*.js`) | one account, CFDs, options, house statistics | open, close, tick | its own dashboard |

How they interact: the page calls the wallet and the gateway; the wallet
changes a trading balance only through the gateway's internal endpoints
(`adjust-balance`, `balance-sync`), which call the engine; Postgres keeps a
mirror of that balance, and the page, which reads it, sends it to the engine
again at each page load.  The engine holds the truth about a trading account,
Postgres about Savings.  No transaction spans the two.

What is hard here: handlers interleave at every statement; a client that hangs
up cancels the handler's context between any two of them; providers repeat,
delay, reorder and lose answers; the engine's memory survives a crash only as
far as its last snapshot; money that is in two systems is moved by two calls;
and in the page every answer may come after the user, the account, the symbol
or the form it was asked for has been replaced.  `PROJECT.json` lists each
hazard at its line with the properties that would catch it.

| component | correct when |
|---|---|
| Withdrawals | paid once or refunded once; a closed row was refunded; an approved payout settles |
| Transfers | money arrives or comes back; one key moves money once; row and mirror tell the truth |
| Card deposits | credited once, and only if paid; what was paid is credited |
| Order book | no stake or margin is lost or paid twice; targets are honoured; a starved account is stopped out |
| Staking | a paid stake becomes active and is announced once; its two rows agree |
| Session | the account that trades belongs to whoever is signed in; a link introduces one user |
| Provisioning | what the page shows can be traded; what trading earned is kept |
| Account view | each option that ends is written down once, with what came of it |
| Trading forms | a position is paid back once however often it is closed; a waiting trade is placed once |
| Money sheets | what is sent is what was reviewed |
| Market view | what is drawn is of what is selected |
| Demo engine | it does what the Rust book does |

## 2. How the project is organised

Money first, then what feeds it, then what shows it.

| module | about | checked by | proofs |
|---|---|---|---|
| `Withdrawals`, `WithdrawalContract` | payout, settlement, approval, rejection | `MCWithdrawals`, `MCEventually` | `WithdrawalsProofs` |
| `Transfers`, `TransferContract` | money between Savings and accounts | `MCTransfers`, `MCEventually` | `TransfersProofs` |
| `OrderBook` | one account's book, snapshots, restarts | `MCOrderBook` | `OrderBookProofs` |
| `Deposits` | card deposits, form to ledger | `MCEventually` | `EventuallyProofs` |
| `Staking` | the staking service | `MCEventually` | `EventuallyProofs` |
| `AccountView` | the account the page shows | `MCEventually` | `EventuallyProofs` |
| `Session` | sign-in, accounts, brokers, referrals | `MCBrowser` | `SessionProofs` |
| `Provisioning` | balances from Postgres to the engine by way of the page | `MCBrowser` | `BrowserProofs` |
| `TradeDesk`, `MoneySheets`, `MarketView` | the page's forms, sheets and charts | `MCBrowser` | `BrowserProofs` |
| `DemoEngine` (implements `OrderBook`) | the JavaScript engine | `MCBrowser` | `DemoProofs` |
| `Eventually` | composes `Staking`, `Deposits`, `AccountView`, `Withdrawals`, `Transfers` | `MCEventually` | `EventuallyProofs` |
| `Browser` | composes `Session`, `Provisioning`, the page's modules, `DemoEngine` | `MCBrowser` | `BrowserProofs`, `DemoProofs` |
| `Sums` | lemmas on sums over finite sets | | itself |

`Eventually` and `Browser` compose components that share no variables.  Their
variable `focus`, chosen initially and never changed, says which of them runs;
the rest stay at their initial states.  A run is thus the union of the
components' state graphs, not their product, and what such a run shows it shows
for each component by itself.  Both are parametric: `MCEventually` and
`MCBrowser` only give their constants values, and the theorems are about the
compositions for every value of them.

Abstract specifications: `WithdrawalContract` (reserved, then paid once or
refunded once) and `TransferContract` (taken once, then given or returned) say
what the owner of the money is promised; `OrderBook` plays that part for
`DemoEngine`.

## 3. The modules and the code

### Withdrawals

`Withdrawals.tla` models the withdrawal handlers of `wallet/wallet/handler.go`,
`wallet/payments/` and `wallet/admin/handler.go`.  One action is one statement
or transaction, or one call to the outside; between two of them anything may
happen.

| variable | in the code |
|---|---|
| `savings`, `status` | `savings_wallets.balance`, `withdrawals.status` (`"absent"` before the INSERT) |
| `handler` | where `WithdrawNGN` is after its commit, and which provider it is trying |
| `admin` | where each approve or reject request in flight is |
| `bank`, `hooks` | what each payout provider did; settlement events on their way |
| `paid`, `refunds` | how often the money left the house, how often it was put back (history) |
| `request` | who asks for how much on which channel; never changes |

Customer: `Withdraw` (USDT; debit and row in one transaction) and
`WithdrawNGN`, followed by `PayoutAccepted`, `PayoutRefused` or
`PayoutReplyLost` at each provider (`Router.Payout`) and by `PayoutMark`, the
unconditional UPDATE to `approved`.  Providers: `BankPays`, `BankFails`,
`BankReverses`.  Webhook: `SettleSent`, `SettleFailed` (`SettleDisbursement`).
Admin: `ApproveRead`, `ApproveLock`, a broadcast that moved the money or not
and was believed or not (`SendOk`, `SendRefused`, `SendLost`, `SendGarbled`),
`ApproveRollback`, `ApproveMark`; `RejectRead`, `RejectRefund`.  `AbortPayout`
and `AbortAdmin` end a handler wherever it is: Gin passes the request's context
to every statement, and the process may die.

Faults are a constant, so that a run chooses what the outside may do.
`WithdrawalContract` is what the owner of the money is promised: reserved, then
paid once or refunded once.  `Contract` in `Withdrawals` maps the state to it.

Left out: formatting and validation of addresses and bank details, notification
mails, the deposit history, and the `source = 'account'` branch of the admin
handlers (no code in the repository inserts such a row).

### Transfers

`Transfers.tla` models `POST /wallet/transfers` (`wallet/wallet/transfers.go`)
together with the engine's `adjust_balance` and the gateway between them.  The
three paths share actions:

| path | actions in order |
|---|---|
| Savings to account | `SavingsDebit`, `EngineCredit`, `MirrorLeg`, `MarkCompleted`; on failure `FailTransfer`, `RefundSavings` |
| account to Savings | `EngineDebit`, `Commit`; on failure `UndoFrom` |
| account to account | `EngineDebit`, `EngineCredit`, `Commit`; on failure `UndoFrom`, `UndoTo` |

`Start` and `Replay` are the lookup of the idempotency key; `Abort` ends a
handler anywhere; `Trade` is everything the book does meanwhile
(`rust/crates/order-book`): it changes what open positions withhold from the
free margin, and the balance by what closing, staking and settling book to it.
`balance` holds the truth about each leg (Postgres for Savings, the
engine for accounts), `mirror` is `accounts.balance`, `row` is
`transfers.status`, `told` the `newBalance` the engine answered, `taken` and
`given` whether the source and the destination were changed and changed back.  Three
ghosts compare the books: `realised` is what trading has booked to an account so
far, `answered` and `written` how much of it was in the balance that the engine
last answered and in the one that Postgres holds.  `misread` says whose kind
`accountKind` could not look up: it then answers `real_standard`, silently, and
`Converted` scales that account by 1.

`happened` collects the faults that occurred and six more events: transfers
that *overlap*, a *reversal* of both legs, a compensation that got *stuck*, an
amount in *wrong units*, a *loss* realised by trading, and a balance *in debt*
that could not be written to the mirror.
One run with every fault can then check each property up to exactly the events
that break it; `Never({...}) =>` at the head of a property says which these are.
`TransferContract` promises that a transfer takes once, and then gives or
returns.

Left out: the rounding of amounts to cents (conversions in the instances are
exact) and rows of the audit ledger, which nothing reads back.

### OrderBook

`OrderBook.tla` models `Book` (`rust/crates/order-book/src/lib.rs`) as the
engine service and the tick loop use it, for one account.  The engine runs
every operation under one write lock, so every operation is one action.

| action | in the code |
|---|---|
| `OpenCfd`, `OpenSpot`, `OpenBinary` | `open_cfd` and `open_cfd_with_lp_fill`, `open_spot`, `open_binary` |
| `AdjustBalance` | `adjust_balance`, one leg of a transfer |
| `Close` | `close_position` and `close_spot` by the client |
| `OnTick` | `on_tick`: mark to market; CFDs at their targets; one stop-out if the margin level is below 50%; spots at their targets; expiry of options |
| `Save` | building a snapshot; what is on disk is the image of *some* earlier moment, because the writes are spawned and not awaited |
| `Restart` | `SharedState::new` from that snapshot: CFDs and spots return, options do not, no symbol has a quote, the house's result starts at zero |

`balance`, `pos`, `quote` and `house` are the account's balance, its positions
of the three kinds, the last ticks and `total_client_pnl`.  A position carries
`held` (the margin or the stake), `upnl`, `left` (ticks of an option).  Ghosts:
`marked` (a tick has revalued the position), `funded` (what was brought in,
counted afresh from a restart), `vanished` (a position was removed unpaid).
An order that is refused changes nothing and is therefore no step.

Left out: the rounding of `f64` (money is integer), spread and house
statistics that nothing reads back, market hours,
freshness and risk limits (they only refuse).

### Deposits

`Deposits.tla` follows a card deposit from the button of `DepositModal` to the
ledger (`wallet/payments/paystack.go`).

| variable | in the code |
|---|---|
| `rate`, `psLoading` | what the card tab needs and shows |
| `initiating`, `asked`, `crediting` | handlers in `Initiate`, in `Verify` while Paystack is asked, and in `creditPaystack` after their claim |
| `checkouts`, `transaction`, `deliveries`, `returned` | Paystack's page, its charge, its webhooks, browsers that came back |
| `row`, `credited` | `paystack_payments.status`; deposit rows in the ledger |
| `told`, `mishap` | the page's message; which fault met which reference (history) |

`Initiate`, `ChargeOpened`, `Initiated`, `InitiateFails` are
`POST /payments/paystack/initiate`; `Webhook` and `Verify` with
`PaystackVerified` or `VerifyFails` are the two ways to the money, and both go
through `Claim` (the guarded UPDATE) and `Credit` or `CreditFails` (the
transaction).  The claim's UPDATE may fail (fault `claim`): the code answers
that as if the work were done, and if no other handler is left to try, the
charge is `unclaimed`.  Left out: amounts and currencies beyond their worth in dollars,
and the push to the engine, which is in `Provisioning`.

### Staking

`Staking.tla` models `staking/routes.js` on `db.js`, `paystack.js`, `mailer.js`
and the shutdown of `server.js`.  Node runs to the next `await`, so an action
is what happens between two of them: `StakeInit` and `InitDone` around the call
that opens the charge, `SuccessArrives` and `Activate`, `Ignore` or
`VerifyFails` around the verification, `FailedArrives` at once.  SQLite's
statements are synchronous and each is a transaction, so a process can die
between two of them: `CrashInInit`, `CrashInActivate`, `CrashInFailure`;
`Restart` is a death between actions.  `stakes`, `payments` and `users` are the
tables, `mails` counts what was handed to the mail relay, `verifying` counts
webhook handlers at their `await` (several, for one reference, since Paystack
repeats), `hooks` the deliveries on their way.  Left out: the catalogue's
columns other than status and limits, and the pages of the administrator that
only read.

### Session

`Session.tla` is who is signed in and which account is traded
(`page/app/page.tsx`, `page/hooks/useAuth.ts`, `page/lib/affiliate.ts`, and the
sheets that switch, create and link accounts), with Postgres and the token's
claims (`wallet/auth/handler.go`) on the other side.

| variable | in the code |
|---|---|
| `token`, `aids`, `mode`, `remembered`, `pendingRef` | `localStorage`, the token's claims among it |
| `reference` | Paystack's reference in the address bar |
| `user`, `loading`, `selectedReal` | the React state; `AccountId` is derived from it as in the page |
| `requests` | calls on their way, each with whose it is and what it will answer |
| `opened`, `linked` | Postgres: accounts, broker links |
| `introduced`, `crossed` | history: who was introduced by a link; answers for one user that met another |

Effects that run because the user object changed (the stored choice, the
verification on return) are part of every action that sets it (`SetUser`).
Calls are answered or fail at any time, also after a sign-out or a new sign-in.
A sign-in carries the referral that was pending when it was sent (`googleRef`),
whatever is pending when it is answered.

### Provisioning

`Provisioning.tla` is one balance in four places: Postgres (`ledger`), the page
(`shownBalance`), calls on their way (`syncs`, unordered) and the engine's book
(`bookBalance`).  `BalancesRead` is the effect of `page.tsx` that provisions
every new user object, `Deposit` the wallet's credit with a push that may be
lost, `SyncArrives` is `create_account` with its two branches
(`rust/src/engine_service.rs`), `OpenTrade` and `CloseTrade` a position that is
closed with a profit, a loss or neither.  `irregular` collects older balances
that arrive late, calls that meet an open trade, and books that trading changed.

### AccountView

`AccountView.tla` is `useAccount` and the state socket of `useTicks`.  The
engine does not tell how an option ended: `ApplyState` compares each state with
the one before, writes down the options that are gone and reads win or loss off
the balance.  States come by `Push`/`PushArrives` and by `Serve`/`ReplyArrives`
into the same refs; `Select` changes the account under both; `Drop` and
`Reconnect` are the socket.  `prevState`, `historyRef` and `stored` are the
refs and `localStorage`; `events` collects what makes the page misread a state.

### TradeDesk

`TradeDesk.tla` has the four forms that place orders (`TradePanel`,
`MobileTradeForm`, `MT5TradeTicket`, `PendingTradeSheet`), the trade that waits
for a deposit (`intent`) and the ways to close (`ClosePosition`, `PressClose`,
`SwipeClose`, `CloseBatch`).  `tabs` is the tab each form keeps while the symbol
and the tabs on offer change under it; `log` records what was sent and what
became of it.  The engine is `funds` and `positions`: `EngineTakes` may refuse
an order for want of money or for any of its other checks, `EngineCloses` pays
back what it finds, `OptionSettles` ends an option.  Its answers come in any
order or are lost (`Answered`, `AnswerLost`).  `closing` has up to two DELETE
calls for a position, since neither a button nor a swipe is disabled by the
first; `brought` is what an account was given and what its options won or lost.

### MoneySheets

`MoneySheets.tla` has `WithdrawSheet` with both tabs, `TransferModal` and
`KycSheet` inside `BottomSheet`.  A withdrawal form lives in its sheet and dies
260 ms after it closes (`Unmount`); the other forms stay mounted.  While a
request is out nothing but its own button is disabled, so every field may
change before the answer.  `sent` is what was sent, with what had been
reviewed.

### MarketView

`MarketView.tla` has the state of `useChartHistory`, of the chart's timeframe,
`useTicks` (last prices, live candles, cache), `useSessionHL` and
`useWatchlist`.  `FetchDone` and `FetchFails` answer fetches in any order, some
of which were aborted, and an error that is JSON is read as a chart without
candles; `BuildCandle` keeps the `MaxCandles` newest live candles, 500 in the
code; `LoadPage` starts again from `localStorage`.  What the
chart draws from this state is left out.

### DemoEngine

`DemoEngine.tla` is `engine/engine.js` with the routes of `server.js` and the
generators of `generators.js`.  One REST call and one tick are one action each: Node
runs them to their end.  `RustBook` instantiates `OrderBook` on its state, with
no spots, targets, transfers, snapshots and restarts: `margin` and stake become
`held`, `stats.clientPnl` is the house's loss.

## 4. What the runs check

| run | instance | what it shows |
|---|---|---|
| `withdrawal_races` | two withdrawals of 1 or 2 from a wallet of 2, two admins, every fault | no overdraft; the `approved` status is a lock between two approvals; `rejected` and `failed` rows were refunded; no balance update is lost; a closed USDT row stays closed |
| `withdrawal_contract` | three withdrawals, two providers, one admin, aborts and repeated webhooks | `SettledOnce`, and refinement of `WithdrawalContract` |
| `transfers` | two requests of any path, equal keys, different keys or none, a standard and a scaled account, every fault, lookups that fail, trading with profit and loss | six properties besides the types, each up to the events it names, and refinement of `TransferContract` |
| `orderbook` | two scenarios: two orders with provider fills, snapshots at any moment and a restart; three orders while two symbols tick | conservation of money, targets and marks that survive a restart, the stop-out takes the worst and ends |
| `eventually` | five components in turn: a stake by two visitors with one e-mail, two card deposits over their common cap, an account with an option and one without, two withdrawals with two providers, two transfers | what is paid is activated or credited, what is approved or taken settles, an option that ends is written down; and the safety of the first three |
| `browser` | six components in turn: two users of one browser with a new account and a broker to link, a balance with two deposits and two trades, two symbols and two accounts in the forms, two destinations in the money sheets, two symbols in the chart, two in the demo engine | a page trades its own user's account, is paid back once for what it closes twice, sends what was reviewed, draws what is selected; the demo engine follows the Rust book |
| `withdrawal_refund_twice` | one withdrawal | violation: a `FAILED` event before `PayoutMark`, repeated, is refunded twice |
| `transfer_lost_reply` | a transfer from Savings whose answer may be lost | violation: the credit stands and Savings is refunded |
| `transfer_double_tap` | two taps on one account-to-account transfer, no fault | violation: the loser's reversal is refused by the margin, the credit stands twice |
| `orderbook_unquoted` | one spot order, one restart | violation: closed before the first tick, the position is removed and nothing is paid |
| `provisioning_realised` | provisioning alone | violation: a page load takes back what trading earned |
| `broker_linked` | the session alone | violation: the page trades an account its token does not name |

**Conditions.**  Many properties hold up to named events: `Never({...}) =>` in
`Transfers`, `crossed` in `Session`, `events` in `AccountView`, `mishaps` in
`Staking`, `mishap` in `Deposits`, `irregular` in `Provisioning`.  These are
history variables filled by the actions where the event happens; one run with
every fault then checks each property up to exactly the events that break it,
and removing an event from a condition makes TLC show how it breaks.

**Bounds.**  Where `Next` would count for ever a constant stops it, named as a
bound where it is declared.  `MaxMoves` caps broadcasts and rejections of a
withdrawal at two, enough to see the second one a lock should stop.  Wallets
hold two or three units and amounts are one or two, so that two requests may or
may not fit together.  Two transfers are enough for every conflict on a key or
a row; `MaxOpen` lets both overlap.  `Positions` is what trading may make of
an account: nothing open, profit above the margin, everything used after a loss
of more than it had, and after a gain.  In `eventually` it realises nothing,
because no property there depends on it.
`MaxCalls` of `OrderBook` is two or three orders: a stop-out needs two CFDs to
choose from and a transfer that starves them.  `MaxRestarts` is one; `Save` is
disabled afterwards because nothing would read what it writes.  The quotes of
`fx` rise and fall across a stop-loss and a take-profit of the menu; of its
options one lives two ticks and one, of zero ticks, must be refused.
`MaxHooks` is two: one event and its repetition.  `Session` has two users, two
sign-ins, one page load and one link, and two calls in flight: enough for a
call that starts under one user and ends under another, and for a new token to
overtake it.  `TradeDesk` sends two orders and changes symbol, account or tab
once: each hazard is one change under one order.  `MoneySheets` allows two
openings, four edits and two presses: review, change, refusal, second press.
`TradeDesk` has at most two calls that close one position: a third finds what
the second finds.  `MarketView` allows three changes: choose, choose again, and
back; or three ticks, which its limit of two candles (`ChartCandles`) makes
enough to lose the oldest.
`AccountView` switches twice, so that a reply can return to the account that it
was asked for.

**Deadlock** is checked for the order book, which can always tick.  Elsewhere
nothing makes a customer ask, or a bound is used up, so a run may end and the
check is off.

**Fairness.**  `Withdrawals`: a handler that runs is scheduled, a provider
decides on each payout it took and repeats its event until it is answered.
`Transfers`: weak fairness of each handler, which is one goroutine.
`OrderBook`: weak fairness of `Tick` as a whole (each symbol's task runs on a
fixed interval); which symbol ticks at which price is open, so
`FeedStopOutResolves` does not hang on a favourable market.  `Staking`: webhooks
that were sent arrive and verifications are answered, by success or by an
error.  `Deposits`: webhooks that were sent arrive, an open page runs its
effect, and handlers end, by credit or by a failure.  `AccountView`: the
gateway's pump has a timer, the browser delivers what was pushed on an open
socket, and `onclose` has a timer that reconnects.  Nothing a customer or an
administrator does is fair, nor is a crash, an abort, or a socket that is lost.

**Symmetry** is used in the two safety runs of `Withdrawals`, whose models
distinguish none of the values, and in `transfers`, where either request may be
any of those given.  No run with a liveness property uses it.

## 5. What is proved

Every invariant, every action property and every refinement that a passing run
checks is also a theorem, for every value of the constants that satisfies the
`ASSUME`s: `WithdrawalsAssumption`, `TransfersAssumption`, `BookAssumption`,
`HooksBounded`, `AccountsGiven`, `BrowserGiven` and `EventuallyGiven`.  They say
that amounts, scales and contract sizes are positive, quotes, prices and bounds
are numbers, keys and legs are distinct, accounts that users may create are not
brokers', the accounts of the history have their own options, the demo's orders
have no targets and its prices are above the spread, and values that stand for
"none" are none of the others.  TLC evaluates each assumption on the instances
it checks.

**Withdrawals, under every fault** (`WithdrawalsProofs`): `TypeCorrect`
(with it: no wallet is overdrawn), `ApprovalIsExclusive`, `ClosedRowsStay`,
`ClosedIsRefunded` and `NothingLost`.  `ApproveExclusive` is not inductive: a
payout handler's unconditional UPDATE or a webhook could take the row away.
The invariant (`LockInv`) therefore adds that handlers in flight, payouts at
providers and events belong to bank rows only (`BankOnly`), that an approval
works on a USDT row (`UsdtOnly`), and that an admin request that is under way
has a row (`Aimed`).  `NothingLost` is `SavingsAccounted`, a sum over a user's
rows.  Each step moves no money, reserves one row's amount or refunds one row's
(`NoMoney`, `Reserves`, `Refunds`); that a sum over the rows that exist changes
by the same amount needs that handlers and admins work on rows that exist
(`OnRows`), or a refund would not be counted.

**Withdrawals, when calm** (the last part of `WithdrawalsProofs`):
`PaidOrRefundedOnce` and `WalletKeepsContract` assume `Calm`: one admin request
at a time and no fault but aborts and repeated webhooks.  The invariant ties
each row's history (`paid`, `refunds`) to its status, the provider's state and
the events in flight.  `Calm` is needed; each of its parts excludes a way in
which the code pays twice or both pays and refunds:

- reject races with an approval (`wallet/admin/handler.go:366-388`: the refund
  is not guarded by the flip);
- a provider that took the payout but whose answer was lost is failed over
  (`wallet/payments/provider.go:185`);
- a reversal after success is dropped (`wallet/payments/provider_credit.go:215`);
- an event that overtakes the handler is overwritten
  (`wallet/wallet/handler.go:483`);
- an admin rejects a bank row that is being paid (`wallet/admin/handler.go:366`).

**Transfers** (`TransfersProofs`).  `TypeCorrect` and `SavingsOnce` hold under
every fault; the invariant `TypedPaths` says which program counters each path
can have, and with it, that a key has at most one row is inductive.  The others
hold up to the events that the properties name, and their invariants are
therefore implications whose premise can only become false, since `happened`
only grows:

- `RowsTellTruth`: `Stages` says, for each place of a handler, what is true of
  the row, the source and the destination there.
- `AnswersAreTrue`: `Settled` adds what a handler that has ended has moved.
- `KeysMoveOnce`: of two transfers with one key never both have a row, and one
  without a row has moved nothing once its handler is through (`Rowed`).
- `MirrorsAgree`: with one transfer at a time, Postgres differs from the engine
  by what that transfer has moved and not yet written (`Behind`) and by what
  trading has booked since the balance that was written; at rest only the second
  is left.  Agreement itself is not claimed, since trading never writes the
  mirror (`provisioning_realised`).  `Net`, a balance less what trading booked,
  is what transfers made of it, and what its handler was told is that and
  `answered`.
- `BooksStayCovered`: until trading realises a loss, which has no floor, a book
  in debt is owed at least that much by debits that
  the CHECK will refuse, and whose handlers have not put the money back yet
  (`BooksInv`: the balance and the sum of `Owing` are not negative).
- `TransfersKeepContract`: each step is one of `TransferContract` or invisible,
  on the balances less what trading booked, until a kind that was not found out
  puts an amount in the wrong units.

**OrderBook** (`OrderBookProofs`): `TypeCorrect`, `MoneyConserved`,
`NoTargetPassed`, `MarkedToMarket`, `NothingVanishes`, `OptionsRun`, and the
action property `WorstIsStopped`.  The invariant `IInv` says that each position
of the book *and of the snapshot* is sound (a restart restores the snapshot, so
a claim about the book alone is not inductive), that every revalued position is
marked at the last quote of its symbol, and that until a restart each open
position has a quote.  `WorstIsStopped` needs `IInv` for the levels of the
symbols that do not tick.  `MoneyConserved` is `BooksBalance`: a tick may end
any set of positions, and the balance and the house change by sums over the same
set, one of which counts the stakes that go; `Ledger` adds that the books are
integers, in the snapshot too.

**Demo engine** (`DemoProofs`): `DemoFollows`, that `DemoEngine` implements
`OrderBook` but for ties of options.  The two books mark, stop out and settle
by the same arithmetic in different steps: `OrderBook` revalues the positions of
the symbol and removes those that end, the demo counts its options down as well
and sums over one symbol's positions.  `MarkedBook`, `CountedBook` and
`LeftBook` name what is in between, `Twin` that a position kept its order, entry
and margin on the way, and the sums are equal because their terms are.  The
invariant (`DemoTyped`) adds to the types that each position's symbol has a
quote and that an option has ticks to go.  Ties have to be excepted: the Rust
engine pays them back.

**Staking** (`EventuallyProofs`): `TypeCorrect`, `RowsStayTogether` and
`ToldOnce`, for any number of references, visitors and repeated webhooks, under
every fault.  That a stake is announced once follows from the check
after the `await` (`Awaited`), but only because nothing makes a stake wait
again: the invariant `ReferenceSound` adds that a request which still waits for
Paystack has written nothing, that a payment row implies a stake row, and that
a stake that was announced does not wait for its payment.

**Deposits** (`EventuallyProofs`): `CreditsOnce`, for any number of references
and webhooks, under every fault.  `ChargeSound` adds that whoever knows of a
charge, a webhook or a handler with the claim, knows a paid one, and that while
a handler holds the claim the row is `processing`, nothing is credited and no
other handler holds it.

**Account view** (`EventuallyProofs`): `HistoryIsSound`.  The page guesses an
option's end from two states; that the guess is right says something about
every pair of states that may yet be compared.  `Known` are the states that
matter: the engine's, the one that is shown and those on their way.
`OneHistory` says that they are moments of one history: of any two of an account
the later one `Follows` (an option that is gone has ended, and the balance says
what it paid if nothing else happened), and of any three the middle one has what
both others have open (`Between`).  Without `Between` an option could be gone,
written down, and gone again.  `Addressed` says whose data each channel carries,
and `RecordsSound`, as long as no late reply was applied and no newer state
overtaken, that an option that was written down is open in nothing the page may
still take for new (`Final`).

**Session** (`SessionProofs`): `TypeCorrect`, `TradesOwnAccount` and
`IntroducesOne`, for any number of users, accounts and calls in flight.  Typing
is not inductive without what each call in flight may carry (`CallSound`);
`OwnInv` adds that a session being restored has a token and no user yet
(`Restoring`) and that the user, the token and the accounts belong together
until an answer crosses over (`Owned`).  `IntroInv` adds that a sign-in on its
way that carries a link has it still pending, that only one sign-in is on its
way at a time, and that a link that is still pending has introduced nobody,
unless the call after its sign-in is unanswered.

**Page** (`BrowserProofs`).  `PageReconciles`: the page's balance is in a call on
its way or the engine has it, until trading has changed the book (`CatchesUp`),
which is inductive only with what any value in flight may be
(`ProvisionTyped`).  `ClosesPayOnce`: what an account can pay with and its open
positions add up (`Balanced`), and a position is of an order that was placed,
so that an order still to be placed opens a new one (`FromOrders`).
`PlacesIntentOnce`: orders are numbered (`Logged`), and an order of the sheet
that is unanswered keeps the button that sent it disabled, one that was placed
has taken its intent away (`Placing`).  `WithdrawsAsReviewed`: a form under
review has the amount and the destination that its button names, and the holder
it shows, or waits for, is of the destination it shows (`Formed`); calls are
numbered, so that a name asked for an earlier destination is told from the one
awaited (`Called`).  `ViewStaysSound`: a fetch that is answered is of
what is selected or was aborted (`ChartSound`); each candle of the live
chart is the first, the highest, the lowest and the last of the prices heard in
its five seconds, and a tick without one is older than all of a full list
(`Faithful`), for which the candles must be in order and none ahead
of the clock (`Rising`, `Past`).

**Types of the compositions**: `BrowserTypes`, `EventuallyTypes`.

**How the compositions are proved about.**  A lemma for each component
(`ProvisionSteps`, `DepositSteps`, ...) says that the composition implements the
component's specification; what is proved of the component is then true of the
composition.  The withdrawals and transfers of `Eventually` take this from their
own modules' theorems, which `EventuallyProofs` instantiates (`Alone`, `Apart`).

**Sums.**  A sum is defined by a recursion over sets, and the induction theorems
of the library cannot be instantiated here.  `Sums` takes the way round: among
the subsets of a finite set that would be a counterexample one is least, and it
is not one.  So it proves what the others cite: the sum over a set and a new
element, over disjoint sets, of equal terms, and of terms that are zero.

**Only model-checked.**  The seven liveness properties (`PaidActivates`,
`PaidIsCredited`, `EndedIsWritten`, `LivePayoutsSettle`, `LiveApprovalsEnd`,
`LiveNothingInLimbo`, `FeedStopOutResolves`): fairness and `ENABLED` are outside
what the prover handles.  The properties of the runs that expect a violation are
false.

## 6. Where the code and its words differ

Six runs are violations, and `PROJECT.json` quotes what each contradicts.  In
words:

1. `withdrawal_refund_twice`: the gate against double refunds tests a status
   that the payout handler rewrites unconditionally.
2. `transfer_lost_reply`: transfers between Savings and an account can diverge,
   not only those between two accounts.
3. `transfer_double_tap`: the idempotency key is checked before and after the
   engine calls, not around them, and the reversal may be refused unnoticed.
4. `orderbook_unquoted`: closing removes the position before it looks for a
   quote; after a restart there is none until the symbol's first tick.
5. `provisioning_realised`: a flat book takes the balance of Postgres, which
   trading never changes, whenever the page is loaded.
6. `broker_linked`: the page selects a linked broker account at once, but the
   token's claims name no such account, so its orders are forbidden.

Met while modelling, and without a run of their own.

*Wallet.*  A refused bank payout stays `pending` and nothing retries it
(`wallet/admin/handler.go:291` reads the NULL address of a bank row into a
string and answers 404); Paystack's transfer events are not handled, so a
payout by Paystack has no final status (`wallet/payments/paystack.go:259`); a
failed account-to-account transfer leaves no row
(`wallet/wallet/transfers.go:24-26` says it does); transfers that overlap may
leave the mirror behind the engine (`:11-15`); a retry after a lost answer takes
from the source account twice (`:107-108`).  When the
lookup of an account's kind fails, a transfer uses the wrong scale: 1000 units
of a cent account arrive as 1000 dollars in Savings (`:47-57`).  A loss may leave
a book in debt; the mirror, which has a CHECK, then keeps its older balance.
An error of the UPDATE that claims a card payment is answered like success, and
the payment stays `pending` with nobody left to credit it; a crash between the
claim and the credit leaves it `processing` for ever
(`wallet/payments/paystack.go:403-409`).  Deposits that are initiated together
may exceed the cap, which counts confirmed ones only (`checkDepositCap`), and
it sums ledger amounts in account units, a hundred times too much for cent
accounts.  `Verify` answers `confirmed` when another handler holds the claim,
although its credit may yet fail (`wallet/payments/paystack.go:349-359`).  Two overlapping account
creations each mint a token from the claims of the token that asked, so the
later token lacks the earlier account (`wallet/wallet/accounts.go:151-160`).

*Order book.*  Stakes of spots and options are checked against the balance and
not the free margin, so buying one can push CFDs below the stop-out level; the
next tick of any symbol then stops one out although no price moved.  A short
spot can lose more than its stake, since only its stake was ever reserved.  An
option that ends where it began is paid back by the Rust engine and lost in the
JavaScript one.

*Staking.*  A `charge.failed` that arrives after the success marks an active
stake as failed (`staking/routes.js:196-206`).

*Hazards without a property.*  The code does what the hazard says, so a property
could only name it and step aside; `PROJECT.json` says so at each.  A rejection
that races with an approval refunds what is paid; a provider that answers too
late was already replaced by the next, and both pay; a broadcast whose answer is
lost is rolled back, approved again and sent twice
(`wallet/admin/handler.go`, `wallet/payments/provider.go`).  A retry after a
lost answer to a debit debits again, and a compensation that fails leaves no
record (`wallet/wallet/transfers.go`).  An answer of `/auth/me` is merged into
whichever user is signed in when it comes (`page/hooks/useAuth.ts:92`).  The
staking service answers a webhook before it handles it, so what a crash or a
failed verification loses is not sent again (`staking/routes.js:145`).

*Page.*  `useAuth.ts:8-9` says an expired token is cleared, which it is not;
`page.tsx` keeps `depositOpen` and `pendingIntent` across a sign-out;
a late answer in `useAccount` shows the account selected before
(`useAccount.ts:66-73`), and late answers of orders and transfers close whatever
ticket or sheet is open by then; `TransferModal` makes a new idempotency key for
each press (`:122`), so pressing again after a lost answer is a second transfer;
`TradePanel` sends the tab that was chosen even where the symbol does not offer
it, although its comment says it switches away (`TradePanel.tsx:115`): the panel
shows CFD and orders a spot; whether a waiting trade is funded
is judged by the balance of the account selected by then; `useSwipeToClose` may
fire twice; `WithdrawSheet` limits the amount by a trading account's balance
though the server debits Savings; `Chart.tsx:33-37` says the timeframe is raised
from M1 to H1 only if M1 turned out to be empty, but on mount it is raised
before the fetch is answered; `useChartHistory` keeps the candles of the symbol
before while it loads and after it fails (its comment says empty arrays); the
page and `ManageSymbolsSheet` each hold their own watchlist, so a change shows
in the quotes after a reload only.

## 7. What is not modelled

- The engine's snapshot file (one temporary name, unordered writers;
  `rust/src/persistence.rs:114`): a snapshot here is an image of some earlier
  moment.  A restart of the engine is not composed with Postgres
  (`rust/src/engine_service.rs:859`).
- Deposits by virtual account and by chain, and the sweep: the chain scan
  credits whatever the row insert did (`wallet/wallet/monitor.go:169`), and a
  broadcast whose answer cannot be decoded counts as success
  (`wallet/admin/handler.go:589`); their handlers share no state with the
  modelled ones except balances.
- Risk engine, reconciliation with liquidity providers, broker balances: they
  refuse orders or flag differences, and act on no state modelled here.
- The gateway's hub and its reconnecting streams, price generation, candles.
- The transactions of account creation, KYC (a late status in `KycSheet.tsx:96`
  included) and affiliates beyond what the page sees of them; two creations at
  once (`wallet/wallet/accounts.go:120`).
- In the order book module's source: rounding, spread and statistics that
  nothing reads back, market hours and freshness, which only refuse.
- Drawing: the chart's series and indicators, headers, landing page, profile;
  React's batching (an action is an event handler or an effect as a whole);
  presses during the 260 ms in which a sheet slides out, but for the state that
  survives it.  `MobileQuickTrade` and `MobileChartTiles` are used by no page.
- The mobile shell, infrastructure, e-mail, and two service skeletons (risk
  monitor, account service) that nothing deployed calls.

## 8. Running

In this directory, with `tla2tools` and the TLA+ community modules on TLC's
library path, and TLAPS:

    tlc -config MCTransfers.cfg MCTransfers
    tlapm SessionProofs.tla

`PROJECT.json` lists the runs with their properties, for each property a
mutation of a modelled definition that breaks it (the operators commented as
slips), and for each definition the lines it models.
