----------------------------- MODULE Withdrawals -----------------------------
(***************************************************************************)
(* The life of a withdrawal in the wallet service: the request that debits *)
(* Savings, the payout router and its providers, the disbursement webhooks *)
(* and the admin's approve and reject handlers.                            *)
(*                                                                         *)
(* One action is one database statement or transaction, or one call to the *)
(* outside; everything between two of them may interleave.  The rows live  *)
(* in Postgres (savings_wallets, withdrawals); `handler' and `admin' are   *)
(* the program counters of the HTTP handlers in flight, which a restart or *)
(* a client that hangs up ends at any point.  `bank', `hooks' and `paid'   *)
(* are the outside world: what the payout providers and the TRON chain did *)
(* with the money.                                                         *)
(***************************************************************************)
EXTENDS Integers, FiniteSetsExt

CONSTANTS
    Users,          \* owners of a Savings wallet
    Withdrawals,    \* ids the withdrawals table will hand out
    NoWithdrawal,   \* what an idle admin session is working on
    Amounts,        \* amounts that may be requested
    Admins,         \* admin requests that may be in flight together
    NumPayers,      \* payout providers, 1 is tried first
    Notifying,      \* those whose settlement webhook the wallet handles
    InitialSavings, \* balance of every Savings wallet at the start
    MaxMoves,       \* bound: broadcasts and rejections of one withdrawal
    Faults          \* what the outside may do, a subset of AllFaults

AllFaults ==
    { "abort",          \* a handler dies between two of its steps
      "lost_reply",     \* a call took effect, the caller sees an error
      "garbled_reply",  \* a broadcast was refused, the body is no JSON
      "duplicate",      \* a webhook is delivered again
      "early_hook",     \* a payout settles before its handler returned
      "reversal",       \* a paid payout comes back
      "bank_reject" }   \* an admin rejects a bank row the list leaves out

ASSUME WithdrawalsAssumption ==
    /\ IsFiniteSet(Withdrawals)
    /\ NoWithdrawal \notin Withdrawals
    /\ Amounts \subseteq Nat \ {0}
    /\ NumPayers \in Nat
    /\ Notifying \subseteq 1..NumPayers
    /\ InitialSavings \in Nat
    /\ MaxMoves \in Nat
    /\ Faults \subseteq AllFaults

Channels    == {"usdt", "ngn_bank"}
Statuses    == {"absent", "pending", "approved", "sent", "rejected", "failed"}
Outcomes    == {"sent", "failed"}
BankStates  == {"none", "processing", "paid", "failed", "reversed"}
HandlerPcs  == {"idle", "calling", "accepted"}
AdminPcs    == {"idle", "lock", "send", "rollback", "mark", "refund"}

VARIABLES
    request,    \* what the request behind each id asks for (never changes)
    savings,    \* savings_wallets.balance
    status,     \* withdrawals.status, "absent" before the INSERT
    handler,    \* WithdrawNGN after its commit: where it is, which provider
    admin,      \* approve and reject requests in flight
    bank,       \* what each provider did with each payout
    hooks,      \* disbursement events still to be delivered
    paid,       \* times the money of a withdrawal is out of the house
    refunds     \* times it was put back into Savings

rows  == <<request, savings, status, refunds>>
world == <<bank, hooks, paid>>
vars  == <<request, savings, status, handler, admin, bank, hooks, paid, refunds>>

Payers == 1..NumPayers
Idle   == [pc |-> "idle", w |-> NoWithdrawal]
Done   == [pc |-> "idle", at |-> 1]

Init ==
    /\ request \in [Withdrawals -> [user: Users, amount: Amounts, channel: Channels]]
    /\ savings = [u \in Users |-> InitialSavings]
    /\ status  = [w \in Withdrawals |-> "absent"]
    /\ handler = [w \in Withdrawals |-> Done]
    /\ admin   = [a \in Admins |-> Idle]
    /\ bank    = [w \in Withdrawals |-> [p \in Payers |-> "none"]]
    /\ hooks   = {}
    /\ paid    = [w \in Withdrawals |-> 0]
    /\ refunds = [w \in Withdrawals |-> 0]

-----------------------------------------------------------------------------
(* Statements on the two tables. *)

SetStatus(w, s) == status' = [status EXCEPT ![w] = s]

\* A slip: the UPDATE without its balance guard (or with a lock not tested).
NoGuard(w) == TRUE

\* UPDATE savings_wallets ... WHERE user_id = $2 AND balance >= $1
HasFunds(w) == savings[request[w].user] >= request[w].amount
DebitSavings(w) ==
    savings' = [savings EXCEPT ![request[w].user] = @ - request[w].amount]

\* A slip: the balance is written back from a value read at the start.
StaleCredit(w) ==
    /\ savings' = [savings EXCEPT ![request[w].user] = InitialSavings]
    /\ refunds' = [refunds EXCEPT ![w] = @ + 1]

\* UPDATE savings_wallets SET balance = balance + $1
CreditSavings(w) ==
    /\ savings' = [savings EXCEPT ![request[w].user] = @ + request[w].amount]
    /\ refunds' = [refunds EXCEPT ![w] = @ + 1]

\* UPDATE withdrawals SET status = 'approved' WHERE ... AND status = 'pending'
LockWon(w) == status[w] = "pending"

\* A slip: only rows whose payout was not marked yet can settle.
OnlyPending(w) == status[w] = "pending"

\* UPDATE withdrawals ... WHERE ... AND status IN ('approved', 'pending')
Settleable(w) == status[w] \in {"approved", "pending"}

-----------------------------------------------------------------------------
(* The customer's requests. *)

\* Withdraw: debit and INSERT in one transaction.
Withdraw(w) ==
    /\ status[w] = "absent" /\ request[w].channel = "usdt"
    /\ HasFunds(w)
    /\ DebitSavings(w)
    /\ SetStatus(w, "pending")
    /\ UNCHANGED <<request, refunds, handler, admin, world>>

\* WithdrawNGN up to its commit; the payout is attempted after it.
WithdrawNGN(w) ==
    /\ status[w] = "absent" /\ request[w].channel = "ngn_bank"
    /\ Payers # {}
    /\ HasFunds(w)
    /\ DebitSavings(w)
    /\ SetStatus(w, "pending")
    /\ handler' = [handler EXCEPT ![w] = [pc |-> "calling", at |-> 1]]
    /\ UNCHANGED <<request, refunds, admin, world>>

\* Router.Payout: a provider takes the payout.
PayoutAccepted(w) ==
    /\ handler[w].pc = "calling"
    /\ bank' = [bank EXCEPT ![w][handler[w].at] = "processing"]
    /\ handler' = [handler EXCEPT ![w].pc = "accepted"]
    /\ UNCHANGED <<rows, admin, hooks, paid>>

\* Router.Payout fails over; past the last provider the handler answers 502.
FailOver(w) ==
    handler' = [handler EXCEPT ![w] =
        IF @.at < NumPayers THEN [pc |-> "calling", at |-> @.at + 1] ELSE Done]

\* The provider is unhealthy, refuses, or cannot be reached.
PayoutRefused(w) ==
    /\ handler[w].pc = "calling"
    /\ FailOver(w)
    /\ UNCHANGED <<rows, admin, world>>

\* The provider took the payout, but its answer timed out.
PayoutReplyLost(w) ==
    /\ "lost_reply" \in Faults
    /\ handler[w].pc = "calling"
    /\ bank' = [bank EXCEPT ![w][handler[w].at] = "processing"]
    /\ FailOver(w)
    /\ UNCHANGED <<rows, admin, hooks, paid>>

\* UPDATE withdrawals SET status = 'approved' WHERE id = $2, on any status.
PayoutMark(w) ==
    /\ handler[w].pc = "accepted"
    /\ SetStatus(w, "approved")
    /\ handler' = [handler EXCEPT ![w] = Done]
    /\ UNCHANGED <<request, savings, refunds, admin, world>>

\* The request context is cancelled or the process dies: no further statement.
AbortPayout(w) ==
    /\ "abort" \in Faults
    /\ handler[w].pc # "idle"
    /\ handler' = [handler EXCEPT ![w] = Done]
    /\ UNCHANGED <<rows, admin, world>>

-----------------------------------------------------------------------------
(* The payout providers and their webhooks. *)

Notify(w, p, o) ==
    hooks' = IF p \in Notifying THEN hooks \cup {<<w, o>>} ELSE hooks

MaySettle(w) == handler[w].pc = "idle" \/ "early_hook" \in Faults

BankPays(w, p) ==
    /\ bank[w][p] = "processing" /\ MaySettle(w)
    /\ bank' = [bank EXCEPT ![w][p] = "paid"]
    /\ paid' = [paid EXCEPT ![w] = @ + 1]
    /\ Notify(w, p, "sent")
    /\ UNCHANGED <<rows, handler, admin>>

BankFails(w, p) ==
    /\ bank[w][p] = "processing" /\ MaySettle(w)
    /\ bank' = [bank EXCEPT ![w][p] = "failed"]
    /\ Notify(w, p, "failed")
    /\ UNCHANGED <<rows, handler, admin, paid>>

BankReverses(w, p) ==
    /\ "reversal" \in Faults
    /\ bank[w][p] = "paid"
    /\ bank' = [bank EXCEPT ![w][p] = "reversed"]
    /\ paid' = [paid EXCEPT ![w] = @ - 1]
    /\ Notify(w, p, "failed")
    /\ UNCHANGED <<rows, handler, admin>>

\* A delivered event is gone, unless the provider misses our 200 and repeats it.
Deliver(w, o) ==
    /\ <<w, o>> \in hooks
    /\ \/ hooks' = hooks \ {<<w, o>>}
       \/ "duplicate" \in Faults /\ hooks' = hooks
    /\ UNCHANGED <<request, handler, admin, bank, paid>>

\* SettleDisbursement, case "sent".
SettleSent(w) ==
    /\ Deliver(w, "sent")
    /\ IF Settleable(w) THEN SetStatus(w, "sent") ELSE UNCHANGED status
    /\ UNCHANGED <<savings, refunds>>

\* A slip: the row flips and the customer is not refunded.
SettleFailedFlipOnly(w) ==
    /\ Deliver(w, "failed")
    /\ IF Settleable(w) THEN SetStatus(w, "failed") ELSE UNCHANGED status
    /\ UNCHANGED <<savings, refunds>>

\* SettleDisbursement, case "failed": flip and refund in one transaction.
SettleFailed(w) ==
    /\ Deliver(w, "failed")
    /\ IF Settleable(w)
         THEN SetStatus(w, "failed") /\ CreditSavings(w)
         ELSE UNCHANGED <<status, savings, refunds>>

-----------------------------------------------------------------------------
(* The admin's handlers. *)

Working(a, w, pc) == admin' = [admin EXCEPT ![a] = [pc |-> pc, w |-> w]]
At(a, pc)  == admin[a].pc = pc
Finish(a)  == admin' = [admin EXCEPT ![a] = Idle]
Go(a, pc)  == admin' = [admin EXCEPT ![a].pc = pc]

\* ApproveWithdrawal reads the row; a bank row has no address and is a 404.
ApproveRead(a, w) ==
    /\ At(a, "idle")
    /\ status[w] = "pending" /\ request[w].channel = "usdt"
    /\ Working(a, w, "lock")
    /\ UNCHANGED <<rows, handler, world>>

\* The "atomic lock": losing it ends the request with a 409.
ApproveLock(a) ==
    /\ At(a, "lock")
    /\ IF LockWon(admin[a].w)
         THEN SetStatus(admin[a].w, "approved") /\ Go(a, "send")
         ELSE UNCHANGED status /\ Finish(a)
    /\ UNCHANGED <<request, savings, refunds, handler, world>>

\* sendUSDTFromTreasury: the broadcast moved the money (or not) and the
\* handler learned it (or not).
Broadcast(a, moved, believed) ==
    /\ At(a, "send")
    /\ moved => paid[admin[a].w] < MaxMoves
    /\ paid' = IF moved THEN [paid EXCEPT ![admin[a].w] = @ + 1] ELSE paid
    /\ Go(a, IF believed THEN "mark" ELSE "rollback")
    /\ UNCHANGED <<rows, handler, bank, hooks>>

SendOk(a)      == Broadcast(a, TRUE, TRUE)
SendRefused(a) == Broadcast(a, FALSE, FALSE)
SendLost(a)    == "lost_reply" \in Faults /\ Broadcast(a, TRUE, FALSE)
\* tronPost drops the decoding error: a body that is no JSON has no "code".
SendGarbled(a) == "garbled_reply" \in Faults /\ Broadcast(a, FALSE, TRUE)

\* A slip: the failed broadcast is answered 502 and the lock is kept.
ApproveKeepsLock(a) ==
    /\ At(a, "rollback")
    /\ Finish(a)
    /\ UNCHANGED <<rows, handler, world>>

\* UPDATE withdrawals SET status = 'pending' WHERE id = $1
ApproveRollback(a) ==
    /\ At(a, "rollback")
    /\ SetStatus(admin[a].w, "pending")
    /\ Finish(a)
    /\ UNCHANGED <<request, savings, refunds, handler, world>>

\* A slip: the lock is released instead of closed.
ApproveReleases(a) ==
    /\ At(a, "mark")
    /\ SetStatus(admin[a].w, "pending")
    /\ Finish(a)
    /\ UNCHANGED <<request, savings, refunds, handler, world>>

\* UPDATE withdrawals SET status = 'sent' WHERE id = $2
ApproveMark(a) ==
    /\ At(a, "mark")
    /\ SetStatus(admin[a].w, "sent")
    /\ Finish(a)
    /\ UNCHANGED <<request, savings, refunds, handler, world>>

\* RejectWithdrawal reads the pending row outside its transaction ...
RejectRead(a, w) ==
    /\ At(a, "idle")
    /\ status[w] = "pending"
    /\ request[w].channel = "usdt" \/ "bank_reject" \in Faults
    /\ Working(a, w, "refund")
    /\ UNCHANGED <<rows, handler, world>>

\* ... which refunds and flips; the flip is guarded, the refund is not.
RejectRefund(a) ==
    /\ At(a, "refund")
    /\ refunds[admin[a].w] < MaxMoves
    /\ CreditSavings(admin[a].w)
    /\ IF LockWon(admin[a].w)
         THEN SetStatus(admin[a].w, "rejected")
         ELSE UNCHANGED status
    /\ Finish(a)
    /\ UNCHANGED <<request, handler, world>>

AbortAdmin(a) ==
    /\ "abort" \in Faults
    /\ ~ At(a, "idle")
    /\ Finish(a)
    /\ UNCHANGED <<rows, handler, world>>

-----------------------------------------------------------------------------
Customer(w) == Withdraw(w) \/ WithdrawNGN(w)

Payout(w) ==
    \/ PayoutAccepted(w) \/ PayoutRefused(w) \/ PayoutReplyLost(w)
    \/ PayoutMark(w)

Provider(w, p) == BankPays(w, p) \/ BankFails(w, p)

Webhook(w) == SettleSent(w) \/ SettleFailed(w)

Approve(a) ==
    \/ ApproveLock(a)
    \/ SendOk(a) \/ SendRefused(a) \/ SendLost(a) \/ SendGarbled(a)
    \/ ApproveRollback(a) \/ ApproveMark(a)

Next ==
    \/ \E w \in Withdrawals :
          \/ Customer(w) \/ Payout(w) \/ AbortPayout(w) \/ Webhook(w)
          \/ \E p \in Payers : Provider(w, p) \/ BankReverses(w, p)
    \/ \E a \in Admins :
          \/ Approve(a) \/ RejectRefund(a) \/ AbortAdmin(a)
          \/ \E w \in Withdrawals : ApproveRead(a, w) \/ RejectRead(a, w)

Spec == Init /\ [][Next]_vars

(* A handler that runs is scheduled; a provider decides on every payout it *)
(* took; it posts its event until it is answered 200.  Nothing makes a     *)
(* customer ask or an admin click.                                         *)
Fairness ==
    /\ \A w \in Withdrawals :
          /\ WF_vars(Payout(w))
          /\ WF_vars(SettleSent(w)) /\ WF_vars(SettleFailed(w))
          /\ \A p \in Payers : WF_vars(Provider(w, p))
    /\ \A a \in Admins : WF_vars(Approve(a)) /\ WF_vars(RejectRefund(a))

FairSpec == Spec /\ Fairness

-----------------------------------------------------------------------------
(* Properties. *)

TypeOK ==
    /\ request \in [Withdrawals -> [user: Users, amount: Amounts, channel: Channels]]
    /\ savings \in [Users -> Nat]
    /\ status  \in [Withdrawals -> Statuses]
    /\ handler \in [Withdrawals -> [pc: HandlerPcs, at: Nat \ {0}]]
    /\ admin   \in [Admins -> [pc: AdminPcs, w: Withdrawals \cup {NoWithdrawal}]]
    /\ bank    \in [Withdrawals -> [Payers -> BankStates]]
    /\ hooks   \subseteq Withdrawals \X Outcomes
    /\ paid    \in [Withdrawals -> Int]
    /\ refunds \in [Withdrawals -> Nat]

Held(a, w) == admin[a].w = w /\ admin[a].pc \in {"send", "rollback", "mark"}

(* The status column is a lock: between ApproveWithdrawal's guarded UPDATE  *)
(* and its last statement the row reads 'approved' and no second approval   *)
(* of it is broadcasting (admin/handler.go, "Atomic lock").                 *)
ApproveExclusive ==
    \A w \in Withdrawals, a \in Admins : Held(a, w) =>
        /\ status[w] = "approved"
        /\ \A b \in Admins : Held(b, w) => b = a

(* Whatever interleaves, a row never ends 'rejected' or 'failed' with the   *)
(* customer's money still reserved: RejectWithdrawal and SettleDisbursement *)
(* flip and refund in one transaction.                                      *)
ClosedMeansRefunded ==
    \A w \in Withdrawals : status[w] \in {"rejected", "failed"} => refunds[w] > 0

RowsOf(u) == {w \in Withdrawals : request[w].user = u /\ status[w] # "absent"}

(* A Savings wallet is what it started with, less what its withdrawals      *)
(* reserved, plus what was refunded: no interleaving of requests, webhooks  *)
(* and rejections loses an update.                                          *)
SavingsAccounted ==
    \A u \in Users : savings[u] = InitialSavings +
        SumFunction([w \in RowsOf(u) |-> (refunds[w] - 1) * request[w].amount])

(* A USDT row that reached 'sent' or 'rejected' stays there: neither the    *)
(* unguarded rollback nor the unguarded final UPDATE of an approval that    *)
(* another admin started can take it back.                                  *)
UsdtRowsStayClosed ==
    [][\A w \in Withdrawals :
         request[w].channel = "usdt" /\ status[w] \in {"sent", "rejected"}
            => status'[w] = status[w]]_vars

(* The money of a withdrawal goes out once or back once, never both.        *)
SettledOnce == \A w \in Withdrawals : paid[w] + refunds[w] <= 1

(* The same as a refinement: every step of the wallet is a step of the      *)
(* contract or invisible to it.                                             *)
Outcome(w) ==
    CASE status[w] = "absent" -> "none"
      [] refunds[w] > 0       -> "refunded"
      [] paid[w] > 0          -> "paid"
      [] OTHER                -> "reserved"

Contract == INSTANCE WithdrawalContract WITH
    outcome <- [w \in Withdrawals |-> Outcome(w)]

ImplementsContract == Contract!Spec

BankRow(w, s)  == request[w].channel = "ngn_bank" /\ status[w] = s
TakenBy(w, ps) == \E p \in ps : bank[w][p] # "none"

(* An approved bank row that a notifying provider took reaches a final      *)
(* status through the settlement webhook (wallet/handler.go: "The final     *)
(* 'sent'/'failed' transition for async payouts comes from the provider's   *)
(* disbursement webhook").                                                  *)
BankPayoutsSettle ==
    \A w \in Withdrawals :
        (BankRow(w, "approved") /\ TakenBy(w, Notifying))
            ~> status[w] \in {"sent", "failed"}

(* An approval that took the lock always gives the row back to the admin or *)
(* closes it.                                                               *)
ApprovalsEnd ==
    \A w \in Withdrawals :
        (request[w].channel = "usdt" /\ status[w] = "approved")
            ~> status[w] \in {"sent", "pending"}

-----------------------------------------------------------------------------
(* What the repository says of the code and the code does not do. *)

(* provider_credit.go: "Gate the refund: only fires when the row is still   *)
(* non-terminal, so a duplicate FAILED webhook can't refund twice."         *)
RefundedAtMostOnce == \A w \in Withdrawals : refunds[w] <= 1
=============================================================================
