----------------------------- MODULE Eventually -----------------------------
(***************************************************************************)
(* Money that is on its way must arrive, and what the customer is told of  *)
(* it must come: staking, deposits, the account that is shown, payouts and *)
(* transfers.  They share no state; `focus' chooses the component that     *)
(* runs, the others stay where they began, so one run and one theorem is   *)
(* about all of them.                                                      *)
(***************************************************************************)
EXTENDS Staking, Integers

-----------------------------------------------------------------------------
(* Deposits. *)

CONSTANTS Charges, Dollars, DepositCap, ChargeHooks, ChargeFaults

VARIABLES rate, psLoading, initiating, checkouts, transaction, row, deliveries, returned, asked,
          crediting, told, credited, mishap

Deposit == INSTANCE Deposits WITH
    Refs <- Charges, Worth <- Dollars, Cap <- DepositCap, MaxHooks <- ChargeHooks,
    DepositFaults <- ChargeFaults

-----------------------------------------------------------------------------
(* AccountView. *)

CONSTANTS Shown, Bought, Pots, ViewTopups, ViewSwitches, ViewDrops, Guest, NoState

VARIABLES engine, paid, current, view, prevState, historyRef, stored, fetch, socket, events, budget

View == INSTANCE AccountView WITH
    Accounts <- Shown, OptionsOf <- Bought, Payouts <- Pots,
    Topups <- ViewTopups, Switches <- ViewSwitches, Drops <- ViewDrops

-----------------------------------------------------------------------------
(* Withdrawals: the payouts. *)

CONSTANTS Owners, Withdrawals, NoWithdrawal, PayoutAmounts, Sessions, NumPayers, Notifying,
          InitialSavings, PayoutMoves, PayoutFaults

VARIABLES wRequest, savings, status, handler, admin, bank, wHooks, wPaid, refunds

Payout == INSTANCE Withdrawals WITH
    Users <- Owners, Amounts <- PayoutAmounts, Admins <- Sessions, MaxMoves <- PayoutMoves,
    Faults <- PayoutFaults, request <- wRequest, hooks <- wHooks, paid <- wPaid

-----------------------------------------------------------------------------
(* Transfers. *)

CONSTANTS Transfers, TransferRequests, Savings, Accounts, Units, Keys, NoKey, Funds, Positions,
          MaxOpen, TransferFaults

VARIABLES tRequest, misread, pc, balance, locked, realised, answered, written, mirror, tRow, tTold,
          taken, given, happened

Transfer == INSTANCE Transfers WITH
    Requests <- TransferRequests, Scale <- Units, Initial <- Funds, Faults <- TransferFaults,
    request <- tRequest, row <- tRow, told <- tTold

-----------------------------------------------------------------------------

(* The bounds are numbers.  An option is bought by one account, and what    *)
(* stands for no state is none of the states.  The rest is what Withdrawals *)
(* and Transfers assume.                                                    *)
ASSUME EventuallyGiven ==
    /\ ChargeHooks \in Nat
    /\ Pots \subseteq Nat /\ Guest \notin Shown /\ NoState \notin View!States
    /\ \A a \in Shown : IsFiniteSet(Bought[a])
    /\ \A a, b \in Shown : a # b => Bought[a] \cap Bought[b] = {}
    /\ IsFiniteSet(Withdrawals) /\ NoWithdrawal \notin Withdrawals
    /\ PayoutAmounts \subseteq Nat \ {0} /\ NumPayers \in Nat /\ Notifying \subseteq 1..NumPayers
    /\ InitialSavings \in Nat /\ PayoutMoves \in Nat /\ PayoutFaults \subseteq Payout!AllFaults
    /\ Savings \notin Accounts /\ NoKey \notin Keys
    /\ Units \in [Transfer!Legs -> Nat \ {0}] /\ Funds \in [Transfer!Legs -> Nat]
    /\ TransferRequests \subseteq
           [from: Transfer!Legs, to: Transfer!Legs, amount: Nat \ {0}, key: Keys \cup {NoKey}]
    /\ \A r \in TransferRequests : r.from # r.to
    /\ Positions \in [Accounts -> SUBSET [withheld: Int, realised: Int]]
    /\ MaxOpen \in Nat /\ TransferFaults \subseteq Transfer!AllFaults

VARIABLE focus

depositPart  == <<rate, psLoading, initiating, checkouts, transaction, row, deliveries, returned,
                  asked, crediting, told, credited, mishap>>
viewPart     == <<engine, paid, current, view, prevState, historyRef, stored, fetch, socket,
                  events, budget>>
payoutPart   == <<wRequest, savings, status, handler, admin, bank, wHooks, wPaid, refunds>>
transferPart == <<tRequest, misread, pc, balance, locked, realised, answered, written, mirror, tRow,
                  tTold, taken, given, happened>>
allVars      == <<stakingVars, depositPart, viewPart, payoutPart, transferPart, focus>>

\* A step of one component.
Stakes(A) ==
    focus = "staking" /\ A /\ UNCHANGED <<depositPart, viewPart, payoutPart, transferPart, focus>>
Credits(A) ==
    focus = "deposit" /\ A /\ UNCHANGED <<stakingVars, viewPart, payoutPart, transferPart, focus>>
Views(A) ==
    focus = "view" /\ A /\ UNCHANGED <<stakingVars, depositPart, payoutPart, transferPart, focus>>
Pays(A) ==
    focus = "payout" /\ A /\ UNCHANGED <<stakingVars, depositPart, viewPart, transferPart, focus>>
Moves(A) ==
    focus = "transfer" /\ A /\ UNCHANGED <<stakingVars, depositPart, viewPart, payoutPart, focus>>

EventuallyInit ==
    /\ Init /\ Deposit!Init /\ View!Init /\ Payout!Init /\ Transfer!Init
    /\ focus \in {"staking", "deposit", "view", "payout", "transfer"}

EventuallyNext ==
    \/ Stakes(Next)
    \/ Credits(Deposit!Next)
    \/ Views(View!Next)
    \/ Pays(Payout!Next)
    \/ Moves(Transfer!Next)

\* StakingFairness, and that of the other four.
EventuallyFairness ==
    /\ \A r \in Refs :
          WF_stakingVars(Stakes(SuccessArrives(r))) /\ WF_stakingVars(Stakes(Answered(r)))
    /\ \A r \in Charges :
          /\ WF_depositPart(Credits(Deposit!Webhook(r)))
          /\ WF_depositPart(Credits(Deposit!Verify(r)))
          /\ WF_depositPart(Credits(Deposit!Answers(r)))
          /\ \A via \in {"webhook", "verify"} :
                WF_depositPart(Credits(Deposit!Ends([ref |-> r, via |-> via])))
    /\ WF_viewPart(Views(View!Push)) /\ WF_viewPart(Views(View!PushArrives))
    /\ WF_viewPart(Views(View!Reconnect))
    /\ \A w \in Withdrawals :
          /\ WF_payoutPart(Pays(Payout!Payout(w)))
          /\ WF_payoutPart(Pays(Payout!SettleSent(w))) /\ WF_payoutPart(Pays(Payout!SettleFailed(w)))
          /\ \A p \in 1..NumPayers : WF_payoutPart(Pays(Payout!Provider(w, p)))
    /\ \A s \in Sessions :
          WF_payoutPart(Pays(Payout!Approve(s))) /\ WF_payoutPart(Pays(Payout!RejectRefund(s)))
    /\ \A t \in Transfers : WF_transferPart(Moves(Transfer!Step(t)))

EventuallySpec == EventuallyInit /\ [][EventuallyNext]_allVars
FairEventually == EventuallySpec /\ EventuallyFairness

-----------------------------------------------------------------------------
(* Properties: those of Staking, and these of the other four. *)

\* The variables of the component in focus keep their types.
TypesOK ==
    /\ focus = "staking" => TypeOK
    /\ focus = "deposit" => Deposit!TypeOK
    /\ focus = "view" => View!TypeOK
    /\ focus = "payout" => Payout!TypeOK
    /\ focus = "transfer" => Transfer!TypeOK

\* No charge is credited twice, or without having been paid, however the
\* webhook and the page's verification overlap (Deposits, CreditedOnce).
CreditedOnce == Deposit!CreditedOnce

\* A deposit that was paid is credited, but for the named mishaps (Deposits,
\* PaidIsCredited; paystack.go, page.tsx).
PaidIsCredited ==
    \A r \in Charges : (focus = "deposit" /\ transaction[r] = "success") ~>
        \/ credited[r] = 1
        \/ \E what \in Deposit!Mishaps : <<what, r>> \in mishap

\* The history of an account has its own options, each once (AccountView,
\* HistorySound; useAccount.ts, applyState).
HistorySound == View!HistorySound

\* An option that was shown is written down after its end (AccountView,
\* EndedIsWritten; useAccount.ts, useTicks.ts).
EndedIsWritten ==
    \A a \in Shown : \A o \in Bought[a] :
        (focus = "view" /\ view # NoState /\ current = a /\ o \in view.open /\ paid[o] # -1)
            ~> (stored[a][o].times > 0 \/ current # a \/ "late_reply" \in events)

\* An approved bank row that a notifying provider took reaches a final status
\* (Withdrawals, BankPayoutsSettle; provider_credit.go, SettleDisbursement).
LivePayoutsSettle ==
    \A w \in Withdrawals : \A p \in Notifying :
        (focus = "payout" /\ Payout!BankRow(w, "approved") /\ bank[w][p] # "none")
            ~> status[w] \in {"sent", "failed"}

\* An approval that took the lock gives the row back or closes it
\* (Withdrawals, ApprovalsEnd; admin/handler.go, ApproveWithdrawal).
LiveApprovalsEnd ==
    \A w \in Withdrawals :
        (focus = "payout" /\ wRequest[w].channel = "usdt" /\ status[w] = "approved")
            ~> status[w] \in {"sent", "pending"}

\* Money that left the source arrives or comes back, although the engine and
\* the database fail now and then (Transfers, NothingInLimbo; transfers.go).
LiveNothingInLimbo ==
    \A t \in Transfers :
        (focus = "transfer" /\ taken[t] = "yes" /\ given[t] = "no")
            ~> \/ given[t] = "yes" \/ taken[t] = "back"
               \/ ~ Transfer!Never({"abort", "lost_reply", "lost_commit", "stuck"})
=============================================================================
