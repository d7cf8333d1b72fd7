------------------------------ MODULE Transfers ------------------------------
(***************************************************************************)
(* POST /wallet/transfers: money moved between the Savings wallet and the  *)
(* trading accounts of one customer.  Savings lives in Postgres; a trading *)
(* account lives in the engine, with a mirror of its balance in Postgres.  *)
(* No transaction spans the two, so a transfer is a sequence of database   *)
(* transactions and engine calls with compensations for their failures.    *)
(*                                                                         *)
(* One action is one transaction or one call.  Handlers interleave between *)
(* them, and trading goes on: `locked' is what open positions withhold     *)
(* from the free margin (used margin less unrealised profit, so it is      *)
(* negative when the profit exceeds the margin), `realised' what trading   *)
(* has added to the engine's balance, of which Postgres is not told.       *)
(***************************************************************************)
EXTENDS Integers, FiniteSetsExt

CONSTANTS
    Transfers,   \* requests that arrive, retries included
    Requests,    \* what they may ask for
    Savings,     \* the leg that is the Savings wallet
    Accounts,    \* the legs that are trading accounts
    Scale,       \* accountkind.Scale: units of a leg per USD
    Keys,        \* idempotency keys
    NoKey,       \* the field left out
    Initial,     \* the legs' balances at the start
    Positions,   \* bound: what trading may withhold and have realised, by account
    MaxOpen,     \* bound: transfers under way together
    Faults       \* what may go wrong, a subset of AllFaults

Legs == Accounts \cup {Savings}

AllFaults ==
    { "abort",         \* the client hangs up or the service restarts
      "engine_down",   \* an engine call is not applied and fails
      "lost_reply",    \* an engine call is applied, the caller sees an error
      "db_fail",       \* a statement or transaction fails
      "lost_commit" }  \* a COMMIT is applied, the caller sees an error

\* What the properties are conditional on.
AllEvents == AllFaults \cup
    { "wrong_units",   \* an account's kind was not found out, and matters
      "loss",          \* trading lowered a balance
      "in_debt",       \* a balance below zero could not be written to Postgres
      "overlap",       \* a transfer starts while another is under way
      "reversal",      \* both legs of a transfer have to be undone
      "stuck" }        \* a compensation or a refund was not applied

ASSUME TransfersAssumption ==
    /\ Savings \notin Accounts
    /\ NoKey \notin Keys
    /\ Scale \in [Legs -> Nat \ {0}]
    /\ Requests \subseteq [from: Legs, to: Legs, amount: Nat \ {0}, key: Keys \cup {NoKey}]
    /\ \A r \in Requests : r.from # r.to
    /\ Initial \in [Legs -> Nat]
    /\ Positions \in [Accounts -> SUBSET [withheld: Int, realised: Int]]
    /\ MaxOpen \in Nat
    /\ Faults \subseteq AllFaults

VARIABLES
    request,   \* what each transfer asks for (never changes)
    misread,   \* the accounts whose kind its handler did not find out
    pc,        \* where its handler is
    balance,   \* savings_wallets.balance, and the engine's book.account.balance
    locked,    \* used margin less unrealised profit of each account
    realised,  \* profit, loss and stakes booked to its balance so far
    answered,  \* `realised' when the engine last answered a transfer,
    written,   \* and when it answered what Postgres holds
    mirror,    \* accounts.balance in Postgres
    row,       \* transfers.status, "absent" before the INSERT
    told,      \* the newBalance the engine answered for each leg's change
    taken,     \* whether the source was debited, and got it back
    given,     \* whether the destination was credited, and lost it again
    happened   \* which of AllEvents have happened so far

vars  == <<request, misread, pc, balance, locked, realised, answered, written, mirror, row,
           told, taken, given, happened>>
asked == <<request, misread>>
books == <<balance, taken, given>>
trade == <<locked, realised, answered, written>>
table == <<mirror, row>>

Statuses == {"absent", "pending", "completed", "failed"}
Final    == {"ok", "error", "replayed", "dead"}
Pcs      == {"idle", "start", "give", "fail", "refund", "mirror", "mark",
             "commit", "undo", "undo_both", "undo_to"} \cup Final
Moves    == {"no", "yes", "back"}

From(t)   == request[t].from
To(t)     == request[t].to
Amount(t) == request[t].amount
Into(t)   == From(t) = Savings    \* path A: Savings -> account
Out(t)    == To(t) = Savings      \* path B: account -> Savings
Across(t) == ~ Into(t) /\ ~ Out(t)    \* path C: account -> account

\* accountKind falls back to a standard account when the lookup fails.
ScaleOf(t, leg) == IF leg \in misread[t] THEN 1 ELSE Scale[leg]

\* A slip: the amount is credited in the units of the source.
Unconverted(t) == Amount(t)

\* amount * Scale(dst) / Scale(src), in the units of the destination.
Converted(t) == (Amount(t) * ScaleOf(t, To(t))) \div ScaleOf(t, From(t))

Init ==
    /\ request \in [Transfers -> Requests]
    /\ misread = [t \in Transfers |-> {}]
    /\ pc      = [t \in Transfers |-> "idle"]
    /\ balance = Initial
    /\ locked  = [a \in Accounts |-> 0]
    /\ realised = [a \in Accounts |-> 0] /\ answered = realised /\ written = realised
    /\ mirror  = [a \in Accounts |-> Initial[a]]
    /\ row     = [t \in Transfers |-> "absent"]
    /\ told    = [t \in Transfers |-> [from |-> 0, to |-> 0]]
    /\ taken   = [t \in Transfers |-> "no"]
    /\ given   = [t \in Transfers |-> "no"]
    /\ happened = {}

-----------------------------------------------------------------------------
(* Pieces of a handler. *)

Goto(t, next)  == pc' = [pc EXCEPT ![t] = next]
SetRow(t, s)   == row' = [row EXCEPT ![t] = s]
Open           == {t \in Transfers : pc[t] \notin {"idle"} \cup Final}
FreeMargin(a)  == balance[a] - locked[a]

Happens(events) == happened' = happened \cup events
Fault(f)        == f \in Faults /\ Happens({f})
FaultSticks(f)  == f \in Faults /\ Happens({f, "stuck"})
Smooth          == UNCHANGED happened

\* The engine answers with the balance of a, or that answer is written down.
Answered(a)   == answered' = [answered EXCEPT ![a] = realised[a]] /\ UNCHANGED written
Written(legs) == /\ written' = [a \in Accounts |-> IF a \in legs THEN answered[a] ELSE written[a]]
                 /\ UNCHANGED answered

\* A slip: a constraint of the schema is missing.
Unchecked(t) == TRUE

\* The UNIQUE constraint on transfers.idempotency_key.
KeyFree(t) ==
    \A u \in Transfers :
        request[t].key # NoKey /\ request[u].key = request[t].key => row[u] = "absent"

\* The CHECK (balance >= 0) on accounts, for the values the engine answered.
MirrorAllowed(t) == told[t].from >= 0 /\ told[t].to >= 0

\* Ways the source and the destination change; balance + delta each time.
Take(t) ==
    /\ balance' = [balance EXCEPT ![From(t)] = @ - Amount(t)]
    /\ taken' = [taken EXCEPT ![t] = "yes"]
    /\ UNCHANGED given
GiveBack(t) ==
    /\ balance' = [balance EXCEPT ![From(t)] = @ + Amount(t)]
    /\ taken' = [taken EXCEPT ![t] = "back"]
    /\ UNCHANGED given
Give(t) ==
    /\ balance' = [balance EXCEPT ![To(t)] = @ + Converted(t)]
    /\ given' = [given EXCEPT ![t] = "yes"]
    /\ UNCHANGED taken
Reclaim(t) ==
    /\ balance' = [balance EXCEPT ![To(t)] = @ - Converted(t)]
    /\ given' = [given EXCEPT ![t] = "back"]
    /\ UNCHANGED taken

-----------------------------------------------------------------------------
(* The beginning of every transfer. *)

\* Transfer: a key that has a row is answered from it.
Replay(t) ==
    /\ pc[t] = "idle" /\ ~ KeyFree(t)
    /\ Goto(t, "replayed") /\ Smooth
    /\ UNCHANGED <<asked, books, trade, table, told>>

\* The legs whose kind it matters to find out: those that are scaled.
Kinds(t) == {leg \in {From(t), To(t)} \ {Savings} : Scale[leg] # 1}

\* Its kinds never change, so when the handler looks them up is left open.
Start(t) ==
    /\ pc[t] = "idle" /\ KeyFree(t)
    /\ Cardinality(Open) < MaxOpen
    /\ Goto(t, "start")
    /\ \E unknown \in SUBSET Kinds(t) :
          /\ unknown # {} => "db_fail" \in Faults
          /\ misread' = [misread EXCEPT ![t] = unknown]
          /\ Happens((IF Open = {} THEN {} ELSE {"overlap"}) \cup
                     (IF unknown = {} THEN {} ELSE {"db_fail", "wrong_units"}))
    /\ UNCHANGED <<request, books, trade, table, told>>

-----------------------------------------------------------------------------
(* Path A: Savings -> account. *)

\* The first transaction: debit Savings, INSERT the pending row.
SavingsDebit(t) ==
    /\ pc[t] = "start" /\ Into(t)
    /\ balance[Savings] >= Amount(t) /\ KeyFree(t)
    /\ Take(t) /\ SetRow(t, "pending")
    /\ \/ Goto(t, "give") /\ Smooth
       \/ Goto(t, "error") /\ Fault("lost_commit")
    /\ UNCHANGED <<asked, trade, mirror, told>>

SavingsRefused(t) ==
    /\ pc[t] = "start" /\ Into(t)
    /\ \/ (balance[Savings] < Amount(t) \/ ~ KeyFree(t)) /\ Smooth
       \/ Fault("db_fail")
    /\ Goto(t, "error")
    /\ UNCHANGED <<asked, books, trade, table, told>>

\* failTransfer, best effort.
FailTransfer(t) ==
    /\ pc[t] = "fail"
    /\ \/ SetRow(t, "failed") /\ Smooth
       \/ UNCHANGED row /\ Fault("db_fail")
    /\ Goto(t, "refund")
    /\ UNCHANGED <<asked, books, trade, mirror, told>>

\* A slip: the row stays pending and the money gone.
ForgetRefund(t) ==
    /\ pc[t] = "refund"
    /\ Goto(t, "error") /\ Smooth
    /\ UNCHANGED <<asked, books, trade, table, told>>

\* refundSavings, best effort.
RefundSavings(t) ==
    /\ pc[t] = "refund"
    /\ \/ GiveBack(t) /\ Smooth
       \/ UNCHANGED books /\ FaultSticks("db_fail")
    /\ Goto(t, "error")
    /\ UNCHANGED <<asked, trade, table, told>>

\* finalizeAccountLeg: the mirror, then the status; each best effort.
MirrorLeg(t) ==
    /\ pc[t] = "mirror"
    /\ \/ /\ told[t].to >= 0 /\ Smooth
          /\ mirror' = [mirror EXCEPT ![To(t)] = told[t].to] /\ Written({To(t)})
       \/ told[t].to < 0 /\ Happens({"in_debt"}) /\ UNCHANGED <<mirror, answered, written>>
       \/ Fault("db_fail") /\ UNCHANGED <<mirror, answered, written>>
    /\ Goto(t, "mark")
    /\ UNCHANGED <<asked, books, locked, realised, row, told>>

MarkCompleted(t) ==
    /\ pc[t] = "mark"
    /\ \/ SetRow(t, "completed") /\ Smooth
       \/ UNCHANGED row /\ Fault("db_fail")
    /\ Goto(t, "ok")
    /\ UNCHANGED <<asked, books, trade, mirror, told>>

-----------------------------------------------------------------------------
(* Engine calls: adjust_balance runs under the engine's write lock. *)

\* Free-margin floor: only on debits, credits always pass.
DebitAllowed(t) == FreeMargin(From(t)) >= Amount(t)

\* Paths B and C: the debit of the source comes first.
EngineDebit(t) ==
    /\ pc[t] = "start" /\ ~ Into(t) /\ DebitAllowed(t)
    /\ Take(t)
    /\ told' = [told EXCEPT ![t].from = balance[From(t)] - Amount(t)] /\ Answered(From(t))
    /\ \/ Goto(t, IF Out(t) THEN "commit" ELSE "give") /\ Smooth
       \/ Goto(t, "error") /\ Fault("lost_reply")
    /\ UNCHANGED <<asked, locked, realised, table>>

EngineRefuses(t) ==
    /\ pc[t] = "start" /\ ~ Into(t)
    /\ \/ ~ DebitAllowed(t) /\ Smooth
       \/ Fault("engine_down")
    /\ Goto(t, "error")
    /\ UNCHANGED <<asked, books, trade, table, told>>

\* A slip: an error answer of the credit goes unnoticed.
CreditUnseen(t) == Goto(t, IF Into(t) THEN "mirror" ELSE "commit")

\* What an error answer of the credit leads to.
CreditFailed(t) == Goto(t, IF Into(t) THEN "fail" ELSE "undo")

\* Paths A and C: the credit of the destination.
EngineCredit(t) ==
    /\ pc[t] = "give"
    /\ Give(t)
    /\ told' = [told EXCEPT ![t].to = balance[To(t)] + Converted(t)] /\ Answered(To(t))
    /\ \/ Goto(t, IF Into(t) THEN "mirror" ELSE "commit") /\ Smooth
       \/ CreditFailed(t) /\ Fault("lost_reply")
    /\ UNCHANGED <<asked, locked, realised, table>>

EngineCreditDown(t) ==
    /\ pc[t] = "give"
    /\ CreditFailed(t) /\ Fault("engine_down")
    /\ UNCHANGED <<asked, books, trade, table, told>>

-----------------------------------------------------------------------------
(* Paths B and C: the transaction that records it, and the compensations. *)

\* A slip: the mirror of the source is left out of the transaction.
ForgetMirror(t) == UNCHANGED mirror

\* UPDATE accounts SET balance = what the engine answered.
WriteMirrors(t) ==
    mirror' = [a \in Accounts |->
        IF a = From(t) THEN told[t].from ELSE IF a = To(t) THEN told[t].to ELSE mirror[a]]

CommitFailed(t, events) ==
    IF Out(t)
    THEN Goto(t, "undo") /\ Happens(events)
    ELSE Goto(t, "undo_both") /\ Happens(events \cup {"reversal"})

Commit(t) ==
    /\ pc[t] = "commit" /\ KeyFree(t) /\ MirrorAllowed(t)
    /\ IF Out(t) THEN Give(t) ELSE UNCHANGED books
    /\ WriteMirrors(t) /\ Written({From(t), To(t)}) /\ SetRow(t, "completed")
    /\ \/ Goto(t, "ok") /\ Smooth
       \/ "lost_commit" \in Faults /\ CommitFailed(t, {"lost_commit"})
    /\ UNCHANGED <<asked, locked, realised, told>>

CommitRefused(t) ==
    /\ pc[t] = "commit"
    /\ \/ (~ KeyFree(t) \/ ~ MirrorAllowed(t)) /\ CommitFailed(t, {})
       \/ "db_fail" \in Faults /\ CommitFailed(t, {"db_fail"})
    /\ UNCHANGED <<asked, books, trade, table, told>>

\* A slip: the compensation runs the wrong way round.
DebitAgain(t) ==
    /\ pc[t] \in {"undo", "undo_both"}
    /\ Take(t) /\ Smooth
    /\ Goto(t, IF pc[t] = "undo" THEN "error" ELSE "undo_to")
    /\ UNCHANGED <<asked, trade, table, told>>

\* compensateAdjust of the source, a credit: only an outage stops it.
UndoFrom(t) ==
    /\ pc[t] \in {"undo", "undo_both"}
    /\ \/ GiveBack(t) /\ Smooth
       \/ UNCHANGED books /\ FaultSticks("engine_down")
    /\ Goto(t, IF pc[t] = "undo" THEN "error" ELSE "undo_to")
    /\ UNCHANGED <<asked, trade, table, told>>

\* compensateAdjust of the destination, a debit: a rejection goes unnoticed.
UndoTo(t) ==
    /\ pc[t] = "undo_to"
    /\ \/ FreeMargin(To(t)) >= Converted(t) /\ Reclaim(t) /\ Smooth
       \/ FreeMargin(To(t)) < Converted(t) /\ UNCHANGED books /\ Happens({"stuck"})
       \/ UNCHANGED books /\ FaultSticks("engine_down")
    /\ Goto(t, "error")
    /\ UNCHANGED <<asked, trade, table, told>>

-----------------------------------------------------------------------------
(* The rest of the world. *)

Abort(t) ==
    /\ t \in Open
    /\ Goto(t, "dead") /\ Fault("abort")
    /\ UNCHANGED <<asked, books, trade, table, told>>

\* Positions open against the free margin, move with the price and close, and
\* options take their stake and pay out: the engine books the profit or loss to
\* its balance and tells Postgres nothing.
Trade(a) ==
    /\ \E p \in Positions[a] :
          /\ <<p.withheld, p.realised>> # <<locked[a], realised[a]>>
          /\ locked'   = [locked EXCEPT ![a] = p.withheld]
          /\ realised' = [realised EXCEPT ![a] = p.realised]
          /\ balance'  = [balance EXCEPT ![a] = @ + p.realised - realised[a]]
          /\ Happens(IF p.realised < realised[a] THEN {"loss"} ELSE {})
    /\ UNCHANGED <<asked, pc, answered, written, table, told, taken, given>>

Step(t) ==
    \/ Replay(t) \/ Start(t)
    \/ SavingsDebit(t) \/ SavingsRefused(t)
    \/ FailTransfer(t) \/ RefundSavings(t)
    \/ MirrorLeg(t) \/ MarkCompleted(t)
    \/ EngineDebit(t) \/ EngineRefuses(t)
    \/ EngineCredit(t) \/ EngineCreditDown(t)
    \/ Commit(t) \/ CommitRefused(t)
    \/ UndoFrom(t) \/ UndoTo(t)

Next ==
    \/ \E t \in Transfers : Step(t) \/ Abort(t)
    \/ \E a \in Accounts : Trade(a)

Spec == Init /\ [][Next]_vars

\* A handler that is not cut off runs to its end.
FairSpec == Spec /\ \A t \in Transfers : WF_vars(Step(t))

-----------------------------------------------------------------------------
(* Properties.  Each says which events it holds without. *)

Never(events) == happened \cap events = {}
AtRest        == Open = {}

\* Types, with Savings never overdrawn (FOR UPDATE, then the debit).
TypeOK ==
    /\ request  \in [Transfers -> Requests]
    /\ misread  \in [Transfers -> SUBSET Accounts]
    /\ pc       \in [Transfers -> Pcs]
    /\ balance  \in [Legs -> Int]
    /\ locked   \in [Accounts -> Int]
    /\ realised \in [Accounts -> Int]
    /\ answered \in [Accounts -> Int]
    /\ written  \in [Accounts -> Int]
    /\ mirror   \in [Accounts -> Nat]
    /\ row      \in [Transfers -> Statuses]
    /\ told     \in [Transfers -> [from: Int, to: Int]]
    /\ taken    \in [Transfers -> Moves]
    /\ given    \in [Transfers -> Moves]
    /\ happened \subseteq AllEvents
    /\ balance[Savings] >= 0

(* Whatever happens, a request that starts at Savings is debited at most    *)
(* once per key, however often it is sent: the debit and the row with the   *)
(* UNIQUE key are one transaction, so the pending row is there before the   *)
(* engine is asked.                                                         *)
SavingsDebitedOnce ==
    \A t, u \in Transfers :
        (/\ t # u /\ Into(t) /\ Into(u)
         /\ request[t].key # NoKey /\ request[t].key = request[u].key)
            => taken[t] = "no" \/ taken[u] = "no"

(* Wherever handlers are cut off and whatever fails, what the transfers     *)
(* table says is true: a completed row means that the money left the source *)
(* and arrived, a failed row that it did not arrive, and no row that        *)
(* Savings was not debited.                                                 *)
RowTellsTruth ==
    Never({"lost_reply", "lost_commit"}) =>
    \A t \in Transfers :
        /\ row[t] = "completed" => taken[t] = "yes" /\ given[t] = "yes"
        /\ row[t] = "failed"    => given[t] = "no"
        /\ row[t] = "absent" /\ Into(t) => taken[t] = "no"

(* With retries, double taps, an engine that is down and trading, a         *)
(* transfer that is answered took and gave or did neither, and its answer   *)
(* says which.  How much it gave is ImplementsContract's question.          *)
AnswersTellTruth ==
    Never({"lost_reply", "lost_commit", "stuck"}) =>
    \A t \in Transfers :
        /\ pc[t] = "ok" => taken[t] = "yes" /\ given[t] = "yes"
        /\ pc[t] \in {"error", "replayed"} => taken[t] # "yes" /\ given[t] # "yes"

(* Once no transfer is under way, transfers have left no book in debt: a    *)
(* debit that only unrealised profit paid for is refused by the CHECK on    *)
(* accounts.balance, and the compensation covers it again.  A loss that     *)
(* trading realises may exceed the balance: close_cfd has no floor.         *)
BooksCovered ==
    Never({"abort", "lost_reply", "reversal", "stuck", "loss"}) =>
    (AtRest => \A a \in Accounts : balance[a] >= 0)

(* With one transfer at a time, Postgres is off by exactly what trading has *)
(* realised since the engine gave the balance that was written, whenever    *)
(* nothing is under way: no transfer, failed ones included, leaves a        *)
(* difference of its own (transfers.go: "To keep both halves consistent,    *)
(* every trading-account leg goes through ... AdjustBalance", whose answer  *)
(* "we then write to Postgres").                                            *)
MirrorAgrees ==
    happened \subseteq {"engine_down", "reversal", "loss"} =>
    (AtRest => \A a \in Accounts : balance[a] - realised[a] = mirror[a] - written[a])

(* Of the transfers with one idempotency key at most one moves money, once  *)
(* none of them is under way (transfers.go: "Lets retries (network blip,    *)
(* double-tap) be safe"; schema.sql: retried requests "no-op safely").      *)
OncePerKey ==
    \A t, u \in Transfers :
        (t # u /\ request[t].key # NoKey /\ request[t].key = request[u].key)
            => /\ taken[t] = "yes" => taken[u] # "yes"
               /\ given[t] = "yes" => given[u] # "yes"

KeyMovesOnce ==
    Never({"abort", "lost_reply", "stuck"}) => (AtRest => OncePerKey)

(* A transfer takes once, and then gives the amount, converted, or returns  *)
(* it, never both: every step of the services is a step of TransferContract *)
(* on the balances without what trading realised, or invisible to it.       *)
Phase(t) ==
    CASE taken[t] = "no"   -> "none"
      [] taken[t] = "back" -> "returned"
      [] taken[t] = "yes" /\ given[t] = "yes" -> "given"
      [] OTHER -> "taken"

phases == [t \in Transfers |-> Phase(t)]

moved ==
    [leg \in Legs |-> IF leg \in Accounts THEN balance[leg] - realised[leg] ELSE balance[leg]]

Contract == INSTANCE TransferContract WITH phase <- phases, balance <- moved

Faithful == Never({"lost_reply", "lost_commit", "reversal", "wrong_units"})

ImplementsContract ==
    Contract!Init /\ [][Faithful' => Contract!Next]_<<request, moved, phases>>

(* Money that left the source arrives or comes back, although the engine    *)
(* and the database fail now and then.                                      *)
NothingInLimbo ==
    \A t \in Transfers :
        taken[t] = "yes" /\ given[t] = "no"
            ~> \/ given[t] = "yes" \/ taken[t] = "back"
               \/ ~ Never({"abort", "lost_reply", "lost_commit", "stuck"})

-----------------------------------------------------------------------------
(* What the repository says of the code and the code does not do. *)

(* transfers.go: the account-to-account window "is the only case where      *)
(* state can diverge": a transfer between Savings and an account that has   *)
(* ended gave exactly if it took.                                           *)
SingleLegsAgree ==
    \A t \in Transfers :
        pc[t] \in Final /\ ~ Across(t) => (taken[t] = "yes" <=> given[t] = "yes")

(* transfers.go: "Lets retries (network blip, double-tap) be safe": without *)
(* any fault, also of two account-to-account requests with one key that are *)
(* under way together at most one moves money.                              *)
DoubleTapsSafe ==
    Never(AllFaults) => (AtRest => OncePerKey)
=============================================================================
