-------------------------- MODULE WithdrawalsProofs --------------------------
(***************************************************************************)
(* Theorems about Withdrawals, for every number of users, withdrawals,     *)
(* admins and payout providers, and for every set of faults: types, the    *)
(* approval as a lock, closed rows, and that no balance update is lost.    *)
(* The last part is about calm conditions: there a withdrawal is paid once *)
(* or refunded once, and the wallet implements WithdrawalContract.         *)
(***************************************************************************)
EXTENDS Withdrawals, Sums

(* An admin request past its first read works on an existing row. *)
Aimed == \A a \in Admins : admin[a].pc # "idle" => admin[a].w \in Withdrawals

TypeInv == TypeOK /\ Aimed

AdminType == [Admins -> [pc: AdminPcs, w: Withdrawals \cup {NoWithdrawal}]]
HandlerType == [Withdrawals -> [pc: HandlerPcs, at: Nat \ {0}]]

LEMMA Request ==
  ASSUME TypeOK, NEW w \in Withdrawals
  PROVE  /\ request[w].user \in Users
         /\ request[w].amount \in Nat
         /\ savings[request[w].user] \in Nat
  BY WithdrawalsAssumption DEF TypeOK

LEMMA DebitType ==
  ASSUME TypeOK, NEW w \in Withdrawals, HasFunds(w), DebitSavings(w)
  PROVE  savings' \in [Users -> Nat]
<1>1. savings[request[w].user] - request[w].amount \in Nat
  BY Request DEF HasFunds
<1>2. savings' = [savings EXCEPT ![request[w].user] = savings[request[w].user] - request[w].amount]
  BY DEF DebitSavings
<1> QED
  BY <1>1, <1>2, Request DEF TypeOK

LEMMA CreditType ==
  ASSUME TypeOK, NEW w \in Withdrawals, CreditSavings(w)
  PROVE  savings' \in [Users -> Nat] /\ refunds' \in [Withdrawals -> Nat]
<1>1. savings[request[w].user] + request[w].amount \in Nat
  <2>1. savings[request[w].user] \in Nat /\ request[w].amount \in Nat
    BY Request
  <2> QED
    BY <2>1
<1>2. refunds[w] + 1 \in Nat
  BY DEF TypeOK
<1>3. savings' \in [Users -> Nat]
  BY <1>1, Request DEF CreditSavings, TypeOK
<1> QED
  BY <1>2, <1>3 DEF CreditSavings, TypeOK

LEMMA FailOverType ==
  ASSUME TypeOK, NEW w \in Withdrawals, FailOver(w)
  PROVE  handler' \in HandlerType
<1>1. handler[w].at + 1 \in Nat \ {0}
  BY DEF TypeOK
<1> QED
  BY <1>1 DEF FailOver, TypeOK, Done, HandlerPcs, HandlerType

LEMMA WorkingType ==
  ASSUME TypeInv, NEW a \in Admins, NEW w \in Withdrawals, NEW pc \in AdminPcs,
         Working(a, w, pc)
  PROVE  admin' \in AdminType /\ Aimed'
  BY DEF TypeInv, TypeOK, Aimed, Working, AdminType

LEMMA FinishType ==
  ASSUME TypeInv, NEW a \in Admins, Finish(a)
  PROVE  admin' \in AdminType /\ Aimed'
  BY DEF TypeInv, TypeOK, Aimed, Finish, Idle, AdminType, AdminPcs

LEMMA GoType ==
  ASSUME TypeInv, NEW a \in Admins, NEW pc \in AdminPcs,
         ~ At(a, "idle"), Go(a, pc)
  PROVE  admin' \in AdminType /\ Aimed'
<1>1. [admin[a] EXCEPT !.pc = pc] = [pc |-> pc, w |-> admin[a].w]
  BY DEF TypeInv, TypeOK
<1>2. admin' = [admin EXCEPT ![a] = [pc |-> pc, w |-> admin[a].w]]
  BY <1>1 DEF Go
<1> QED
  BY <1>2 DEF TypeInv, TypeOK, Aimed, At, AdminType
LEMMA TypeInit == Init => TypeInv
  BY WithdrawalsAssumption
     DEF Init, TypeInv, TypeOK, Aimed, Idle, Done, Statuses, Outcomes, BankStates,
         HandlerPcs, AdminPcs

(* Every action keeps the types: savings stay natural because the only     *)
(* UPDATE that lowers a balance is guarded by the balance.                 *)
LEMMA TypeStep == TypeInv /\ [Next]_vars => TypeInv'
<1> SUFFICES ASSUME TypeInv, [Next]_vars PROVE TypeInv'
  OBVIOUS
<1> USE DEF TypeInv, TypeOK
<1>0. CASE UNCHANGED vars
  BY <1>0 DEF vars, Aimed
<1>1. ASSUME NEW w \in Withdrawals, Withdraw(w) PROVE TypeInv'
  BY <1>1, DebitType DEF Withdraw, SetStatus, Statuses, world, Aimed
<1>2. ASSUME NEW w \in Withdrawals, WithdrawNGN(w) PROVE TypeInv'
  BY <1>2, DebitType
     DEF WithdrawNGN, SetStatus, Statuses, HandlerPcs, world, Aimed
<1>3. ASSUME NEW w \in Withdrawals, PayoutAccepted(w) PROVE TypeInv'
  BY <1>3 DEF PayoutAccepted, BankStates, HandlerPcs, rows, Aimed
<1>4. ASSUME NEW w \in Withdrawals, PayoutRefused(w) PROVE TypeInv'
  BY <1>4, FailOverType DEF PayoutRefused, HandlerType, rows, world, Aimed
<1>5. ASSUME NEW w \in Withdrawals, PayoutReplyLost(w) PROVE TypeInv'
  BY <1>5, FailOverType DEF PayoutReplyLost, HandlerType, BankStates, rows, Aimed
<1>6. ASSUME NEW w \in Withdrawals, PayoutMark(w) PROVE TypeInv'
  BY <1>6 DEF PayoutMark, SetStatus, Statuses, Done, HandlerPcs, world, Aimed
<1>7. ASSUME NEW w \in Withdrawals, AbortPayout(w) PROVE TypeInv'
  BY <1>7 DEF AbortPayout, Done, HandlerPcs, rows, world, Aimed
<1>8. ASSUME NEW w \in Withdrawals, NEW p \in Payers, BankPays(w, p) PROVE TypeInv'
  BY <1>8 DEF BankPays, Notify, BankStates, Outcomes, rows, Aimed
<1>9. ASSUME NEW w \in Withdrawals, NEW p \in Payers, BankFails(w, p) PROVE TypeInv'
  BY <1>9 DEF BankFails, Notify, BankStates, Outcomes, rows, Aimed
<1>10. ASSUME NEW w \in Withdrawals, NEW p \in Payers, BankReverses(w, p) PROVE TypeInv'
  BY <1>10 DEF BankReverses, Notify, BankStates, Outcomes, rows, Aimed
<1>11. ASSUME NEW w \in Withdrawals, SettleSent(w) PROVE TypeInv'
  BY <1>11 DEF SettleSent, Deliver, SetStatus, Statuses, Aimed
<1>12. ASSUME NEW w \in Withdrawals, SettleFailed(w) PROVE TypeInv'
  <2>1. CASE Settleable(w)
    BY <1>12, <2>1, CreditType DEF SettleFailed, Deliver, SetStatus, Statuses, Aimed
  <2>2. CASE ~ Settleable(w)
    BY <1>12, <2>2 DEF SettleFailed, Deliver, Aimed
  <2> QED
    BY <2>1, <2>2
<1>13. ASSUME NEW a \in Admins, NEW w \in Withdrawals,
              ApproveRead(a, w) \/ RejectRead(a, w)
       PROVE TypeInv'
  BY <1>13, WorkingType DEF ApproveRead, RejectRead, AdminType, AdminPcs, rows, world
<1>14. ASSUME NEW a \in Admins, ApproveLock(a) PROVE TypeInv'
  <2>1. admin' \in AdminType /\ Aimed'
    BY <1>14, GoType, FinishType DEF ApproveLock, At, AdminPcs
  <2> QED
    BY <1>14, <2>1 DEF ApproveLock, SetStatus, Statuses, AdminType, world
<1>15. ASSUME NEW a \in Admins, NEW moved \in BOOLEAN, NEW believed \in BOOLEAN,
              Broadcast(a, moved, believed)
       PROVE TypeInv'
  <2>1. admin' \in AdminType /\ Aimed'
    BY <1>15, GoType DEF Broadcast, At, AdminPcs
  <2>2. paid' \in [Withdrawals -> Int]
    BY <1>15 DEF Broadcast, Aimed, At
  <2> QED
    BY <1>15, <2>1, <2>2 DEF Broadcast, AdminType, rows
<1>16. ASSUME NEW a \in Admins, ApproveRollback(a) \/ ApproveMark(a) PROVE TypeInv'
  BY <1>16, FinishType
     DEF ApproveRollback, ApproveMark, SetStatus, Statuses, AdminType, world
<1>17. ASSUME NEW a \in Admins, RejectRefund(a) PROVE TypeInv'
  <2>1. admin[a].w \in Withdrawals
    BY <1>17 DEF RejectRefund, At, Aimed
  <2> QED
    BY <1>17, <2>1, CreditType, FinishType
       DEF RejectRefund, SetStatus, Statuses, AdminType, world
<1>18. ASSUME NEW a \in Admins, AbortAdmin(a) PROVE TypeInv'
  BY <1>18, FinishType DEF AbortAdmin, AdminType, rows, world
<1>19. ASSUME NEW a \in Admins, Approve(a) PROVE TypeInv'
  BY <1>14, <1>15, <1>16, <1>19
     DEF Approve, SendOk, SendRefused, SendLost, SendGarbled
<1> QED
  BY <1>0, <1>1, <1>2, <1>3, <1>4, <1>5, <1>6, <1>7, <1>8, <1>9, <1>10, <1>11,
     <1>12, <1>13, <1>17, <1>18, <1>19
     DEF Next, Customer, Payout, Webhook, Provider

LEMMA TypeInvariant == Spec => []TypeInv
  BY TypeInit, TypeStep, PTL DEF Spec

(* Type correctness, with it that no wallet is ever overdrawn. *)
THEOREM TypeCorrect == Spec => []TypeOK
  BY TypeInvariant, PTL DEF TypeInv

-----------------------------------------------------------------------------
(* The two kinds of rows never meet: payouts and webhooks are about bank    *)
(* rows, approvals about USDT rows.                                         *)
Approving == {"lock", "send", "rollback", "mark"}

BankOnly ==
    \A w \in Withdrawals :
        (\/ handler[w].pc # "idle"
         \/ \E p \in Payers : bank[w][p] # "none"
         \/ \E o \in Outcomes : <<w, o>> \in hooks)
            => request[w].channel = "ngn_bank"

UsdtOnly ==
    \A a \in Admins :
        admin[a].pc \in Approving => request[admin[a].w].channel = "usdt"

KindInv == TypeInv /\ BankOnly /\ UsdtOnly

(* What a step of one admin request does to all of them. *)
LEMMA AdminGo ==
  ASSUME TypeOK, NEW a \in Admins, NEW pc, Go(a, pc)
  PROVE  \A b \in Admins : /\ admin'[b].w = admin[b].w
                           /\ admin'[b].pc = IF b = a THEN pc ELSE admin[b].pc
  BY DEF TypeOK, Go

LEMMA AdminFinish ==
  ASSUME TypeOK, NEW a \in Admins, Finish(a)
  PROVE  /\ admin'[a].pc = "idle" /\ admin'[a].w = NoWithdrawal
         /\ \A b \in Admins : b # a => admin'[b] = admin[b]
  BY DEF TypeOK, Finish, Idle

LEMMA AdminWorking ==
  ASSUME TypeOK, NEW a \in Admins, NEW w, NEW pc, Working(a, w, pc)
  PROVE  /\ admin'[a].pc = pc /\ admin'[a].w = w
         /\ \A b \in Admins : b # a => admin'[b] = admin[b]
  BY DEF TypeOK, Working

LEMMA KindInit == Init => BankOnly /\ UsdtOnly
  BY DEF Init, BankOnly, UsdtOnly, Idle, Done, Approving, Payers

LEMMA KindStep == KindInv /\ [Next]_vars => (BankOnly /\ UsdtOnly)'
<1> SUFFICES ASSUME KindInv, [Next]_vars PROVE (BankOnly /\ UsdtOnly)'
  OBVIOUS
<1> USE DEF KindInv, TypeInv, TypeOK
<1>0. CASE UNCHANGED vars
  BY <1>0 DEF vars, BankOnly, UsdtOnly
<1>1. ASSUME NEW w \in Withdrawals, Withdraw(w) PROVE (BankOnly /\ UsdtOnly)'
  BY <1>1 DEF Withdraw, world, BankOnly, UsdtOnly
<1>2. ASSUME NEW w \in Withdrawals, WithdrawNGN(w) PROVE (BankOnly /\ UsdtOnly)'
  BY <1>2 DEF WithdrawNGN, world, BankOnly, UsdtOnly
<1>3. ASSUME NEW w \in Withdrawals, PayoutAccepted(w) \/ PayoutReplyLost(w)
      PROVE (BankOnly /\ UsdtOnly)'
  <2>1. request[w].channel = "ngn_bank"
    BY <1>3 DEF PayoutAccepted, PayoutReplyLost, BankOnly
  <2>2. \A v \in Withdrawals : v # w => handler'[v] = handler[v] /\ bank'[v] = bank[v]
    BY <1>3 DEF PayoutAccepted, PayoutReplyLost, FailOver
  <2>3. UNCHANGED <<request, hooks, admin>>
    BY <1>3 DEF PayoutAccepted, PayoutReplyLost, rows
  <2>4. BankOnly'
    BY <2>1, <2>2, <2>3 DEF BankOnly
  <2>5. UsdtOnly'
    BY <2>3 DEF UsdtOnly
  <2> QED
    BY <2>4, <2>5
<1>4. ASSUME NEW w \in Withdrawals, PayoutRefused(w) \/ PayoutMark(w) \/ AbortPayout(w)
      PROVE (BankOnly /\ UsdtOnly)'
  <2>1. request[w].channel = "ngn_bank"
    BY <1>4 DEF PayoutRefused, PayoutMark, AbortPayout, BankOnly
  <2> QED
    BY <1>4, <2>1 DEF PayoutRefused, PayoutMark, AbortPayout, FailOver, Done,
                      rows, world, BankOnly, UsdtOnly
<1>5. ASSUME NEW w \in Withdrawals, NEW p \in Payers,
             BankPays(w, p) \/ BankFails(w, p) \/ BankReverses(w, p)
      PROVE (BankOnly /\ UsdtOnly)'
  <2>1. request[w].channel = "ngn_bank"
    BY <1>5 DEF BankPays, BankFails, BankReverses, BankOnly
  <2>2. /\ \A v \in Withdrawals : v # w => bank'[v] = bank[v]
        /\ \A v \in Withdrawals, o \in Outcomes :
             v # w /\ <<v, o>> \in hooks' => <<v, o>> \in hooks
    BY <1>5 DEF BankPays, BankFails, BankReverses, Notify
  <2>3. UNCHANGED <<request, handler, admin>>
    BY <1>5 DEF BankPays, BankFails, BankReverses, rows
  <2>4. BankOnly'
    BY <2>1, <2>2, <2>3 DEF BankOnly
  <2>5. UsdtOnly'
    BY <2>3 DEF UsdtOnly
  <2> QED
    BY <2>4, <2>5
<1>6. ASSUME NEW w \in Withdrawals, SettleSent(w) \/ SettleFailed(w)
      PROVE (BankOnly /\ UsdtOnly)'
  BY <1>6 DEF SettleSent, SettleFailed, Deliver, BankOnly, UsdtOnly
<1>7. ASSUME NEW a \in Admins, NEW w \in Withdrawals,
             ApproveRead(a, w) \/ RejectRead(a, w)
      PROVE (BankOnly /\ UsdtOnly)'
  <2>1. BankOnly'
    BY <1>7 DEF ApproveRead, RejectRead, rows, world, BankOnly
  <2>2. UsdtOnly'
    <3>1. PICK pc \in AdminPcs :
            Working(a, w, pc) /\ (pc \in Approving => request[w].channel = "usdt")
      BY <1>7 DEF ApproveRead, RejectRead, AdminPcs, Approving
    <3>2. /\ admin'[a].pc = pc /\ admin'[a].w = w
          /\ \A b \in Admins : b # a => admin'[b] = admin[b]
      BY <3>1, AdminWorking
    <3>3. request' = request
      BY <1>7 DEF ApproveRead, RejectRead, rows
    <3> QED
      BY <3>1, <3>2, <3>3 DEF UsdtOnly
  <2> QED
    BY <2>1, <2>2
<1>8. ASSUME NEW a \in Admins, ApproveLock(a) PROVE (BankOnly /\ UsdtOnly)'
  <2>1. BankOnly'
    BY <1>8 DEF ApproveLock, world, BankOnly
  <2>2. UsdtOnly'
    BY <1>8, AdminGo, AdminFinish DEF ApproveLock, At, UsdtOnly, Approving
  <2> QED
    BY <2>1, <2>2
<1>9. ASSUME NEW a \in Admins, NEW moved \in BOOLEAN, NEW believed \in BOOLEAN,
             Broadcast(a, moved, believed)
      PROVE (BankOnly /\ UsdtOnly)'
  <2>1. BankOnly'
    BY <1>9 DEF Broadcast, rows, BankOnly
  <2>2. UsdtOnly'
    BY <1>9, AdminGo DEF Broadcast, At, rows, UsdtOnly, Approving
  <2> QED
    BY <2>1, <2>2
<1>10. ASSUME NEW a \in Admins,
              ApproveRollback(a) \/ ApproveMark(a) \/ RejectRefund(a) \/ AbortAdmin(a)
       PROVE (BankOnly /\ UsdtOnly)'
  <2>1. BankOnly'
    BY <1>10
       DEF ApproveRollback, ApproveMark, RejectRefund, AbortAdmin, rows, world, BankOnly
  <2>2. UsdtOnly'
    BY <1>10, AdminFinish
       DEF ApproveRollback, ApproveMark, RejectRefund, AbortAdmin, rows, UsdtOnly,
           Approving
  <2> QED
    BY <2>1, <2>2
<1>11. ASSUME NEW a \in Admins, Approve(a) PROVE (BankOnly /\ UsdtOnly)'
  BY <1>8, <1>9, <1>10, <1>11
     DEF Approve, SendOk, SendRefused, SendLost, SendGarbled
<1> QED
  BY <1>0, <1>1, <1>2, <1>3, <1>4, <1>5, <1>6, <1>7, <1>10, <1>11
     DEF Next, Customer, Payout, Webhook, Provider

LEMMA KindInvariant == Spec => []KindInv
<1>1. Init => KindInv
  BY TypeInit, KindInit DEF KindInv
<1>2. KindInv /\ [Next]_vars => KindInv'
  BY TypeStep, KindStep DEF KindInv
<1> QED
  BY <1>1, <1>2, PTL DEF Spec

-----------------------------------------------------------------------------
(* The status column as a lock. *)
LockInv == KindInv /\ ApproveExclusive

UsdtStays ==
    \A w \in Withdrawals :
         request[w].channel = "usdt" /\ status[w] \in {"sent", "rejected"}
            => status'[w] = status[w]

LEMMA LockInit == Init => ApproveExclusive
  BY DEF Init, ApproveExclusive, Held, Idle

(* A lock held before and after a step that leaves the admins alone and     *)
(* changes the status of bank rows and of rows not yet there only.          *)
LEMMA LockUntouched ==
  ASSUME LockInv, UNCHANGED admin,
         NEW w \in Withdrawals,
         request[w].channel = "ngn_bank" \/ status[w] = "absent",
         \A v \in Withdrawals : v # w => status'[v] = status[v]
  PROVE  ApproveExclusive' /\ UsdtStays
<1>1. \A a \in Admins : ~ Held(a, w)
  <2> SUFFICES ASSUME NEW a \in Admins, Held(a, w) PROVE FALSE
    OBVIOUS
  <2>1. status[w] = "approved"
    BY DEF LockInv, ApproveExclusive
  <2>2. request[w].channel = "usdt"
    BY DEF LockInv, KindInv, UsdtOnly, Held, Approving
  <2> QED
    BY <2>1, <2>2
<1>2. \A a \in Admins, v \in Withdrawals : Held(a, v)' = Held(a, v)
  BY DEF Held
<1> QED
  BY <1>1, <1>2 DEF LockInv, ApproveExclusive, UsdtStays

LEMMA LockStep == LockInv /\ [Next]_vars => ApproveExclusive' /\ UsdtStays
<1> SUFFICES ASSUME LockInv, [Next]_vars PROVE ApproveExclusive' /\ UsdtStays
  OBVIOUS
<1>t. TypeOK /\ Aimed /\ BankOnly /\ UsdtOnly /\ ApproveExclusive
  BY DEF LockInv, KindInv, TypeInv
<1>s. \A w \in Withdrawals : \A s : SetStatus(w, s) =>
         /\ status'[w] = s
         /\ \A v \in Withdrawals : v # w => status'[v] = status[v]
  BY <1>t DEF TypeOK, SetStatus
<1>0. CASE UNCHANGED <<status, admin>>
  BY <1>0, <1>t DEF ApproveExclusive, Held, UsdtStays
<1>1. ASSUME NEW w \in Withdrawals, Customer(w) \/ PayoutMark(w) \/ Webhook(w)
      PROVE ApproveExclusive' /\ UsdtStays
  <2>1. UNCHANGED admin
    BY <1>1 DEF Customer, Withdraw, WithdrawNGN, PayoutMark, Webhook, SettleSent,
                SettleFailed, Deliver
  <2>2. request[w].channel = "ngn_bank" \/ status[w] = "absent"
    BY <1>1, <1>t DEF Customer, Withdraw, WithdrawNGN, PayoutMark, Webhook,
                SettleSent, SettleFailed, Deliver, BankOnly, Outcomes
  <2>3. \A v \in Withdrawals : v # w => status'[v] = status[v]
    BY <1>1, <1>s DEF Customer, Withdraw, WithdrawNGN, PayoutMark, Webhook,
                SettleSent, SettleFailed
  <2> QED
    BY <2>1, <2>2, <2>3, LockUntouched
<1>2. ASSUME NEW w \in Withdrawals, NEW p \in Payers,
             BankPays(w, p) \/ BankFails(w, p) \/ BankReverses(w, p)
      PROVE ApproveExclusive' /\ UsdtStays
  BY <1>0, <1>2 DEF BankPays, BankFails, BankReverses, rows
<1>3. ASSUME NEW a \in Admins, NEW w \in Withdrawals,
             ApproveRead(a, w) \/ RejectRead(a, w)
      PROVE ApproveExclusive' /\ UsdtStays
  <2>1. PICK pc \in {"lock", "refund"} : Working(a, w, pc)
    BY <1>3 DEF ApproveRead, RejectRead
  <2>2. UNCHANGED status
    BY <1>3 DEF ApproveRead, RejectRead, rows
  <2> QED
    BY <1>t, <2>1, <2>2, AdminWorking DEF ApproveExclusive, Held, UsdtStays
<1>4. ASSUME NEW a \in Admins, ApproveLock(a) PROVE ApproveExclusive' /\ UsdtStays
  <2> DEFINE w == admin[a].w
  <2>1. w \in Withdrawals
    BY <1>4, <1>t DEF ApproveLock, At, Aimed
  <2>2. CASE LockWon(w)
    <3>1. \A b \in Admins : ~ Held(b, w)
      BY <1>t, <2>1, <2>2 DEF LockWon, ApproveExclusive
    <3>2. SetStatus(w, "approved") /\ Go(a, "send") /\ status[w] = "pending"
      BY <1>4, <2>2 DEF ApproveLock, LockWon
    <3>3. \A b \in Admins : /\ admin'[b].w = admin[b].w
                            /\ admin'[b].pc = IF b = a THEN "send" ELSE admin[b].pc
      BY <1>t, <3>2, AdminGo
    <3>4. /\ status'[w] = "approved"
          /\ \A v \in Withdrawals : v # w => status'[v] = status[v]
      BY <1>s, <2>1, <3>2
    <3> QED
      BY <1>t, <2>1, <3>1, <3>2, <3>3, <3>4 DEF ApproveExclusive, Held, UsdtStays
  <2>3. CASE ~ LockWon(w)
    BY <1>t, <1>4, <2>3, AdminFinish
       DEF ApproveLock, ApproveExclusive, Held, UsdtStays
  <2> QED
    BY <2>2, <2>3
<1>5. ASSUME NEW a \in Admins, NEW moved \in BOOLEAN, NEW believed \in BOOLEAN,
             Broadcast(a, moved, believed)
      PROVE ApproveExclusive' /\ UsdtStays
  <2>1. UNCHANGED status /\ admin[a].pc = "send"
    BY <1>5 DEF Broadcast, At, rows
  <2>2. PICK pc \in {"mark", "rollback"} : Go(a, pc)
    BY <1>5 DEF Broadcast
  <2>3. \A b \in Admins, v \in Withdrawals : Held(b, v)' => Held(b, v)
    BY <1>t, <2>1, <2>2, AdminGo DEF Held
  <2> QED
    BY <1>t, <2>1, <2>3 DEF ApproveExclusive, UsdtStays
<1>6. ASSUME NEW a \in Admins, ApproveRollback(a) \/ ApproveMark(a)
      PROVE ApproveExclusive' /\ UsdtStays
  <2> DEFINE w == admin[a].w
  <2>1. w \in Withdrawals /\ Held(a, w)
    BY <1>6, <1>t DEF ApproveRollback, ApproveMark, At, Aimed, Held
  <2>2. status[w] = "approved" /\ \A b \in Admins : Held(b, w) => b = a
    BY <1>t, <2>1 DEF ApproveExclusive
  <2>3. Finish(a) /\ \E s : SetStatus(w, s)
    BY <1>6 DEF ApproveRollback, ApproveMark
  <2>4. \A v \in Withdrawals : v # w => status'[v] = status[v]
    BY <1>s, <2>1, <2>3
  <2>5. \A b \in Admins, v \in Withdrawals : Held(b, v)' => Held(b, v) /\ v # w
    BY <1>t, <2>2, <2>3, AdminFinish DEF Held
  <2> QED
    BY <1>t, <2>2, <2>4, <2>5 DEF ApproveExclusive, UsdtStays
<1>7. ASSUME NEW a \in Admins, RejectRefund(a) PROVE ApproveExclusive' /\ UsdtStays
  <2> DEFINE w == admin[a].w
  <2>1. w \in Withdrawals
    BY <1>7, <1>t DEF RejectRefund, At, Aimed
  <2>2. \A b \in Admins, v \in Withdrawals : Held(b, v)' => Held(b, v)
    BY <1>t, <1>7, AdminFinish DEF RejectRefund, Held
  <2>3. CASE LockWon(w)
    <3>1. /\ status'[w] = "rejected" /\ status[w] = "pending"
          /\ \A v \in Withdrawals : v # w => status'[v] = status[v]
      BY <1>s, <1>7, <2>1, <2>3 DEF RejectRefund, LockWon
    <3> QED
      BY <1>t, <2>2, <3>1 DEF ApproveExclusive, UsdtStays
  <2>4. CASE ~ LockWon(w)
    BY <1>t, <1>7, <2>2, <2>4 DEF RejectRefund, ApproveExclusive, UsdtStays
  <2> QED
    BY <2>3, <2>4
<1>8. ASSUME NEW a \in Admins, AbortAdmin(a) PROVE ApproveExclusive' /\ UsdtStays
  <2>1. \A b \in Admins, v \in Withdrawals : Held(b, v)' => Held(b, v)
    BY <1>t, <1>8, AdminFinish DEF AbortAdmin, Held
  <2> QED
    BY <1>t, <1>8, <2>1 DEF AbortAdmin, rows, ApproveExclusive, UsdtStays
<1>9. ASSUME NEW a \in Admins, Approve(a) PROVE ApproveExclusive' /\ UsdtStays
  BY <1>4, <1>5, <1>6, <1>9 DEF Approve, SendOk, SendRefused, SendLost, SendGarbled
<1>10. ASSUME NEW w \in Withdrawals,
              PayoutAccepted(w) \/ PayoutRefused(w) \/ PayoutReplyLost(w) \/ AbortPayout(w)
       PROVE ApproveExclusive' /\ UsdtStays
  BY <1>0, <1>10 DEF PayoutAccepted, PayoutRefused, PayoutReplyLost, AbortPayout, rows
<1>11. CASE UNCHANGED vars
  BY <1>0, <1>11 DEF vars
<1> QED
  BY <1>1, <1>2, <1>3, <1>7, <1>8, <1>9, <1>10, <1>11 DEF Next, Payout, Provider

LEMMA LockInvariant == Spec => []LockInv
<1>1. Init => LockInv
  BY TypeInit, KindInit, LockInit DEF LockInv, KindInv
<1>2. LockInv /\ [Next]_vars => LockInv'
  BY TypeStep, KindStep, LockStep DEF LockInv, KindInv
<1> QED
  BY <1>1, <1>2, PTL DEF Spec

(* ApproveWithdrawal's guarded UPDATE is a lock, for any number of admins   *)
(* and whatever the outside does.                                           *)
THEOREM ApprovalIsExclusive == Spec => []ApproveExclusive
  BY LockInvariant, PTL DEF LockInv

(* No step of anybody takes a USDT row out of 'sent' or 'rejected'.         *)
THEOREM ClosedRowsStay == Spec => UsdtRowsStayClosed
<1>1. LockInv /\ [Next]_vars => [UsdtStays]_vars
  BY LockStep
<1> QED
  BY <1>1, LockInvariant, PTL DEF Spec, UsdtRowsStayClosed, UsdtStays

-----------------------------------------------------------------------------
(* A closed row was refunded. *)
RefundInv == TypeInv /\ ClosedMeansRefunded

LEMMA RefundStep == RefundInv /\ [Next]_vars => ClosedMeansRefunded'
<1> SUFFICES ASSUME RefundInv, [Next]_vars PROVE ClosedMeansRefunded'
  OBVIOUS
<1>t. TypeOK /\ Aimed /\ ClosedMeansRefunded
  BY DEF RefundInv, TypeInv
<1>s. \A w \in Withdrawals : \A s : SetStatus(w, s) =>
         /\ status'[w] = s
         /\ \A v \in Withdrawals : v # w => status'[v] = status[v]
  BY <1>t DEF TypeOK, SetStatus
<1>c. ASSUME NEW w \in Withdrawals, CreditSavings(w)
      PROVE  /\ refunds'[w] > 0
             /\ \A v \in Withdrawals : refunds[v] > 0 => refunds'[v] > 0
  BY <1>t, <1>c DEF TypeOK, CreditSavings
<1>0. CASE UNCHANGED <<status, refunds>>
  BY <1>0, <1>t DEF ClosedMeansRefunded
<1>1. ASSUME UNCHANGED refunds, NEW w \in Withdrawals,
             NEW s \in {"pending", "approved", "sent"}, SetStatus(w, s)
      PROVE ClosedMeansRefunded'
  BY <1>1, <1>s, <1>t DEF ClosedMeansRefunded
<1>2. ASSUME NEW w \in Withdrawals, Customer(w) \/ PayoutMark(w) \/ SettleSent(w)
      PROVE ClosedMeansRefunded'
  BY <1>0, <1>1, <1>2
     DEF Customer, Withdraw, WithdrawNGN, PayoutMark, SettleSent
<1>3. ASSUME NEW w \in Withdrawals, SettleFailed(w) PROVE ClosedMeansRefunded'
  <2>1. CASE Settleable(w)
    <3>1. SetStatus(w, "failed") /\ CreditSavings(w)
      BY <1>3, <2>1 DEF SettleFailed
    <3> QED
      BY <3>1, <1>s, <1>c, <1>t DEF ClosedMeansRefunded
  <2>2. CASE ~ Settleable(w)
    BY <1>0, <1>3, <2>2 DEF SettleFailed
  <2> QED
    BY <2>1, <2>2
<1>4. ASSUME NEW a \in Admins, RejectRefund(a) PROVE ClosedMeansRefunded'
  <2>1. admin[a].w \in Withdrawals /\ CreditSavings(admin[a].w)
    BY <1>4, <1>t DEF RejectRefund, At, Aimed
  <2>2. \/ SetStatus(admin[a].w, "rejected")
        \/ UNCHANGED status
    BY <1>4 DEF RejectRefund
  <2> QED
    BY <2>1, <2>2, <1>s, <1>c, <1>t DEF ClosedMeansRefunded
<1>5. ASSUME NEW a \in Admins, Approve(a) PROVE ClosedMeansRefunded'
  <2>1. CASE ApproveLock(a) \/ ApproveRollback(a) \/ ApproveMark(a)
    <3>1. admin[a].w \in Withdrawals
      BY <2>1, <1>t DEF ApproveLock, ApproveRollback, ApproveMark, At, Aimed
    <3> QED
      BY <2>1, <3>1, <1>0, <1>1 DEF ApproveLock, ApproveRollback, ApproveMark
  <2>2. CASE SendOk(a) \/ SendRefused(a) \/ SendLost(a) \/ SendGarbled(a)
    BY <2>2, <1>0
       DEF SendOk, SendRefused, SendLost, SendGarbled, Broadcast, rows
  <2> QED
    BY <1>5, <2>1, <2>2 DEF Approve
<1>6. ASSUME NEW w \in Withdrawals, NEW p \in Payers,
             BankPays(w, p) \/ BankFails(w, p) \/ BankReverses(w, p)
      PROVE ClosedMeansRefunded'
  BY <1>0, <1>6 DEF BankPays, BankFails, BankReverses, rows
<1>7. ASSUME NEW w \in Withdrawals,
             PayoutAccepted(w) \/ PayoutRefused(w) \/ PayoutReplyLost(w) \/ AbortPayout(w)
      PROVE ClosedMeansRefunded'
  BY <1>0, <1>7 DEF PayoutAccepted, PayoutRefused, PayoutReplyLost, AbortPayout, rows
<1>8. ASSUME NEW a \in Admins, NEW w \in Withdrawals,
             ApproveRead(a, w) \/ RejectRead(a, w)
      PROVE ClosedMeansRefunded'
  BY <1>0, <1>8 DEF ApproveRead, RejectRead, rows
<1>9. ASSUME NEW a \in Admins, AbortAdmin(a) PROVE ClosedMeansRefunded'
  BY <1>0, <1>9 DEF AbortAdmin, rows
<1>10. CASE UNCHANGED vars
  BY <1>0, <1>10 DEF vars
<1> QED
  BY <1>2, <1>3, <1>4, <1>5, <1>6, <1>7, <1>8, <1>9, <1>10
     DEF Next, Payout, Provider, Webhook

(* The flip to a closed status and the refund are one transaction: whoever  *)
(* closes a row, its customer has the money back.                           *)
THEOREM ClosedIsRefunded == Spec => []ClosedMeansRefunded
<1>1. Init => RefundInv
  BY TypeInit DEF RefundInv, Init, ClosedMeansRefunded
<1>2. RefundInv /\ [Next]_vars => RefundInv'
  BY TypeStep, RefundStep DEF RefundInv
<1>3. RefundInv => ClosedMeansRefunded
  BY DEF RefundInv
<1> QED
  BY <1>1, <1>2, <1>3, PTL DEF Spec

-----------------------------------------------------------------------------
(* The balances.  Every statement that changes one does so by the amount of *)
(* a row that it inserts or refunds, so the argument is about which rows    *)
(* exist: a handler, a webhook or an admin works on one that does.          *)

Exists(w) == status[w] # "absent"

OnRows ==
    /\ \A w \in Withdrawals : ~ Exists(w) =>
          /\ handler[w].pc = "idle" /\ refunds[w] = 0
    /\ \A a \in Admins : admin[a].pc # "idle" => Exists(admin[a].w)

(* What row w has changed in the wallet of u. *)
Share(u) ==
    [w \in Withdrawals |->
        IF request[w].user = u /\ Exists(w) THEN (refunds[w] - 1) * request[w].amount ELSE 0]

(* The three things a step may do to the balances and the rows. *)
NoMoney ==
    /\ UNCHANGED <<savings, refunds, request>>
    /\ \A w \in Withdrawals : Exists(w)' = Exists(w)

Reserves(w) ==
    /\ ~ Exists(w) /\ DebitSavings(w) /\ UNCHANGED <<refunds, request>>
    /\ Exists(w)'
    /\ \A v \in Withdrawals : v # w => Exists(v)' = Exists(v)

Refunds(w) ==
    /\ Exists(w) /\ CreditSavings(w) /\ UNCHANGED request
    /\ \A v \in Withdrawals : Exists(v)' = Exists(v)

LEMMA ShareCounted ==
  ASSUME TypeOK, NEW u \in Users
  PROVE  /\ Numbers(Share(u), Withdrawals)
         /\ SumFunction([w \in RowsOf(u) |-> (refunds[w] - 1) * request[w].amount])
                = Sum(Share(u), Withdrawals)
<1> DEFINE R == RowsOf(u)
           f == [w \in R |-> (refunds[w] - 1) * request[w].amount]
<1>1. R \in SUBSET Withdrawals /\ IsFiniteSet(Withdrawals) /\ IsFiniteSet(R)
  BY WithdrawalsAssumption, FS_Subset DEF RowsOf
<1>2. ASSUME NEW w \in Withdrawals
      PROVE  (refunds[w] - 1) * request[w].amount \in Int
  <2>1. refunds[w] - 1 \in Int /\ request[w].amount \in Int
    BY Request DEF TypeOK
  <2> QED
    BY <2>1
<1>3. Numbers(Share(u), Withdrawals)
  BY <1>2 DEF Numbers, Share
<1>4. /\ \A w \in R : f[w] = Share(u)[w]
      /\ \A w \in Withdrawals \ R : Share(u)[w] = 0
  BY DEF Share, RowsOf, Exists
<1>5. SumFunction(f) = Sum(f, R)
  BY SumOfFunction
<1> HIDE DEF R, f
<1>6. Sum(f, R) = Sum(Share(u), R)
  BY <1>1, <1>4, SumSame
<1>7. Sum(Share(u), Withdrawals) = Sum(Share(u), R)
  BY <1>1, <1>3, <1>4, SumZero
<1> QED
  BY <1>3, <1>5, <1>6, <1>7 DEF R, f

Accounted == \A u \in Users : savings[u] = InitialSavings + Sum(Share(u), Withdrawals)

LEMMA AccountedMeans ==
  ASSUME TypeOK
  PROVE  Accounted <=> SavingsAccounted
BY ShareCounted DEF Accounted, SavingsAccounted

(* Of the shares, only that of the row changes, and by its amount. *)
LEMMA NoMoneyKeeps ==
  ASSUME TypeOK, Accounted, NoMoney
  PROVE  Accounted'
<1>1. ASSUME NEW u \in Users
      PROVE  Sum(Share(u)', Withdrawals) = Sum(Share(u), Withdrawals)
  <2>1. \A w \in Withdrawals : Share(u)'[w] = Share(u)[w]
    BY DEF NoMoney, Share
  <2> QED
    BY <2>1, SumSame, WithdrawalsAssumption
<1> QED
  BY <1>1 DEF Accounted, NoMoney

LEMMA ShareMoves ==
  ASSUME TypeOK, TypeOK', NEW w \in Withdrawals, NEW u \in Users, NEW d \in Int,
         request' = request,
         \A v \in Withdrawals : v # w => refunds'[v] = refunds[v] /\ Exists(v)' = Exists(v),
         request[w].user = u => Share(u)'[w] = Share(u)[w] + d
  PROVE  Sum(Share(u)', Withdrawals) =
             Sum(Share(u), Withdrawals) + (IF request[w].user = u THEN d ELSE 0)
<1> DEFINE F == Share(u)
           G == Share(u)'
           W == Withdrawals
<1>1. \A v \in W \ {w} : G[v] = F[v]
  BY DEF Share
<1>2. request[w].user # u => G[w] = F[w]
  BY DEF Share
<1>3. Numbers(F, W) /\ Numbers(G, W) /\ IsFiniteSet(W)
  <2>1. Numbers(F, W)
    BY ShareCounted
  <2>2. Numbers(Share(u), Withdrawals)'
    BY ShareCounted, PTL
  <2> QED
    BY <2>1, <2>2, WithdrawalsAssumption DEF Numbers
<1> HIDE DEF F, G, W
<1>4. Sum(G, W) = Sum(F, W) - F[w] + G[w]
  BY <1>1, <1>3, SumChange DEF W
<1>5. F[w] \in Int /\ G[w] \in Int /\ Sum(F, W) \in Int
  BY <1>3, SumType DEF Numbers, W
<1>6. request[w].user = u => G[w] = F[w] + d
  BY DEF F, G
<1>7. Sum(G, W) = Sum(F, W) + (IF request[w].user = u THEN d ELSE 0)
  BY <1>2, <1>4, <1>5, <1>6
<1> QED
  BY <1>7 DEF F, G, W

LEMMA ReservesKeeps ==
  ASSUME TypeOK, TypeOK', OnRows, Accounted, NEW w \in Withdrawals, Reserves(w)
  PROVE  Accounted'
<1> DEFINE n == request[w].amount
<1>1. n \in Nat /\ request[w].user \in Users /\ refunds[w] = 0
  BY Request DEF OnRows, Reserves
<1>2. ASSUME NEW u \in Users
      PROVE  savings'[u] = savings[u] - (IF request[w].user = u THEN n ELSE 0)
  BY <1>1 DEF TypeOK, Reserves, DebitSavings
<1>3. ASSUME NEW u \in Users
      PROVE  Sum(Share(u)', Withdrawals) =
                 Sum(Share(u), Withdrawals) + (IF request[w].user = u THEN - n ELSE 0)
  <2>1. request[w].user = u => Share(u)'[w] = Share(u)[w] + (- n)
    BY <1>1 DEF Share, Reserves
  <2> QED
    BY <1>1, <2>1, ShareMoves DEF Reserves
<1>4. ASSUME NEW u \in Users
      PROVE  Sum(Share(u), Withdrawals) \in Int /\ savings[u] \in Int
  <2>1. Numbers(Share(u), Withdrawals) /\ IsFiniteSet(Withdrawals)
    BY ShareCounted, WithdrawalsAssumption
  <2>2. Sum(Share(u), Withdrawals) \in Int
    BY <2>1, SumType
  <2>3. savings[u] \in Int
    BY DEF TypeOK
  <2> QED
    BY <2>2, <2>3
<1> HIDE DEF n
<1>5. ASSUME NEW u \in Users
      PROVE  savings'[u] = InitialSavings + Sum(Share(u)', Withdrawals)
  <2>1. savings[u] = InitialSavings + Sum(Share(u), Withdrawals)
    BY DEF Accounted
  <2>2. InitialSavings \in Int /\ n \in Int
    BY <1>1, WithdrawalsAssumption DEF n
  <2> QED
    BY <1>2, <1>3, <1>4, <2>1, <2>2
<1> QED
  BY <1>5 DEF Accounted

LEMMA RefundsKeeps ==
  ASSUME TypeOK, TypeOK', Accounted, NEW w \in Withdrawals, Refunds(w)
  PROVE  Accounted'
<1> DEFINE n == request[w].amount
<1>1. n \in Nat /\ request[w].user \in Users /\ refunds[w] \in Nat
  BY Request DEF TypeOK
<1>2. ASSUME NEW u \in Users
      PROVE  savings'[u] = savings[u] + (IF request[w].user = u THEN n ELSE 0)
  BY <1>1 DEF TypeOK, Refunds, CreditSavings
<1>3. /\ refunds'[w] = refunds[w] + 1
      /\ \A v \in Withdrawals : v # w => refunds'[v] = refunds[v]
  BY DEF TypeOK, Refunds, CreditSavings
<1>4. ASSUME NEW u \in Users
      PROVE  Sum(Share(u)', Withdrawals) =
                 Sum(Share(u), Withdrawals) + (IF request[w].user = u THEN n ELSE 0)
  <2>1. (refunds'[w] - 1) * n = (refunds[w] - 1) * n + n
    BY <1>1, <1>3
  <2>2. request[w].user = u => Share(u)'[w] = Share(u)[w] + n
    BY <2>1 DEF Share, Refunds
  <2> QED
    BY <1>1, <1>3, <2>2, ShareMoves DEF Refunds
<1>5. ASSUME NEW u \in Users
      PROVE  Sum(Share(u), Withdrawals) \in Int /\ savings[u] \in Int
  <2>1. Numbers(Share(u), Withdrawals) /\ IsFiniteSet(Withdrawals)
    BY ShareCounted, WithdrawalsAssumption
  <2>2. Sum(Share(u), Withdrawals) \in Int
    BY <2>1, SumType
  <2>3. savings[u] \in Int
    BY DEF TypeOK
  <2> QED
    BY <2>2, <2>3
<1> HIDE DEF n
<1>6. ASSUME NEW u \in Users
      PROVE  savings'[u] = InitialSavings + Sum(Share(u)', Withdrawals)
  <2>1. savings[u] = InitialSavings + Sum(Share(u), Withdrawals)
    BY DEF Accounted
  <2>2. InitialSavings \in Int /\ n \in Int
    BY <1>1, WithdrawalsAssumption DEF n
  <2> QED
    BY <1>2, <1>4, <1>5, <2>1, <2>2
<1> QED
  BY <1>6 DEF Accounted

(* What each step does to the rows and the balances. *)
LEMMA RowsStep ==
  ASSUME TypeInv, OnRows, BankOnly, [Next]_vars
  PROVE  OnRows' /\ (NoMoney \/ \E w \in Withdrawals : Reserves(w) \/ Refunds(w))
<1> DEFINE Good == OnRows' /\ (NoMoney \/ \E w \in Withdrawals : Reserves(w) \/ Refunds(w))
<1>t. TypeOK /\ Aimed
  BY DEF TypeInv
<1>s. ASSUME NEW w \in Withdrawals, NEW s, SetStatus(w, s), s # "absent"
      PROVE  /\ Exists(w)'
             /\ \A v \in Withdrawals : v # w => Exists(v)' = Exists(v)
  BY <1>s, <1>t DEF TypeOK, SetStatus, Exists
<1>0. CASE UNCHANGED <<rows, handler, admin>>
  BY <1>0 DEF OnRows, Exists, NoMoney, rows
<1>1. ASSUME NEW w \in Withdrawals, Withdraw(w) \/ WithdrawNGN(w)
      PROVE  Good
  <2>1. /\ SetStatus(w, "pending") /\ DebitSavings(w) /\ ~ Exists(w)
        /\ UNCHANGED <<refunds, request, admin>>
        /\ \A v \in Withdrawals : v # w => handler'[v] = handler[v]
    BY <1>1, <1>t DEF Withdraw, WithdrawNGN, Exists, TypeOK
  <2>2. Reserves(w)
    BY <1>s, <2>1 DEF Reserves
  <2>3. OnRows'
    BY <1>t, <2>1, <2>2 DEF OnRows, Aimed, Reserves
  <2> QED
    BY <2>2, <2>3
<1>2. ASSUME NEW w \in Withdrawals,
             \/ PayoutAccepted(w) \/ PayoutRefused(w) \/ PayoutReplyLost(w)
             \/ AbortPayout(w)
      PROVE  Good
  <2>1. /\ handler[w].pc # "idle" /\ UNCHANGED <<rows, admin>>
        /\ \A v \in Withdrawals : v # w => handler'[v] = handler[v]
    BY <1>2, <1>t DEF PayoutAccepted, PayoutRefused, PayoutReplyLost, AbortPayout, FailOver, TypeOK
  <2>2. UNCHANGED <<status, savings, refunds, request, admin>>
    BY <2>1 DEF rows
  <2>3. Exists(w)
    BY <2>1 DEF OnRows
  <2>4. OnRows'
    BY <2>1, <2>2, <2>3 DEF OnRows, Exists
  <2>5. NoMoney
    BY <2>2 DEF NoMoney, Exists
  <2> QED
    BY <2>4, <2>5
<1>3. ASSUME NEW w \in Withdrawals, PayoutMark(w)
      PROVE  Good
  <2>1. /\ Exists(w) /\ SetStatus(w, "approved") /\ UNCHANGED <<request, savings, refunds, admin>>
        /\ \A v \in Withdrawals : v # w => handler'[v] = handler[v]
    BY <1>3, <1>t DEF PayoutMark, OnRows, TypeOK
  <2>2. \A v \in Withdrawals : Exists(v)' = Exists(v)
    BY <1>s, <2>1 DEF Exists
  <2>3. OnRows'
    BY <1>t, <2>1, <2>2 DEF OnRows, Aimed
  <2>4. NoMoney
    BY <2>1, <2>2 DEF NoMoney
  <2> QED
    BY <2>3, <2>4
<1>4. ASSUME NEW w \in Withdrawals, SettleSent(w)
      PROVE  Good
  <2>1. UNCHANGED <<request, savings, refunds, admin, handler>>
    BY <1>4 DEF SettleSent, Deliver
  <2>2. CASE Settleable(w)
    <3>1. Exists(w) /\ SetStatus(w, "sent")
      BY <1>4, <2>2 DEF SettleSent, Settleable, Exists
    <3>2. \A v \in Withdrawals : Exists(v)' = Exists(v)
      BY <1>s, <3>1 DEF Exists
    <3>3. OnRows'
      BY <1>t, <2>1, <3>2 DEF OnRows, Aimed
    <3>4. NoMoney
      BY <2>1, <3>2 DEF NoMoney
    <3> QED
      BY <3>3, <3>4
  <2>3. CASE ~ Settleable(w)
    <3>1. UNCHANGED status
      BY <1>4, <2>3 DEF SettleSent
    <3> QED
      BY <2>1, <3>1 DEF OnRows, Exists, NoMoney
  <2> QED
    BY <2>2, <2>3
<1>5. ASSUME NEW w \in Withdrawals, SettleFailed(w)
      PROVE  Good
  <2>1. UNCHANGED <<request, admin, handler>>
    BY <1>5 DEF SettleFailed, Deliver
  <2>2. CASE Settleable(w)
    <3>1. Exists(w) /\ SetStatus(w, "failed") /\ CreditSavings(w)
      BY <1>5, <2>2 DEF SettleFailed, Settleable, Exists
    <3>2. Refunds(w)
      BY <1>s, <2>1, <3>1 DEF Refunds, Exists
    <3>3. \A v \in Withdrawals : v # w => refunds'[v] = refunds[v]
      BY <1>t, <3>1 DEF CreditSavings, TypeOK
    <3>4. OnRows'
      BY <1>t, <2>1, <3>1, <3>2, <3>3 DEF OnRows, Aimed, Refunds
    <3> QED
      BY <3>2, <3>4
  <2>3. CASE ~ Settleable(w)
    <3>1. UNCHANGED <<status, savings, refunds>>
      BY <1>5, <2>3 DEF SettleFailed
    <3> QED
      BY <2>1, <3>1 DEF OnRows, Exists, NoMoney
  <2> QED
    BY <2>2, <2>3
<1>6. ASSUME NEW w \in Withdrawals, NEW p \in Payers,
             BankPays(w, p) \/ BankFails(w, p) \/ BankReverses(w, p)
      PROVE  Good
  BY <1>0, <1>6 DEF BankPays, BankFails, BankReverses
<1>7. ASSUME NEW a \in Admins, NEW w \in Withdrawals, ApproveRead(a, w) \/ RejectRead(a, w)
      PROVE  Good
  <2>1. Exists(w) /\ UNCHANGED <<rows, handler>> /\ \E pc : Working(a, w, pc)
    BY <1>7 DEF ApproveRead, RejectRead, Exists
  <2>2. \A b \in Admins : admin'[b].pc # "idle" => Exists(admin'[b].w)
    BY <1>t, <2>1, AdminWorking DEF OnRows
  <2> QED
    BY <2>1, <2>2 DEF OnRows, Exists, NoMoney, rows
<1>8. ASSUME NEW a \in Admins, NEW s \in {"approved", "pending", "sent"},
             ~ At(a, "idle"),
             SetStatus(admin[a].w, s) \/ UNCHANGED status,
             Finish(a) \/ Go(a, "send"),
             UNCHANGED <<request, savings, refunds, handler>>
      PROVE  Good
  <2>1. admin[a].w \in Withdrawals /\ Exists(admin[a].w)
    BY <1>8, <1>t DEF Aimed, At, OnRows
  <2>2. \A v \in Withdrawals : Exists(v)' = Exists(v)
    BY <1>8, <1>s, <2>1 DEF Exists
  <2>3. \A b \in Admins : admin'[b].pc # "idle" => admin[b].pc # "idle" /\ admin'[b].w = admin[b].w
    BY <1>8, <1>t, AdminFinish, AdminGo DEF At
  <2> QED
    BY <1>8, <1>t, <2>2, <2>3 DEF OnRows, Aimed, NoMoney
<1>9. ASSUME NEW a \in Admins, ApproveLock(a) \/ ApproveRollback(a) \/ ApproveMark(a)
      PROVE  Good
  BY <1>8, <1>9 DEF ApproveLock, ApproveRollback, ApproveMark, At
<1>10. ASSUME NEW a \in Admins, NEW moved, NEW believed, Broadcast(a, moved, believed)
       PROVE  Good
  <2>1. UNCHANGED <<rows, handler>> /\ ~ At(a, "idle") /\ \E pc : Go(a, pc)
    BY <1>10 DEF Broadcast, At
  <2>2. \A b \in Admins : admin'[b].pc # "idle" => admin[b].pc # "idle" /\ admin'[b].w = admin[b].w
    BY <1>t, <2>1, AdminGo DEF At
  <2> QED
    BY <1>t, <2>1, <2>2 DEF OnRows, Aimed, Exists, NoMoney, rows
<1>11. ASSUME NEW a \in Admins, Approve(a)
       PROVE  Good
  BY <1>9, <1>10, <1>11 DEF Approve, SendOk, SendRefused, SendLost, SendGarbled
<1>12. ASSUME NEW a \in Admins, RejectRefund(a)
       PROVE  Good
  <2> DEFINE w == admin[a].w
  <2>1. w \in Withdrawals /\ Exists(w) /\ CreditSavings(w) /\ UNCHANGED <<request, handler>>
    BY <1>12, <1>t DEF RejectRefund, Aimed, At, OnRows
  <2>2. SetStatus(w, "rejected") \/ UNCHANGED status
    BY <1>12 DEF RejectRefund
  <2> HIDE DEF w
  <2>3. \A v \in Withdrawals : Exists(v)' = Exists(v)
    BY <1>s, <2>1, <2>2 DEF Exists
  <2>4. Refunds(w)
    BY <2>1, <2>3 DEF Refunds
  <2>5. \A v \in Withdrawals : v # w => refunds'[v] = refunds[v]
    BY <1>t, <2>1 DEF CreditSavings, TypeOK
  <2>6. \A b \in Admins : admin'[b].pc # "idle" => admin[b].pc # "idle" /\ admin'[b].w = admin[b].w
    BY <1>12, <1>t, AdminFinish DEF RejectRefund
  <2>7. OnRows'
    BY <1>t, <2>1, <2>3, <2>5, <2>6 DEF OnRows, Aimed
  <2> QED
    BY <2>1, <2>4, <2>7
<1>13. ASSUME NEW a \in Admins, AbortAdmin(a)
       PROVE  Good
  BY <1>8, <1>13 DEF AbortAdmin, rows
<1>14. CASE UNCHANGED vars
  BY <1>0, <1>14 DEF vars, rows
<1> QED
  BY <1>1, <1>2, <1>3, <1>4, <1>5, <1>6, <1>7, <1>11, <1>12, <1>13, <1>14
     DEF Next, Customer, Payout, Provider, Webhook

LEMMA InitAccounted == Init => OnRows /\ Accounted
<1> SUFFICES ASSUME Init PROVE OnRows /\ Accounted
  OBVIOUS
<1>1. OnRows
  BY DEF Init, OnRows, Exists, Idle, Done
<1>2. ASSUME NEW u \in Users
      PROVE  Sum(Share(u), Withdrawals) = 0
  <2>1. \A w \in Withdrawals : Share(u)[w] = 0
    BY DEF Init, Share, Exists
  <2>2. Numbers(Share(u), Withdrawals) /\ IsFiniteSet(Withdrawals)
    BY <2>1, WithdrawalsAssumption DEF Numbers
  <2>3. Sum(Share(u), Withdrawals) = Sum(Share(u), {})
    BY <2>1, <2>2, SumZero
  <2> QED
    BY <2>3, SumEmpty
<1> QED
  BY <1>1, <1>2, WithdrawalsAssumption DEF Init, Accounted

(* No interleaving of requests, webhooks and rejections loses an update of  *)
(* a wallet, and none makes one twice: whatever the outside does, a wallet  *)
(* is what it started with less what its rows reserved plus what was        *)
(* refunded.                                                                *)
THEOREM NothingLost == Spec => []SavingsAccounted
<1>1. TypeInv /\ TypeInv' /\ KindInv /\ OnRows /\ Accounted /\ [Next]_vars => (OnRows /\ Accounted)'
  BY RowsStep, NoMoneyKeeps, ReservesKeeps, RefundsKeeps DEF TypeInv, KindInv
<1>2. TypeInv /\ Accounted => SavingsAccounted
  BY AccountedMeans DEF TypeInv
<1> QED
  BY <1>1, <1>2, InitAccounted, TypeInvariant, KindInvariant, PTL DEF Spec

-----------------------------------------------------------------------------
(* A withdrawal is paid once or refunded once, and the wallet implements   *)
(* WithdrawalContract, for any number of users, withdrawals and providers, *)
(* when one admin request runs at a time, no answer of a provider is lost  *)
(* or garbled, no payout settles before its handler returned, none comes   *)
(* back, and admins reject USDT rows only.  Handlers may die at any step   *)
(* and webhooks may repeat.  Withdrawals' violation runs show that none of *)
(* these conditions can go.                                                *)

Calm ==
    /\ Faults \subseteq {"abort", "duplicate"}
    /\ \A a, b \in Admins : a = b

(* A USDT row: no money moved before the broadcast, and none comes back     *)
(* after it.                                                                *)
UsdtOnce(w) ==
    request[w].channel = "usdt" =>
        /\ status[w] # "failed"
        /\ paid[w] \in {0, 1}
        /\ status[w] \in {"absent", "pending", "rejected"} => paid[w] = 0
        /\ refunds[w] = IF status[w] = "rejected" THEN 1 ELSE 0
        /\ \A a \in Admins :
              admin[a].w = w /\ admin[a].pc \in {"send", "rollback"} => paid[w] = 0

(* RejectWithdrawal's early read is still true when it refunds. *)
RejectSure ==
    \A a \in Admins : admin[a].pc = "refund" =>
        request[admin[a].w].channel = "usdt" /\ status[admin[a].w] = "pending"

Bank(w, s) == \E p \in Payers : bank[w][p] = s

(* A bank row: one provider took it at most, and what it decided is what    *)
(* the row will learn.                                                      *)
BankOnce(w) ==
    request[w].channel = "ngn_bank" =>
        /\ status[w] = "absent" \/ handler[w].pc = "calling" =>
              \A p \in Payers : bank[w][p] = "none"
        /\ status[w] = "absent" => handler[w].pc = "idle"
        /\ handler[w].pc # "idle" =>
              \A p \in Payers : bank[w][p] \in {"none", "processing"}
        /\ \A p, q \in Payers : bank[w][p] # "none" /\ bank[w][q] # "none" => p = q
        /\ paid[w] \in {0, 1} /\ refunds[w] \in {0, 1}
        /\ paid[w] = 1 => Bank(w, "paid")
        /\ refunds[w] = 1 => Bank(w, "failed") /\ status[w] = "failed"
        /\ <<w, "failed">> \in hooks => Bank(w, "failed")

OnceInv ==
    LockInv /\ RejectSure /\ \A w \in Withdrawals : UsdtOnce(w) /\ BankOnce(w)

-----------------------------------------------------------------------------
OnlyRow(w) ==
    /\ request' = request
    /\ \A v \in Withdrawals : v # w =>
          /\ status'[v] = status[v] /\ paid'[v] = paid[v] /\ refunds'[v] = refunds[v]
          /\ handler'[v] = handler[v] /\ bank'[v] = bank[v]
          /\ <<v, "failed">> \in hooks' => <<v, "failed">> \in hooks

Sender(a, w) == admin[a].w = w /\ admin[a].pc \in {"send", "rollback"}

NoNewSender(w) ==
    \A a \in Admins, v \in Withdrawals : v # w /\ Sender(a, v)' => Sender(a, v)

(* A step about row w leaves every other row as good as it was. *)
LEMMA RowStep ==
  ASSUME OnceInv, NEW w \in Withdrawals, OnlyRow(w), NoNewSender(w),
         UsdtOnce(w)', BankOnce(w)'
  PROVE  (\A v \in Withdrawals : UsdtOnce(v) /\ BankOnce(v))'
<1> SUFFICES ASSUME NEW v \in Withdrawals, v # w PROVE UsdtOnce(v)' /\ BankOnce(v)'
  OBVIOUS
<1>1. UsdtOnce(v) /\ BankOnce(v)
  BY DEF OnceInv
<1>2. UsdtOnce(v)'
  BY <1>1 DEF UsdtOnce, OnlyRow, NoNewSender, Sender
<1>3. BankOnce(v)'
  BY <1>1 DEF BankOnce, Bank, OnlyRow
<1> QED
  BY <1>2, <1>3

LEMMA OnceInit == Init => RejectSure /\ \A w \in Withdrawals : UsdtOnce(w) /\ BankOnce(w)
  BY DEF Init, RejectSure, UsdtOnce, BankOnce, Bank, Idle, Done

(* Customers, payouts, providers and webhooks: the admins stand still. *)
LEMMA RejectStays ==
  ASSUME OnceInv, NEW w \in Withdrawals, OnlyRow(w), UNCHANGED admin,
         \/ request[w].channel = "ngn_bank" \/ status[w] = "absent"
         \/ status'[w] = status[w]
  PROVE  RejectSure' /\ NoNewSender(w)
<1>1. \A a \in Admins : admin[a].pc = "refund" => admin[a].w \in Withdrawals
  BY DEF OnceInv, LockInv, KindInv, TypeInv, Aimed
<1> QED
  BY <1>1 DEF OnceInv, RejectSure, OnlyRow, NoNewSender, Sender

LEMMA RowOfStep ==
  ASSUME OnceInv, NEW w \in Withdrawals,
         \/ Customer(w) \/ Payout(w) \/ AbortPayout(w) \/ Webhook(w)
         \/ \E p \in Payers : Provider(w, p) \/ BankReverses(w, p)
  PROVE  OnlyRow(w) /\ UNCHANGED admin
<1>t. TypeOK
  BY DEF OnceInv, LockInv, KindInv, TypeInv
<1>1. CASE Customer(w)
  BY <1>1, <1>t DEF Customer, Withdraw, WithdrawNGN, SetStatus, world, OnlyRow, TypeOK
<1>2. CASE Payout(w) \/ AbortPayout(w)
  BY <1>2, <1>t DEF Payout, PayoutAccepted, PayoutRefused, PayoutReplyLost, PayoutMark,
     AbortPayout, FailOver, SetStatus, rows, world, OnlyRow, TypeOK
<1>3. CASE \E p \in Payers : Provider(w, p) \/ BankReverses(w, p)
  BY <1>3, <1>t DEF Provider, BankPays, BankFails, BankReverses, Notify, rows,
     OnlyRow, TypeOK
<1>4. CASE Webhook(w)
  BY <1>4, <1>t DEF Webhook, SettleSent, SettleFailed, Deliver, SetStatus,
     CreditSavings, OnlyRow, TypeOK
<1> QED
  BY <1>1, <1>2, <1>3, <1>4

-----------------------------------------------------------------------------
(* Each step about row w keeps UsdtOnce(w) and BankOnce(w). *)
LEMMA CustomerOnce ==
  ASSUME OnceInv, NEW w \in Withdrawals, Customer(w)
  PROVE  UsdtOnce(w)' /\ BankOnce(w)'
<1>1. TypeOK /\ UsdtOnce(w) /\ BankOnce(w)
  BY DEF OnceInv, LockInv, KindInv, TypeInv
<1>2. UsdtOnce(w)'
  BY <1>1 DEF Customer, Withdraw, WithdrawNGN, SetStatus, world, TypeOK, UsdtOnce
<1>3. BankOnce(w)'
  BY <1>1 DEF Customer, Withdraw, WithdrawNGN, SetStatus, world, TypeOK, BankOnce, Bank
<1> QED
  BY <1>2, <1>3

LEMMA PayoutOnce ==
  ASSUME OnceInv, Calm, NEW w \in Withdrawals, Payout(w) \/ AbortPayout(w)
  PROVE  UsdtOnce(w)' /\ BankOnce(w)'
<1>1. TypeOK /\ BankOnce(w) /\ request[w].channel = "ngn_bank"
  BY DEF OnceInv, LockInv, KindInv, TypeInv, BankOnly, Payout, PayoutAccepted,
         PayoutRefused, PayoutReplyLost, PayoutMark, AbortPayout
<1>2. UNCHANGED <<request, paid, refunds, hooks>>
  BY DEF Payout, PayoutAccepted, PayoutRefused, PayoutReplyLost, PayoutMark,
         AbortPayout, rows, world
<1>3. UsdtOnce(w)'
  BY <1>1, <1>2 DEF UsdtOnce
<1>4. CASE PayoutAccepted(w)
  <2>1. /\ handler'[w].pc = "accepted" /\ UNCHANGED status
        /\ \A p \in Payers : bank'[w][p] =
              IF p = handler[w].at THEN "processing" ELSE bank[w][p]
    BY <1>1, <1>4 DEF PayoutAccepted, rows, TypeOK
  <2>2. \A p \in Payers : bank[w][p] = "none"
    BY <1>1, <1>4 DEF PayoutAccepted, BankOnce
  <2>3. status[w] # "absent" /\ paid[w] # 1 /\ refunds[w] # 1 /\ <<w, "failed">> \notin hooks
    BY <1>1, <1>4, <2>2 DEF PayoutAccepted, BankOnce, Bank
  <2> QED
    BY <1>1, <1>2, <1>3, <2>1, <2>2, <2>3 DEF BankOnce
<1>5. CASE PayoutRefused(w) \/ AbortPayout(w)
  <2>1. /\ UNCHANGED <<status, bank>> /\ handler[w].pc # "idle"
        /\ handler'[w].pc = "idle" \/ handler[w].pc = "calling"
    BY <1>1, <1>5
       DEF PayoutRefused, AbortPayout, FailOver, Done, rows, world, TypeOK
  <2> QED
    BY <1>1, <1>2, <1>3, <2>1 DEF BankOnce, Bank
<1>6. CASE PayoutReplyLost(w)
  BY <1>6 DEF PayoutReplyLost, Calm
<1>7. CASE PayoutMark(w)
  <2>1. /\ UNCHANGED bank /\ handler[w].pc = "accepted"
        /\ handler'[w].pc = "idle" /\ status'[w] = "approved"
    BY <1>1, <1>7 DEF PayoutMark, SetStatus, Done, world, TypeOK
  <2>2. status[w] # "absent" /\ refunds[w] # 1
    BY <1>1, <2>1 DEF BankOnce, Bank
  <2> QED
    BY <1>1, <1>2, <1>3, <2>1, <2>2 DEF BankOnce, Bank
<1> QED
  BY <1>4, <1>5, <1>6, <1>7 DEF Payout

LEMMA ProviderOnce ==
  ASSUME OnceInv, Calm, NEW w \in Withdrawals,
         \E p \in Payers : Provider(w, p) \/ BankReverses(w, p)
  PROVE  UsdtOnce(w)' /\ BankOnce(w)'
<1>0. PICK p \in Payers : BankPays(w, p) \/ BankFails(w, p)
  BY DEF Provider, BankReverses, Calm
<1>1. /\ TypeOK /\ BankOnce(w)
      /\ request[w].channel = "ngn_bank" /\ request'[w] = request[w]
  BY <1>0 DEF OnceInv, LockInv, KindInv, TypeInv, BankOnly, BankPays, BankFails, rows
<1>2. bank[w][p] = "processing" /\ handler[w].pc = "idle" /\ status[w] # "absent"
  BY <1>0, <1>1 DEF BankPays, BankFails, MaySettle, Calm, BankOnce
<1>3. \A q \in Payers : q # p => bank[w][q] = "none"
  BY <1>1, <1>2 DEF BankOnce
<1>4. paid[w] = 0 /\ refunds[w] = 0 /\ <<w, "failed">> \notin hooks
  BY <1>1, <1>2, <1>3 DEF BankOnce, Bank
<1>5. /\ UNCHANGED <<status, handler, refunds>>
      /\ \A q \in Payers : q # p => bank'[w][q] = bank[w][q]
  BY <1>0, <1>1 DEF BankPays, BankFails, rows, TypeOK
<1>6. \/ /\ bank'[w][p] = "paid" /\ paid'[w] = 1
         /\ <<w, "failed">> \notin hooks'
      \/ bank'[w][p] = "failed" /\ paid'[w] = 0
  BY <1>0, <1>1, <1>4 DEF BankPays, BankFails, Notify, TypeOK
<1> QED
  BY <1>1, <1>2, <1>3, <1>4, <1>5, <1>6 DEF UsdtOnce, BankOnce, Bank

LEMMA WebhookOnce ==
  ASSUME OnceInv, NEW w \in Withdrawals, Webhook(w)
  PROVE  UsdtOnce(w)' /\ BankOnce(w)'
<1>1. /\ TypeOK /\ BankOnce(w)
      /\ request[w].channel = "ngn_bank" /\ request'[w] = request[w]
  BY DEF OnceInv, LockInv, KindInv, TypeInv, BankOnly, Webhook, SettleSent,
         SettleFailed, Deliver, Outcomes
<1>2. UNCHANGED <<bank, handler, paid>> /\ hooks' \subseteq hooks
  BY DEF Webhook, SettleSent, SettleFailed, Deliver
<1>3. CASE SettleSent(w) /\ Settleable(w)
  <2>1. status'[w] = "sent" /\ UNCHANGED refunds /\ status[w] \in {"pending", "approved"}
    BY <1>1, <1>3 DEF SettleSent, SetStatus, Settleable, TypeOK
  <2> QED
    BY <1>1, <1>2, <2>1 DEF UsdtOnce, BankOnce, Bank
<1>4. CASE SettleFailed(w) /\ Settleable(w)
  <2>1. /\ status'[w] = "failed" /\ refunds'[w] = refunds[w] + 1
        /\ status[w] \in {"pending", "approved"} /\ <<w, "failed">> \in hooks
    BY <1>1, <1>4 DEF SettleFailed, SetStatus, CreditSavings, Deliver, Settleable, TypeOK
  <2>2. refunds'[w] = 1 /\ Bank(w, "failed")
    BY <1>1, <2>1 DEF BankOnce
  <2> QED
    BY <1>1, <1>2, <2>1, <2>2 DEF UsdtOnce, BankOnce, Bank
<1>5. CASE ~ Settleable(w)
  <2>1. UNCHANGED <<status, refunds>>
    BY <1>5 DEF Webhook, SettleSent, SettleFailed
  <2> QED
    BY <1>1, <1>2, <2>1 DEF UsdtOnce, BankOnce, Bank
<1> QED
  BY <1>3, <1>4, <1>5 DEF Webhook

-----------------------------------------------------------------------------
(* The admin's steps: the row an admin works on is nobody else's.           *)
LEMMA FinishOnce ==
  ASSUME OnceInv, Calm, NEW a \in Admins, Finish(a)
  PROVE  RejectSure' /\ \A w \in Withdrawals : NoNewSender(w)
<1>1. TypeOK
  BY DEF OnceInv, LockInv, KindInv, TypeInv
<1>2. \A b \in Admins : admin'[b].pc = "idle"
  BY <1>1, AdminFinish DEF Calm
<1> QED
  BY <1>2 DEF RejectSure, NoNewSender, Sender

LEMMA BankAside ==
  ASSUME OnceInv, NEW w \in Withdrawals, request[w].channel = "usdt", request' = request
  PROVE  BankOnce(w)'
  BY DEF BankOnce

Rows == \A w \in Withdrawals : UsdtOnce(w) /\ BankOnce(w)

LEMMA ReadOnce ==
  ASSUME OnceInv, Calm, NEW a \in Admins, NEW w \in Withdrawals,
         ApproveRead(a, w) \/ RejectRead(a, w)
  PROVE  RejectSure' /\ Rows'
<1>1. TypeOK /\ UNCHANGED <<rows, handler, world>>
  BY DEF OnceInv, LockInv, KindInv, TypeInv, ApproveRead, RejectRead
<1>2. status[w] = "pending" /\ request[w].channel = "usdt"
  BY DEF ApproveRead, RejectRead, Calm
<1>3. PICK pc \in {"lock", "refund"} : Working(a, w, pc)
  BY DEF ApproveRead, RejectRead
<1>4. admin'[a].w = w /\ admin'[a].pc = pc /\ \A b \in Admins : b = a
  BY <1>1, <1>3, AdminWorking DEF Calm
<1>5. RejectSure'
  BY <1>1, <1>2, <1>4 DEF RejectSure, rows
<1>6. ASSUME NEW v \in Withdrawals PROVE UsdtOnce(v)' /\ BankOnce(v)'
  BY <1>1, <1>4 DEF OnceInv, UsdtOnce, BankOnce, Bank, rows, world
<1> QED
  BY <1>5, <1>6 DEF Rows

LEMMA ApproveOnce ==
  ASSUME OnceInv, Calm, NEW a \in Admins, Approve(a)
  PROVE  RejectSure' /\ Rows'
<1>1. TypeOK /\ Aimed /\ UsdtOnly /\ ApproveExclusive
  BY DEF OnceInv, LockInv, KindInv, TypeInv
<1>w. PICK w \in Withdrawals : w = admin[a].w
  BY <1>1 DEF Approve, ApproveLock, SendOk, SendRefused, SendLost, SendGarbled,
       Broadcast, ApproveRollback, ApproveMark, At, Aimed
<1>2. /\ w = admin[a].w /\ request[w].channel = "usdt"
      /\ UsdtOnce(w) /\ UNCHANGED <<request, refunds, handler, bank, hooks>>
  BY <1>1, <1>w DEF Approve, ApproveLock, SendOk, SendRefused, SendLost, SendGarbled,
       Broadcast, ApproveRollback, ApproveMark, At, UsdtOnly, Approving,
       OnceInv, rows, world
<1>3. BankOnce(w)'
  BY <1>2, BankAside
<1>4. \A b \in Admins : b = a
  BY DEF Calm
<1>5. CASE ApproveLock(a) /\ LockWon(w)
  <2>1. /\ status[w] = "pending" /\ status'[w] = "approved" /\ UNCHANGED paid
        /\ \A v \in Withdrawals : v # w => status'[v] = status[v]
    BY <1>1, <1>2, <1>5 DEF ApproveLock, SetStatus, LockWon, world, TypeOK
  <2>2. admin'[a].w = w /\ admin'[a].pc = "send"
    BY <1>1, <1>2, <1>5, AdminGo DEF ApproveLock
  <2>3. OnlyRow(w) /\ NoNewSender(w) /\ RejectSure'
    BY <1>2, <1>4, <2>1, <2>2 DEF OnlyRow, NoNewSender, Sender, RejectSure
  <2>4. UsdtOnce(w)'
    BY <1>2, <2>1 DEF UsdtOnce
  <2> QED
    BY <1>2, <1>3, <2>3, <2>4, RowStep DEF Rows
<1>6. CASE ApproveLock(a) /\ ~ LockWon(w)
  <2>1. Finish(a) /\ UNCHANGED <<status, paid>>
    BY <1>2, <1>6 DEF ApproveLock, world
  <2>2. RejectSure' /\ NoNewSender(w)
    BY <1>2, <2>1, FinishOnce
  <2>3. OnlyRow(w) /\ UsdtOnce(w)'
    BY <1>1, <1>2, <1>4, <2>1, AdminFinish DEF OnlyRow, UsdtOnce
  <2> QED
    BY <1>2, <1>3, <2>2, <2>3, RowStep DEF Rows
<1>7. ASSUME NEW moved \in BOOLEAN, NEW believed \in BOOLEAN, moved = believed,
             Broadcast(a, moved, believed)
      PROVE RejectSure' /\ Rows'
  <2>1. status[w] = "approved" /\ paid[w] = 0
    BY <1>1, <1>2, <1>7 DEF Broadcast, At, ApproveExclusive, Held, UsdtOnce
  <2>2. /\ UNCHANGED status
        /\ paid'[w] = (IF moved THEN 1 ELSE 0)
        /\ \A v \in Withdrawals : v # w => paid'[v] = paid[v]
    BY <1>1, <1>2, <1>7, <2>1 DEF Broadcast, rows, TypeOK
  <2>3. admin'[a].w = w /\ admin'[a].pc = IF moved THEN "mark" ELSE "rollback"
    BY <1>1, <1>2, <1>7, AdminGo DEF Broadcast
  <2>4. OnlyRow(w) /\ NoNewSender(w) /\ RejectSure'
    BY <1>2, <1>4, <2>2, <2>3 DEF OnlyRow, NoNewSender, Sender, RejectSure
  <2>5. UsdtOnce(w)'
    BY <1>2, <1>4, <2>1, <2>2, <2>3 DEF UsdtOnce
  <2> QED
    BY <1>2, <1>3, <2>4, <2>5, RowStep DEF Rows
<1>8. CASE ApproveRollback(a) \/ ApproveMark(a)
  <2>1. status[w] = "approved" /\ (admin[a].pc = "rollback" => paid[w] = 0)
    BY <1>1, <1>2, <1>8
       DEF ApproveRollback, ApproveMark, At, ApproveExclusive, Held, UsdtOnce
  <2>2. /\ \/ status'[w] = "pending" /\ admin[a].pc = "rollback"
           \/ status'[w] = "sent"
        /\ UNCHANGED paid
        /\ \A v \in Withdrawals : v # w => status'[v] = status[v]
    BY <1>1, <1>2, <1>8 DEF ApproveRollback, ApproveMark, At, SetStatus, world, TypeOK
  <2>3. Finish(a)
    BY <1>8 DEF ApproveRollback, ApproveMark
  <2>4. RejectSure' /\ NoNewSender(w) /\ admin'[a].pc = "idle"
    BY <1>1, <1>2, <2>3, FinishOnce, AdminFinish
  <2>5. OnlyRow(w) /\ UsdtOnce(w)'
    BY <1>2, <1>4, <2>1, <2>2, <2>4 DEF OnlyRow, UsdtOnce
  <2> QED
    BY <1>2, <1>3, <2>4, <2>5, RowStep DEF Rows
<1> QED
  BY <1>5, <1>6, <1>7, <1>8
     DEF Approve, SendOk, SendRefused, SendLost, SendGarbled, Calm

LEMMA RejectOnce ==
  ASSUME OnceInv, Calm, NEW a \in Admins, RejectRefund(a)
  PROVE  RejectSure' /\ Rows'
<1>1. TypeOK /\ Aimed
  BY DEF OnceInv, LockInv, KindInv, TypeInv
<1>w. PICK w \in Withdrawals : w = admin[a].w
  BY <1>1 DEF RejectRefund, At, Aimed
<1>2. /\ w = admin[a].w /\ request[w].channel = "usdt" /\ status[w] = "pending"
      /\ UsdtOnce(w) /\ UNCHANGED <<request, paid, handler, bank, hooks>> /\ Finish(a)
  BY <1>1, <1>w DEF RejectRefund, At, OnceInv, RejectSure, world
<1>3. /\ status'[w] = "rejected" /\ refunds'[w] = refunds[w] + 1
      /\ \A v \in Withdrawals : v # w => status'[v] = status[v] /\ refunds'[v] = refunds[v]
  BY <1>1, <1>2 DEF RejectRefund, LockWon, SetStatus, CreditSavings, TypeOK
<1>4. RejectSure' /\ NoNewSender(w) /\ \A b \in Admins : admin'[b].pc = "idle"
  BY <1>1, <1>2, FinishOnce, AdminFinish DEF Calm
<1>5. BankOnce(w)'
  BY <1>2, BankAside
<1>6. OnlyRow(w) /\ UsdtOnce(w)'
  BY <1>2, <1>3, <1>4 DEF OnlyRow, UsdtOnce
<1> QED
  BY <1>2, <1>4, <1>5, <1>6, RowStep DEF Rows

LEMMA AbortOnce ==
  ASSUME OnceInv, Calm, NEW a \in Admins, AbortAdmin(a)
  PROVE  RejectSure' /\ Rows'
<1>1. TypeOK /\ Finish(a) /\ UNCHANGED <<rows, handler, world>>
  BY DEF AbortAdmin, OnceInv, LockInv, KindInv, TypeInv
<1>2. RejectSure' /\ \A b \in Admins : admin'[b].pc = "idle"
  BY <1>1, FinishOnce, AdminFinish DEF Calm
<1>3. ASSUME NEW v \in Withdrawals PROVE UsdtOnce(v)' /\ BankOnce(v)'
  BY <1>1, <1>2 DEF OnceInv, UsdtOnce, BankOnce, Bank, rows, world
<1> QED
  BY <1>2, <1>3 DEF Rows

-----------------------------------------------------------------------------
LEMMA OnceStep ==
  ASSUME Calm, OnceInv, [Next]_vars
  PROVE  OnceInv'
<1>1. LockInv'
  BY TypeStep, KindStep, LockStep DEF OnceInv, LockInv, KindInv
<1>2. ASSUME NEW w \in Withdrawals,
             \/ Customer(w) \/ Payout(w) \/ AbortPayout(w) \/ Webhook(w)
             \/ \E p \in Payers : Provider(w, p) \/ BankReverses(w, p)
      PROVE RejectSure' /\ Rows'
  <2>1. OnlyRow(w) /\ UNCHANGED admin
    BY <1>2, RowOfStep
  <2>2. UsdtOnce(w)' /\ BankOnce(w)'
    BY <1>2, CustomerOnce, PayoutOnce, ProviderOnce, WebhookOnce
  <2>3. \/ request[w].channel = "ngn_bank" \/ status[w] = "absent"
    BY <1>2 DEF Customer, Withdraw, WithdrawNGN, Payout, PayoutAccepted, PayoutRefused,
       PayoutReplyLost, PayoutMark, AbortPayout, Webhook, SettleSent, SettleFailed,
       Deliver, Outcomes, Provider, BankPays, BankFails, BankReverses, OnceInv,
       LockInv, KindInv, BankOnly
  <2>4. RejectSure' /\ NoNewSender(w)
    BY <2>1, <2>3, RejectStays
  <2> QED
    BY <2>1, <2>2, <2>4, RowStep DEF Rows
<1>3. ASSUME NEW a \in Admins,
             \/ Approve(a) \/ RejectRefund(a) \/ AbortAdmin(a)
             \/ \E w \in Withdrawals : ApproveRead(a, w) \/ RejectRead(a, w)
      PROVE RejectSure' /\ Rows'
  BY <1>3, ApproveOnce, RejectOnce, AbortOnce, ReadOnce
<1>4. ASSUME UNCHANGED vars PROVE RejectSure' /\ Rows'
  <2>1. RejectSure'
    BY <1>4 DEF vars, OnceInv, RejectSure
  <2>2. ASSUME NEW w \in Withdrawals PROVE UsdtOnce(w)' /\ BankOnce(w)'
    BY <1>4 DEF vars, OnceInv, UsdtOnce, BankOnce, Bank
  <2> QED
    BY <2>1, <2>2 DEF Rows
<1>5. RejectSure' /\ Rows'
  <2>1. CASE Next
    BY <2>1, <1>2, <1>3, Zenon DEF Next
  <2> QED
    BY <2>1, <1>4
<1> QED
  BY <1>1, <1>5 DEF OnceInv, Rows

LEMMA OnceInvariant ==
  ASSUME Calm
  PROVE  Spec => []OnceInv
<1>1. Init => OnceInv
  BY TypeInit, KindInit, LockInit, OnceInit DEF OnceInv, LockInv, KindInv
<1>2. OnceInv /\ [Next]_vars => OnceInv'
  BY OnceStep
<1> QED
  BY <1>1, <1>2, PTL DEF Spec

(* The money of a withdrawal goes out once or back once, never both. *)
THEOREM PaidOrRefundedOnce ==
  ASSUME Calm
  PROVE  Spec => []SettledOnce
<1>1. ASSUME OnceInv PROVE SettledOnce
  <2> SUFFICES ASSUME NEW w \in Withdrawals PROVE paid[w] + refunds[w] <= 1
    BY DEF SettledOnce
  <2>1. TypeOK /\ UsdtOnce(w) /\ BankOnce(w)
    BY <1>1 DEF OnceInv, LockInv, KindInv, TypeInv
  <2>2. CASE request[w].channel = "usdt"
    BY <2>1, <2>2 DEF UsdtOnce
  <2>3. CASE request[w].channel = "ngn_bank"
    BY <2>1, <2>3 DEF BankOnce, Bank
  <2> QED
    BY <2>1, <2>2, <2>3 DEF TypeOK, Channels
<1> QED
  BY <1>1, OnceInvariant, PTL

-----------------------------------------------------------------------------
(* The refinement: one step of the wallet is one step of the contract about *)
(* the same withdrawal, or leaves request, savings and outcomes alone.      *)
outcomes == [w \in Withdrawals |-> Outcome(w)]
Invisible == UNCHANGED <<request, savings, outcomes>>

LEMMA RefineInit == Init => Contract!Init
  BY DEF Init, Contract!Init, Outcome

LEMMA SameOutcomes ==
  ASSUME TypeOK, UNCHANGED <<request, savings, paid, refunds>>,
         \A w \in Withdrawals : (status[w] = "absent") = (status'[w] = "absent")
  PROVE  Invisible
<1>1. \A w \in Withdrawals : Outcome(w)' = Outcome(w)
  BY DEF Outcome
<1> QED
  BY <1>1 DEF Invisible, outcomes

(* How one row's outcome moves is how the contract's moves. *)
LEMMA Moves ==
  ASSUME TypeOK, NEW w \in Withdrawals, OnlyRow(w), NEW to, Outcome(w)' = to
  PROVE  outcomes' = [outcomes EXCEPT ![w] = to]
<1>1. \A v \in Withdrawals : v # w => Outcome(v)' = Outcome(v)
  BY DEF OnlyRow, Outcome
<1> QED
  BY <1>1 DEF outcomes

LEMMA RefineReserve ==
  ASSUME OnceInv, NEW w \in Withdrawals, Customer(w)
  PROVE  Contract!Reserve(w)
<1>1. TypeOK /\ UsdtOnce(w) /\ BankOnce(w) /\ OnlyRow(w)
  BY RowOfStep DEF OnceInv, LockInv, KindInv, TypeInv
<1>2. /\ status[w] = "absent" /\ status'[w] = "pending" /\ UNCHANGED <<request, paid, refunds>>
      /\ HasFunds(w) /\ DebitSavings(w)
  BY <1>1 DEF Customer, Withdraw, WithdrawNGN, SetStatus, world, TypeOK
<1>3. paid[w] = 0 /\ refunds[w] = 0
  <2>1. CASE request[w].channel = "usdt"
    BY <1>1, <1>2, <2>1 DEF UsdtOnce
  <2>2. CASE request[w].channel = "ngn_bank"
    BY <1>1, <1>2, <2>2 DEF BankOnce, Bank
  <2> QED
    BY <1>1, <2>1, <2>2 DEF TypeOK, Channels
<1>4. Outcome(w) = "none" /\ Outcome(w)' = "reserved"
  BY <1>2, <1>3 DEF Outcome
<1>5. outcomes' = [outcomes EXCEPT ![w] = "reserved"] /\ outcomes[w] = "none"
  BY <1>1, <1>4, Moves DEF outcomes
<1> QED
  BY <1>2, <1>5 DEF Contract!Reserve, Contract!Becomes, HasFunds, DebitSavings, outcomes

LEMMA RefinePay ==
  ASSUME TypeOK, NEW w \in Withdrawals, OnlyRow(w), UNCHANGED <<request, savings, status, refunds>>,
         status[w] # "absent", paid[w] = 0, refunds[w] = 0, paid'[w] = 1
  PROVE  Contract!Pay(w)
<1>1. Outcome(w) = "reserved" /\ Outcome(w)' = "paid"
  BY DEF Outcome
<1>2. outcomes' = [outcomes EXCEPT ![w] = "paid"] /\ outcomes[w] = "reserved"
  BY <1>1, Moves DEF outcomes
<1> QED
  BY <1>2 DEF Contract!Pay, Contract!Becomes, outcomes

LEMMA RefineRefund ==
  ASSUME TypeOK, NEW w \in Withdrawals, OnlyRow(w), UNCHANGED <<request, paid>>, CreditSavings(w),
         status[w] # "absent", status'[w] # "absent", paid[w] = 0, refunds[w] = 0
  PROVE  Contract!Refund(w)
<1>1. refunds'[w] = 1
  BY DEF CreditSavings, TypeOK
<1>2. Outcome(w) = "reserved" /\ Outcome(w)' = "refunded"
  BY <1>1 DEF Outcome
<1>3. outcomes' = [outcomes EXCEPT ![w] = "refunded"] /\ outcomes[w] = "reserved"
  BY <1>2, Moves DEF outcomes
<1> QED
  BY <1>3 DEF Contract!Refund, Contract!Becomes, CreditSavings, outcomes

LEMMA RefineStep ==
  ASSUME Calm, OnceInv, [Next]_vars
  PROVE  Contract!Next \/ Invisible
<1>1. TypeOK /\ Aimed /\ BankOnly /\ UsdtOnly /\ ApproveExclusive
  BY DEF OnceInv, LockInv, KindInv, TypeInv
<1>s. \A w \in Withdrawals : \A s : SetStatus(w, s) =>
         /\ status'[w] = s
         /\ \A v \in Withdrawals : v # w => status'[v] = status[v]
  BY <1>1 DEF TypeOK, SetStatus
<1>2. ASSUME NEW w \in Withdrawals, Customer(w) PROVE Contract!Next
  BY <1>2, RefineReserve DEF Contract!Next
<1>3. ASSUME NEW w \in Withdrawals, Payout(w) \/ AbortPayout(w) PROVE Invisible
  <2>1. UNCHANGED <<request, savings, paid, refunds>>
    BY <1>3 DEF Payout, PayoutAccepted, PayoutRefused, PayoutReplyLost, PayoutMark,
       AbortPayout, rows, world
  <2>2. CASE PayoutMark(w)
    <3>1. status[w] # "absent"
      BY <1>1, <2>2 DEF PayoutMark, BankOnly, OnceInv, BankOnce
    <3> QED
      BY <1>1, <1>s, <2>1, <2>2, <3>1, SameOutcomes DEF PayoutMark
  <2>3. CASE ~ PayoutMark(w)
    BY <1>1, <1>3, <2>1, <2>3, SameOutcomes
       DEF Payout, PayoutAccepted, PayoutRefused, PayoutReplyLost, AbortPayout, rows
  <2> QED
    BY <2>2, <2>3
<1>4. ASSUME NEW w \in Withdrawals, NEW p \in Payers, Provider(w, p) \/ BankReverses(w, p)
      PROVE Contract!Next \/ Invisible
  <2>1. /\ bank[w][p] = "processing" /\ MaySettle(w)
        /\ UNCHANGED <<request, savings, status, refunds>>
    BY <1>4 DEF Provider, BankPays, BankFails, BankReverses, Calm, rows
  <2>2. request[w].channel = "ngn_bank" /\ BankOnce(w) /\ OnlyRow(w)
    BY <1>1, <1>4, <2>1, RowOfStep DEF BankOnly, OnceInv
  <2>3. status[w] # "absent" /\ paid[w] = 0 /\ refunds[w] = 0
    BY <2>1, <2>2 DEF BankOnce, Bank
  <2>4. CASE BankPays(w, p)
    <3>1. paid'[w] = 1
      BY <1>1, <2>3, <2>4 DEF BankPays, TypeOK
    <3> QED
      BY <1>1, <2>1, <2>2, <2>3, <3>1, RefinePay DEF Contract!Next
  <2>5. CASE BankFails(w, p)
    BY <1>1, <2>1, <2>5, SameOutcomes DEF BankFails
  <2> QED
    BY <1>4, <2>4, <2>5 DEF Provider, BankReverses, Calm
<1>5. ASSUME NEW w \in Withdrawals, Webhook(w) PROVE Contract!Next \/ Invisible
  <2>1. UNCHANGED <<request, paid>>
    BY <1>5 DEF Webhook, SettleSent, SettleFailed, Deliver
  <2>2. CASE SettleFailed(w) /\ Settleable(w)
    <3>1. /\ CreditSavings(w) /\ status[w] \in {"approved", "pending"}
          /\ status'[w] = "failed" /\ <<w, "failed">> \in hooks
      BY <1>s, <2>2 DEF SettleFailed, Deliver, Settleable
    <3>2. request[w].channel = "ngn_bank" /\ BankOnce(w) /\ OnlyRow(w)
      BY <1>1, <1>5, <3>1, RowOfStep DEF BankOnly, OnceInv, Outcomes
    <3>3. paid[w] = 0 /\ refunds[w] = 0
      BY <3>1, <3>2 DEF BankOnce, Bank
    <3> QED
      BY <1>1, <2>1, <3>1, <3>2, <3>3, RefineRefund DEF Contract!Next
  <2>3. CASE SettleSent(w) /\ Settleable(w)
    BY <1>1, <1>s, <2>1, <2>3, SameOutcomes DEF SettleSent, Settleable
  <2>4. CASE ~ Settleable(w)
    BY <1>1, <1>5, <2>1, <2>4, SameOutcomes DEF Webhook, SettleSent, SettleFailed
  <2> QED
    BY <1>5, <2>2, <2>3, <2>4 DEF Webhook
<1>6. ASSUME NEW a \in Admins, Approve(a) PROVE Contract!Next \/ Invisible
  <2>1. PICK w \in Withdrawals : w = admin[a].w
    BY <1>1, <1>6 DEF Approve, ApproveLock, SendOk, SendRefused, SendLost, SendGarbled,
       Broadcast, ApproveRollback, ApproveMark, At, Aimed
  <2>2. UNCHANGED <<request, savings, refunds>>
    BY <1>6 DEF Approve, ApproveLock, SendOk, SendRefused, SendLost, SendGarbled,
       Broadcast, ApproveRollback, ApproveMark, rows
  <2>3. CASE ApproveLock(a)
    BY <1>1, <1>s, <2>1, <2>2, <2>3, SameOutcomes DEF ApproveLock, LockWon, world
  <2>4. CASE ApproveRollback(a) \/ ApproveMark(a)
    <3>1. status[w] = "approved"
      BY <1>1, <2>1, <2>4
         DEF ApproveRollback, ApproveMark, At, ApproveExclusive, Held
    <3> QED
      BY <1>1, <1>s, <2>1, <2>2, <2>4, <3>1, SameOutcomes
         DEF ApproveRollback, ApproveMark, world
  <2>5. CASE SendRefused(a)
    BY <1>1, <2>2, <2>5, SameOutcomes DEF SendRefused, Broadcast, rows
  <2>6. CASE SendOk(a)
    <3>1. /\ status[w] = "approved" /\ paid[w] = 0 /\ refunds[w] = 0
          /\ UNCHANGED <<status, handler, bank, hooks>>
      BY <1>1, <2>1, <2>6
         DEF SendOk, Broadcast, At, ApproveExclusive, Held, OnceInv, UsdtOnce,
             UsdtOnly, Approving, rows
    <3>2. paid'[w] = 1 /\ \A v \in Withdrawals : v # w => paid'[v] = paid[v]
      BY <1>1, <2>1, <2>6, <3>1 DEF SendOk, Broadcast, TypeOK
    <3>3. OnlyRow(w)
      BY <2>2, <3>1, <3>2 DEF OnlyRow
    <3> QED
      BY <1>1, <2>2, <3>1, <3>2, <3>3, RefinePay DEF Contract!Next
  <2> QED
    BY <1>6, <2>3, <2>4, <2>5, <2>6 DEF Approve, SendLost, SendGarbled, Calm
<1>7. ASSUME NEW a \in Admins, RejectRefund(a) PROVE Contract!Next
  <2>1. PICK w \in Withdrawals : w = admin[a].w
    BY <1>1, <1>7 DEF RejectRefund, At, Aimed
  <2>2. /\ request[w].channel = "usdt" /\ status[w] = "pending" /\ UsdtOnce(w)
        /\ UNCHANGED <<request, paid, handler, bank, hooks>> /\ CreditSavings(w)
    BY <1>7, <2>1 DEF RejectRefund, At, OnceInv, RejectSure, world
  <2>3. /\ status'[w] = "rejected" /\ paid[w] = 0 /\ refunds[w] = 0
        /\ \A v \in Withdrawals : v # w => status'[v] = status[v]
    BY <1>s, <1>7, <2>1, <2>2 DEF RejectRefund, LockWon, UsdtOnce
  <2>4. \A v \in Withdrawals : v # w => refunds'[v] = refunds[v]
    BY <1>1, <2>2 DEF CreditSavings, TypeOK
  <2>5. OnlyRow(w)
    BY <2>2, <2>3, <2>4 DEF OnlyRow
  <2> QED
    BY <1>1, <2>2, <2>3, <2>5, RefineRefund DEF Contract!Next
<1>8. ASSUME NEW a \in Admins, NEW w \in Withdrawals,
             ApproveRead(a, w) \/ RejectRead(a, w)
      PROVE Invisible
  BY <1>1, <1>8, SameOutcomes DEF ApproveRead, RejectRead, rows, world
<1>9. ASSUME NEW a \in Admins, AbortAdmin(a) PROVE Invisible
  BY <1>1, <1>9, SameOutcomes DEF AbortAdmin, rows, world
<1>10. CASE UNCHANGED vars
  BY <1>1, <1>10, SameOutcomes DEF vars
<1>11. CASE Next
  BY <1>2, <1>3, <1>4, <1>5, <1>6, <1>7, <1>8, <1>9, <1>11, Zenon DEF Next
<1> QED
  BY <1>10, <1>11

(* The wallet implements the contract. *)
THEOREM WalletKeepsContract ==
  ASSUME Calm
  PROVE  Spec => ImplementsContract
<1>1. OnceInv /\ [Next]_vars => [Contract!Next]_<<request, savings, outcomes>>
  BY RefineStep DEF Invisible
<1> QED
  BY <1>1, RefineInit, OnceInvariant, PTL
     DEF Spec, ImplementsContract, Contract!Spec, outcomes
=============================================================================
