--------------------------- MODULE TransfersProofs ---------------------------
(***************************************************************************)
(* Theorems about Transfers for any number of transfers, accounts and keys *)
(* and any scales, amounts and positions: types and the debit of Savings   *)
(* under every fault; while no answer and no COMMIT is lost, what rows,    *)
(* answers and the mirror say, that a key moves money once, that the books *)
(* stay covered, and that transfers implement TransferContract.            *)
(***************************************************************************)
EXTENDS Transfers, Sums

USE DEF asked, trade

-----------------------------------------------------------------------------
(* Arithmetic of the conversion. *)

\* A non-negative number divided by a positive one is not negative.
LEMMA QuotientNat ==
    ASSUME NEW p \in Nat, NEW d \in Nat \ {0}
    PROVE  p \div d \in Nat
  OBVIOUS

\* So is their product.
LEMMA ProductNat ==
    ASSUME NEW a \in Nat, NEW b \in Nat
    PROVE  a * b \in Nat
  OBVIOUS

\* The shape of a request.
LEMMA RequestShape ==
    ASSUME request \in [Transfers -> Requests], NEW t \in Transfers
    PROVE  /\ From(t) \in Legs /\ To(t) \in Legs /\ From(t) # To(t)
           /\ Amount(t) \in Nat \ {0}
           /\ Into(t) => To(t) \in Accounts
           /\ ~ Into(t) => From(t) \in Accounts
           /\ Across(t) => To(t) \in Accounts
  BY TransfersAssumption DEF From, To, Amount, Into, Out, Across, Legs

\* What the destination gets is a natural number of its units.
LEMMA ConvertedNat ==
    ASSUME request \in [Transfers -> Requests], NEW t \in Transfers
    PROVE  Converted(t) \in Nat
  <1>1. Amount(t) \in Nat /\ ScaleOf(t, To(t)) \in Nat /\ ScaleOf(t, From(t)) \in Nat \ {0}
    BY RequestShape, TransfersAssumption DEF ScaleOf
  <1>2. Amount(t) * ScaleOf(t, To(t)) \in Nat
    BY <1>1, ProductNat
  <1> QED
    BY <1>1, <1>2, QuotientNat DEF Converted

-----------------------------------------------------------------------------
(* The four ways money moves. *)

LEMMA TakeTyped ==
    ASSUME TypeOK, NEW t \in Transfers, Take(t)
    PROVE  /\ balance' \in [Legs -> Int]
           /\ taken' \in [Transfers -> Moves] /\ given' \in [Transfers -> Moves]
           /\ From(t) # Savings \/ balance[Savings] >= Amount(t) => balance'[Savings] >= 0
  BY RequestShape DEF TypeOK, Take, Moves, Legs

LEMMA GiveBackTyped ==
    ASSUME TypeOK, NEW t \in Transfers, GiveBack(t)
    PROVE  /\ balance' \in [Legs -> Int]
           /\ taken' \in [Transfers -> Moves] /\ given' \in [Transfers -> Moves]
           /\ balance'[Savings] >= 0
  BY RequestShape DEF TypeOK, GiveBack, Moves, Legs

LEMMA GiveTyped ==
    ASSUME TypeOK, NEW t \in Transfers, Give(t)
    PROVE  /\ balance' \in [Legs -> Int]
           /\ taken' \in [Transfers -> Moves] /\ given' \in [Transfers -> Moves]
           /\ balance'[Savings] >= 0
  BY RequestShape, ConvertedNat DEF TypeOK, Give, Moves, Legs

LEMMA ReclaimTyped ==
    ASSUME TypeOK, NEW t \in Transfers, Reclaim(t), To(t) # Savings
    PROVE  /\ balance' \in [Legs -> Int]
           /\ taken' \in [Transfers -> Moves] /\ given' \in [Transfers -> Moves]
           /\ balance'[Savings] >= 0
  BY RequestShape, ConvertedNat DEF TypeOK, Reclaim, Moves, Legs

LEMMA GotoTyped ==
    ASSUME TypeOK, NEW t \in Transfers, NEW next \in Pcs, Goto(t, next)
    PROVE  pc' \in [Transfers -> Pcs]
  BY DEF TypeOK, Goto

LEMMA SetRowTyped ==
    ASSUME TypeOK, NEW t \in Transfers, NEW s \in Statuses, SetRow(t, s)
    PROVE  row' \in [Transfers -> Statuses]
  BY DEF TypeOK, SetRow

-----------------------------------------------------------------------------
(* Where each kind of transfer can be, and that a transfer from Savings has *)
(* its row as soon as it took anything.                                     *)

InOnly     == {"fail", "refund", "mirror", "mark"}
NotIn      == {"commit", "undo", "undo_both", "undo_to"}
BothLegs   == {"undo_both", "undo_to"}

OnPath(t) ==
    /\ pc[t] \in InOnly   => Into(t)
    /\ pc[t] \in NotIn    => ~ Into(t)
    /\ pc[t] \in BothLegs => Across(t)
    /\ Into(t) /\ (taken[t] # "no" \/ pc[t] \in InOnly \cup {"give"}) => row[t] # "absent"

OnPaths == \A t \in Transfers : OnPath(t)

\* The steps of one transfer leave the others' alone.
LEMMA OtherUntouched ==
    ASSUME TypeOK, NEW t \in Transfers, Step(t) \/ Abort(t), NEW u \in Transfers, u # t
    PROVE  /\ pc'[u] = pc[u] /\ row'[u] = row[u]
           /\ taken'[u] = taken[u] /\ given'[u] = given[u] /\ request' = request
           /\ misread'[u] = misread[u]
  <1> USE DEF TypeOK, Goto, SetRow, books, table, Take, Give, GiveBack, Reclaim,
              CreditFailed, CommitFailed
  <1>1. CASE Replay(t) \/ Start(t) BY <1>1 DEF Replay, Start
  <1>2. CASE SavingsDebit(t) BY <1>2 DEF SavingsDebit
  <1>3. CASE SavingsRefused(t) BY <1>3 DEF SavingsRefused
  <1>4. CASE FailTransfer(t) BY <1>4 DEF FailTransfer
  <1>5. CASE RefundSavings(t) BY <1>5 DEF RefundSavings
  <1>6. CASE MirrorLeg(t) BY <1>6 DEF MirrorLeg
  <1>7. CASE MarkCompleted(t) BY <1>7 DEF MarkCompleted
  <1>8. CASE EngineDebit(t) BY <1>8 DEF EngineDebit
  <1>9. CASE EngineRefuses(t) BY <1>9 DEF EngineRefuses
  <1>10. CASE EngineCredit(t) BY <1>10 DEF EngineCredit
  <1>11. CASE EngineCreditDown(t) BY <1>11 DEF EngineCreditDown
  <1>12. CASE Commit(t) BY <1>12 DEF Commit
  <1>13. CASE CommitRefused(t) BY <1>13 DEF CommitRefused
  <1>14. CASE UndoFrom(t) BY <1>14 DEF UndoFrom
  <1>15. CASE UndoTo(t) BY <1>15 DEF UndoTo
  <1>16. CASE Abort(t) BY <1>16 DEF Abort
  <1> QED BY <1>1, <1>2, <1>3, <1>4, <1>5, <1>6, <1>7, <1>8, <1>9, <1>10, <1>11,
             <1>12, <1>13, <1>14, <1>15, <1>16 DEF Step

\* Typing and paths together are inductive, under every fault.
TypedPaths == TypeOK /\ OnPaths

\* The initial states.
LEMMA InitTypedPaths == Init => TypedPaths
  <1> SUFFICES ASSUME Init PROVE TypedPaths
    OBVIOUS
  <1>1. TypeOK
    BY TransfersAssumption DEF Init, TypeOK, Legs, Pcs, Statuses, Moves
  <1>2. OnPaths
    BY DEF Init, OnPaths, OnPath, InOnly, NotIn, BothLegs
  <1> QED
    BY <1>1, <1>2 DEF TypedPaths

\* What has happened stays so, and is one of the events.
LEMMA StepHappens ==
    ASSUME TypeOK, NEW t \in Transfers, Step(t) \/ Abort(t)
    PROVE  happened \subseteq happened' /\ happened' \subseteq AllEvents
  <1> USE TransfersAssumption
      DEF TypeOK, Happens, Fault, FaultSticks, Smooth, CommitFailed, AllEvents, AllFaults
  <1>1. CASE Replay(t) \/ Start(t) BY <1>1 DEF Replay, Start
  <1>2. CASE SavingsDebit(t) BY <1>2 DEF SavingsDebit
  <1>3. CASE SavingsRefused(t) BY <1>3 DEF SavingsRefused
  <1>4. CASE FailTransfer(t) BY <1>4 DEF FailTransfer
  <1>5. CASE RefundSavings(t) BY <1>5 DEF RefundSavings
  <1>6. CASE MirrorLeg(t) BY <1>6 DEF MirrorLeg
  <1>7. CASE MarkCompleted(t) BY <1>7 DEF MarkCompleted
  <1>8. CASE EngineDebit(t) BY <1>8 DEF EngineDebit
  <1>9. CASE EngineRefuses(t) BY <1>9 DEF EngineRefuses
  <1>10. CASE EngineCredit(t) BY <1>10 DEF EngineCredit
  <1>11. CASE EngineCreditDown(t) BY <1>11 DEF EngineCreditDown
  <1>12. CASE Commit(t) BY <1>12 DEF Commit
  <1>13. CASE CommitRefused(t) BY <1>13 DEF CommitRefused
  <1>14. CASE UndoFrom(t) BY <1>14 DEF UndoFrom
  <1>15. CASE UndoTo(t) BY <1>15 DEF UndoTo
  <1>16. CASE Abort(t) BY <1>16 DEF Abort
  <1> QED BY <1>1, <1>2, <1>3, <1>4, <1>5, <1>6, <1>7, <1>8, <1>9, <1>10, <1>11,
             <1>12, <1>13, <1>14, <1>15, <1>16 DEF Step

\* One step of one transfer keeps the types.
LEMMA StepTyped ==
    ASSUME TypeOK, NEW t \in Transfers, OnPath(t), Step(t) \/ Abort(t)
    PROVE  TypeOK'
  <1>0. Legs = Accounts \cup {Savings} /\ Savings \in Legs /\ Accounts \subseteq Legs
    BY DEF Legs
  <1>h. happened' \subseteq AllEvents
    BY StepHappens
  <1>1. CASE Replay(t) \/ Start(t)
    <2>1. pc' \in [Transfers -> Pcs]
      BY <1>1, GotoTyped DEF Replay, Start, Pcs, Final
    <2>2. Kinds(t) \subseteq Accounts
      BY RequestShape DEF TypeOK, Kinds, Legs
    <2>3. misread' \in [Transfers -> SUBSET Accounts]
      <3>1. CASE Replay(t) BY <3>1 DEF TypeOK, Replay
      <3>2. CASE Start(t)
        <4>1. PICK unknown \in SUBSET Kinds(t) : misread' = [misread EXCEPT ![t] = unknown]
          BY <3>2 DEF Start
        <4> QED
          BY <2>2, <4>1 DEF TypeOK
      <3> QED
        BY <1>1, <3>1, <3>2
    <2> QED
      BY <1>h, <1>1, <2>1, <2>3 DEF TypeOK, Replay, Start, books, table
  <1>2. CASE SavingsDebit(t)
    <2>1. pc' \in [Transfers -> Pcs]
      BY <1>2, GotoTyped DEF SavingsDebit, Pcs, Final
    <2>2. row' \in [Transfers -> Statuses]
      BY <1>2, SetRowTyped DEF SavingsDebit, Statuses
    <2>3. Take(t) /\ balance[Savings] >= Amount(t)
      BY <1>2 DEF SavingsDebit
    <2> QED
      BY <1>h, <1>2, <2>1, <2>2, <2>3, TakeTyped DEF TypeOK, SavingsDebit
  <1>3. CASE SavingsRefused(t)
    <2>1. pc' \in [Transfers -> Pcs]
      BY <1>3, GotoTyped DEF SavingsRefused, Pcs, Final
    <2> QED
      BY <1>h, <1>3, <2>1 DEF TypeOK, SavingsRefused, books, table
  <1>4. CASE FailTransfer(t)
    <2>1. pc' \in [Transfers -> Pcs]
      BY <1>4, GotoTyped DEF FailTransfer, Pcs, Final
    <2>2. row' \in [Transfers -> Statuses]
      BY <1>4, SetRowTyped DEF FailTransfer, Statuses, TypeOK
    <2> QED
      BY <1>h, <1>4, <2>1, <2>2 DEF TypeOK, FailTransfer, books
  <1>5. CASE RefundSavings(t)
    <2>1. pc' \in [Transfers -> Pcs]
      BY <1>5, GotoTyped DEF RefundSavings, Pcs, Final
    <2>2. GiveBack(t) \/ UNCHANGED books
      BY <1>5 DEF RefundSavings
    <2> QED
      BY <1>h, <1>5, <2>1, <2>2, GiveBackTyped DEF TypeOK, RefundSavings, books, table
  <1>6. CASE MirrorLeg(t)
    <2>1. pc' \in [Transfers -> Pcs]
      BY <1>6, GotoTyped DEF MirrorLeg, Pcs, Final
    <2>2. To(t) \in Accounts
      BY <1>6, RequestShape DEF MirrorLeg, OnPath, InOnly, TypeOK
    <2>3. mirror' \in [Accounts -> Nat]
      BY <1>6, <2>2 DEF MirrorLeg, TypeOK
    <2>4. answered' = answered /\ written' \in [Accounts -> Int]
      BY <1>6 DEF MirrorLeg, Written, TypeOK
    <2> QED
      BY <1>h, <1>6, <2>1, <2>3, <2>4 DEF TypeOK, MirrorLeg, books
  <1>7. CASE MarkCompleted(t)
    <2>1. pc' \in [Transfers -> Pcs]
      BY <1>7, GotoTyped DEF MarkCompleted, Pcs, Final
    <2>2. row' \in [Transfers -> Statuses]
      BY <1>7, SetRowTyped DEF MarkCompleted, Statuses, TypeOK
    <2> QED
      BY <1>h, <1>7, <2>1, <2>2 DEF TypeOK, MarkCompleted, books
  <1>8. CASE EngineDebit(t)
    <2>1. pc' \in [Transfers -> Pcs]
      BY <1>8, GotoTyped DEF EngineDebit, Pcs, Final
    <2>2. Take(t) /\ From(t) \in Accounts /\ From(t) # Savings /\ Amount(t) \in Nat
      BY <1>8, RequestShape, TransfersAssumption DEF EngineDebit, TypeOK
    <2>3. balance[From(t)] - Amount(t) \in Int
      BY <1>0, <2>2 DEF TypeOK
    <2>4. told' \in [Transfers -> [from: Int, to: Int]]
      BY <1>8, <2>3 DEF EngineDebit, TypeOK
    <2>5. answered' \in [Accounts -> Int] /\ written' = written
      BY <1>8, <2>2 DEF EngineDebit, Answered, TypeOK
    <2> QED
      BY <1>h, <1>8, <2>1, <2>2, <2>4, <2>5, TakeTyped DEF TypeOK, EngineDebit, table
  <1>9. CASE EngineRefuses(t)
    <2>1. pc' \in [Transfers -> Pcs]
      BY <1>9, GotoTyped DEF EngineRefuses, Pcs, Final
    <2> QED
      BY <1>h, <1>9, <2>1 DEF TypeOK, EngineRefuses, books, table
  <1>10. CASE EngineCredit(t)
    <2>1. pc' \in [Transfers -> Pcs]
      BY <1>10, GotoTyped DEF EngineCredit, CreditFailed, Pcs, Final
    <2>2. balance[To(t)] + Converted(t) \in Int
      BY RequestShape, ConvertedNat DEF TypeOK
    <2>3. told' \in [Transfers -> [from: Int, to: Int]]
      BY <1>10, <2>2 DEF EngineCredit, TypeOK
    <2>4. Give(t)
      BY <1>10 DEF EngineCredit
    <2>5. answered' \in [Accounts -> Int] /\ written' = written
      BY <1>10 DEF EngineCredit, Answered, TypeOK
    <2> QED
      BY <1>h, <1>10, <2>1, <2>3, <2>4, <2>5, GiveTyped DEF TypeOK, EngineCredit, table
  <1>11. CASE EngineCreditDown(t)
    <2>1. pc' \in [Transfers -> Pcs]
      BY <1>11, GotoTyped DEF EngineCreditDown, CreditFailed, Pcs, Final
    <2> QED
      BY <1>h, <1>11, <2>1 DEF TypeOK, EngineCreditDown, books, table
  <1>12. CASE Commit(t)
    <2>1. pc' \in [Transfers -> Pcs]
      BY <1>12, GotoTyped DEF Commit, CommitFailed, Pcs, Final
    <2>2. row' \in [Transfers -> Statuses]
      BY <1>12, SetRowTyped DEF Commit, Statuses
    <2>3. told[t].from \in Nat /\ told[t].to \in Nat
      BY <1>12 DEF Commit, MirrorAllowed, TypeOK
    <2>4. mirror' \in [Accounts -> Nat]
      BY <1>12, <2>3 DEF Commit, WriteMirrors, TypeOK
    <2>5. Give(t) \/ UNCHANGED books
      BY <1>12 DEF Commit
    <2>6. answered' = answered /\ written' \in [Accounts -> Int]
      BY <1>12 DEF Commit, Written, TypeOK
    <2> QED
      BY <1>h, <1>12, <2>1, <2>2, <2>4, <2>5, <2>6, GiveTyped DEF TypeOK, Commit, books
  <1>13. CASE CommitRefused(t)
    <2>1. pc' \in [Transfers -> Pcs]
      BY <1>13, GotoTyped DEF CommitRefused, CommitFailed, Pcs, Final
    <2> QED
      BY <1>h, <1>13, <2>1 DEF TypeOK, CommitRefused, books, table
  <1>14. CASE UndoFrom(t)
    <2>1. pc' \in [Transfers -> Pcs]
      BY <1>14, GotoTyped DEF UndoFrom, Pcs, Final
    <2>2. GiveBack(t) \/ UNCHANGED books
      BY <1>14 DEF UndoFrom
    <2> QED
      BY <1>h, <1>14, <2>1, <2>2, GiveBackTyped DEF TypeOK, UndoFrom, books, table
  <1>15. CASE UndoTo(t)
    <2>1. pc' \in [Transfers -> Pcs]
      BY <1>15, GotoTyped DEF UndoTo, Pcs, Final
    <2>2. Reclaim(t) \/ UNCHANGED books
      BY <1>15 DEF UndoTo
    <2>3. To(t) # Savings
      BY <1>15 DEF UndoTo, OnPath, BothLegs, Across, Out
    <2> QED
      BY <1>h, <1>15, <2>1, <2>2, <2>3, ReclaimTyped DEF TypeOK, UndoTo, books, table
  <1>16. CASE Abort(t)
    <2>1. pc' \in [Transfers -> Pcs]
      BY <1>16, GotoTyped DEF Abort, Pcs, Final
    <2> QED
      BY <1>h, <1>16, <2>1 DEF TypeOK, Abort, books, table
  <1> QED BY <1>1, <1>2, <1>3, <1>4, <1>5, <1>6, <1>7, <1>8, <1>9, <1>10, <1>11,
             <1>12, <1>13, <1>14, <1>15, <1>16 DEF Step

\* One step of one transfer keeps it on its path.
LEMMA StepOnPath ==
    ASSUME TypeOK, NEW t \in Transfers, OnPath(t), Step(t) \/ Abort(t)
    PROVE  OnPath(t)'
  <1> USE DEF TypeOK, OnPath, InOnly, NotIn, BothLegs, Goto, SetRow, books, table,
              Take, Give, GiveBack, Reclaim, CreditFailed, CommitFailed, Final,
              Into, Out, Across, From, To
  <1>1. CASE Replay(t) \/ Start(t) BY <1>1 DEF Replay, Start
  <1>2. CASE SavingsDebit(t) BY <1>2 DEF SavingsDebit
  <1>3. CASE SavingsRefused(t) BY <1>3 DEF SavingsRefused
  <1>4. CASE FailTransfer(t) BY <1>4 DEF FailTransfer
  <1>5. CASE RefundSavings(t) BY <1>5 DEF RefundSavings
  <1>6. CASE MirrorLeg(t) BY <1>6 DEF MirrorLeg
  <1>7. CASE MarkCompleted(t) BY <1>7 DEF MarkCompleted
  <1>8. CASE EngineDebit(t) BY <1>8 DEF EngineDebit
  <1>9. CASE EngineRefuses(t) BY <1>9 DEF EngineRefuses
  <1>10. CASE EngineCredit(t) BY <1>10 DEF EngineCredit
  <1>11. CASE EngineCreditDown(t) BY <1>11 DEF EngineCreditDown
  <1>12. CASE Commit(t) BY <1>12 DEF Commit
  <1>13. CASE CommitRefused(t) BY <1>13 DEF CommitRefused
  <1>14. CASE UndoFrom(t) BY <1>14 DEF UndoFrom
  <1>15. CASE UndoTo(t) BY <1>15 DEF UndoTo
  <1>16. CASE Abort(t) BY <1>16 DEF Abort
  <1> QED BY <1>1, <1>2, <1>3, <1>4, <1>5, <1>6, <1>7, <1>8, <1>9, <1>10, <1>11,
             <1>12, <1>13, <1>14, <1>15, <1>16 DEF Step

\* So does trading.
LEMMA TradeTyped ==
    ASSUME TypeOK, NEW a \in Accounts, Trade(a)
    PROVE  TypeOK' /\ happened \subseteq happened'
  <1>1. PICK p \in Positions[a] :
           /\ locked'   = [locked EXCEPT ![a] = p.withheld]
           /\ realised' = [realised EXCEPT ![a] = p.realised]
           /\ balance'  = [balance EXCEPT ![a] = @ + p.realised - realised[a]]
           /\ Happens(IF p.realised < realised[a] THEN {"loss"} ELSE {})
    BY DEF Trade
  <1>2. p.withheld \in Int /\ p.realised \in Int
    BY TransfersAssumption
  <1>3. a \in Legs /\ a # Savings /\ Savings \in Legs /\ balance[a] \in Int /\ realised[a] \in Int
    BY TransfersAssumption DEF TypeOK, Legs
  <1>4. balance' \in [Legs -> Int] /\ balance'[Savings] >= 0
    BY <1>1, <1>2, <1>3 DEF TypeOK
  <1>5. happened \subseteq happened' /\ happened' \subseteq AllEvents
    BY <1>1 DEF Happens, TypeOK, AllEvents
  <1>6. locked' \in [Accounts -> Int] /\ realised' \in [Accounts -> Int]
    BY <1>1, <1>2 DEF TypeOK
  <1> QED
    BY <1>4, <1>5, <1>6 DEF TypeOK, Trade, table

\* Every step keeps both.
LEMMA NextTypedPaths == TypedPaths /\ [Next]_vars => TypedPaths'
  <1> SUFFICES ASSUME TypedPaths, [Next]_vars PROVE TypedPaths'
    OBVIOUS
  <1>0. TypeOK /\ OnPaths
    BY DEF TypedPaths
  <1>1. ASSUME NEW t \in Transfers, Step(t) \/ Abort(t) PROVE TypedPaths'
    <2>1. OnPath(t)
      BY <1>0 DEF OnPaths
    <2>2. TypeOK' /\ OnPath(t)'
      BY <1>0, <1>1, <2>1, StepTyped, StepOnPath
    <2>3. ASSUME NEW u \in Transfers, u # t PROVE OnPath(u)'
      <3>1. OnPath(u)
        BY <1>0 DEF OnPaths
      <3>2. /\ pc'[u] = pc[u] /\ row'[u] = row[u]
            /\ taken'[u] = taken[u] /\ given'[u] = given[u] /\ request' = request
        BY <1>0, <1>1, <2>3, OtherUntouched
      <3> QED
        BY <3>1, <3>2 DEF OnPath, Into, Out, Across, From, To
    <2> QED
      BY <2>2, <2>3 DEF TypedPaths, OnPaths
  <1>2. ASSUME NEW a \in Accounts, Trade(a) PROVE TypedPaths'
    <2>1. TypeOK'
      BY <1>0, <1>2, TradeTyped
    <2>2. OnPaths'
      BY <1>0, <1>2 DEF OnPaths, OnPath, Into, Out, Across, From, To, Trade, books, table
    <2> QED
      BY <2>1, <2>2 DEF TypedPaths
  <1>3. CASE UNCHANGED vars
    <2>1. TypeOK'
      BY <1>0, <1>3 DEF TypeOK, vars
    <2>2. OnPaths'
      BY <1>0, <1>3 DEF OnPaths, OnPath, Into, Out, Across, From, To, vars
    <2> QED
      BY <2>1, <2>2 DEF TypedPaths
  <1> QED
    BY <1>1, <1>2, <1>3, Zenon DEF Next

THEOREM PathsInvariant == Spec => []TypedPaths
  BY InitTypedPaths, NextTypedPaths, PTL DEF Spec

(* Under every fault the variables keep their types and the Savings wallet  *)
(* is never overdrawn.                                                      *)
THEOREM TypeCorrect == Spec => []TypeOK
  <1>1. TypedPaths => TypeOK
    BY DEF TypedPaths
  <1> QED
    BY <1>1, PathsInvariant, PTL

-----------------------------------------------------------------------------
(* A key debits Savings once.  The inductive part is that no two transfers  *)
(* with one key both have a row.                                            *)

SameKey(t, u) == request[t].key # NoKey /\ request[t].key = request[u].key

OneRowPerKey ==
    \A t, u \in Transfers :
        t # u /\ SameKey(t, u) => row[t] = "absent" \/ row[u] = "absent"

\* A row appears only where the key is free; no other step makes one.
LEMMA RowsAppear ==
    ASSUME TypeOK, NEW t \in Transfers, OnPath(t), Step(t) \/ Abort(t)
    PROVE  row'[t] # "absent" => row[t] # "absent" \/ KeyFree(t)
  <1> USE DEF TypeOK, OnPath, InOnly, SetRow, table
  <1>1. CASE Replay(t) \/ Start(t) BY <1>1 DEF Replay, Start
  <1>2. CASE SavingsDebit(t) BY <1>2 DEF SavingsDebit
  <1>3. CASE SavingsRefused(t) BY <1>3 DEF SavingsRefused
  <1>4. CASE FailTransfer(t) BY <1>4 DEF FailTransfer
  <1>5. CASE RefundSavings(t) BY <1>5 DEF RefundSavings
  <1>6. CASE MirrorLeg(t) BY <1>6 DEF MirrorLeg
  <1>7. CASE MarkCompleted(t) BY <1>7 DEF MarkCompleted
  <1>8. CASE EngineDebit(t) BY <1>8 DEF EngineDebit
  <1>9. CASE EngineRefuses(t) BY <1>9 DEF EngineRefuses
  <1>10. CASE EngineCredit(t) BY <1>10 DEF EngineCredit
  <1>11. CASE EngineCreditDown(t) BY <1>11 DEF EngineCreditDown
  <1>12. CASE Commit(t) BY <1>12 DEF Commit
  <1>13. CASE CommitRefused(t) BY <1>13 DEF CommitRefused
  <1>14. CASE UndoFrom(t) BY <1>14 DEF UndoFrom
  <1>15. CASE UndoTo(t) BY <1>15 DEF UndoTo
  <1>16. CASE Abort(t) BY <1>16 DEF Abort
  <1> QED BY <1>1, <1>2, <1>3, <1>4, <1>5, <1>6, <1>7, <1>8, <1>9, <1>10, <1>11,
             <1>12, <1>13, <1>14, <1>15, <1>16 DEF Step

\* The initial states have no rows.
LEMMA InitOneRow == Init => OneRowPerKey
  BY DEF Init, OneRowPerKey

LEMMA NextOneRow == TypedPaths /\ OneRowPerKey /\ [Next]_vars => OneRowPerKey'
  <1> SUFFICES ASSUME TypedPaths, OneRowPerKey, [Next]_vars PROVE OneRowPerKey'
    OBVIOUS
  <1>0. TypeOK /\ OnPaths
    BY DEF TypedPaths
  <1>1. ASSUME NEW t \in Transfers, Step(t) \/ Abort(t) PROVE OneRowPerKey'
    <2>1. OnPath(t)
      BY <1>0 DEF OnPaths
    <2>2. row'[t] # "absent" => row[t] # "absent" \/ KeyFree(t)
      BY <1>0, <1>1, <2>1, RowsAppear
    <2>3. \A u \in Transfers : u # t => row'[u] = row[u] /\ request' = request
      BY <1>0, <1>1, OtherUntouched
    <2>4. ASSUME NEW u \in Transfers, u # t, SameKey(t, u)
          PROVE  row'[t] = "absent" \/ row'[u] = "absent"
      BY <2>2, <2>3, <2>4 DEF OneRowPerKey, KeyFree, SameKey
    <2>5. ASSUME NEW u \in Transfers, NEW v \in Transfers, u # v, SameKey(u, v)',
                 u # t, v # t
          PROVE  row'[u] = "absent" \/ row'[v] = "absent"
      BY <2>3, <2>5 DEF OneRowPerKey, SameKey
    <2>6. ASSUME NEW u \in Transfers, u # t
          PROVE  SameKey(t, u)' => SameKey(t, u)
      BY <2>3, <2>6 DEF SameKey
    <2>7. ASSUME NEW u \in Transfers, NEW v \in Transfers
          PROVE  SameKey(u, v)' => SameKey(v, u)'
      BY DEF SameKey
    <2> QED
      BY <2>4, <2>5, <2>6, <2>7 DEF OneRowPerKey
  <1>2. ASSUME NEW a \in Accounts, Trade(a) PROVE OneRowPerKey'
    BY <1>2 DEF OneRowPerKey, SameKey, Trade, table
  <1>3. CASE UNCHANGED vars
    BY <1>3 DEF OneRowPerKey, SameKey, vars
  <1> QED
    BY <1>1, <1>2, <1>3, Zenon DEF Next

(* Under every fault, a request from Savings is debited at most once for    *)
(* all the times its key is sent.                                           *)
THEOREM SavingsOnce == Spec => []SavingsDebitedOnce
  <1>1. Spec => []OneRowPerKey
    BY InitOneRow, NextOneRow, PathsInvariant, PTL DEF Spec
  <1>2. TypedPaths /\ OneRowPerKey => SavingsDebitedOnce
    BY DEF TypedPaths, OnPaths, OnPath, OneRowPerKey, SameKey, SavingsDebitedOnce
  <1> QED
    BY <1>1, <1>2, PathsInvariant, PTL

-----------------------------------------------------------------------------
(* What the transfers table says is true, and every transfer keeps         *)
(* TransferContract, for any number of transfers, as long as nobody saw an *)
(* error for something that was applied and no transfer had to undo both   *)
(* of its legs.                                                            *)

\* Outages are noticed as they are: no answer and no COMMIT was lost.
Seen == Never({"lost_reply", "lost_commit"})

-----------------------------------------------------------------------------
(* What a handler's place says of its row and of the money.                 *)

Moved(t, tk, g) == taken[t] = tk /\ given[t] = g

Stage(t) ==
    /\ pc[t] \in {"idle", "start", "replayed"} => Moved(t, "no", "no") /\ row[t] = "absent"
    /\ pc[t] = "give"      => /\ Moved(t, "yes", "no")
                              /\ row[t] = IF Into(t) THEN "pending" ELSE "absent"
                              /\ ~ Out(t)
    /\ pc[t] \in {"fail","refund"} => Moved(t, "yes", "no") /\ row[t] \in {"pending", "failed"}
    /\ pc[t] \in {"mirror","mark"} => Moved(t, "yes", "yes") /\ row[t] = "pending"
    /\ pc[t] = "commit"    => /\ Moved(t, "yes", IF Out(t) THEN "no" ELSE "yes")
                              /\ row[t] = "absent"
    /\ pc[t] = "undo"      => Moved(t, "yes", "no") /\ row[t] = "absent"
    /\ pc[t] = "undo_both" => Moved(t, "yes", "yes") /\ row[t] = "absent"
    /\ pc[t] = "undo_to"   => given[t] = "yes" /\ row[t] = "absent"
    /\ row[t] = "completed" => Moved(t, "yes", "yes")
    /\ row[t] = "failed"    => given[t] = "no"
    /\ pc[t] \in BothLegs  => "reversal" \in happened
    /\ misread[t] # {}     => "wrong_units" \in happened

Stages == \A t \in Transfers : Stage(t)

\* The initial states.
LEMMA InitStages == Init => Stages
  BY DEF Init, Stages, Stage, Moved, BothLegs

\* One step of one transfer.
LEMMA StepStage ==
    ASSUME TypeOK, NEW t \in Transfers, OnPath(t), Stage(t), Step(t) \/ Abort(t), Seen'
    PROVE  Stage(t)'
  <1> USE DEF TypeOK, OnPath, InOnly, NotIn, BothLegs, Stage, Moved, Goto, SetRow, books, table,
              Take, Give, GiveBack, Reclaim, CreditFailed, CommitFailed, Final,
              Into, Out, Across, From, To, Seen, Never,
              Happens, Fault, FaultSticks, Smooth
  <1>0. From(t) # To(t)
    BY RequestShape
  <1>1. CASE Replay(t) \/ Start(t) BY <1>1 DEF Replay, Start
  <1>2. CASE SavingsDebit(t) BY <1>0, <1>2 DEF SavingsDebit
  <1>3. CASE SavingsRefused(t) BY <1>3 DEF SavingsRefused
  <1>4. CASE FailTransfer(t) BY <1>4 DEF FailTransfer
  <1>5. CASE RefundSavings(t) BY <1>5 DEF RefundSavings
  <1>6. CASE MirrorLeg(t) BY <1>6 DEF MirrorLeg
  <1>7. CASE MarkCompleted(t) BY <1>7 DEF MarkCompleted
  <1>8. CASE EngineDebit(t) BY <1>8 DEF EngineDebit
  <1>9. CASE EngineRefuses(t) BY <1>9 DEF EngineRefuses
  <1>10. CASE EngineCredit(t)
    <2>1. /\ pc[t] = "give" /\ Moved(t, "yes", "no") /\ UNCHANGED <<request, misread, row>>
          /\ row[t] = IF Into(t) THEN "pending" ELSE "absent"
      BY <1>10 DEF EngineCredit
    <2>2. pc'[t] = IF Into(t) THEN "mirror" ELSE "commit"
      BY <1>10 DEF EngineCredit
    <2>3. taken'[t] = "yes" /\ given'[t] = "yes"
      BY <1>10, <2>1 DEF EngineCredit
    <2>4. ~ Out(t)
      BY <2>1
    <2>5. misread'[t] # {} => "wrong_units" \in happened'
      BY <2>1, StepHappens
    <2> QED
      BY <2>1, <2>2, <2>3, <2>4, <2>5
  <1>11. CASE EngineCreditDown(t) BY <1>11 DEF EngineCreditDown
  <1>12. CASE Commit(t) BY <1>12 DEF Commit
  <1>13. CASE CommitRefused(t) BY <1>13 DEF CommitRefused
  <1>14. CASE UndoFrom(t) BY <1>14 DEF UndoFrom
  <1>15. CASE UndoTo(t) BY <1>15 DEF UndoTo
  <1>16. CASE Abort(t) BY <1>16 DEF Abort
  <1> QED BY <1>1, <1>2, <1>3, <1>4, <1>5, <1>6, <1>7, <1>8, <1>9, <1>10, <1>11,
             <1>12, <1>13, <1>14, <1>15, <1>16 DEF Step

\* What has happened stays so.
LEMMA NextHappens == TypeOK /\ [Next]_vars => happened \subseteq happened'
  <1> SUFFICES ASSUME TypeOK, [Next]_vars PROVE happened \subseteq happened'
    OBVIOUS
  <1>1. ASSUME NEW t \in Transfers, Step(t) \/ Abort(t) PROVE happened \subseteq happened'
    BY <1>1, StepHappens
  <1>2. ASSUME NEW a \in Accounts, Trade(a) PROVE happened \subseteq happened'
    BY <1>2, TradeTyped
  <1>3. CASE UNCHANGED vars
    BY <1>3 DEF vars
  <1> QED
    BY <1>1, <1>2, <1>3, Zenon DEF Next

\* Every step.
LEMMA NextStages ==
    TypedPaths /\ (Seen => Stages) /\ [Next]_vars => (Seen' => Stages')
  <1> SUFFICES ASSUME TypedPaths, Seen => Stages, [Next]_vars, Seen' PROVE Stages'
    OBVIOUS
  <1>0. TypeOK /\ OnPaths
    BY DEF TypedPaths
  <1>s. Stages
    BY <1>0, NextHappens DEF Seen, Never
  <1>1. ASSUME NEW t \in Transfers, Step(t) \/ Abort(t) PROVE Stages'
    <2>1. OnPath(t) /\ Stage(t)
      BY <1>0, <1>s DEF OnPaths, Stages
    <2>2. Stage(t)'
      BY <1>0, <1>1, <2>1, StepStage
    <2>3. ASSUME NEW u \in Transfers, u # t PROVE Stage(u)'
      <3>1. Stage(u) /\ happened \subseteq happened'
        BY <1>0, <1>1, <1>s, StepHappens DEF Stages
      <3>2. /\ pc'[u] = pc[u] /\ row'[u] = row[u] /\ misread'[u] = misread[u]
            /\ taken'[u] = taken[u] /\ given'[u] = given[u] /\ request' = request
        BY <1>0, <1>1, <2>3, OtherUntouched
      <3> QED
        BY <3>1, <3>2 DEF Stage, Moved, Into, Out, From, To
    <2> QED
      BY <2>2, <2>3 DEF Stages
  <1>2. ASSUME NEW a \in Accounts, Trade(a) PROVE Stages'
    BY <1>s, <1>2 DEF Stages, Stage, Moved, Into, Out, From, To, Trade, Happens, table
  <1>3. CASE UNCHANGED vars
    BY <1>s, <1>3 DEF Stages, Stage, Moved, Into, Out, From, To, vars
  <1> QED
    BY <1>1, <1>2, <1>3, Zenon DEF Next

THEOREM StagesInvariant == Spec => [](TypedPaths /\ (Seen => Stages))
  BY InitStages, NextStages, PathsInvariant, PTL DEF Spec

(* Wherever handlers are cut off and whatever fails and is seen to fail, a  *)
(* completed row means money that left and arrived, a failed row money that *)
(* did not arrive, and no row a Savings wallet that was not debited.        *)
THEOREM RowsTellTruth == Spec => []RowTellsTruth
  <1>1. TypedPaths /\ (Seen => Stages) => RowTellsTruth
    BY DEF TypedPaths, OnPaths, OnPath, Stages, Stage, Moved, RowTellsTruth, Seen
  <1> QED
    BY <1>1, StagesInvariant, PTL

-----------------------------------------------------------------------------
(* The answers.  Beyond its stage, what a handler that has ended says of    *)
(* the money, as long as every call shows what it did and every             *)
(* compensation is applied.  A handler that is cut off answers nothing.     *)

Applied == Never({"lost_reply", "lost_commit", "stuck"})

Settled(t) ==
    /\ pc[t] = "ok"      => Moved(t, "yes", "yes")
    /\ pc[t] = "error"   => taken[t] # "yes" /\ given[t] # "yes"
    /\ pc[t] = "undo_to" => taken[t] = "back"

AllSettled == \A t \in Transfers : Settled(t)

\* One step of one transfer.
LEMMA StepSettled ==
    ASSUME TypeOK, NEW t \in Transfers, OnPath(t), Stage(t), Settled(t),
           Step(t) \/ Abort(t), Applied'
    PROVE  Settled(t)'
  <1> USE DEF TypeOK, Stage, Settled, Moved, Goto, SetRow, books, table,
              Take, Give, GiveBack, Reclaim, CreditFailed, CommitFailed,
              Applied, Never, Happens, Fault, FaultSticks, Smooth
  <1>1. CASE Replay(t) \/ Start(t) BY <1>1 DEF Replay, Start
  <1>2. CASE SavingsDebit(t) BY <1>2 DEF SavingsDebit
  <1>3. CASE SavingsRefused(t) BY <1>3 DEF SavingsRefused
  <1>4. CASE FailTransfer(t) BY <1>4 DEF FailTransfer
  <1>5. CASE RefundSavings(t) BY <1>5 DEF RefundSavings
  <1>6. CASE MirrorLeg(t) BY <1>6 DEF MirrorLeg
  <1>7. CASE MarkCompleted(t) BY <1>7 DEF MarkCompleted
  <1>8. CASE EngineDebit(t) BY <1>8 DEF EngineDebit
  <1>9. CASE EngineRefuses(t) BY <1>9 DEF EngineRefuses
  <1>10. CASE EngineCredit(t) BY <1>10 DEF EngineCredit
  <1>11. CASE EngineCreditDown(t) BY <1>11 DEF EngineCreditDown
  <1>12. CASE Commit(t) BY <1>12 DEF Commit
  <1>13. CASE CommitRefused(t) BY <1>13 DEF CommitRefused
  <1>14. CASE UndoFrom(t) BY <1>14 DEF UndoFrom
  <1>15. CASE UndoTo(t) BY <1>15 DEF UndoTo
  <1>16. CASE Abort(t) BY <1>16 DEF Abort
  <1> QED BY <1>1, <1>2, <1>3, <1>4, <1>5, <1>6, <1>7, <1>8, <1>9, <1>10, <1>11,
             <1>12, <1>13, <1>14, <1>15, <1>16 DEF Step

\* Every step.
LEMMA NextSettled ==
    TypedPaths /\ (Seen => Stages) /\ (Applied => AllSettled) /\ [Next]_vars
        => (Applied' => AllSettled')
  <1> SUFFICES ASSUME TypedPaths, Seen => Stages, Applied => AllSettled, [Next]_vars, Applied'
               PROVE  AllSettled'
    OBVIOUS
  <1>0. TypeOK /\ OnPaths
    BY DEF TypedPaths
  <1>s. Stages /\ AllSettled
    BY <1>0, NextHappens DEF Seen, Applied, Never
  <1>1. ASSUME NEW t \in Transfers, Step(t) \/ Abort(t) PROVE AllSettled'
    <2>1. OnPath(t) /\ Stage(t) /\ Settled(t)
      BY <1>0, <1>s DEF OnPaths, Stages, AllSettled
    <2>2. Settled(t)'
      BY <1>0, <1>1, <2>1, StepSettled
    <2>3. ASSUME NEW u \in Transfers, u # t PROVE Settled(u)'
      <3>1. Settled(u)
        BY <1>s DEF AllSettled
      <3>2. pc'[u] = pc[u] /\ taken'[u] = taken[u] /\ given'[u] = given[u]
        BY <1>0, <1>1, <2>3, OtherUntouched
      <3> QED
        BY <3>1, <3>2 DEF Settled, Moved
    <2> QED
      BY <2>2, <2>3 DEF AllSettled
  <1>2. ASSUME NEW a \in Accounts, Trade(a) PROVE AllSettled'
    BY <1>s, <1>2 DEF AllSettled, Settled, Moved, Trade, books
  <1>3. CASE UNCHANGED vars
    BY <1>s, <1>3 DEF AllSettled, Settled, Moved, vars
  <1> QED
    BY <1>1, <1>2, <1>3, Zenon DEF Next

(* A transfer that is answered moved all of its money or none of it, and    *)
(* the answer says which, with an engine and a database that fail and       *)
(* handlers that are cut off, until a call's effect or a compensation is    *)
(* lost.                                                                    *)
THEOREM AnswersAreTrue == Spec => []AnswersTellTruth
  <1>1. Init => AllSettled
    BY DEF Init, AllSettled, Settled
  <1>2. Spec => [](Applied => AllSettled)
    BY <1>1, NextSettled, StagesInvariant, PTL DEF Spec
  <1>3. (Seen => Stages) /\ (Applied => AllSettled) => AnswersTellTruth
    BY DEF Stages, Stage, AllSettled, Settled, Moved, AnswersTellTruth, Seen, Applied, Never
  <1> QED
    BY <1>2, <1>3, StagesInvariant, PTL

-----------------------------------------------------------------------------
(* One transfer of a key moves money.  Two never both have a row, and one   *)
(* without a row has moved nothing when its handler is through.             *)

Finished == Never({"abort", "lost_reply", "stuck"})

Unmoved(t) == taken[t] # "yes" /\ given[t] # "yes"

Rowed(t) ==
    row[t] = "absent" =>
        /\ pc[t] \in {"idle", "start"} \cup Final => Unmoved(t)
        /\ pc[t] \in {"give", "undo"} => given[t] # "yes"
        /\ pc[t] = "give" => ~ Out(t)
        /\ pc[t] = "commit" /\ Out(t) => given[t] # "yes"
        /\ pc[t] = "undo_to" => taken[t] # "yes"

AllRowed == \A t \in Transfers : Rowed(t)

\* One step of one transfer.
LEMMA StepRowed ==
    ASSUME TypeOK, NEW t \in Transfers, OnPath(t), Rowed(t), Step(t) \/ Abort(t), Finished'
    PROVE  Rowed(t)'
  <1> USE DEF TypeOK, OnPath, InOnly, NotIn, BothLegs, Rowed, Unmoved, Goto, SetRow, books, table,
              Take, Give, GiveBack, Reclaim, CreditFailed, CommitFailed, Final,
              Into, Out, Across, From, To, Finished, Never,
              Happens, Fault, FaultSticks, Smooth
  <1>1. CASE Replay(t) \/ Start(t) BY <1>1 DEF Replay, Start
  <1>2. CASE SavingsDebit(t) BY <1>2 DEF SavingsDebit
  <1>3. CASE SavingsRefused(t) BY <1>3 DEF SavingsRefused
  <1>4. CASE FailTransfer(t) BY <1>4 DEF FailTransfer
  <1>5. CASE RefundSavings(t) BY <1>5 DEF RefundSavings
  <1>6. CASE MirrorLeg(t) BY <1>6 DEF MirrorLeg
  <1>7. CASE MarkCompleted(t) BY <1>7 DEF MarkCompleted
  <1>8. CASE EngineDebit(t) BY <1>8 DEF EngineDebit
  <1>9. CASE EngineRefuses(t) BY <1>9 DEF EngineRefuses
  <1>10. CASE EngineCredit(t)
    <2>1. pc[t] = "give" /\ Give(t) /\ request' = request /\ row' = row
      BY <1>10 DEF EngineCredit
    <2>2. pc'[t] = IF Into(t) THEN "mirror" ELSE "commit"
      BY <1>10 DEF EngineCredit
    <2>3. row[t] = "absent" => ~ Into(t)
      BY <2>1
    <2>4. CASE Into(t)
      BY <2>1, <2>2, <2>3, <2>4
    <2>5. CASE ~ Into(t)
      BY <2>1, <2>2, <2>5
    <2> QED
      BY <2>4, <2>5
  <1>11. CASE EngineCreditDown(t) BY <1>11 DEF EngineCreditDown
  <1>12. CASE Commit(t) BY <1>12 DEF Commit
  <1>13. CASE CommitRefused(t) BY <1>13 DEF CommitRefused
  <1>14. CASE UndoFrom(t) BY <1>14 DEF UndoFrom
  <1>15. CASE UndoTo(t) BY <1>15 DEF UndoTo
  <1>16. CASE Abort(t) BY <1>16 DEF Abort
  <1> QED BY <1>1, <1>2, <1>3, <1>4, <1>5, <1>6, <1>7, <1>8, <1>9, <1>10, <1>11,
             <1>12, <1>13, <1>14, <1>15, <1>16 DEF Step

\* Every step.
LEMMA NextRowed ==
    TypedPaths /\ (Finished => AllRowed) /\ [Next]_vars => (Finished' => AllRowed')
  <1> SUFFICES ASSUME TypedPaths, Finished => AllRowed, [Next]_vars, Finished'
               PROVE  AllRowed'
    OBVIOUS
  <1>0. TypeOK /\ OnPaths
    BY DEF TypedPaths
  <1>s. AllRowed
    BY <1>0, NextHappens DEF Finished, Never
  <1>1. ASSUME NEW t \in Transfers, Step(t) \/ Abort(t) PROVE AllRowed'
    <2>1. OnPath(t) /\ Rowed(t)
      BY <1>0, <1>s DEF OnPaths, AllRowed
    <2>2. Rowed(t)'
      BY <1>0, <1>1, <2>1, StepRowed
    <2>3. ASSUME NEW u \in Transfers, u # t PROVE Rowed(u)'
      <3>1. Rowed(u)
        BY <1>s DEF AllRowed
      <3>2. /\ pc'[u] = pc[u] /\ row'[u] = row[u]
            /\ taken'[u] = taken[u] /\ given'[u] = given[u] /\ request' = request
        BY <1>0, <1>1, <2>3, OtherUntouched
      <3> QED
        BY <3>1, <3>2 DEF Rowed, Unmoved, Out, To
    <2> QED
      BY <2>2, <2>3 DEF AllRowed
  <1>2. ASSUME NEW a \in Accounts, Trade(a) PROVE AllRowed'
    BY <1>s, <1>2 DEF AllRowed, Rowed, Unmoved, Out, To, Trade, books, table
  <1>3. CASE UNCHANGED vars
    BY <1>s, <1>3 DEF AllRowed, Rowed, Unmoved, Out, To, vars
  <1> QED
    BY <1>1, <1>2, <1>3, Zenon DEF Next

(* Of the transfers with one idempotency key at most one moves money, once  *)
(* none is under way, also when a COMMIT is applied and seen to fail.       *)
THEOREM KeysMoveOnce == Spec => []KeyMovesOnce
  <1>1. Init => AllRowed
    BY DEF Init, AllRowed, Rowed, Unmoved
  <1>2. Spec => [](Finished => AllRowed)
    BY <1>1, NextRowed, PathsInvariant, PTL DEF Spec
  <1>3. Spec => []OneRowPerKey
    BY InitOneRow, NextOneRow, PathsInvariant, PTL DEF Spec
  <1>4. TypedPaths /\ OneRowPerKey /\ (Finished => AllRowed) => KeyMovesOnce
    <2> SUFFICES ASSUME OneRowPerKey, Finished, AllRowed, AtRest,
                        NEW t \in Transfers, NEW u \in Transfers, t # u, SameKey(t, u)
                 PROVE  /\ taken[t] = "yes" => taken[u] # "yes"
                        /\ given[t] = "yes" => given[u] # "yes"
      BY DEF KeyMovesOnce, OncePerKey, Finished, SameKey
    <2>1. Unmoved(t) \/ Unmoved(u)
      BY DEF OneRowPerKey, AllRowed, Rowed, AtRest, Open
    <2> QED
      BY <2>1 DEF Unmoved
  <1> QED
    BY <1>2, <1>3, <1>4, PathsInvariant, PTL

-----------------------------------------------------------------------------
(* The mirror.  Postgres is behind the engine by what the one transfer      *)
(* under way has moved and not yet written down, and what its handler was   *)
(* told is what the engine still holds.                                     *)

Alone == happened \subseteq {"engine_down", "reversal", "loss"}

OwedCredit(t, a) ==
    /\ a = To(t)
    /\ pc[t] = "mirror" \/ (Across(t) /\ pc[t] \in {"commit", "undo_both", "undo_to"})

OwedDebit(t, a) == a = From(t) /\ pc[t] \in {"give", "commit", "undo", "undo_both"}

Behind(t, a) == (IF OwedCredit(t, a) THEN Converted(t) ELSE 0)
                    - (IF OwedDebit(t, a) THEN Amount(t) ELSE 0)

\* What transfers made of a balance, and what the engine last answered if no
\* other transfer changed it since.
Net(a)      == balance[a] - realised[a]
LastTold(a) == Net(a) + answered[a]

\* Trading leaves alone what transfers made.
LEMMA TradeNet ==
    ASSUME TypeOK, NEW a \in Accounts, Trade(a), NEW b \in Accounts
    PROVE  Net(b)' = Net(b)
  <1>1. PICK p \in Positions[a] :
           /\ realised' = [realised EXCEPT ![a] = p.realised]
           /\ balance'  = [balance EXCEPT ![a] = @ + p.realised - realised[a]]
    BY DEF Trade
  <1>2. /\ p.realised \in Int /\ b \in Legs /\ balance[b] \in Int /\ realised[b] \in Int
        /\ balance \in [Legs -> Int] /\ realised \in [Accounts -> Int]
    BY TransfersAssumption DEF TypeOK, Legs
  <1>3. CASE b = a
    <2>1. balance'[b] = balance[b] + p.realised - realised[b] /\ realised'[b] = p.realised
      BY <1>1, <1>2, <1>3
    <2> QED
      BY <1>2, <2>1 DEF Net
  <1>4. CASE b # a
    <2>1. balance'[b] = balance[b] /\ realised'[b] = realised[b]
      BY <1>1, <1>2, <1>4
    <2> QED
      BY <2>1 DEF Net
  <1> QED
    BY <1>3, <1>4

Lagging(t) ==
    /\ \A a \in Accounts : Net(a) = mirror[a] - written[a] + Behind(t, a)
    /\ ~ Into(t) /\ pc[t] \in {"give", "commit"} => told[t].from = LastTold(From(t))
    /\ pc[t] = "mirror" \/ (Across(t) /\ pc[t] = "commit") => told[t].to = LastTold(To(t))

Agree == \A a \in Accounts : Net(a) = mirror[a] - written[a]

MirrorInv ==
    /\ \A t, u \in Open : t = u
    /\ AtRest => Agree
    /\ \A t \in Open : Lagging(t)

\* The request, and all that is derived from it, stays.
LEMMA SameRequest ==
    ASSUME request' = request, NEW t \in Transfers
    PROVE  /\ From(t)' = From(t) /\ To(t)' = To(t) /\ Amount(t)' = Amount(t)
           /\ Into(t)' = Into(t) /\ Out(t)' = Out(t) /\ Across(t)' = Across(t)
  BY DEF From, To, Amount, Into, Out, Across

\* So does what it gives, once the kinds are looked up.
LEMMA SameConverted ==
    ASSUME request' = request, NEW t \in Transfers, misread'[t] = misread[t]
    PROVE  Converted(t)' = Converted(t)
  BY DEF Converted, ScaleOf, From, To, Amount

\* Its legs are two, and at most one of them is Savings.
LEMMA LegsApart ==
    ASSUME TypeOK, NEW t \in Transfers
    PROVE  /\ From(t) # To(t) /\ Amount(t) \in Nat /\ Converted(t) \in Nat
           /\ Into(t) => From(t) \notin Accounts /\ To(t) \in Accounts
           /\ ~ Into(t) => From(t) \in Accounts
           /\ Out(t) => To(t) \notin Accounts
           /\ Across(t) <=> ~ Into(t) /\ ~ Out(t)
           /\ Across(t) => To(t) \in Accounts
           /\ Out(t) => ~ Into(t)
  <1>1. From(t) # To(t) /\ Amount(t) \in Nat /\ Converted(t) \in Nat
    BY RequestShape, ConvertedNat DEF TypeOK
  <1> QED
    BY <1>1, RequestShape, TransfersAssumption DEF TypeOK, Into, Out, Across

\* No answer, no statement and no handler is lost.
LEMMA AloneMeans ==
    ASSUME Alone', NEW f, f \in {"abort", "lost_reply", "lost_commit", "db_fail", "stuck", "overlap",
                                 "in_debt"}
    PROVE  f \notin happened'
  BY DEF Alone

LEMMA StepRequest ==
    ASSUME NEW t \in Transfers, Step(t) \/ Abort(t)
    PROVE  request' = request /\ realised' = realised /\ (misread' = misread \/ Start(t))
  BY DEF Step, Replay, Start, SavingsDebit, SavingsRefused, FailTransfer, RefundSavings, MirrorLeg,
         MarkCompleted, EngineDebit, EngineRefuses, EngineCredit, EngineCreditDown, Commit,
         CommitRefused, UndoFrom, UndoTo, Abort

\* One step of the transfer under way.
LEMMA StepLagging ==
    ASSUME TypeOK, NEW t \in Transfers, OnPath(t), t \in Open, Lagging(t),
           Step(t) \/ Abort(t), Alone'
    PROVE  Lagging(t)'
  <1>p. pc[t] \notin {"idle"} \cup Final /\ pc[t] \in Pcs
    BY DEF Open, TypeOK
  <1>r. request' = request /\ realised' = realised /\ misread' = misread
    BY <1>p, StepRequest DEF Start
  <1>t. /\ balance \in [Legs -> Int] /\ mirror \in [Accounts -> Nat]
        /\ realised \in [Accounts -> Int] /\ answered \in [Accounts -> Int]
        /\ written \in [Accounts -> Int]
        /\ pc \in [Transfers -> Pcs]
        /\ told \in [Transfers -> [from: Int, to: Int]]
        /\ Accounts \subseteq Legs /\ From(t) \in Legs /\ To(t) \in Legs
    BY RequestShape DEF TypeOK, Legs
  <1>c. Converted(t)' = Converted(t)
    BY <1>r, SameConverted
  <1>n. \A a \in Accounts : Net(a) \in Int
    BY <1>t DEF Net
  <1> USE <1>r, <1>p, <1>t, <1>c, <1>n, SameRequest, LegsApart, AloneMeans
  <1> USE DEF OnPath, InOnly, NotIn, BothLegs, Final
  <1>b. ASSUME UNCHANGED <<balance, mirror, told, answered, written>>,
               \A a \in Accounts : Behind(t, a)' = Behind(t, a),
               ~ Into(t) /\ pc'[t] \in {"give", "commit"} => pc[t] \in {"give", "commit"},
               pc'[t] = "mirror" \/ (Across(t) /\ pc'[t] = "commit")
                   => pc[t] = "mirror" \/ (Across(t) /\ pc[t] = "commit")
        PROVE  Lagging(t)'
    BY <1>b DEF Lagging, Net, LastTold
  <1>1. CASE Replay(t) \/ Start(t) BY <1>1 DEF Replay, Start
  <1>2. CASE SavingsDebit(t)
    <2>1. /\ pc[t] = "start" /\ Into(t) /\ pc'[t] \in {"give", "error"}
          /\ UNCHANGED <<mirror, told, answered, written>>
          /\ balance' = [balance EXCEPT ![From(t)] = @ - Amount(t)]
      BY <1>2 DEF SavingsDebit, Goto, Take
    <2>2. ASSUME NEW a \in Accounts
          PROVE  balance'[a] = balance[a] /\ Behind(t, a) = 0 /\ Behind(t, a)' = 0
      BY <2>1 DEF Behind, OwedCredit, OwedDebit
    <2> QED
      BY <2>1, <2>2 DEF Lagging, Net
  <1>3. CASE SavingsRefused(t)
    BY <1>3, <1>b DEF SavingsRefused, Goto, books, table, Behind, OwedCredit, OwedDebit
  <1>4. CASE FailTransfer(t)
    BY <1>4, <1>b DEF FailTransfer, Goto, books, Behind, OwedCredit, OwedDebit
  <1>5. CASE RefundSavings(t)
    <2>1. /\ pc[t] = "refund" /\ Into(t) /\ pc'[t] = "error"
          /\ UNCHANGED <<mirror, told, answered, written>>
          /\ \/ balance' = [balance EXCEPT ![From(t)] = @ + Amount(t)] \/ balance' = balance
      BY <1>5 DEF RefundSavings, Goto, GiveBack, books, table
    <2>2. ASSUME NEW a \in Accounts
          PROVE  balance'[a] = balance[a] /\ Behind(t, a) = 0 /\ Behind(t, a)' = 0
      BY <2>1 DEF Behind, OwedCredit, OwedDebit
    <2> QED
      BY <2>1, <2>2 DEF Lagging, Net
  <1>6. CASE MirrorLeg(t)
    <2>1. /\ pc[t] = "mirror" /\ Into(t) /\ To(t) \in Accounts /\ pc'[t] = "mark"
          /\ UNCHANGED <<balance, told>>
      BY <1>6 DEF MirrorLeg, Goto, books
    <2>2. /\ Net(To(t)) = mirror[To(t)] - written[To(t)] + Converted(t)
          /\ told[t].to = Net(To(t)) + answered[To(t)]
      BY <2>1 DEF Lagging, LastTold, Behind, OwedCredit, OwedDebit
    <2>3. mirror' = [mirror EXCEPT ![To(t)] = told[t].to] /\ Written({To(t)})
      <3>1. "db_fail" \notin happened' /\ "in_debt" \notin happened'
        OBVIOUS
      <3> QED
        BY <1>6, <3>1 DEF MirrorLeg, Happens, Fault
    <2>4. ASSUME NEW a \in Accounts PROVE Behind(t, a)' = 0 /\ (a # To(t) => Behind(t, a) = 0)
      BY <2>1 DEF Behind, OwedCredit, OwedDebit
    <2>5. ASSUME NEW a \in Accounts PROVE Net(a)' = mirror'[a] - written'[a] + Behind(t, a)'
      <3>1. Net(a)' = Net(a) /\ Net(a) \in Int
        BY <2>1 DEF Net
      <3>2. CASE a = To(t)
        <4>1. mirror'[a] = Net(a) + answered[a] /\ written'[a] = answered[a]
          BY <2>2, <2>3, <3>2 DEF Written
        <4> QED
          BY <2>4, <3>1, <4>1
      <3>3. CASE a # To(t)
        <4>1. mirror'[a] = mirror[a] /\ written'[a] = written[a]
          BY <2>3, <3>3 DEF Written
        <4>2. Net(a) = mirror[a] - written[a] + 0
          BY <2>4, <3>3 DEF Lagging
        <4> QED
          BY <2>4, <3>1, <4>1, <4>2
      <3> QED
        BY <3>2, <3>3
    <2> QED
      BY <2>1, <2>5 DEF Lagging
  <1>7. CASE MarkCompleted(t)
    BY <1>7, <1>b DEF MarkCompleted, Goto, books, Behind, OwedCredit, OwedDebit
  <1>8. CASE EngineDebit(t)
    <2>1. /\ pc[t] = "start" /\ ~ Into(t) /\ From(t) \in Accounts /\ UNCHANGED <<mirror, written>>
          /\ balance' = [balance EXCEPT ![From(t)] = @ - Amount(t)]
          /\ told' = [told EXCEPT ![t].from = balance[From(t)] - Amount(t)]
          /\ answered' = [answered EXCEPT ![From(t)] = realised[From(t)]]
      BY <1>8 DEF EngineDebit, Take, Answered, table
    <2>2. pc'[t] = IF Out(t) THEN "commit" ELSE "give"
      BY <1>8 DEF EngineDebit, Goto, Fault, Happens
    <2>3. ASSUME NEW a \in Accounts
          PROVE  /\ Behind(t, a) = 0
                 /\ Behind(t, a)' = IF a = From(t) THEN - Amount(t) ELSE 0
      BY <2>1, <2>2 DEF Behind, OwedCredit, OwedDebit
    <2>4. told'[t].from = LastTold(From(t))'
      <3>1. told'[t].from = balance[From(t)] - Amount(t)
        BY <2>1
      <3>2. balance'[From(t)] = balance[From(t)] - Amount(t) /\ answered'[From(t)] = realised[From(t)]
        BY <2>1
      <3> QED
        BY <2>1, <3>1, <3>2 DEF LastTold, Net
    <2>5. ASSUME NEW a \in Accounts PROVE Net(a)' = mirror'[a] - written'[a] + Behind(t, a)'
      <3>1. Net(a) = mirror[a] - written[a] + 0
        BY <2>3 DEF Lagging
      <3>2. balance'[a] = IF a = From(t) THEN balance[a] - Amount(t) ELSE balance[a]
        BY <2>1
      <3> QED
        BY <2>1, <2>3, <3>1, <3>2 DEF Net
    <2> QED
      BY <2>1, <2>2, <2>4, <2>5 DEF Lagging
  <1>9. CASE EngineRefuses(t)
    BY <1>9, <1>b DEF EngineRefuses, Goto, books, table, Behind, OwedCredit, OwedDebit
  <1>10. CASE EngineCredit(t)
    <2>1. /\ pc[t] = "give" /\ UNCHANGED <<mirror, written>>
          /\ balance' = [balance EXCEPT ![To(t)] = @ + Converted(t)]
          /\ told' = [told EXCEPT ![t].to = balance[To(t)] + Converted(t)]
          /\ answered' = [answered EXCEPT ![To(t)] = realised[To(t)]]
      BY <1>10 DEF EngineCredit, Give, Answered, table
    <2>2. pc'[t] = IF Into(t) THEN "mirror" ELSE "commit"
      BY <1>10 DEF EngineCredit, Goto, Fault, Happens
    <2>3. Converted(t) \in Nat /\ balance[To(t)] \in Int
      OBVIOUS
    <2>4. ~ Out(t) => told'[t].to = LastTold(To(t))'
      <3>1. told'[t].to = balance[To(t)] + Converted(t)
        BY <2>1
      <3>2. SUFFICES ASSUME To(t) \in Accounts PROVE told'[t].to = LastTold(To(t))'
        OBVIOUS
      <3>3. balance'[To(t)] = balance[To(t)] + Converted(t) /\ answered'[To(t)] = realised[To(t)]
        BY <2>1, <3>2
      <3>4. realised[To(t)] \in Int
        BY <3>2
      <3> QED
        BY <2>3, <3>1, <3>3, <3>4 DEF LastTold, Net
    <2>5. ASSUME NEW a \in Accounts PROVE Net(a)' = mirror'[a] - written'[a] + Behind(t, a)'
      <3>0. Net(a) = mirror[a] - written[a] + Behind(t, a)
        BY DEF Lagging
      <3>1. CASE a = To(t)
        <4>1. ~ Out(t) /\ a # From(t)
          BY <3>1
        <4>2. Behind(t, a) = 0 /\ Behind(t, a)' = Converted(t)
          BY <2>1, <2>2, <3>1, <4>1 DEF Behind, OwedCredit, OwedDebit
        <4>3. balance'[a] = balance[a] + Converted(t)
          BY <2>1, <3>1
        <4> QED
          BY <2>1, <3>0, <4>2, <4>3 DEF Net
      <3>2. CASE a # To(t)
        <4>1. Behind(t, a)' = Behind(t, a)
          BY <2>1, <2>2, <3>2 DEF Behind, OwedCredit, OwedDebit
        <4>2. balance'[a] = balance[a]
          BY <2>1, <3>2
        <4> QED
          BY <2>1, <3>0, <4>1, <4>2 DEF Net
      <3> QED
        BY <3>1, <3>2
    <2>6. ~ Into(t) => told'[t].from = LastTold(From(t))'
      <3> SUFFICES ASSUME ~ Into(t) PROVE told'[t].from = LastTold(From(t))'
        OBVIOUS
      <3>1. From(t) \in Accounts /\ From(t) # To(t)
        OBVIOUS
      <3>2. told[t].from = LastTold(From(t)) /\ told'[t].from = told[t].from
        BY <2>1 DEF Lagging
      <3>3. balance'[From(t)] = balance[From(t)] /\ answered'[From(t)] = answered[From(t)]
        BY <2>1, <3>1
      <3> QED
        BY <3>1, <3>2, <3>3 DEF LastTold, Net
    <2> QED
      BY <2>2, <2>4, <2>5, <2>6 DEF Lagging
  <1>11. CASE EngineCreditDown(t)
    <2>1. /\ pc[t] = "give" /\ pc'[t] = IF Into(t) THEN "fail" ELSE "undo"
          /\ UNCHANGED <<balance, mirror, told, answered, written>>
      BY <1>11 DEF EngineCreditDown, CreditFailed, Goto, books, table
    <2>2. ASSUME NEW a \in Accounts PROVE Behind(t, a)' = Behind(t, a)
      BY <2>1 DEF Behind, OwedCredit, OwedDebit
    <2> QED
      BY <1>b, <2>1, <2>2
  <1>12. CASE Commit(t)
    <2>1. pc[t] = "commit" /\ ~ Into(t) /\ pc'[t] = "ok" /\ answered' = answered
      BY <1>12 DEF Commit, CommitFailed, Goto, Written, Happens
    <2>2. ASSUME NEW a \in Accounts PROVE balance'[a] = balance[a]
      BY <1>12 DEF Commit, Give, books
    <2>3. ASSUME NEW a \in Accounts
          PROVE  /\ mirror'[a] = IF a = From(t) THEN told[t].from
                                 ELSE IF a = To(t) THEN told[t].to ELSE mirror[a]
                 /\ written'[a] = IF a \in {From(t), To(t)} THEN answered[a] ELSE written[a]
      BY <1>12 DEF Commit, WriteMirrors, Written
    <2>4. ASSUME NEW a \in Accounts PROVE Net(a)' = mirror'[a] - written'[a] + Behind(t, a)'
      <3>0. Behind(t, a)' = 0 /\ Net(a)' = Net(a)
        BY <2>1, <2>2 DEF Behind, OwedCredit, OwedDebit, Net
      <3>1. CASE a = From(t)
        <4>1. told[t].from = Net(a) + answered[a]
          BY <2>1, <3>1 DEF Lagging, LastTold
        <4> QED
          BY <2>3, <3>0, <3>1, <4>1
      <3>2. CASE a = To(t)
        <4>1. told[t].to = Net(a) + answered[a] /\ a # From(t)
          BY <2>1, <3>2 DEF Lagging, LastTold
        <4> QED
          BY <2>3, <3>0, <3>2, <4>1
      <3>3. CASE a # From(t) /\ a # To(t)
        <4>1. Net(a) = mirror[a] - written[a] + 0
          BY <3>3 DEF Lagging, Behind, OwedCredit, OwedDebit
        <4> QED
          BY <2>3, <3>0, <3>3, <4>1
      <3> QED
        BY <3>1, <3>2, <3>3
    <2> QED
      BY <2>1, <2>4 DEF Lagging
  <1>13. CASE CommitRefused(t)
    <2>1. /\ pc[t] = "commit" /\ ~ Into(t) /\ pc'[t] = IF Out(t) THEN "undo" ELSE "undo_both"
          /\ UNCHANGED <<balance, mirror, told, answered, written>>
      BY <1>13 DEF CommitRefused, CommitFailed, Goto, books, table
    <2>2. ASSUME NEW a \in Accounts PROVE Behind(t, a)' = Behind(t, a)
      BY <2>1 DEF Behind, OwedCredit, OwedDebit
    <2> QED
      BY <1>b, <2>1, <2>2
  <1>14. CASE UndoFrom(t)
    <2>1. /\ pc[t] \in {"undo", "undo_both"} /\ ~ Into(t) /\ From(t) \in Accounts
          /\ UNCHANGED <<mirror, told, answered, written>>
          /\ balance' = [balance EXCEPT ![From(t)] = @ + Amount(t)] \/ "stuck" \in happened'
          /\ pc'[t] = IF pc[t] = "undo" THEN "error" ELSE "undo_to"
      BY <1>14 DEF UndoFrom, GiveBack, Goto, table, FaultSticks, Happens
    <2>2. ASSUME NEW a \in Accounts PROVE Net(a)' = mirror'[a] - written'[a] + Behind(t, a)'
      <3>0. Net(a) = mirror[a] - written[a] + Behind(t, a)
        BY DEF Lagging
      <3>1. balance'[a] = IF a = From(t) THEN balance[a] + Amount(t) ELSE balance[a]
        BY <2>1
      <3>2. CASE a = From(t)
        <4>1. Behind(t, a) = - Amount(t) /\ Behind(t, a)' = 0
          BY <2>1, <3>2 DEF Behind, OwedCredit, OwedDebit
        <4> QED
          BY <2>1, <3>0, <3>1, <3>2, <4>1 DEF Net
      <3>3. CASE a # From(t)
        <4>1. Behind(t, a)' = Behind(t, a)
          BY <2>1, <3>3 DEF Behind, OwedCredit, OwedDebit
        <4> QED
          BY <2>1, <3>0, <3>1, <3>3, <4>1 DEF Net
      <3> QED
        BY <3>2, <3>3
    <2> QED
      BY <2>1, <2>2 DEF Lagging
  <1>15. CASE UndoTo(t)
    <2>1. /\ pc[t] = "undo_to" /\ Across(t) /\ UNCHANGED <<mirror, told, answered, written>>
          /\ balance' = [balance EXCEPT ![To(t)] = @ - Converted(t)] \/ "stuck" \in happened'
          /\ pc'[t] = "error"
      BY <1>15 DEF UndoTo, Reclaim, Goto, table, FaultSticks, Happens
    <2>2. ASSUME NEW a \in Accounts PROVE Net(a)' = mirror'[a] - written'[a] + Behind(t, a)'
      <3>0. Net(a) = mirror[a] - written[a] + Behind(t, a)
        BY DEF Lagging
      <3>1. Behind(t, a)' = 0 /\ Behind(t, a) = IF a = To(t) THEN Converted(t) ELSE 0
        BY <2>1 DEF Behind, OwedCredit, OwedDebit
      <3>2. balance'[a] = IF a = To(t) THEN balance[a] - Converted(t) ELSE balance[a]
        BY <2>1
      <3> QED
        BY <2>1, <3>0, <3>1, <3>2 DEF Net
    <2> QED
      BY <2>1, <2>2 DEF Lagging
  <1>16. CASE Abort(t) BY <1>16 DEF Abort, Fault, Happens
  <1> QED BY <1>1, <1>2, <1>3, <1>4, <1>5, <1>6, <1>7, <1>8, <1>9, <1>10, <1>11,
             <1>12, <1>13, <1>14, <1>15, <1>16 DEF Step

\* What a step of one transfer does to the set of those under way.
LEMMA StepOpen ==
    ASSUME TypeOK, NEW t \in Transfers, Step(t) \/ Abort(t)
    PROVE  /\ Open' \subseteq Open \cup {t} /\ Open \ {t} \subseteq Open'
           /\ t \notin Open =>
                 \/ Open' = Open /\ UNCHANGED <<balance, trade, mirror, told, asked>>
                 \/ Start(t)
  <1>1. \A u \in Transfers : u # t => pc'[u] = pc[u]
    BY OtherUntouched
  <1>2. Open' \subseteq Open \cup {t} /\ Open \ {t} \subseteq Open'
    BY <1>1 DEF Open
  <1>3. ASSUME t \notin Open, ~ Start(t) PROVE Replay(t)
    <2>1. pc[t] \in {"idle"} \cup Final
      BY <1>3 DEF Open
    <2> QED
      BY <1>3, <2>1 DEF Step, Replay, SavingsDebit, SavingsRefused, FailTransfer, RefundSavings,
             MirrorLeg, MarkCompleted, EngineDebit, EngineRefuses, EngineCredit, EngineCreditDown,
             Commit, CommitRefused, UndoFrom, UndoTo, Abort, Final
  <1>4. ASSUME Replay(t), t \notin Open
        PROVE  Open' = Open /\ UNCHANGED <<balance, trade, mirror, told, asked>>
    <2>1. pc'[t] = "replayed" /\ UNCHANGED <<balance, trade, mirror, told, asked>>
      BY <1>4 DEF Replay, Goto, TypeOK, books, table
    <2>2. t \notin Open'
      BY <2>1 DEF Open, Final
    <2> QED
      BY <1>2, <1>4, <2>1, <2>2
  <1> QED
    BY <1>2, <1>3, <1>4

\* Steps that leave the transfers alone, and what they made of every balance.
LEMMA OthersMirror ==
    ASSUME TypeOK, OnPaths, MirrorInv, \A a \in Accounts : Net(a)' = Net(a),
           UNCHANGED <<asked, answered, written, mirror, told>>, Open' = Open,
           \A u \in Open : u \in Transfers /\ pc'[u] = pc[u]
    PROVE  MirrorInv'
  <1>1. ASSUME NEW u \in Open PROVE Lagging(u)'
    <2>1. u \in Transfers /\ Lagging(u) /\ pc'[u] = pc[u]
      BY DEF MirrorInv
    <2>2. \A a \in Accounts : Behind(u, a)' = Behind(u, a)
      BY <2>1, SameRequest, SameConverted DEF Behind, OwedCredit, OwedDebit
    <2>3. ASSUME ~ Into(u), pc[u] \in {"give", "commit"} PROVE told'[u].from = LastTold(From(u))'
      <3>1. From(u) \in Accounts
        BY <2>1, <2>3, LegsApart
      <3> QED
        BY <2>1, <2>3, <3>1, SameRequest DEF Lagging, LastTold
    <2>4. ASSUME pc[u] = "mirror" \/ (Across(u) /\ pc[u] = "commit")
          PROVE  told'[u].to = Net(To(u))' + answered'[To(u)]
      <3>1. told[u].to = Net(To(u)) + answered[To(u)]
        BY <2>1, <2>4 DEF Lagging, LastTold
      <3>2. To(u) \in Accounts
        BY <2>1, <2>4, LegsApart DEF OnPaths, OnPath, InOnly
      <3> QED
        BY <2>1, <3>1, <3>2, SameRequest
    <2> QED
      BY <2>1, <2>2, <2>3, <2>4, SameRequest DEF Lagging, LastTold
  <1> QED
    BY <1>1 DEF MirrorInv, AtRest, Agree

\* Every step.
LEMMA NextMirror ==
    TypedPaths /\ (Alone => MirrorInv) /\ [Next]_vars => (Alone' => MirrorInv')
  <1> SUFFICES ASSUME TypedPaths, Alone => MirrorInv, [Next]_vars, Alone'
               PROVE  MirrorInv'
    OBVIOUS
  <1>0. TypeOK /\ OnPaths
    BY DEF TypedPaths
  <1>s. MirrorInv
    BY <1>0, NextHappens DEF Alone
  <1>1. ASSUME NEW t \in Transfers, Step(t) \/ Abort(t) PROVE MirrorInv'
    <2>1. CASE t \in Open
      <3>1. Open = {t} /\ Lagging(t) /\ OnPath(t)
        BY <1>0, <1>s, <2>1 DEF MirrorInv, OnPaths
      <3>2. Lagging(t)'
        BY <1>0, <1>1, <2>1, <3>1, StepLagging
      <3>3. Open' \subseteq {t}
        BY <1>0, <1>1, <3>1, StepOpen
      <3>4. ASSUME Open' = {} PROVE Agree'
        <4>1. pc'[t] \in {"idle"} \cup Final
          BY <3>4 DEF Open
        <4>2. ASSUME NEW a \in Accounts PROVE Behind(t, a)' = 0
          BY <4>1 DEF Behind, OwedCredit, OwedDebit, Final
        <4>3. TypeOK'
          BY <1>0, <1>1, <3>1, StepTyped
        <4>4. ASSUME NEW a \in Accounts PROVE mirror'[a] \in Int /\ written'[a] \in Int
          BY <4>3 DEF TypeOK
        <4> QED
          BY <3>2, <4>2, <4>4 DEF Agree, Lagging
      <3> QED
        BY <3>2, <3>3, <3>4 DEF MirrorInv, AtRest
    <2>2. CASE t \notin Open /\ Start(t)
      <3>1. Open = {}
        BY <2>2, AloneMeans DEF Start, Happens
      <3>2. /\ Agree /\ UNCHANGED <<balance, trade, mirror, told, request>> /\ pc'[t] = "start"
        BY <1>0, <1>s, <2>2, <3>1 DEF MirrorInv, AtRest, Start, Goto, TypeOK, books, table
      <3>3. t \in Open' /\ Open' \subseteq {t}
        BY <1>0, <1>1, <3>1, <3>2, StepOpen DEF Open, Final
      <3>4. ASSUME NEW a \in Accounts
            PROVE  /\ Behind(t, a)' = 0
                   /\ Net(a)' = mirror'[a] - written'[a] + 0
        BY <1>0, <3>2 DEF Behind, OwedCredit, OwedDebit, Agree, Net, TypeOK
      <3>5. Lagging(t)'
        BY <3>2, <3>4 DEF Lagging
      <3> QED
        BY <3>3, <3>5 DEF MirrorInv, AtRest
    <2>3. CASE Open' = Open /\ UNCHANGED <<balance, trade, mirror, told, asked>> /\ t \notin Open
      <3>1. ASSUME NEW u \in Open PROVE u \in Transfers /\ pc'[u] = pc[u]
        BY <1>0, <1>1, <2>3, OtherUntouched DEF Open
      <3> QED
        BY <1>0, <1>s, <2>3, <3>1, OthersMirror DEF Net
    <2> QED
      BY <1>0, <1>1, <2>1, <2>2, <2>3, StepOpen
  <1>2. ASSUME UNCHANGED pc PROVE Open' = Open /\ \A u \in Open : u \in Transfers
    BY <1>2 DEF Open
  <1>3. ASSUME NEW a \in Accounts, Trade(a) PROVE MirrorInv'
    <2>1. \A b \in Accounts : Net(b)' = Net(b)
      BY <1>0, <1>3, TradeNet
    <2> QED
      BY <1>0, <1>s, <1>2, <1>3, <2>1, OthersMirror DEF Trade, table
  <1>4. CASE UNCHANGED vars
    BY <1>0, <1>s, <1>2, <1>4, OthersMirror DEF vars, Net
  <1> QED
    BY <1>1, <1>3, <1>4, Zenon DEF Next

(* One transfer at a time, an engine that refuses calls when it is down,    *)
(* and accounts that trade: whatever a transfer's end, both of its legs     *)
(* undone included, Postgres then differs from the engine by what trading   *)
(* has realised since the balance it holds, and by nothing else.            *)
THEOREM MirrorsAgree == Spec => []MirrorAgrees
  <1>1. Init => MirrorInv
    BY TransfersAssumption DEF Init, MirrorInv, Open, AtRest, Agree, Net, Legs
  <1>2. Spec => [](Alone => MirrorInv)
    BY <1>1, NextMirror, PathsInvariant, PTL DEF Spec
  <1>3. (Alone => MirrorInv) => MirrorAgrees
    BY DEF Alone, MirrorInv, Agree, Net, MirrorAgrees
  <1> QED
    BY <1>2, <1>3, PTL

-----------------------------------------------------------------------------
(* The books.  A debit that leaves a book in debt is one that the CHECK on  *)
(* accounts.balance will refuse; until its handler has put the money back,  *)
(* the debt of a book is at most what such debits owe it.                   *)

Kept == Never({"abort", "lost_reply", "reversal", "stuck", "loss"})

Owes(t, a) == taken[t] = "yes" /\ From(t) = a /\ told[t].from < 0

Owing(a) == {t \in Transfers : Owes(t, a)}

Amounts == [t \in Transfers |-> Amount(t)]

Refusable(t) ==
    /\ pc[t] \in {"idle", "start"} => taken[t] = "no"
    /\ taken[t] = "yes" /\ told[t].from < 0 => pc[t] \in {"give", "commit", "undo"}
    /\ Into(t) => told[t].from = 0
    /\ pc[t] \notin BothLegs

BooksInv ==
    /\ \A t \in Transfers : Refusable(t)
    /\ \A a \in Accounts : IsFiniteSet(Owing(a)) /\ balance[a] + Sum(Amounts, Owing(a)) >= 0

\* The answers of the engine to the other transfers stay.
LEMMA OtherTold ==
    ASSUME TypeOK, NEW t \in Transfers, Step(t) \/ Abort(t), NEW u \in Transfers, u # t
    PROVE  told'[u] = told[u]
  BY DEF TypeOK, Step, Replay, Start, SavingsDebit, SavingsRefused, FailTransfer, RefundSavings,
         MirrorLeg, MarkCompleted, EngineDebit, EngineRefuses, EngineCredit, EngineCreditDown,
         Commit, CommitRefused, UndoFrom, UndoTo, Abort

\* One step of one transfer.
LEMMA StepRefusable ==
    ASSUME TypeOK, NEW t \in Transfers, OnPath(t), Refusable(t), Step(t) \/ Abort(t), Kept'
    PROVE  Refusable(t)'
  <1>r. request' = request
    BY StepRequest
  <1>i. Into(t)' = Into(t)
    BY <1>r, SameRequest
  <1> USE <1>i, LegsApart
  <1> USE DEF TypeOK, OnPath, InOnly, NotIn, BothLegs, Refusable, Goto, books, table,
              Take, Give, GiveBack, Reclaim, CreditFailed, CommitFailed, Final,
              Kept, Never, Happens, Fault, FaultSticks, Smooth
  <1>1. CASE Replay(t) \/ Start(t) BY <1>1 DEF Replay, Start
  <1>2. CASE SavingsDebit(t) BY <1>2 DEF SavingsDebit
  <1>3. CASE SavingsRefused(t) BY <1>3 DEF SavingsRefused
  <1>4. CASE FailTransfer(t) BY <1>4 DEF FailTransfer
  <1>5. CASE RefundSavings(t) BY <1>5 DEF RefundSavings
  <1>6. CASE MirrorLeg(t) BY <1>6 DEF MirrorLeg
  <1>7. CASE MarkCompleted(t) BY <1>7 DEF MarkCompleted
  <1>8. CASE EngineDebit(t) BY <1>8 DEF EngineDebit
  <1>9. CASE EngineRefuses(t) BY <1>9 DEF EngineRefuses
  <1>10. CASE EngineCredit(t) BY <1>10 DEF EngineCredit
  <1>11. CASE EngineCreditDown(t) BY <1>11 DEF EngineCreditDown
  <1>12. CASE Commit(t)
    <2>1. /\ told' = told /\ taken' = taken /\ ~ (told[t].from < 0)
      BY <1>12 DEF Commit, MirrorAllowed
    <2>2. pc'[t] \in {"ok", "undo", "undo_both"} /\ (pc'[t] = "undo_both" => "reversal" \in happened')
      BY <1>12 DEF Commit
    <2>3. pc'[t] \in {"ok", "undo"}
      BY <2>2
    <2>4. told'[t] = told[t]
      BY <2>1
    <2> QED
      BY <2>1, <2>3, <2>4
  <1>13. CASE CommitRefused(t) BY <1>13 DEF CommitRefused
  <1>14. CASE UndoFrom(t) BY <1>14 DEF UndoFrom
  <1>15. CASE UndoTo(t) BY <1>15 DEF UndoTo
  <1>16. CASE Abort(t) BY <1>16 DEF Abort
  <1> QED BY <1>1, <1>2, <1>3, <1>4, <1>5, <1>6, <1>7, <1>8, <1>9, <1>10, <1>11,
             <1>12, <1>13, <1>14, <1>15, <1>16 DEF Step

\* What it does to the book of an account and to what is owed to it.
Rises(t, a)  == (Owes(t, a)' <=> Owes(t, a)) /\ (balance'[a] >= balance[a] \/ balance'[a] >= 0)
Borrows(t, a) == ~ Owes(t, a) /\ Owes(t, a)' /\ balance'[a] = balance[a] - Amount(t)
Repays(t, a) == Owes(t, a) /\ ~ Owes(t, a)' /\ balance'[a] = balance[a] + Amount(t)

LEMMA StepBook ==
    ASSUME TypeOK, NEW t \in Transfers, OnPath(t), Refusable(t), Step(t) \/ Abort(t), Kept',
           NEW a \in Accounts
    PROVE  Rises(t, a) \/ Borrows(t, a) \/ Repays(t, a)
  <1>r. request' = request
    BY StepRequest
  <1>t. /\ balance \in [Legs -> Int] /\ told \in [Transfers -> [from: Int, to: Int]]
        /\ taken \in [Transfers -> Moves]
        /\ a \in Legs /\ From(t) \in Legs /\ To(t) \in Legs /\ balance[a] \in Int
    BY RequestShape DEF TypeOK, Legs
  <1>f. From(t)' = From(t) /\ Amount(t)' = Amount(t) /\ Into(t)' = Into(t)
    BY <1>r, SameRequest
  <1>0. ASSUME UNCHANGED <<taken, told>>, balance'[a] >= balance[a]
        PROVE  Rises(t, a)
    BY <1>f, <1>0 DEF Rises, Owes
  <1>n. ASSUME UNCHANGED <<books, told>> PROVE Rises(t, a)
    BY <1>0, <1>n, <1>t DEF books
  <1>g. ASSUME Give(t) PROVE taken' = taken /\ balance'[a] >= balance[a]
    <2>1. balance' = [balance EXCEPT ![To(t)] = @ + Converted(t)] /\ taken' = taken
      BY <1>g DEF Give
    <2>2. Converted(t) \in Nat
      BY LegsApart
    <2> QED
      BY <1>t, <2>1, <2>2
  <1>b. ASSUME GiveBack(t), told' = told PROVE Rises(t, a) \/ Repays(t, a)
    <2>1. /\ balance' = [balance EXCEPT ![From(t)] = @ + Amount(t)]
          /\ taken'[t] = "back" /\ Amount(t) \in Nat
      BY <1>b, <1>t, LegsApart DEF GiveBack
    <2>2. ~ Owes(t, a)'
      BY <2>1 DEF Owes
    <2>3. CASE Owes(t, a)
      <3>1. balance'[a] = balance[a] + Amount(t)
        BY <1>t, <2>1, <2>3 DEF Owes
      <3> QED
        BY <2>2, <2>3, <3>1 DEF Repays
    <2>4. CASE ~ Owes(t, a)
      <3>1. balance'[a] >= balance[a]
        BY <1>t, <2>1
      <3> QED
        BY <2>2, <2>4, <3>1 DEF Rises
    <2> QED
      BY <2>3, <2>4
  <1>1. CASE Replay(t) \/ Start(t) BY <1>1, <1>n DEF Replay, Start
  <1>2. CASE SavingsDebit(t)
    <2>1. Into(t) /\ Take(t) /\ told' = told
      BY <1>2 DEF SavingsDebit
    <2>2. From(t) # a /\ balance'[a] = balance[a]
      BY <1>t, <2>1, LegsApart DEF Take
    <2>3. ~ Owes(t, a) /\ ~ Owes(t, a)'
      BY <1>f, <2>2 DEF Owes
    <2> QED
      BY <1>t, <2>2, <2>3 DEF Rises
  <1>3. CASE SavingsRefused(t) BY <1>3, <1>n DEF SavingsRefused
  <1>4. CASE FailTransfer(t) BY <1>4, <1>n DEF FailTransfer
  <1>5. CASE RefundSavings(t) BY <1>5, <1>n, <1>b DEF RefundSavings
  <1>6. CASE MirrorLeg(t) BY <1>6, <1>n DEF MirrorLeg
  <1>7. CASE MarkCompleted(t) BY <1>7, <1>n DEF MarkCompleted
  <1>8. CASE EngineDebit(t)
    <2>1. /\ pc[t] = "start" /\ Amount(t) \in Nat
          /\ balance' = [balance EXCEPT ![From(t)] = @ - Amount(t)]
          /\ taken' = [taken EXCEPT ![t] = "yes"]
          /\ told' = [told EXCEPT ![t].from = balance[From(t)] - Amount(t)]
      BY <1>8, LegsApart DEF EngineDebit, Take
    <2>2. ~ Owes(t, a)
      BY <2>1 DEF Owes, Refusable
    <2>3. CASE From(t) # a
      <3>1. balance'[a] = balance[a]
        BY <1>t, <2>1, <2>3
      <3>2. ~ Owes(t, a)'
        BY <1>f, <2>3 DEF Owes
      <3> QED
        BY <1>t, <2>2, <3>1, <3>2 DEF Rises
    <2>4. CASE From(t) = a
      <3>1. balance'[a] = balance[a] - Amount(t) /\ told'[t].from = balance'[a] /\ taken'[t] = "yes"
        BY <1>t, <2>1, <2>4
      <3>2. Owes(t, a)' <=> balance'[a] < 0
        BY <1>f, <2>4, <3>1 DEF Owes
      <3>3. balance'[a] \in Int
        BY <1>t, <2>1, <3>1
      <3>4. CASE balance'[a] < 0
        BY <2>2, <3>1, <3>2, <3>4 DEF Borrows
      <3>5. CASE balance'[a] >= 0
        BY <2>2, <3>2, <3>3, <3>5 DEF Rises
      <3> QED
        BY <3>3, <3>4, <3>5
    <2> QED
      BY <2>3, <2>4
  <1>9. CASE EngineRefuses(t) BY <1>9, <1>n DEF EngineRefuses
  <1>10. CASE EngineCredit(t)
    <2>1. taken' = taken /\ balance'[a] >= balance[a]
      BY <1>g, <1>10 DEF EngineCredit
    <2>2. told'[t].from = told[t].from
      BY <1>t, <1>10 DEF EngineCredit
    <2> QED
      BY <1>f, <2>1, <2>2 DEF Rises, Owes
  <1>11. CASE EngineCreditDown(t) BY <1>11, <1>n DEF EngineCreditDown
  <1>12. CASE Commit(t) BY <1>12, <1>n, <1>g, <1>0 DEF Commit
  <1>13. CASE CommitRefused(t) BY <1>13, <1>n DEF CommitRefused
  <1>14. CASE UndoFrom(t) BY <1>14, <1>n, <1>b DEF UndoFrom
  <1>15. CASE UndoTo(t) BY <1>15 DEF UndoTo, Refusable, BothLegs
  <1>16. CASE Abort(t) BY <1>16, <1>n DEF Abort
  <1> QED BY <1>1, <1>2, <1>3, <1>4, <1>5, <1>6, <1>7, <1>8, <1>9, <1>10, <1>11,
             <1>12, <1>13, <1>14, <1>15, <1>16 DEF Step

\* Every step.
LEMMA NextBooks ==
    TypedPaths /\ (Kept => BooksInv) /\ [Next]_vars => (Kept' => BooksInv')
  <1> SUFFICES ASSUME TypedPaths, Kept => BooksInv, [Next]_vars, Kept'
               PROVE  BooksInv'
    OBVIOUS
  <1>0. TypeOK /\ OnPaths
    BY DEF TypedPaths
  <1>s. BooksInv
    BY <1>0, NextHappens DEF Kept, Never
  <1>n. \A t \in Transfers : Amounts[t] \in Nat
    BY <1>0, LegsApart DEF Amounts
  <1>1. ASSUME NEW t \in Transfers, Step(t) \/ Abort(t) PROVE BooksInv'
    <2>1. OnPath(t) /\ Refusable(t) /\ request' = request
      BY <1>0, <1>1, <1>s, StepRequest DEF OnPaths, BooksInv
    <2>2. ASSUME NEW u \in Transfers PROVE Refusable(u)'
      <3>1. CASE u = t
        BY <1>0, <1>1, <2>1, <3>1, StepRefusable
      <3>2. CASE u # t
        <4>1. pc'[u] = pc[u] /\ taken'[u] = taken[u] /\ told'[u] = told[u]
          BY <1>0, <1>1, <3>2, OtherUntouched, OtherTold
        <4>2. Refusable(u) /\ Into(u)' = Into(u)
          BY <1>s, <2>1, SameRequest DEF BooksInv
        <4> QED
          BY <4>1, <4>2 DEF Refusable
      <3> QED
        BY <3>1, <3>2
    <2>3. Amounts' = Amounts
      BY <2>1, SameRequest DEF Amounts, Amount
    <2>4. ASSUME NEW a \in Accounts
          PROVE  IsFiniteSet(Owing(a)') /\ balance'[a] + Sum(Amounts, Owing(a)') >= 0
      <3> DEFINE S == Owing(a)
                 T == Owing(a)'
      <3>1. \A u \in Transfers : u # t => (u \in T <=> u \in S)
        <4>1. ASSUME NEW u \in Transfers, u # t PROVE Owes(u, a)' <=> Owes(u, a)
          <5>1. taken'[u] = taken[u] /\ told'[u] = told[u] /\ From(u)' = From(u)
            BY <1>0, <1>1, <2>1, <4>1, OtherUntouched, OtherTold, SameRequest
          <5> QED
            BY <5>1 DEF Owes
        <4> QED
          BY <4>1 DEF Owing
      <3>2. S \subseteq Transfers /\ T \subseteq Transfers
        BY DEF Owing
      <3>3. (t \in S <=> Owes(t, a)) /\ (t \in T <=> Owes(t, a)')
        BY DEF Owing
      <3>4. IsFiniteSet(S) /\ balance[a] + Sum(Amounts, S) >= 0
        BY <1>s DEF BooksInv
      <3>5. balance[a] \in Int /\ balance'[a] \in Int
        <4>1. TypeOK'
          BY <1>0, <1>1, <2>1, StepTyped
        <4> QED
          BY <1>0, <4>1 DEF TypeOK, Legs
      <3>6. Amounts[t] = Amount(t)
        BY DEF Amounts
      <3>7. Rises(t, a) \/ Borrows(t, a) \/ Repays(t, a)
        BY <1>0, <1>1, <2>1, StepBook
      <3> HIDE DEF S, T
      <3>8. Sum(Amounts, S) \in Nat
        BY <1>n, <3>2, <3>4, SumNat
      <3>9. CASE Rises(t, a)
        <4>1. T = S
          BY <3>1, <3>2, <3>3, <3>9 DEF Rises
        <4> QED
          BY <3>4, <3>5, <3>8, <3>9, <4>1 DEF Rises, T
      <3>10. CASE Borrows(t, a)
        <4>1. T = S \cup {t} /\ t \notin S
          BY <3>1, <3>2, <3>3, <3>10 DEF Borrows
        <4>2. IsFiniteSet(T) /\ T \ {t} = S /\ t \in T /\ Numbers(Amounts, T)
          BY <1>n, <3>2, <3>4, <4>1, FS_AddElement DEF Numbers
        <4>3. Sum(Amounts, T) = Amounts[t] + Sum(Amounts, S)
          BY <4>2, SumRemove
        <4>4. balance'[a] = balance[a] - Amounts[t]
          BY <3>6, <3>10 DEF Borrows
        <4> QED
          BY <1>n, <3>4, <3>5, <3>8, <4>2, <4>3, <4>4 DEF T
      <3>11. CASE Repays(t, a)
        <4>1. T = S \ {t} /\ t \in S
          BY <3>1, <3>2, <3>3, <3>11 DEF Repays
        <4>2. IsFiniteSet(T) /\ Numbers(Amounts, S) /\ T \subseteq Transfers
          BY <1>n, <3>2, <3>4, <4>1, FS_RemoveElement DEF Numbers
        <4>3. Sum(Amounts, S) = Amounts[t] + Sum(Amounts, T)
          BY <3>4, <4>1, <4>2, SumRemove
        <4>4. Sum(Amounts, T) \in Nat
          BY <1>n, <4>2, SumNat
        <4>5. balance'[a] = balance[a] + Amounts[t]
          BY <3>6, <3>11 DEF Repays
        <4> QED
          BY <1>n, <3>4, <3>5, <3>8, <4>2, <4>3, <4>4, <4>5 DEF T
      <3> QED
        BY <3>7, <3>9, <3>10, <3>11 DEF T
    <2> QED
      BY <2>2, <2>3, <2>4 DEF BooksInv
  <1>2. ASSUME UNCHANGED <<request, pc, told, taken>>,
               \A a \in Accounts :
                  /\ balance[a] \in Int /\ balance'[a] \in Int /\ balance'[a] >= balance[a]
                  /\ Sum(Amounts, Owing(a)) \in Nat
        PROVE  BooksInv'
    <2>1. \A u \in Transfers : Into(u)' = Into(u) /\ From(u)' = From(u)
      BY <1>2, SameRequest
    <2>2. ASSUME NEW a \in Accounts PROVE Owing(a)' = Owing(a)
      BY <1>2, <2>1 DEF Owing, Owes
    <2>3. Amounts' = Amounts
      BY <1>2 DEF Amounts, Amount
    <2>4. \A t \in Transfers : Refusable(t)'
      BY <1>2, <1>s, <2>1 DEF BooksInv, Refusable
    <2>5. ASSUME NEW a \in Accounts
          PROVE  IsFiniteSet(Owing(a)') /\ balance'[a] + Sum(Amounts, Owing(a))' >= 0
      <3>1. IsFiniteSet(Owing(a)) /\ balance[a] + Sum(Amounts, Owing(a)) >= 0
        BY <1>s DEF BooksInv
      <3>2. Sum(Amounts, Owing(a))' = Sum(Amounts, Owing(a))
        BY <2>2, <2>3, Zenon
      <3> QED
        BY <1>2, <2>2, <3>1, <3>2
    <2> QED
      BY <2>4, <2>5 DEF BooksInv
  <1>3. ASSUME NEW b \in Accounts, Trade(b) PROVE BooksInv'
    <2>1. PICK p \in Positions[b] :
             /\ balance' = [balance EXCEPT ![b] = @ + p.realised - realised[b]]
             /\ Happens(IF p.realised < realised[b] THEN {"loss"} ELSE {})
      BY <1>3 DEF Trade
    <2>2. p.realised \in Int /\ realised[b] \in Int /\ p.realised >= realised[b]
      <3>1. p.realised \in Int /\ realised[b] \in Int
        BY <1>0, TransfersAssumption DEF TypeOK
      <3>2. "loss" \notin happened'
        BY DEF Kept, Never
      <3>3. ~ (p.realised < realised[b])
        BY <2>1, <3>2 DEF Happens
      <3> QED
        BY <3>1, <3>3
    <2>3. ASSUME NEW a \in Accounts
          PROVE  /\ balance[a] \in Int /\ balance'[a] \in Int /\ balance'[a] >= balance[a]
                 /\ Sum(Amounts, Owing(a)) \in Nat
      <3>1. balance \in [Legs -> Int] /\ a \in Legs
        BY <1>0 DEF TypeOK, Legs
      <3>2. IsFiniteSet(Owing(a)) /\ Owing(a) \subseteq Transfers
        BY <1>s DEF BooksInv, Owing
      <3>3. Sum(Amounts, Owing(a)) \in Nat
        BY <1>n, <3>2, SumNat
      <3> QED
        BY <2>1, <2>2, <3>1, <3>3
    <2> QED
      BY <1>2, <1>3, <2>3 DEF Trade, table
  <1>4. CASE UNCHANGED vars
    <2>1. ASSUME NEW a \in Accounts
          PROVE  balance'[a] >= balance[a] /\ balance[a] \in Int /\ balance'[a] \in Int
      BY <1>0, <1>4 DEF vars, TypeOK, Legs
    <2>2. ASSUME NEW a \in Accounts PROVE Sum(Amounts, Owing(a)) \in Nat
      <3>1. IsFiniteSet(Owing(a)) /\ Owing(a) \subseteq Transfers
        BY <1>s DEF BooksInv, Owing
      <3> QED
        BY <1>n, <3>1, SumNat
    <2> QED
      BY <1>2, <1>4, <2>1, <2>2 DEF vars
  <1> QED
    BY <1>1, <1>3, <1>4, Zenon DEF Next

\* The initial states owe nothing.
LEMMA InitBooks == Init => BooksInv
  <1> SUFFICES ASSUME Init PROVE BooksInv
    OBVIOUS
  <1>1. \A t \in Transfers : Refusable(t)
    BY DEF Init, Refusable, BothLegs
  <1>2. ASSUME NEW a \in Accounts
        PROVE  IsFiniteSet(Owing(a)) /\ balance[a] + Sum(Amounts, Owing(a)) >= 0
    <2>1. Owing(a) = {}
      BY DEF Init, Owing, Owes
    <2>2. balance[a] \in Nat
      BY TransfersAssumption DEF Init, Legs
    <2> QED
      BY <2>1, <2>2, FS_EmptySet, SumEmpty
  <1> QED
    BY <1>1, <1>2 DEF BooksInv

(* However many transfers overlap while positions win and lose, no book is  *)
(* in debt once none is under way.                                          *)
THEOREM BooksStayCovered == Spec => []BooksCovered
  <1>1. Spec => [](Kept => BooksInv)
    BY InitBooks, NextBooks, PathsInvariant, PTL DEF Spec
  <1>2. TypedPaths /\ (Kept => BooksInv) => BooksCovered
    <2> SUFFICES ASSUME TypedPaths, BooksInv, AtRest, NEW a \in Accounts
                 PROVE  balance[a] >= 0
      BY DEF BooksCovered, Kept
    <2>1. Owing(a) = {}
      BY DEF Owing, Owes, BooksInv, Refusable, AtRest, Open, Final
    <2>2. balance[a] + 0 >= 0 /\ balance[a] \in Int
      BY <2>1, SumEmpty DEF BooksInv, TypedPaths, TypeOK, Legs
    <2> QED
      BY <2>2
  <1> QED
    BY <1>1, <1>2, PathsInvariant, PTL

-----------------------------------------------------------------------------
(* Refinement.                                                              *)

Invisible == UNCHANGED <<request, moved, phases>>

\* Every leg starts with what the contract starts with.
LEMMA RefineInit == Init => Contract!Init
  <1> SUFFICES ASSUME Init PROVE Contract!Init
    OBVIOUS
  <1>1. \A leg \in Legs : Initial[leg] \in Int
    BY TransfersAssumption
  <1>2. moved = [leg \in Legs |-> Initial[leg]]
    BY <1>1 DEF Init, moved, Legs
  <1>3. moved = Initial
    BY <1>2, TransfersAssumption
  <1> QED
    BY <1>3 DEF Init, Contract!Init, Phase, phases

\* Nothing moved: nothing to see.
LEMMA NothingMoved ==
    ASSUME UNCHANGED <<request, books, realised>>
    PROVE  Invisible
  BY DEF books, Invisible, phases, Phase, moved

\* Only the phase of the transfer that moved changes.
LEMMA OnePhase ==
    ASSUME NEW t \in Transfers, NEW p, Phase(t)' = p,
           \A u \in Transfers : u # t => taken'[u] = taken[u] /\ given'[u] = given[u]
    PROVE  phases' = [phases EXCEPT ![t] = p]
  <1>1. \A u \in Transfers : u # t => Phase(u)' = Phase(u)
    BY DEF Phase
  <1>2. /\ phases' = [u \in Transfers |-> Phase(u)']
        /\ phases = [u \in Transfers |-> Phase(u)]
    BY DEF phases
  <1> HIDE DEF phases
  <1> QED
    BY <1>1, <1>2, Zenon

\* A leg that changes, changes by as much for the contract.
LEMMA OneMove ==
    ASSUME TypeOK, realised' = realised, NEW leg \in Legs, NEW n \in Int,
           balance' = [balance EXCEPT ![leg] = @ + n]
    PROVE  moved' = [moved EXCEPT ![leg] = @ + n]
  <1>1. balance \in [Legs -> Int] /\ realised \in [Accounts -> Int]
    BY DEF TypeOK
  <1>2. moved' = [l \in Legs |-> IF l \in Accounts THEN balance'[l] - realised[l] ELSE balance'[l]]
    BY DEF moved
  <1>3. ASSUME NEW l \in Legs
        PROVE  (IF l \in Accounts THEN balance'[l] - realised[l] ELSE balance'[l])
                   = IF l = leg THEN moved[l] + n ELSE moved[l]
    <2>1. balance[l] \in Int /\ balance'[l] = IF l = leg THEN balance[l] + n ELSE balance[l]
      BY <1>1
    <2>2. l \in Accounts => realised[l] \in Int
      BY <1>1
    <2>3. moved[l] = IF l \in Accounts THEN balance[l] - realised[l] ELSE balance[l]
      BY DEF moved
    <2> QED
      BY <2>1, <2>2, <2>3
  <1>4. moved' = [l \in Legs |-> IF l = leg THEN moved[l] + n ELSE moved[l]]
    BY <1>2, <1>3
  <1> QED
    BY <1>4 DEF moved

\* The three steps of the contract.
LEMMA RefineTake ==
    ASSUME TypeOK, NEW t \in Transfers, Moved(t, "no", "no"), Take(t),
           request' = request, realised' = realised
    PROVE  Contract!Next
  <1>1. Phase(t) = "none" /\ Phase(t)' = "taken"
    BY DEF Phase, Moved, Take, TypeOK
  <1>2. phases' = [phases EXCEPT ![t] = "taken"]
    BY <1>1, OnePhase DEF Take, TypeOK
  <1>3. From(t) \in Legs /\ - Amount(t) \in Int /\ Amount(t) \in Int
    BY RequestShape DEF TypeOK
  <1>4. balance' = [balance EXCEPT ![From(t)] = @ + (- Amount(t))]
    BY <1>3 DEF Take, TypeOK
  <1>5. moved' = [moved EXCEPT ![From(t)] = @ + (- Amount(t))] /\ moved \in [Legs -> Int]
    <2>1. moved' = [moved EXCEPT ![From(t)] = @ + (- Amount(t))]
      BY <1>3, <1>4, OneMove
    <2>2. \A leg \in Legs : leg \in Accounts => realised[leg] \in Int
      BY DEF TypeOK
    <2>3. moved \in [Legs -> Int]
      BY <2>2 DEF moved, TypeOK
    <2> QED
      BY <2>1, <2>3
  <1>6. moved' = [moved EXCEPT ![From(t)] = @ - Amount(t)]
    BY <1>3, <1>5
  <1>7. Contract!Take(t)
    BY <1>1, <1>2, <1>6 DEF Contract!Take, Contract!Becomes, phases, From, Amount
  <1> QED
    BY <1>7 DEF Contract!Next

LEMMA RefineGive ==
    ASSUME TypeOK, NEW t \in Transfers, Moved(t, "yes", "no"), Give(t), misread[t] = {},
           request' = request, realised' = realised
    PROVE  Contract!Next
  <1>1. Phase(t) = "taken" /\ Phase(t)' = "given"
    BY DEF Phase, Moved, Give, TypeOK
  <1>2. phases' = [phases EXCEPT ![t] = "given"]
    BY <1>1, OnePhase DEF Give, TypeOK
  <1>3. Contract!Converted(request[t]) = Converted(t)
    BY DEF Contract!Converted, Converted, ScaleOf, From, To, Amount
  <1>4. moved' = [moved EXCEPT ![To(t)] = @ + Converted(t)]
    <2>1. To(t) \in Legs /\ Converted(t) \in Int
      BY RequestShape, ConvertedNat DEF TypeOK
    <2> QED
      BY <2>1, OneMove DEF Give
  <1>5. Contract!Give(t)
    BY <1>1, <1>2, <1>3, <1>4 DEF Contract!Give, Contract!Becomes, phases, To
  <1> QED
    BY <1>5 DEF Contract!Next

LEMMA RefineReturn ==
    ASSUME TypeOK, NEW t \in Transfers, Moved(t, "yes", "no"), GiveBack(t),
           request' = request, realised' = realised
    PROVE  Contract!Next
  <1>1. Phase(t) = "taken" /\ Phase(t)' = "returned"
    BY DEF Phase, Moved, GiveBack, TypeOK
  <1>2. phases' = [phases EXCEPT ![t] = "returned"]
    BY <1>1, OnePhase DEF GiveBack, TypeOK
  <1>3. moved' = [moved EXCEPT ![From(t)] = @ + Amount(t)]
    <2>1. From(t) \in Legs /\ Amount(t) \in Int
      BY RequestShape DEF TypeOK
    <2> QED
      BY <2>1, OneMove DEF GiveBack
  <1>4. Contract!Return(t)
    BY <1>1, <1>2, <1>3 DEF Contract!Return, Contract!Becomes, phases, From, Amount
  <1> QED
    BY <1>4 DEF Contract!Next

\* Every step of one transfer is one of them, or invisible.
LEMMA RefineStep ==
    ASSUME TypeOK, NEW t \in Transfers, OnPath(t), Stage(t), Step(t) \/ Abort(t), Faithful'
    PROVE  Contract!Next \/ Invisible
  <1> USE DEF table
  <1>0. pc[t] \notin BothLegs /\ "lost_commit" \notin happened' /\ misread[t] = {}
    BY StepHappens DEF Stage, Faithful, Never
  <1>1. CASE Replay(t) \/ Start(t)
    BY <1>1, NothingMoved DEF Replay, Start
  <1>2. CASE SavingsDebit(t)
    BY <1>2, RefineTake DEF SavingsDebit, Stage
  <1>3. CASE SavingsRefused(t)
    BY <1>3, NothingMoved DEF SavingsRefused
  <1>4. CASE FailTransfer(t)
    BY <1>4, NothingMoved DEF FailTransfer
  <1>5. CASE RefundSavings(t)
    BY <1>5, NothingMoved, RefineReturn DEF RefundSavings, Stage
  <1>6. CASE MirrorLeg(t)
    BY <1>6, NothingMoved DEF MirrorLeg
  <1>7. CASE MarkCompleted(t)
    BY <1>7, NothingMoved DEF MarkCompleted
  <1>8. CASE EngineDebit(t)
    BY <1>8, RefineTake DEF EngineDebit, Stage
  <1>9. CASE EngineRefuses(t)
    BY <1>9, NothingMoved DEF EngineRefuses
  <1>10. CASE EngineCredit(t)
    BY <1>0, <1>10, RefineGive DEF EngineCredit, Stage
  <1>11. CASE EngineCreditDown(t)
    BY <1>11, NothingMoved DEF EngineCreditDown
  <1>12. CASE Commit(t)
    <2>1. CASE Out(t)
      <3>1. Moved(t, "yes", "no") /\ Give(t) /\ request' = request /\ realised' = realised
        BY <1>12, <2>1 DEF Commit, Stage
      <3> QED
        BY <1>0, <3>1, RefineGive
    <2>2. CASE ~ Out(t)
      BY <1>12, <2>2, NothingMoved DEF Commit
    <2> QED
      BY <2>1, <2>2
  <1>13. CASE CommitRefused(t)
    BY <1>13, NothingMoved DEF CommitRefused
  <1>14. CASE UndoFrom(t)
    <2>1. Moved(t, "yes", "no")
      BY <1>0, <1>14 DEF UndoFrom, BothLegs, Stage
    <2> QED
      BY <1>14, <2>1, NothingMoved, RefineReturn DEF UndoFrom
  <1>15. CASE UndoTo(t)
    BY <1>0, <1>15 DEF UndoTo, BothLegs
  <1>16. CASE Abort(t)
    BY <1>16, NothingMoved DEF Abort
  <1> QED BY <1>1, <1>2, <1>3, <1>4, <1>5, <1>6, <1>7, <1>8, <1>9, <1>10, <1>11,
             <1>12, <1>13, <1>14, <1>15, <1>16 DEF Step

LEMMA RefineNext ==
    TypedPaths /\ (Seen => Stages) /\ [Next]_vars
        => [Faithful' => Contract!Next]_<<request, moved, phases>>
  <1> SUFFICES ASSUME TypedPaths, Seen => Stages, [Next]_vars, Faithful'
               PROVE  Contract!Next \/ Invisible
    BY DEF Invisible
  <1>0. TypeOK /\ OnPaths /\ Stages
    BY NextHappens DEF TypedPaths, Faithful, Seen, Never
  <1>1. ASSUME NEW t \in Transfers, Step(t) \/ Abort(t) PROVE Contract!Next \/ Invisible
    <2>1. OnPath(t) /\ Stage(t)
      BY <1>0 DEF OnPaths, Stages
    <2> QED
      BY <1>0, <1>1, <2>1, RefineStep
  <1>2. ASSUME NEW a \in Accounts, Trade(a) PROVE Invisible
    <2>1. \A b \in Accounts : balance'[b] - realised'[b] = balance[b] - realised[b]
      BY <1>0, <1>2, TradeNet DEF Net
    <2>2. ASSUME NEW leg \in Legs, leg \notin Accounts PROVE balance'[leg] = balance[leg]
      BY <1>0, <1>2, <2>2 DEF Trade, TypeOK
    <2>3. moved' = moved
      BY <2>1, <2>2 DEF moved
    <2> QED
      BY <1>2, <2>3 DEF Invisible, phases, Phase, Trade
  <1>3. CASE UNCHANGED vars
    BY <1>3, NothingMoved DEF vars, books
  <1> QED
    BY <1>1, <1>2, <1>3, Zenon DEF Next

(* A transfer takes once and then gives or returns, never both: with shared *)
(* keys, handlers that are cut off, an engine and a database that fail and  *)
(* compensations that fail too, up to the first answer or COMMIT that is    *)
(* lost, the first scaled account whose kind is not found out and the first *)
(* transfer that has to undo both of its legs.                              *)
THEOREM TransfersKeepContract == Spec => ImplementsContract
  <1>1. TypedPaths /\ (Seen => Stages) /\ [Next]_vars
            => [Faithful' => Contract!Next]_<<request, moved, phases>>
    BY RefineNext
  <1> QED
    BY <1>1, RefineInit, StagesInvariant, PTL DEF Spec, ImplementsContract
=============================================================================
