-------------------------- MODULE EventuallyProofs --------------------------
(***************************************************************************)
(* What the components of Eventually promise, for any number of stakes,    *)
(* charges, accounts and options: the rows of a stake agree and are told   *)
(* once, a charge is credited once, the history of an account says what    *)
(* came of its options, and all variables keep their types.                *)
(***************************************************************************)
EXTENDS Eventually, FiniteSetTheorems, TLAPS

(* Staking: the two rows of a reference agree and the administrator is told *)
(* once, whatever Paystack answers and wherever the process dies.           *)
Told == {"ACTIVE", "FAILED"}

(* RowsAgree and AnnouncedOnce for one reference, and what keeps them: a    *)
(* request that waits has written nothing, a payment has a stake, and a     *)
(* stake that was announced never waits for its payment again.              *)
ReferenceSound(r) ==
    /\ r \in asking => stakes[r].status = "absent"
    /\ stakes[r].status = "absent" => payments[r] = "absent"
    /\ <<"cut", r>> \in mishaps \/ <<stakes[r].status, payments[r]>> \in Agreed
    /\ mails[r].admin <= 1
    /\ mails[r].admin = 1 => charge[r] = "success" /\ stakes[r].status \in Told

IInv == TypeOK /\ \A r \in Refs : ReferenceSound(r)

-----------------------------------------------------------------------------

LEMMA InitSound == Init => IInv
<1> SUFFICES ASSUME Init PROVE IInv
  OBVIOUS
<1>1. TypeOK
  BY DEF Init, TypeOK, Statuses, Letters, Kinds, Mishaps
<1>2. ASSUME NEW r \in Refs PROVE ReferenceSound(r)
  BY DEF Init, ReferenceSound, Agreed, Letters
<1> QED
  BY <1>1, <1>2 DEF IInv

(* ActivateStake and FailStake. *)
LEMMA StatusWritten ==
  ASSUME TypeOK, NEW r \in Refs, NEW s \in Statuses, stakes' = [stakes EXCEPT ![r].status = s]
  PROVE  /\ stakes' \in [Refs -> [status: Statuses, exness: BOOLEAN]]
         /\ stakes'[r].status = s
         /\ \A q \in Refs \ {r} : stakes'[q] = stakes[q]
<1> DEFINE changed == [stakes[r] EXCEPT !.status = s]
<1>1. stakes \in [Refs -> [status: Statuses, exness: BOOLEAN]]
  BY DEF TypeOK
<1>2. stakes[r] \in [status: Statuses, exness: BOOLEAN]
  BY <1>1
<1>3. changed \in [status: Statuses, exness: BOOLEAN] /\ changed.status = s
  BY <1>2
<1>4. stakes' = [stakes EXCEPT ![r] = changed]
  OBVIOUS
<1> HIDE DEF changed
<1> QED
  BY <1>1, <1>3, <1>4

(* Types: requests, the answers of Paystack, the webhooks. *)
LEMMA TypeVisits ==
  ASSUME TypeOK, NEW v \in Visitors, MyStakes(v) \/ \E r \in Refs : StakeInit(v, r)
  PROVE  TypeOK'
<1>0. v.id \in Identities
  BY DEF Identities
<1>1. CASE MyStakes(v)
  BY <1>0, <1>1 DEF TypeOK, MyStakes, UpsertUser, rows
<1>2. ASSUME NEW r \in Refs, StakeInit(v, r) PROVE TypeOK'
  BY <1>0, <1>2 DEF TypeOK, StakeInit, UpsertUser, rows
<1> QED
  BY <1>1, <1>2

LEMMA TypeRequests ==
  ASSUME TypeOK, NEW r \in Refs,
         \/ InitializeTransaction(r) \/ InitDone(r) \/ InitFailed(r) \/ Callback(r) \/ SetExness(r)
  PROVE  TypeOK'
<1>1. CASE InitializeTransaction(r)
  BY <1>1 DEF TypeOK, InitializeTransaction, rows
<1>2. CASE InitDone(r)
  BY <1>2 DEF TypeOK, InitDone, CreateStake, CreatePayment, Statuses
<1>3. CASE InitFailed(r) \/ Callback(r)
  BY <1>3 DEF TypeOK, InitFailed, Callback, rows
<1>4. CASE SetExness(r)
  BY <1>4 DEF TypeOK, SetExness
<1> QED
  BY <1>1, <1>2, <1>3, <1>4

LEMMA TypeHooks ==
  ASSUME TypeOK, NEW r \in Refs,
         \/ Pay(r) \/ Decline(r) \/ SuccessArrives(r) \/ FailedArrives(r) \/ Answered(r)
  PROVE  TypeOK'
<1>1. CASE Pay(r)
  BY <1>1, HooksBounded DEF TypeOK, Pay, Sends, Kinds, rows
<1>2. CASE Decline(r)
  BY <1>2, HooksBounded DEF TypeOK, Decline, Sends, Befalls, Kinds, Mishaps, rows
<1>3. CASE SuccessArrives(r)
  BY <1>3 DEF TypeOK, SuccessArrives, Arrives, Kinds, rows
<1>4. CASE FailedArrives(r)
  <2>1. hooks' \in [Refs \X Kinds -> Nat]
    BY <1>4 DEF TypeOK, FailedArrives, Arrives, Kinds
  <2>2. stakes' \in [Refs -> [status: Statuses, exness: BOOLEAN]]
    <3>1. CASE UNCHANGED rows
      BY <3>1 DEF TypeOK, rows
    <3>2. CASE FailStake(r)
      BY <3>2, StatusWritten DEF FailStake, Statuses
    <3> QED
      BY <1>4, <3>1, <3>2 DEF FailedArrives
  <2>3. payments' \in [Refs -> {"absent", "PENDING", "SUCCESS", "FAILED"}]
    BY <1>4 DEF TypeOK, FailedArrives, UpdatePayment, rows
  <2>4. mails' \in [Refs -> [Letters -> Nat]]
    BY <1>4 DEF TypeOK, FailedArrives, NotifyFailed, Letters
  <2> QED
    BY <1>4, <2>1, <2>2, <2>3, <2>4 DEF TypeOK, FailedArrives
<1>5. CASE Activate(r)
  <2>1. stakes' \in [Refs -> [status: Statuses, exness: BOOLEAN]]
    BY <1>5 DEF TypeOK, Activate, ActivateStake, Statuses
  <2>2. payments' \in [Refs -> {"absent", "PENDING", "SUCCESS", "FAILED"}]
    BY <1>5 DEF TypeOK, Activate, UpdatePayment
  <2>3. mails' \in [Refs -> [Letters -> Nat]]
    BY <1>5 DEF TypeOK, Activate, NotifyActivated, Letters
  <2>4. verifying' \in [Refs -> Nat]
    BY <1>5 DEF TypeOK, Activate, Return, Verified
  <2> QED
    BY <1>5, <2>1, <2>2, <2>3, <2>4 DEF TypeOK, Activate
<1>6. CASE Ignore(r)
  BY <1>6 DEF TypeOK, Ignore, Return, Verified, rows
<1>7. CASE VerifyFails(r)
  BY <1>7 DEF TypeOK, VerifyFails, Return, Befalls, Mishaps, rows
<1> QED
  BY <1>1, <1>2, <1>3, <1>4, <1>5, <1>6, <1>7 DEF Answered

LEMMA TypeCrashes ==
  ASSUME TypeOK, NEW cut \in SUBSET Refs, Stops(cut),
         stakes' \in [Refs -> [status: Statuses, exness: BOOLEAN]],
         hooks' \in [Refs \X Kinds -> Nat]
  PROVE  TypeOK'
<1>1. mishaps' \subseteq Mishaps \X Refs
  BY DEF TypeOK, Stops, Mishaps
<1>2. verifying' \in [Refs -> Nat] /\ asking' \subseteq Refs
  BY DEF Stops
<1> QED
  BY <1>1, <1>2 DEF TypeOK, Stops

-----------------------------------------------------------------------------

(* A step leaves every reference but one as it was; `cut' marks are kept. *)
OnlyReference(r) ==
    \A q \in Refs \ {r} :
        /\ q \in asking' => q \in asking
        /\ stakes'[q].status = stakes[q].status
        /\ payments'[q] = payments[q] /\ mails'[q] = mails[q] /\ charge'[q] = charge[q]
        /\ <<"cut", q>> \in mishaps => <<"cut", q>> \in mishaps'

LEMMA OthersSound ==
  ASSUME IInv, NEW r \in Refs, OnlyReference(r), ReferenceSound(r)'
  PROVE  \A q \in Refs : ReferenceSound(q)'
<1> SUFFICES ASSUME NEW q \in Refs, q # r PROVE ReferenceSound(q)'
  OBVIOUS
<1>1. ReferenceSound(q)
  BY DEF IInv
<1> QED
  BY <1>1 DEF ReferenceSound, OnlyReference

(* A crash marks the references it cut. *)
LEMMA CrashSound ==
  ASSUME IInv, NEW cut \in SUBSET Refs, Stops(cut),
         \A q \in Refs \ cut : stakes'[q].status = stakes[q].status,
         \A q \in cut : stakes'[q].status # "absent"
                        /\ (mails[q].admin = 1 => stakes'[q].status \in Told)
  PROVE  \A q \in Refs : ReferenceSound(q)'
<1> SUFFICES ASSUME NEW q \in Refs PROVE ReferenceSound(q)'
  OBVIOUS
<1>1. ReferenceSound(q) /\ asking' = {} /\ payments' = payments /\ mails' = mails /\ charge' = charge
  BY DEF IInv, Stops
<1>2. CASE q \in cut
  BY <1>1, <1>2 DEF ReferenceSound, Stops
<1>3. CASE q \notin cut
  BY <1>1, <1>3 DEF ReferenceSound, Stops
<1> QED
  BY <1>2, <1>3

-----------------------------------------------------------------------------

LEMMA StepSound == IInv /\ [Next]_stakingVars => IInv'
<1> SUFFICES ASSUME IInv, [Next]_stakingVars PROVE IInv'
  OBVIOUS
<1>0. TypeOK
  BY DEF IInv
<1> USE <1>0
<1>1. ASSUME NEW v \in Visitors, MyStakes(v) PROVE IInv'
  BY <1>1, TypeVisits DEF IInv, ReferenceSound, MyStakes, rows
<1>2. ASSUME NEW v \in Visitors, NEW r \in Refs, StakeInit(v, r) PROVE IInv'
  <2>1. ReferenceSound(r)' /\ OnlyReference(r)
    BY <1>2 DEF IInv, ReferenceSound, OnlyReference, StakeInit, rows
  <2> QED
    BY <1>2, <2>1, TypeVisits, OthersSound DEF IInv
<1>3. ASSUME NEW r \in Refs,
             InitializeTransaction(r) \/ InitFailed(r) \/ Callback(r) \/ SetExness(r)
      PROVE  IInv'
  <2>1. TypeOK'
    BY <1>3, TypeRequests
  <2>2. OnlyReference(r)
    BY <1>3 DEF OnlyReference, TypeOK, InitializeTransaction, InitFailed, Callback, SetExness, rows
  <2>3. ReferenceSound(r)'
    <3>1. CASE SetExness(r)
      <4> DEFINE changed == [stakes[r] EXCEPT !.exness = TRUE]
      <4>1. stakes[r] \in [status: Statuses, exness: BOOLEAN]
        BY DEF TypeOK
      <4>2. changed.status = stakes[r].status
        BY <4>1
      <4>3. stakes' = [stakes EXCEPT ![r] = changed]
        BY <3>1 DEF SetExness
      <4> HIDE DEF changed
      <4>4. stakes'[r].status = stakes[r].status
        BY <4>2, <4>3 DEF TypeOK
      <4> QED
        BY <3>1, <4>4 DEF IInv, ReferenceSound, SetExness
    <3>2. CASE InitializeTransaction(r)
      BY <3>2 DEF IInv, ReferenceSound, TypeOK, InitializeTransaction, None, rows
    <3>3. CASE InitFailed(r) \/ Callback(r)
      <4>1. r \in asking' => r \in asking
        BY <3>3 DEF InitFailed, Callback
      <4> QED
        BY <3>3, <4>1 DEF IInv, ReferenceSound, InitFailed, Callback, rows
    <3> QED
      BY <1>3, <3>1, <3>2, <3>3
  <2> QED
    BY <2>1, <2>2, <2>3, OthersSound DEF IInv
<1>4. ASSUME NEW r \in Refs, InitDone(r) PROVE IInv'
  <2>1. TypeOK'
    BY <1>4, TypeRequests
  <2>2. OnlyReference(r)
    BY <1>4 DEF OnlyReference, TypeOK, InitDone, CreateStake, CreatePayment
  <2>3. ReferenceSound(r)'
    BY <1>4 DEF IInv, ReferenceSound, TypeOK, InitDone, CreateStake, CreatePayment, Agreed, Told
  <2> QED
    BY <2>1, <2>2, <2>3, OthersSound DEF IInv
<1>5. ASSUME NEW r \in Refs, Pay(r) \/ Decline(r) \/ SuccessArrives(r) PROVE IInv'
  <2>1. OnlyReference(r)
    BY <1>5 DEF OnlyReference, TypeOK, Pay, Decline, SuccessArrives, Befalls, rows
  <2>2. ReferenceSound(r)'
    BY <1>5 DEF IInv, ReferenceSound, TypeOK, Pay, Decline, SuccessArrives, Befalls, rows
  <2> QED
    BY <1>5, <2>1, <2>2, TypeHooks, OthersSound DEF IInv
<1>6. ASSUME NEW r \in Refs, FailedArrives(r) PROVE IInv'
  <2>1. OnlyReference(r)
    BY <1>6 DEF OnlyReference, TypeOK, FailedArrives, FailStake, UpdatePayment, NotifyFailed, rows
  <2>2. ReferenceSound(r)'
    <3>1. CASE GetStake(r) = "absent"
      BY <1>6, <3>1 DEF IInv, ReferenceSound, FailedArrives, rows
    <3>2. CASE GetStake(r) # "absent"
      <4>1. stakes'[r].status = "FAILED" /\ mails'[r].admin = mails[r].admin
        BY <1>6, <3>2 DEF TypeOK, FailedArrives, FailStake, NotifyFailed, Letters
      <4>2. payments'[r] = IF payments[r] = "absent" THEN "absent" ELSE "FAILED"
        BY <1>6, <3>2 DEF TypeOK, FailedArrives, UpdatePayment
      <4> QED
        BY <1>6, <3>2, <4>1, <4>2 DEF IInv, ReferenceSound, FailedArrives, GetStake, Agreed, Told
    <3> QED
      BY <3>1, <3>2
  <2> QED
    BY <1>6, <2>1, <2>2, TypeHooks, OthersSound DEF IInv
<1>7. ASSUME NEW r \in Refs, Activate(r) PROVE IInv'
  <2>1. OnlyReference(r)
    BY <1>7 DEF OnlyReference, TypeOK, Activate, ActivateStake, UpdatePayment, NotifyActivated
  <2>2. ReferenceSound(r)'
    <3>1. mails[r].admin = 0
      <4>1. mails[r] \in [Letters -> Nat]
        BY DEF TypeOK
      <4>2. mails[r].admin \in Nat
        BY <4>1 DEF Letters
      <4>3. mails[r].admin # 1
        BY <1>7 DEF IInv, ReferenceSound, Activate, Awaited, GetStake, Told
      <4>4. mails[r].admin <= 1
        BY DEF IInv, ReferenceSound
      <4> QED
        BY <4>2, <4>3, <4>4
    <3>2. stakes'[r].status = "ACTIVE" /\ mails'[r].admin = 1
      BY <1>7, <3>1 DEF TypeOK, Activate, ActivateStake, NotifyActivated, Letters
    <3>3. payments'[r] = IF payments[r] = "absent" THEN "absent" ELSE "SUCCESS"
      BY <1>7 DEF TypeOK, Activate, UpdatePayment
    <3> QED
      BY <1>7, <3>2, <3>3
      DEF IInv, ReferenceSound, Activate, Awaited, Verified, GetStake, Agreed, Told
  <2> QED
    BY <1>7, <2>1, <2>2, TypeHooks, OthersSound DEF IInv, Answered
<1>8. ASSUME NEW r \in Refs, Ignore(r) \/ VerifyFails(r) PROVE IInv'
  <2>1. OnlyReference(r)
    BY <1>8 DEF OnlyReference, Ignore, VerifyFails, Befalls, rows
  <2>2. ReferenceSound(r)'
    BY <1>8 DEF IInv, ReferenceSound, Ignore, VerifyFails, Befalls, rows
  <2> QED
    BY <1>8, <2>1, <2>2, TypeHooks, OthersSound DEF IInv, Answered
<1>9. CASE Restart
  <2>1. TypeOK'
    BY <1>9, TypeCrashes DEF Restart, TypeOK
  <2> QED
    BY <1>9, <2>1, CrashSound DEF IInv, Restart
<1>10. ASSUME NEW r \in Refs, CrashInInit(r) PROVE IInv'
  <2>1. stakes' = [stakes EXCEPT ![r] = [status |-> "PENDING_PAYMENT", exness |-> FALSE]]
    BY <1>10 DEF CrashInInit, CreateStake
  <2>2. TypeOK'
    BY <1>10, <2>1, TypeCrashes DEF CrashInInit, TypeOK, Statuses
  <2>3. mails[r].admin # 1
    BY <1>10 DEF IInv, ReferenceSound, CrashInInit, Told
  <2> QED
    BY <1>10, <2>1, <2>2, <2>3, CrashSound DEF IInv, CrashInInit, TypeOK
<1>11. ASSUME NEW r \in Refs, CrashInActivate(r) PROVE IInv'
  <2>1. stakes' = [stakes EXCEPT ![r].status = "ACTIVE"]
    BY <1>11 DEF CrashInActivate, ActivateStake
  <2>2. TypeOK'
    <3>1. hooks' \in [Refs \X Kinds -> Nat]
      BY <1>11 DEF CrashInActivate, TypeOK
    <3>2. stakes' \in [Refs -> [status: Statuses, exness: BOOLEAN]]
      BY <2>1, StatusWritten DEF Statuses
    <3> QED
      BY <1>11, <3>1, <3>2, TypeCrashes DEF CrashInActivate
  <2> QED
    <3>1. stakes'[r].status = "ACTIVE" /\ \A q \in Refs \ {r} : stakes'[q] = stakes[q]
      BY <2>1, StatusWritten DEF Statuses
    <3> QED
      BY <1>11, <2>2, <3>1, CrashSound DEF IInv, CrashInActivate, Told
<1>12. ASSUME NEW r \in Refs, CrashInFailure(r) PROVE IInv'
  <2>1. stakes' = [stakes EXCEPT ![r].status = "FAILED"]
    BY <1>12 DEF CrashInFailure, FailStake
  <2>2. hooks' \in [Refs \X Kinds -> Nat]
    BY <1>12 DEF CrashInFailure, Arrives, TypeOK, Kinds
  <2>3. TypeOK'
    BY <1>12, <2>1, <2>2, StatusWritten, TypeCrashes DEF CrashInFailure, Statuses
  <2> QED
    <3>1. stakes'[r].status = "FAILED" /\ \A q \in Refs \ {r} : stakes'[q] = stakes[q]
      BY <2>1, StatusWritten DEF Statuses
    <3> QED
      BY <1>12, <2>3, <3>1, CrashSound DEF IInv, CrashInFailure, Told
<1>13. CASE UNCHANGED stakingVars
  BY <1>13 DEF stakingVars, rows, IInv, TypeOK, ReferenceSound
<1> QED
  BY <1>1, <1>2, <1>3, <1>4, <1>5, <1>6, <1>7, <1>8, <1>9, <1>10, <1>11, <1>12, <1>13
  DEF Next, Answered

-----------------------------------------------------------------------------

LEMMA Inductive == Spec => []IInv
<1> QED
  BY InitSound, StepSound, PTL DEF Spec

(* The service's state has its types. *)
THEOREM TypeCorrect == Spec => []TypeOK
<1>1. IInv => TypeOK
  BY DEF IInv
<1> QED
  BY <1>1, Inductive, PTL

(* The stake and the payment of a reference agree in any order of Paystack's *)
(* events, unless a crash fell between a handler's two statements            *)
(* (routes.js, /init and /webhook).                                          *)
THEOREM RowsStayTogether == Spec => []RowsAgree
<1>1. IInv => RowsAgree
  BY DEF IInv, ReferenceSound, RowsAgree
<1> QED
  BY <1>1, Inductive, PTL

(* Repeated webhooks whose verifications overlap announce a stake once, and  *)
(* only a paid one (routes.js, /webhook).                                    *)
THEOREM ToldOnce == Spec => []AnnouncedOnce
<1>1. IInv => AnnouncedOnce
  BY DEF IInv, ReferenceSound, AnnouncedOnce
<1> QED
  BY <1>1, Inductive, PTL

-----------------------------------------------------------------------------
(* A step of the composition is a step of one component and a stutter of   *)
(* every other.                                                            *)
LEMMA StakingSteps == EventuallySpec => Spec
<1>1. EventuallyInit => Init
  BY DEF EventuallyInit
<1>2. [EventuallyNext]_allVars => [Next]_stakingVars
  BY DEF EventuallyNext, allVars, Stakes, Credits, Views, Pays, Moves
<1> QED
  BY <1>1, <1>2, PTL DEF EventuallySpec, Spec

LEMMA DepositSteps == EventuallySpec => Deposit!Spec
<1>1. EventuallyInit => Deposit!Init
  BY DEF EventuallyInit
<1>2. [EventuallyNext]_allVars => [Deposit!Next]_(Deposit!depositVars)
  BY DEF EventuallyNext, allVars, Stakes, Credits, Views, Pays, Moves, depositPart,
      Deposit!sheet, Deposit!depositVars
<1> QED
  BY <1>1, <1>2, PTL DEF EventuallySpec, Deposit!Spec

LEMMA ViewSteps == EventuallySpec => View!Spec
<1>1. EventuallyInit => View!Init
  BY DEF EventuallyInit
<1>2. [EventuallyNext]_allVars => [View!Next]_(View!viewVars)
  BY DEF EventuallyNext, allVars, Stakes, Credits, Views, Pays, Moves, viewPart, View!viewVars
<1> QED
  BY <1>1, <1>2, PTL DEF EventuallySpec, View!Spec

LEMMA PayoutSteps == EventuallySpec => Payout!Spec
<1>1. EventuallyInit => Payout!Init
  BY DEF EventuallyInit
<1>2. [EventuallyNext]_allVars => [Payout!Next]_(Payout!vars)
  BY DEF EventuallyNext, allVars, Stakes, Credits, Views, Pays, Moves, payoutPart, Payout!vars
<1> QED
  BY <1>1, <1>2, PTL DEF EventuallySpec, Payout!Spec

LEMMA TransferSteps == EventuallySpec => Transfer!Spec
<1>1. EventuallyInit => Transfer!Init
  BY DEF EventuallyInit
<1>2. [EventuallyNext]_allVars => [Transfer!Next]_(Transfer!vars)
  BY DEF EventuallyNext, allVars, Stakes, Credits, Views, Pays, Moves, transferPart, Transfer!vars
<1> QED
  BY <1>1, <1>2, PTL DEF EventuallySpec, Transfer!Spec

-----------------------------------------------------------------------------
(* Deposits. *)

(* CreditedOnce for one reference, and what keeps it: whoever knows of the  *)
(* charge knows it was paid; one handler holds the claim, and while it does *)
(* nothing is credited.                                                     *)
ChargePaid(r) == transaction[r] = "success"

ChargeSound(r) ==
    /\ deliveries[r] > 0 => ChargePaid(r)
    /\ credited[r] \in {0, 1}
    /\ credited[r] = 1 => ChargePaid(r) /\ row[r] = "confirmed"
    /\ \A h \in crediting : h.ref = r =>
          /\ ChargePaid(r) /\ row[r] = "processing"
          /\ \A g \in crediting : g.ref = r => g = h

ChargesSound == Deposit!TypeOK /\ \A r \in Charges : ChargeSound(r)

-----------------------------------------------------------------------------

LEMMA ChargesInit == Deposit!Init => ChargesSound
<1> SUFFICES ASSUME Deposit!Init PROVE ChargesSound
  OBVIOUS
<1>1. Deposit!TypeOK
  BY DEF Deposit!Init, Deposit!TypeOK
<1>2. \A r \in Charges : ChargeSound(r)
  BY DEF Deposit!Init, ChargeSound
<1> QED
  BY <1>1, <1>2 DEF ChargesSound

LEMMA ChargeFormTyped ==
  ASSUME Deposit!TypeOK, NEW r \in Charges,
         Deposit!LoadRate \/ Deposit!Initiate(r) \/ Deposit!ChargeOpened(r) \/ Deposit!Initiated(r) \/ Deposit!InitiateFails(r)
  PROVE  Deposit!TypeOK'
<1>1. CASE Deposit!LoadRate
  BY <1>1 DEF Deposit!TypeOK, Deposit!LoadRate, Deposit!sheet
<1>2. CASE Deposit!Initiate(r)
  BY <1>2 DEF Deposit!TypeOK, Deposit!Initiate, Deposit!CardOffered
<1>3. CASE Deposit!ChargeOpened(r)
  BY <1>3 DEF Deposit!TypeOK, Deposit!ChargeOpened, Deposit!sheet
<1>4. CASE Deposit!Initiated(r)
  <2>1. row' \in [Charges -> {"absent", "pending", "processing", "confirmed"}]
    BY <1>4 DEF Deposit!TypeOK, Deposit!Initiated
  <2>2. mishap' \subseteq Deposit!Mishaps \X Charges
    BY <1>4 DEF Deposit!TypeOK, Deposit!Initiated, Deposit!Befalls, Deposit!Mishaps
  <2> QED
    BY <1>4, <2>1, <2>2 DEF Deposit!TypeOK, Deposit!Initiated
<1>5. CASE Deposit!InitiateFails(r)
  BY <1>5 DEF Deposit!TypeOK, Deposit!InitiateFails
<1> QED
  BY <1>1, <1>2, <1>3, <1>4, <1>5

LEMMA ChargePaidTyped ==
  ASSUME Deposit!TypeOK, NEW r \in Charges, Deposit!Pay(r)
  PROVE  Deposit!TypeOK'
<1>1. deliveries' \in [Charges -> Nat]
  BY EventuallyGiven DEF Deposit!TypeOK, Deposit!Pay
<1>2. mishap' \subseteq Deposit!Mishaps \X Charges
  BY DEF Deposit!TypeOK, Deposit!Pay, Deposit!Befalls, Deposit!Mishaps
<1>3. transaction' \in [Charges -> {None, "open", "success"}]
  BY DEF Deposit!TypeOK, Deposit!Pay
<1>4. returned' \subseteq Charges
  BY DEF Deposit!TypeOK, Deposit!Pay
<1> QED
  BY <1>1, <1>2, <1>3, <1>4 DEF Deposit!TypeOK, Deposit!Pay, Deposit!sheet

LEMMA ChargeClaimedTyped ==
  ASSUME Deposit!TypeOK, NEW r \in Charges, NEW via \in {"webhook", "verify"},
         NEW last \in BOOLEAN, Deposit!Claim(r, via, last)
  PROVE  /\ row' \in [Charges -> {"absent", "pending", "processing", "confirmed"}]
         /\ crediting' \subseteq Deposit!Handlers
         /\ told' \in [Charges -> {None, "refused", "error", "confirmed", "already_confirmed"}]
         /\ mishap' \subseteq Deposit!Mishaps \X Charges
<1>1. mishap' \subseteq Deposit!Mishaps \X Charges
  BY DEF Deposit!TypeOK, Deposit!Claim, Deposit!Befalls, Deposit!Mishaps
<1> QED
  BY <1>1 DEF Deposit!TypeOK, Deposit!Claim, Deposit!Claimable, Deposit!Done, Deposit!Handlers

LEMMA ChargeCallsTyped ==
  ASSUME Deposit!TypeOK, NEW r \in Charges,
         Deposit!Webhook(r) \/ Deposit!Verify(r) \/ Deposit!PaystackVerified(r) \/ Deposit!VerifyFails(r)
  PROVE  Deposit!TypeOK'
<1>1. CASE Deposit!Webhook(r)
  <2>1. deliveries' \in [Charges -> Nat]
    BY <1>1 DEF Deposit!TypeOK, Deposit!Webhook
  <2> QED
    BY <1>1, <2>1, ChargeClaimedTyped, (deliveries[r] = 1 /\ r \notin returned \cup asked) \in BOOLEAN
       DEF Deposit!TypeOK, Deposit!Webhook, Deposit!sheet
<1>2. CASE Deposit!Verify(r)
  BY <1>2 DEF Deposit!TypeOK, Deposit!Verify, Deposit!sheet
<1>3. CASE Deposit!PaystackVerified(r)
  BY <1>3, ChargeClaimedTyped, (deliveries[r] = 0) \in BOOLEAN
     DEF Deposit!TypeOK, Deposit!PaystackVerified, Deposit!sheet
<1>4. CASE Deposit!VerifyFails(r)
  <2>1. mishap' \subseteq Deposit!Mishaps \X Charges
    BY <1>4 DEF Deposit!TypeOK, Deposit!VerifyFails, Deposit!Befalls, Deposit!Mishaps
  <2> QED
    BY <1>4, <2>1 DEF Deposit!TypeOK, Deposit!VerifyFails, Deposit!sheet
<1> QED
  BY <1>1, <1>2, <1>3, <1>4

LEMMA ChargeEndsTyped ==
  ASSUME Deposit!TypeOK, NEW h \in Deposit!Handlers, Deposit!Credit(h) \/ Deposit!CreditFails(h)
  PROVE  Deposit!TypeOK'
<1>0. h.ref \in Charges
  BY DEF Deposit!Handlers
<1>1. CASE Deposit!Credit(h)
  <2>1. credited' \in [Charges -> Nat]
    BY <1>0, <1>1 DEF Deposit!TypeOK, Deposit!Credit
  <2>2. told' \in [Charges -> {None, "refused", "error", "confirmed", "already_confirmed"}]
    BY <1>0, <1>1 DEF Deposit!TypeOK, Deposit!Credit, Deposit!Done
  <2> QED
    BY <1>0, <1>1, <2>1, <2>2 DEF Deposit!TypeOK, Deposit!Credit, Deposit!sheet
<1>2. CASE Deposit!CreditFails(h)
  <2>1. deliveries' \in [Charges -> Nat]
    BY <1>0, <1>2 DEF Deposit!TypeOK, Deposit!CreditFails
  <2>2. mishap' \subseteq Deposit!Mishaps \X Charges
    BY <1>0, <1>2 DEF Deposit!TypeOK, Deposit!CreditFails, Deposit!Befalls, Deposit!Mishaps
  <2> QED
    BY <1>0, <1>2, <2>1, <2>2 DEF Deposit!TypeOK, Deposit!CreditFails, Deposit!sheet
<1> QED
  BY <1>1, <1>2

-----------------------------------------------------------------------------
(* What a step does not touch stays sound. *)

(* The handlers of `r' are those there were, and so is the rest of it. *)
ChargeSame(r) ==
    /\ deliveries'[r] \in Nat /\ deliveries'[r] <= deliveries[r]
    /\ credited'[r] = credited[r] /\ row'[r] = row[r]
    /\ ChargePaid(r) => ChargePaid(r)'
    /\ \A h \in crediting' : h.ref = r => h \in crediting

LEMMA ChargeSameSound ==
  ASSUME Deposit!TypeOK, NEW r \in Charges, ChargeSound(r), ChargeSame(r)
  PROVE  ChargeSound(r)'
<1>1. deliveries[r] \in Nat
  BY DEF Deposit!TypeOK
<1> QED
  BY <1>1 DEF ChargeSame, ChargeSound, ChargePaid

LEMMA ChargeClaimSound ==
  ASSUME Deposit!TypeOK, Deposit!TypeOK', NEW r \in Charges, NEW via \in {"webhook", "verify"},
         NEW last \in BOOLEAN, \A q \in Charges : ChargeSound(q),
         Deposit!Claim(r, via, last), ChargePaid(r),
         UNCHANGED <<transaction, credited>>,
         \A q \in Charges : deliveries'[q] <= deliveries[q]
  PROVE  \A q \in Charges : ChargeSound(q)'
<1>0. \A q \in Charges : deliveries'[q] \in Nat /\ deliveries[q] \in Nat
  BY DEF Deposit!TypeOK
<1>1. SUFFICES ASSUME NEW q \in Charges PROVE ChargeSound(q)'
  OBVIOUS
<1>2. CASE q # r \/ UNCHANGED <<row, crediting>>
  <2>1. row'[q] = row[q]
    BY <1>2 DEF Deposit!Claim, Deposit!TypeOK
  <2>2. \A h \in crediting' : h.ref = q => h \in crediting
    BY <1>2 DEF Deposit!Claim
  <2> QED
    BY <1>0, <2>1, <2>2, ChargeSameSound DEF ChargeSame, ChargePaid
<1>3. CASE /\ q = r /\ Deposit!Claimable(r)
           /\ row' = [row EXCEPT ![r] = "processing"]
           /\ crediting' = crediting \cup {[ref |-> r, via |-> via]}
  <2>1. row[r] = "pending" /\ row'[r] = "processing"
    BY <1>3 DEF Deposit!Claimable, Deposit!TypeOK
  <2>2. \A h \in crediting : h.ref # r
    BY <2>1 DEF ChargeSound
  <2>3. credited[r] = 0 /\ credited'[r] = 0
    BY <2>1 DEF ChargeSound
  <2>4. \A h \in crediting' : h.ref = r => h = [ref |-> r, via |-> via]
    BY <1>3, <2>2
  <2>5. ChargePaid(r)'
    BY DEF ChargePaid
  <2> QED
    BY <1>3, <2>1, <2>3, <2>4, <2>5 DEF ChargeSound
<1> QED
  BY <1>2, <1>3 DEF Deposit!Claim

LEMMA ChargesStep ==
  ChargesSound /\ [Deposit!Next]_(Deposit!depositVars) => ChargesSound'
<1> SUFFICES ASSUME ChargesSound, [Deposit!Next]_(Deposit!depositVars) PROVE ChargesSound'
  OBVIOUS
<1>0. Deposit!TypeOK /\ \A r \in Charges : ChargeSound(r)
  BY DEF ChargesSound
<1>a. \A q \in Charges : deliveries[q] \in Nat /\ deliveries[q] <= deliveries[q]
  BY <1>0 DEF Deposit!TypeOK
<1>1. CASE Deposit!LoadRate
  <2>1. Deposit!TypeOK'
    BY <1>0, <1>1 DEF Deposit!TypeOK, Deposit!LoadRate
  <2>2. \A q \in Charges : ChargeSame(q)
    BY <1>1, <1>a DEF Deposit!LoadRate, ChargeSame, ChargePaid
  <2> QED
    BY <1>0, <2>1, <2>2, ChargeSameSound DEF ChargesSound
<1>2. ASSUME NEW r \in Charges, Deposit!Initiate(r) \/ Deposit!InitiateFails(r) PROVE ChargesSound'
  <2>1. Deposit!TypeOK'
    BY <1>0, <1>2, ChargeFormTyped
  <2>2. \A q \in Charges : ChargeSame(q)
    BY <1>2, <1>a DEF Deposit!Initiate, Deposit!InitiateFails, ChargeSame, ChargePaid
  <2> QED
    BY <1>0, <2>1, <2>2, ChargeSameSound DEF ChargesSound
<1>3. ASSUME NEW r \in Charges, Deposit!ChargeOpened(r) PROVE ChargesSound'
  <2>1. Deposit!TypeOK'
    BY <1>0, <1>3, ChargeFormTyped
  <2>2. ~ ChargePaid(r)
    BY <1>3 DEF Deposit!ChargeOpened, ChargePaid, None
  <2>3. \A q \in Charges : ChargePaid(q) => ChargePaid(q)'
    BY <1>0, <1>3, <2>2 DEF Deposit!ChargeOpened, ChargePaid, Deposit!TypeOK
  <2>4. \A q \in Charges : ChargeSame(q)
    BY <1>3, <1>a, <2>3 DEF Deposit!ChargeOpened, ChargeSame
  <2> QED
    BY <1>0, <2>1, <2>4, ChargeSameSound DEF ChargesSound
<1>4. ASSUME NEW r \in Charges, Deposit!Initiated(r) PROVE ChargesSound'
  <2>1. Deposit!TypeOK'
    BY <1>0, <1>4, ChargeFormTyped
  <2>2. ~ ChargePaid(r)
    BY <1>4 DEF Deposit!Initiated, ChargePaid
  <2>3. ASSUME NEW q \in Charges PROVE ChargeSound(q)'
    <3>1. CASE q = r
      <4>1. UNCHANGED <<deliveries, credited, transaction, crediting>>
        BY <1>4 DEF Deposit!Initiated
      <4>2. credited[r] # 1 /\ \A h \in crediting : h.ref # r
        BY <1>0, <2>2 DEF ChargeSound
      <4> QED
        BY <1>0, <2>2, <3>1, <4>1, <4>2 DEF ChargeSound, ChargePaid
    <3>2. CASE q # r
      <4>1. ChargeSame(q)
        BY <1>0, <1>4, <1>a, <3>2 DEF Deposit!Initiated, ChargeSame, ChargePaid, Deposit!TypeOK
      <4> QED
        BY <1>0, <4>1, ChargeSameSound
    <3> QED
      BY <3>1, <3>2
  <2> QED
    BY <2>1, <2>3 DEF ChargesSound
<1>5. ASSUME NEW r \in Charges, Deposit!Pay(r) PROVE ChargesSound'
  <2>1. Deposit!TypeOK'
    BY <1>0, <1>5, ChargePaidTyped
  <2>2. ChargePaid(r)' /\ UNCHANGED <<credited, row, crediting>>
    BY <1>0, <1>5 DEF Deposit!Pay, ChargePaid, Deposit!TypeOK
  <2>3. ASSUME NEW q \in Charges PROVE ChargeSound(q)'
    <3>1. CASE q = r
      BY <1>0, <2>2, <3>1 DEF ChargeSound
    <3>2. CASE q # r
      <4>1. deliveries'[q] = deliveries[q] /\ transaction'[q] = transaction[q]
        BY <1>0, <1>5, <3>2 DEF Deposit!Pay, Deposit!TypeOK
      <4>2. ChargeSame(q)
        BY <1>a, <2>2, <4>1 DEF ChargeSame, ChargePaid
      <4> QED
        BY <1>0, <4>2, ChargeSameSound
    <3> QED
      BY <3>1, <3>2
  <2> QED
    BY <2>1, <2>3 DEF ChargesSound
<1>6. ASSUME NEW r \in Charges, Deposit!Webhook(r) PROVE ChargesSound'
  <2>1. Deposit!TypeOK'
    BY <1>0, <1>6, ChargeCallsTyped
  <2>2. ChargePaid(r)
    BY <1>0, <1>6 DEF Deposit!Webhook, ChargeSound
  <2>3. \A q \in Charges : deliveries'[q] <= deliveries[q]
    BY <1>0, <1>6 DEF Deposit!Webhook, Deposit!TypeOK
  <2>4. Deposit!Claim(r, "webhook", deliveries[r] = 1 /\ r \notin returned \cup asked)
    BY <1>6 DEF Deposit!Webhook
  <2>5. UNCHANGED <<transaction, credited>>
    BY <1>6 DEF Deposit!Webhook
  <2>6. (deliveries[r] = 1 /\ r \notin returned \cup asked) \in BOOLEAN
    OBVIOUS
  <2> QED
    BY <1>0, <2>1, <2>2, <2>3, <2>4, <2>5, <2>6, ChargeClaimSound DEF ChargesSound
<1>7. ASSUME NEW r \in Charges, Deposit!Verify(r) \/ Deposit!VerifyFails(r) PROVE ChargesSound'
  <2>1. Deposit!TypeOK'
    BY <1>0, <1>7, ChargeCallsTyped
  <2>2. \A q \in Charges : ChargeSame(q)
    BY <1>7, <1>a DEF Deposit!Verify, Deposit!VerifyFails, ChargeSame, ChargePaid
  <2> QED
    BY <1>0, <2>1, <2>2, ChargeSameSound DEF ChargesSound
<1>8. ASSUME NEW r \in Charges, Deposit!PaystackVerified(r) PROVE ChargesSound'
  <2>1. Deposit!TypeOK'
    BY <1>0, <1>8, ChargeCallsTyped
  <2>2. ChargePaid(r)
    BY <1>8 DEF Deposit!PaystackVerified, ChargePaid
  <2>3. Deposit!Claim(r, "verify", deliveries[r] = 0) /\ (deliveries[r] = 0) \in BOOLEAN
    BY <1>8 DEF Deposit!PaystackVerified
  <2>4. UNCHANGED <<transaction, credited, deliveries>>
    BY <1>8 DEF Deposit!PaystackVerified
  <2> QED
    BY <1>0, <1>a, <2>1, <2>2, <2>3, <2>4, ChargeClaimSound DEF ChargesSound
<1>9. ASSUME NEW h \in Deposit!Handlers, Deposit!Credit(h) PROVE ChargesSound'
  <2>1. Deposit!TypeOK' /\ h.ref \in Charges
    BY <1>0, <1>9, ChargeEndsTyped DEF Deposit!Handlers
  <2>2. ChargePaid(h.ref) /\ row[h.ref] = "processing" /\ \A g \in crediting : g.ref = h.ref => g = h
    BY <1>0, <1>9, <2>1 DEF Deposit!Credit, ChargeSound
  <2>3. ASSUME NEW q \in Charges PROVE ChargeSound(q)'
    <3>1. CASE q = h.ref
      <4>1. credited[q] = 0
        BY <1>0, <2>2, <3>1 DEF ChargeSound
      <4>2. credited'[q] = 1 /\ row'[q] = "confirmed" /\ ChargePaid(q)'
        BY <1>0, <1>9, <2>2, <3>1, <4>1 DEF Deposit!Credit, ChargePaid, Deposit!TypeOK
      <4>3. \A g \in crediting' : g.ref # q
        BY <1>9, <2>2, <3>1 DEF Deposit!Credit
      <4> QED
        BY <4>2, <4>3 DEF ChargeSound
    <3>2. CASE q # h.ref
      <4>1. credited'[q] = credited[q] /\ row'[q] = row[q]
        BY <1>0, <1>9, <2>1, <3>2 DEF Deposit!Credit, Deposit!TypeOK
      <4>2. ChargeSame(q)
        BY <1>9, <1>a, <4>1 DEF Deposit!Credit, ChargeSame, ChargePaid
      <4> QED
        BY <1>0, <4>2, ChargeSameSound
    <3> QED
      BY <3>1, <3>2
  <2> QED
    BY <2>1, <2>3 DEF ChargesSound
<1>10. ASSUME NEW h \in Deposit!Handlers, Deposit!CreditFails(h) PROVE ChargesSound'
  <2>1. Deposit!TypeOK' /\ h.ref \in Charges
    BY <1>0, <1>10, ChargeEndsTyped DEF Deposit!Handlers
  <2>2. ChargePaid(h.ref)
    BY <1>0, <1>10, <2>1 DEF Deposit!CreditFails, ChargeSound
  <2>3. UNCHANGED <<transaction, row, credited>> /\ crediting' \subseteq crediting
    BY <1>10 DEF Deposit!CreditFails
  <2>4. ASSUME NEW q \in Charges PROVE ChargeSound(q)'
    <3>1. CASE q = h.ref
      BY <1>0, <2>2, <2>3, <3>1 DEF ChargeSound, ChargePaid
    <3>2. CASE q # h.ref
      <4>1. deliveries'[q] = deliveries[q]
        BY <1>0, <1>10, <2>1, <3>2 DEF Deposit!CreditFails, Deposit!TypeOK
      <4>2. ChargeSame(q)
        BY <1>a, <2>3, <4>1 DEF ChargeSame, ChargePaid
      <4> QED
        BY <1>0, <4>2, ChargeSameSound
    <3> QED
      BY <3>1, <3>2
  <2> QED
    BY <2>1, <2>4 DEF ChargesSound
<1>11. CASE UNCHANGED Deposit!depositVars
  <2>1. Deposit!TypeOK'
    BY <1>0, <1>11 DEF Deposit!TypeOK, Deposit!depositVars, Deposit!sheet
  <2>2. \A q \in Charges : ChargeSame(q)
    BY <1>11, <1>a DEF Deposit!depositVars, ChargeSame, ChargePaid
  <2> QED
    BY <1>0, <2>1, <2>2, ChargeSameSound DEF ChargesSound
<1> QED
  BY <1>1, <1>2, <1>3, <1>4, <1>5, <1>6, <1>7, <1>8, <1>9, <1>10, <1>11
      DEF Deposit!Next, Deposit!Answers, Deposit!Ends

--------------------------------------------------------

(* Every variable keeps its type: webhooks are counted from zero, and       *)
(* claims are held by handlers of known references (paystack.go).           *)
LEMMA ChargesTyped == EventuallySpec => [](Deposit!TypeOK /\ CreditedOnce)
<1>1. ChargesSound => Deposit!TypeOK /\ CreditedOnce
  BY DEF ChargesSound, ChargeSound, CreditedOnce, Deposit!CreditedOnce, ChargePaid
<1> QED
  BY <1>1, ChargesInit, ChargesStep, DepositSteps, PTL DEF Deposit!Spec

\* A charge is credited at most once and only if it was paid, although
\* creditPaystack runs for the webhook, its repetitions and the page's verify
\* call: the guarded UPDATE to `processing' lets one of them through.
THEOREM CreditsOnce == EventuallySpec => []CreditedOnce
BY ChargesTyped, PTL

-----------------------------------------------------------------------------
(* The account that is shown. *)

(* An account's open options are its own and have not ended. *)
EngineSound ==
    \A a \in Shown :
        engine[a].open \subseteq Bought[a] /\ \A o \in engine[a].open : paid[o] = -1

(* A state that matters: what the engine has, what the page shows, what is  *)
(* on its way to it.                                                        *)
Snapshots(p, f, s) == {p, f.data, s.data} \ {NoState}
Known == {View!State(a) : a \in Shown} \cup Snapshots(prevState, fetch, socket)

(* s was the state of its account once. *)
Was(s) == s.of \in Shown /\ s.seq <= engine[s.of].seq /\ s.open \subseteq Bought[s.of]

(* t came after s: an option that is gone has ended, and what it paid is    *)
(* the change of the balance if nothing else happened in between.           *)
Follows(s, t, result) ==
    /\ s.seq = t.seq => s.open = t.open /\ s.balance = t.balance
    /\ \A o \in s.open \ t.open :
          result[o] # -1 /\ (t.seq = s.seq + 1 => t.balance = s.balance + result[o])

(* An option that is open before and after is open in between. *)
Between(s, t, u) == s.open \cap u.open \subseteq t.open

OneHistory ==
    /\ \A s \in Known : Was(s)
    /\ \A s, t \in Known : (s.of = t.of /\ s.seq <= t.seq) => Follows(s, t, paid)
    /\ \A s, t, u \in Known :
          (s.of = t.of /\ t.of = u.of /\ s.seq <= t.seq /\ t.seq <= u.seq) => Between(s, t, u)

(* Which account a request, the socket and their data are of. *)
Addressed ==
    /\ view = prevState
    /\ socket.of = current
    /\ socket.data # NoState => socket.data.of = current
    /\ fetch.busy => fetch.of \in Shown
    /\ (fetch.busy /\ ~ fetch.late) => fetch.of = current
    /\ fetch.data # NoState => fetch.busy /\ fetch.data.of = fetch.of

Calm == {"late_reply", "reordered"} \cap events = {}

(* What HistorySound says of one record. *)
RecordSound(r, a, o, result, seen) ==
    /\ r.times <= IF o \in Bought[a] THEN 1 ELSE 0
    /\ r.times > 0 => result[o] # -1
    /\ (r.times > 0 /\ "mixed" \notin seen) => (r.said = "win" <=> result[o] > 0)

(* The states on their way that the page may yet take for new ones. *)
Pending == {d \in {socket.data} \cup (IF fetch.late THEN {} ELSE {fetch.data}) : d # NoState}
Newer(p) == prevState = NoState \/ p.seq >= prevState.seq

(* An option that is written down is not open in what is shown, nor in what *)
(* may be shown next: it will not be written down again.                    *)
Final(o) ==
    /\ prevState # NoState => o \notin prevState.open
    /\ \A p \in Pending : Newer(p) => o \notin p.open

RecordsSound ==
    /\ prevState # NoState => prevState.of = current
    /\ \A a \in Shown, o \in View!Options : RecordSound(stored[a][o], a, o, paid, events)
    /\ current \in Shown =>
          /\ historyRef = stored[current]
          /\ \A o \in View!Options : historyRef[o].times > 0 => Final(o)

ViewInvariant == View!TypeOK /\ EngineSound /\ OneHistory /\ Addressed /\ (Calm => RecordsSound)

-----------------------------------------------------------------------------

LEMMA Bounds == Pots \subseteq Nat /\ Guest \notin Shown /\ NoState \notin View!States
BY EventuallyGiven

LEMMA Owned ==
  ASSUME NEW o \in View!Options
  PROVE  /\ View!Owner(o) \in Shown /\ o \in Bought[View!Owner(o)]
         /\ \A a \in Shown : o \in Bought[a] => a = View!Owner(o)
<1>1. PICK a \in Shown : o \in Bought[a]
  BY DEF View!Options
<1>2. View!Owner(o) \in Shown /\ o \in Bought[View!Owner(o)]
  BY <1>1 DEF View!Owner
<1> QED
  BY <1>2, EventuallyGiven

LEMMA Own == \A a \in Shown : Bought[a] \subseteq View!Options
BY DEF View!Options

LEMMA KnownStates ==
  ASSUME View!TypeOK
  PROVE  /\ Known \subseteq View!States
         /\ \A a \in Shown : View!State(a) \in Known
         /\ \A a \in Shown : View!State(a) \in View!States
         /\ prevState # NoState => prevState \in Known
         /\ fetch.data # NoState => fetch.data \in Known
         /\ socket.data # NoState => socket.data \in Known
<1>1. \A a \in Shown : View!State(a) \in View!States
  BY DEF View!TypeOK, View!State, View!States
<1>2. Snapshots(prevState, fetch, socket) \subseteq View!States
  BY DEF View!TypeOK, Snapshots
<1> QED
  BY <1>1, <1>2 DEF Known, Snapshots

(* The types. *)
LEMMA Stated ==
  ASSUME View!TypeOK, NEW a \in Shown, NEW b \in Nat, NEW S \in SUBSET View!Options,
         View!Changes(a, b, S)
  PROVE  /\ engine' \in [Shown -> [balance: Nat, open: SUBSET View!Options, seq: Nat]]
         /\ engine'[a].balance = b /\ engine'[a].open = S /\ engine'[a].seq = engine[a].seq + 1
         /\ \A c \in Shown \ {a} : engine'[c] = engine[c]
<1> DEFINE now == [balance |-> b, open |-> S, seq |-> engine[a].seq + 1]
<1>1. engine \in [Shown -> [balance: Nat, open: SUBSET View!Options, seq: Nat]]
  BY DEF View!TypeOK
<1>2. engine[a].seq \in Nat
  BY <1>1
<1>3. now \in [balance: Nat, open: SUBSET View!Options, seq: Nat]
  BY <1>2
<1>4. engine' = [engine EXCEPT ![a] = now]
  BY DEF View!Changes
<1>6. now.balance = b /\ now.open = S /\ now.seq = engine[a].seq + 1
  OBVIOUS
<1> HIDE DEF now
<1>5. /\ engine' \in [Shown -> [balance: Nat, open: SUBSET View!Options, seq: Nat]]
      /\ engine'[a] = now
      /\ \A c \in Shown \ {a} : engine'[c] = engine[c]
  BY <1>1, <1>3, <1>4
<1> QED
  BY <1>5, <1>6

LEMMA Spent ==
  ASSUME View!TypeOK, NEW what \in {"topups", "switches", "drops"}, NEW bound, View!Spend(what, bound)
  PROVE  budget' \in [topups: Nat, switches: Nat, drops: Nat]
<1>1. CASE what = "topups"
  BY <1>1 DEF View!TypeOK, View!Spend
<1>2. CASE what = "switches"
  BY <1>2 DEF View!TypeOK, View!Spend
<1>3. CASE what = "drops"
  BY <1>3 DEF View!TypeOK, View!Spend
<1> QED
  BY <1>1, <1>2, <1>3

LEMMA Requested ==
  ASSUME View!TypeOK, NEW a \in Shown \cup {Guest}
  PROVE  View!Ask(a) \in [of: Shown \cup {Guest}, data: View!States \cup {NoState}, busy: BOOLEAN, late: BOOLEAN]
BY DEF View!TypeOK, View!Ask, View!Asked, View!Idle, View!Ids

LEMMA RecordWritten ==
  ASSUME NEW h \in [View!Options -> View!Records], NEW gone, NEW outcome \in {"win", "loss"}
  PROVE  View!Written(h, gone, outcome) \in [View!Options -> View!Records]
<1>1. ASSUME NEW o \in View!Options
      PROVE  (IF o \in gone THEN [times |-> h[o].times + 1, said |-> outcome] ELSE h[o]) \in View!Records
  BY DEF View!Records
<1> QED
  BY <1>1 DEF View!Written

LEMMA TypedApplied ==
  ASSUME View!TypeOK, NEW new \in View!States, NEW key, NEW late \in BOOLEAN,
         View!ApplyState(new, key, late)
  PROVE  /\ historyRef' \in [View!Options -> View!Records]
         /\ stored' \in [Shown -> [View!Options -> View!Records]]
         /\ prevState' = new /\ view' = new
         /\ events' = events \cup View!Mishaps(new, late) /\ events' \subseteq View!AllEvents
<1> DEFINE gone    == View!Gone(prevState, new)
           updated == View!Written(historyRef, gone, View!Outcome(prevState, new))
<1>1. updated \in [View!Options -> View!Records]
  BY RecordWritten DEF View!Outcome, View!TypeOK
<1>2. /\ gone = {} => UNCHANGED <<historyRef, stored>>
      /\ gone # {} => /\ historyRef' = updated
                      /\ stored' = [a \in Shown |-> IF a = key THEN updated ELSE stored[a]]
      /\ prevState' = new /\ view' = new
      /\ events' = events \cup View!Mishaps(new, late)
  BY DEF View!ApplyState
<1> HIDE DEF updated, gone
<1>3. events' \subseteq View!AllEvents
  BY <1>2 DEF View!Mishaps, View!AllEvents, View!TypeOK
<1>4. /\ historyRef \in [View!Options -> View!Records]
      /\ stored \in [Shown -> [View!Options -> View!Records]]
  BY DEF View!TypeOK
<1>5. CASE gone = {}
  BY <1>2, <1>3, <1>4, <1>5
<1>6. CASE gone # {}
  BY <1>1, <1>2, <1>3, <1>4, <1>6
<1> QED
  BY <1>5, <1>6

LEMMA ViewTypedEngine ==
  ASSUME View!TypeOK, \/ \E o \in View!Options : View!PlaceBinary(o) \/ View!Settle(o)
         \/ \E a \in Shown : View!Topup(a)
  PROVE  View!TypeOK'
<1>0. engine \in [Shown -> [balance: Nat, open: SUBSET View!Options, seq: Nat]]
  BY DEF View!TypeOK
<1>1. ASSUME NEW o \in View!Options, View!PlaceBinary(o)
      PROVE  View!TypeOK'
  <2>1. current \in Shown /\ current = View!Owner(o) /\ engine[current].balance >= 1
    BY <1>1, Owned DEF View!PlaceBinary
  <2>2. engine[current].balance \in Nat /\ engine[current].open \subseteq View!Options
    BY <1>0, <2>1
  <2>3. engine[current].balance - 1 \in Nat /\ engine[current].open \cup {o} \in SUBSET View!Options
    BY <2>1, <2>2
  <2>4. engine' \in [Shown -> [balance: Nat, open: SUBSET View!Options, seq: Nat]]
    BY <1>1, <2>1, <2>3, Stated DEF View!PlaceBinary
  <2> QED
    BY <1>1, <2>4 DEF View!PlaceBinary, View!TypeOK, View!display
<1>2. ASSUME NEW o \in View!Options, View!Settle(o)
      PROVE  View!TypeOK'
  <2>1. PICK p \in Pots : /\ paid' = [paid EXCEPT ![o] = p]
                          /\ View!Changes(View!Owner(o), engine[View!Owner(o)].balance + p,
                                          engine[View!Owner(o)].open \ {o})
    BY <1>2 DEF View!Settle
  <2>2. p \in Nat /\ View!Owner(o) \in Shown
    BY Bounds, Owned
  <2>3. /\ engine[View!Owner(o)].balance + p \in Nat
        /\ engine[View!Owner(o)].open \ {o} \in SUBSET View!Options
    BY <1>0, <2>2
  <2>4. engine' \in [Shown -> [balance: Nat, open: SUBSET View!Options, seq: Nat]]
    BY <2>1, <2>2, <2>3, Stated
  <2>5. paid' \in [View!Options -> Pots \cup {-1}]
    BY <2>1 DEF View!TypeOK
  <2> QED
    BY <1>2, <2>4, <2>5 DEF View!Settle, View!TypeOK, View!display
<1>3. ASSUME NEW a \in Shown, View!Topup(a)
      PROVE  View!TypeOK'
  <2>1. engine[a].balance + 1 \in Nat /\ engine[a].open \in SUBSET View!Options
    BY <1>0
  <2>2. engine' \in [Shown -> [balance: Nat, open: SUBSET View!Options, seq: Nat]]
    BY <1>3, <2>1, Stated DEF View!Topup
  <2>3. budget' \in [topups: Nat, switches: Nat, drops: Nat]
    BY <1>3, Spent DEF View!Topup
  <2> QED
    BY <1>3, <2>2, <2>3 DEF View!Topup, View!TypeOK, View!display
<1> QED
  BY <1>1, <1>2, <1>3

LEMMA ViewTypedCalls ==
  ASSUME View!TypeOK, Addressed,
         View!Refresh \/ View!Serve \/ View!ReplyArrives \/ View!ReplyFails
  PROVE  View!TypeOK'
<1> DEFINE F == [of: Shown \cup {Guest}, data: View!States \cup {NoState}, busy: BOOLEAN, late: BOOLEAN]
<1>0. fetch \in F /\ View!Idle \in F /\ current \in Shown \cup {Guest}
  BY DEF View!TypeOK, View!Idle, View!Asked, View!Ids
<1>1. CASE View!Refresh
  <2>1. fetch' \in F
    BY <1>0, <1>1, Requested DEF View!Refresh
  <2> QED
    BY <1>1, <2>1 DEF View!Refresh, View!TypeOK, View!display, View!market, View!Ids
<1>2. CASE View!Serve
  <2>1. fetch.of \in Shown
    BY <1>2 DEF View!Serve, Addressed
  <2>2. View!State(fetch.of) \in View!States
    BY <2>1, KnownStates
  <2>3. fetch' \in F
    BY <1>0, <1>2, <2>2 DEF View!Serve
  <2> QED
    BY <1>2, <2>3 DEF View!Serve, View!TypeOK, View!display, View!market, View!Ids
<1>3. CASE View!ReplyArrives
  <2>1. fetch.data \in View!States /\ fetch.late \in BOOLEAN
    BY <1>0, <1>3 DEF View!ReplyArrives
  <2>2. View!ApplyState(fetch.data, fetch.of, fetch.late) /\ fetch' \in F
    BY <1>0, <1>3 DEF View!ReplyArrives
  <2> QED
    BY <1>3, <2>1, <2>2, TypedApplied DEF View!ReplyArrives, View!TypeOK, View!market, View!Ids
<1>4. CASE View!ReplyFails
  BY <1>0, <1>4 DEF View!ReplyFails, View!TypeOK, View!display, View!market, View!Ids
<1> QED
  BY <1>1, <1>2, <1>3, <1>4

LEMMA ViewTypedSocket ==
  ASSUME View!TypeOK, View!Push \/ View!PushArrives \/ View!Drop \/ View!Reconnect
  PROVE  View!TypeOK'
<1> DEFINE W == [of: Shown \cup {Guest}, up: BOOLEAN, data: View!States \cup {NoState}]
<1>0. socket \in W /\ current \in Shown \cup {Guest}
  BY DEF View!TypeOK, View!Ids
<1>1. CASE View!Push
  <2>1. View!State(socket.of) \in View!States
    BY <1>0, <1>1, KnownStates DEF View!Push
  <2>2. socket' \in W
    BY <1>0, <1>1, <2>1 DEF View!Push
  <2> QED
    BY <1>1, <2>2 DEF View!Push, View!TypeOK, View!display, View!market, View!Ids
<1>2. CASE View!PushArrives
  <2>1. socket.data \in View!States /\ View!ApplyState(socket.data, current, FALSE) /\ socket' \in W
    BY <1>0, <1>2 DEF View!PushArrives
  <2> QED
    BY <1>2, <2>1, TypedApplied DEF View!PushArrives, View!TypeOK, View!market, View!Ids
<1>3. CASE View!Drop
  <2>1. budget' \in [topups: Nat, switches: Nat, drops: Nat] /\ socket' \in W
    BY <1>0, <1>3, Spent DEF View!Drop
  <2> QED
    BY <1>3, <2>1 DEF View!Drop, View!TypeOK, View!display, View!market, View!Ids
<1>4. CASE View!Reconnect
  <2>1. socket' \in W
    BY <1>0, <1>4 DEF View!Reconnect, View!Socket
  <2> QED
    BY <1>4, <2>1 DEF View!Reconnect, View!TypeOK, View!display, View!market, View!Ids
<1> QED
  BY <1>1, <1>2, <1>3, <1>4

LEMMA ViewTypedSelect ==
  ASSUME View!TypeOK, NEW a \in Shown \cup {Guest}, View!Select(a)
  PROVE  View!TypeOK'
<1>1. budget' \in [topups: Nat, switches: Nat, drops: Nat]
  BY Spent DEF View!Select
<1>2. fetch' \in [of: Shown \cup {Guest}, data: View!States \cup {NoState}, busy: BOOLEAN, late: BOOLEAN]
  BY Requested DEF View!Select
<1>3. socket' \in [of: Shown \cup {Guest}, up: BOOLEAN, data: View!States \cup {NoState}]
  BY DEF View!Select, View!Socket
<1>4. historyRef' \in [View!Options -> View!Records]
  BY DEF View!Select, View!Reset, View!TypeOK
<1> QED
  BY <1>1, <1>2, <1>3, <1>4 DEF View!Select, View!Reset, View!TypeOK, View!market, View!Ids

-----------------------------------------------------------------------------

(* The engine's step on account a: what ended paid, what opened had not     *)
(* ended, and what has ended keeps its result.                              *)
Evolves(a) ==
    /\ \A b \in Shown \ {a} : engine'[b] = engine[b]
    /\ engine'[a].seq = engine[a].seq + 1
    /\ engine'[a].open \subseteq Bought[a]
    /\ \A o \in engine[a].open \ engine'[a].open :
          paid'[o] # -1 /\ engine'[a].balance = engine[a].balance + paid'[o]
    /\ \A o \in engine'[a].open \ engine[a].open : paid[o] = -1
    /\ \A o \in View!Options : paid[o] # -1 => paid'[o] = paid[o]
    /\ EngineSound'

LEMMA EngineEvolves ==
  ASSUME View!TypeOK, EngineSound, \/ \E o \in View!Options : View!PlaceBinary(o) \/ View!Settle(o)
         \/ \E a \in Shown : View!Topup(a)
  PROVE  (\E a \in Shown : Evolves(a)) /\ UNCHANGED <<current, View!display, fetch, socket>>
<1>0. engine \in [Shown -> [balance: Nat, open: SUBSET View!Options, seq: Nat]]
  BY DEF View!TypeOK
<1>1. ASSUME NEW o \in View!Options, View!PlaceBinary(o)
      PROVE  (\E a \in Shown : Evolves(a)) /\ UNCHANGED <<current, View!display, fetch, socket>>
  <2> DEFINE a == View!Owner(o)
             S == engine[a].open \cup {o}
  <2>1. a \in Shown /\ o \in Bought[a] /\ current = a /\ paid[o] = -1 /\ o \notin engine[a].open
    BY <1>1, Owned DEF View!PlaceBinary
  <2>2. /\ View!Changes(a, engine[a].balance - 1, S) /\ paid' = paid
        /\ engine[a].balance - 1 \in Nat /\ S \in SUBSET View!Options
    BY <1>0, <1>1, <2>1 DEF View!PlaceBinary
  <2>3. engine'[a].open = S /\ engine'[a].seq = engine[a].seq + 1
    BY <2>1, <2>2, Stated
  <2>4. \A b \in Shown \ {a} : engine'[b] = engine[b]
    BY <2>1, <2>2, Stated
  <2> HIDE DEF a, S
  <2>5. S = engine[a].open \cup {o}
    BY DEF S
  <2>6. EngineSound'
    BY <2>1, <2>2, <2>3, <2>4, <2>5 DEF EngineSound
  <2>7. Evolves(a)
    BY <2>1, <2>2, <2>3, <2>4, <2>5, <2>6 DEF Evolves, EngineSound
  <2> QED
    BY <1>1, <2>1, <2>7 DEF View!PlaceBinary
<1>2. ASSUME NEW o \in View!Options, View!Settle(o)
      PROVE  (\E a \in Shown : Evolves(a)) /\ UNCHANGED <<current, View!display, fetch, socket>>
  <2> DEFINE a == View!Owner(o)
             S == engine[a].open \ {o}
  <2>1. a \in Shown /\ o \in engine[a].open
    BY <1>2, Owned DEF View!Settle
  <2>2. PICK p \in Pots : /\ paid' = [paid EXCEPT ![o] = p]
                          /\ View!Changes(a, engine[a].balance + p, S)
    BY <1>2 DEF View!Settle
  <2>3. p \in Nat /\ engine[a].balance + p \in Nat /\ S \in SUBSET View!Options
    BY <1>0, <2>1, Bounds
  <2>4. /\ engine'[a].open = S /\ engine'[a].seq = engine[a].seq + 1
        /\ engine'[a].balance = engine[a].balance + p
    BY <2>1, <2>2, <2>3, Stated
  <2>5. \A b \in Shown \ {a} : engine'[b] = engine[b]
    BY <2>1, <2>2, <2>3, Stated
  <2>6. paid[o] = -1 /\ \A b \in Shown : o \in Bought[b] => b = a
    BY <2>1, Owned DEF EngineSound
  <2>7. paid'[o] = p /\ p # -1 /\ \A x \in View!Options \ {o} : paid'[x] = paid[x]
    BY <2>2, <2>3 DEF View!TypeOK
  <2> HIDE DEF a, S
  <2>8. S = engine[a].open \ {o}
    BY DEF S
  <2>9. ASSUME NEW b \in Shown
        PROVE  engine'[b].open \subseteq engine[b].open /\ o \notin engine'[b].open
    BY <2>1, <2>4, <2>5, <2>6, <2>8 DEF EngineSound
  <2>10. ASSUME NEW b \in Shown
         PROVE  engine'[b].open \subseteq Bought[b] /\ \A x \in engine'[b].open : paid'[x] = -1
    BY <2>7, <2>9, Own DEF EngineSound
  <2>11. EngineSound'
    BY <2>10 DEF EngineSound
  <2>12. \A x \in engine[a].open \ engine'[a].open : x = o
    BY <2>4, <2>8
  <2>13. Evolves(a)
    BY <2>1, <2>4, <2>5, <2>6, <2>7, <2>9, <2>10, <2>11, <2>12 DEF Evolves
  <2> QED
    BY <1>2, <2>1, <2>13 DEF View!Settle
<1>3. ASSUME NEW c \in Shown, View!Topup(c)
      PROVE  (\E a \in Shown : Evolves(a)) /\ UNCHANGED <<current, View!display, fetch, socket>>
  <2>1. View!Changes(c, engine[c].balance + 1, engine[c].open) /\ paid' = paid
    BY <1>3 DEF View!Topup
  <2>2. engine[c].balance + 1 \in Nat /\ engine[c].open \in SUBSET View!Options
    BY <1>0
  <2>3. engine'[c].open = engine[c].open /\ engine'[c].seq = engine[c].seq + 1
    BY <2>1, <2>2, Stated
  <2>4. \A b \in Shown \ {c} : engine'[b] = engine[b]
    BY <2>1, <2>2, Stated
  <2>5. \A b \in Shown : engine'[b].open = engine[b].open
    BY <2>3, <2>4
  <2>6. EngineSound'
    BY <2>1, <2>5 DEF EngineSound
  <2>7. Evolves(c)
    BY <2>1, <2>3, <2>4, <2>6 DEF Evolves, EngineSound
  <2> QED
    BY <1>3, <2>7 DEF View!Topup
<1> QED
  BY <1>1, <1>2, <1>3

LEMMA HistoryKept ==
  ASSUME OneHistory, UNCHANGED <<engine, paid>>, Known' \subseteq Known
  PROVE  OneHistory'
BY DEF OneHistory, Was, Follows, Between

LEMMA HistoryGrows ==
  ASSUME View!TypeOK, View!TypeOK', OneHistory, NEW a \in Shown, Evolves(a),
         UNCHANGED <<prevState, fetch, socket>>
  PROVE  OneHistory'
<1> DEFINE old == View!State(a)
           new == View!State(a)'
<1>1. /\ old \in Known /\ old.of = a /\ old.seq = engine[a].seq
      /\ old.open = engine[a].open /\ old.balance = engine[a].balance
  BY KnownStates DEF View!State
<1>2. /\ new.of = a /\ new.seq = engine'[a].seq
      /\ new.open = engine'[a].open /\ new.balance = engine'[a].balance
  BY DEF View!State
<1>3. Known' \subseteq Known \cup {new}
  <2>1. \A b \in Shown \ {a} : View!State(b)' = View!State(b)
    BY DEF Evolves, View!State
  <2>2. Snapshots(prevState, fetch, socket)' = Snapshots(prevState, fetch, socket)
    BY DEF Snapshots
  <2> QED
    BY <2>1, <2>2 DEF Known
<1>4. Known' \subseteq View!States
  <2>1. new \in View!States
    BY DEF View!State, View!States, View!TypeOK
  <2> QED
    BY <1>3, <2>1, KnownStates
<1> HIDE DEF old, new
<1>5. \A s \in Known' : s.seq \in Nat /\ s.open \subseteq View!Options
  BY <1>4 DEF View!States
<1>6. /\ engine[a].seq \in Nat /\ engine'[a].seq \in Nat
      /\ \A b \in Shown : engine[b].seq \in Nat /\ engine'[b].seq \in Nat
  BY DEF View!TypeOK
<1>7. \A s \in Known : s.seq \in Nat
  BY KnownStates DEF View!States
<1>8. \A s \in Known : s.of = a => s.seq <= old.seq
  BY <1>1 DEF OneHistory, Was
<1>9. new.seq = old.seq + 1 /\ old.seq \in Nat
  BY <1>1, <1>2, <1>6 DEF Evolves
<1>10. ASSUME NEW s \in Known' PROVE Was(s)'
  <2>1. CASE s = new
    BY <1>2, <1>6, <2>1 DEF Was, Evolves
  <2>2. CASE s \in Known
    <3>1. Was(s)
      BY <2>2 DEF OneHistory
    <3>2. engine'[s.of].seq = engine[s.of].seq \/ engine'[s.of].seq = engine[s.of].seq + 1
      BY <3>1 DEF Was, Evolves
    <3>3. \A x, y, z \in Nat : x <= y /\ (z = y \/ z = y + 1) => x <= z
      OBVIOUS
    <3> QED
      BY <1>6, <1>7, <2>2, <3>1, <3>2, <3>3 DEF Was
  <2> QED
    BY <1>3, <2>1, <2>2
<1>11. ASSUME NEW s \in Known, NEW t \in Known, s.of = t.of, s.seq <= t.seq
       PROVE  Follows(s, t, paid')
  <2>1. Follows(s, t, paid)
    BY <1>11 DEF OneHistory
  <2>2. \A o \in s.open : o \in View!Options
    BY KnownStates DEF View!States
  <2> QED
    BY <2>1, <2>2 DEF Follows, Evolves
<1>12. ASSUME NEW s \in Known, s.of = a PROVE Follows(s, new, paid')
  <2>1. Follows(s, old, paid) /\ s.seq <= old.seq
    BY <1>1, <1>8, <1>12 DEF OneHistory
  <2>2. s.seq # new.seq /\ (new.seq = s.seq + 1 => s.seq = old.seq)
    BY <1>7, <1>9, <2>1
  <2>3. ASSUME NEW o \in s.open \ new.open
        PROVE  paid'[o] # -1 /\ (new.seq = s.seq + 1 => new.balance = s.balance + paid'[o])
    <3>1. CASE o \in old.open
      <4>1. paid'[o] # -1 /\ new.balance = old.balance + paid'[o]
        BY <1>1, <1>2, <2>3, <3>1 DEF Evolves
      <4>2. new.seq = s.seq + 1 => s.balance = old.balance
        BY <2>1, <2>2 DEF Follows
      <4> QED
        BY <4>1, <4>2
    <3>2. CASE o \notin old.open
      <4>1. paid[o] # -1 /\ o \in View!Options
        BY <2>1, <2>3, <3>2, KnownStates DEF Follows, View!States
      <4>2. new.seq # s.seq + 1
        BY <2>1, <2>2, <2>3, <3>2 DEF Follows
      <4> QED
        BY <4>1, <4>2 DEF Evolves
    <3> QED
      BY <3>1, <3>2
  <2> QED
    BY <1>1, <1>2, <2>2, <2>3 DEF Follows
<1>13. ASSUME NEW s \in Known', NEW t \in Known', s.of = t.of, s.seq <= t.seq
       PROVE  Follows(s, t, paid')
  <2>1. CASE s \in Known /\ t \in Known
    BY <1>11, <1>13, <2>1
  <2>2. CASE s \in Known /\ t = new
    BY <1>2, <1>12, <1>13, <2>2
  <2>3. CASE s = new /\ t = new
    BY <2>3 DEF Follows
  <2>4. CASE s = new /\ t \in Known
    <3>1. t.seq <= old.seq /\ t.seq \in Nat
      BY <1>2, <1>7, <1>8, <1>13, <2>4
    <3> QED
      BY <1>9, <1>13, <2>4, <3>1
  <2> QED
    BY <1>3, <2>1, <2>2, <2>3, <2>4
<1>14. ASSUME NEW s \in Known', NEW t \in Known', NEW u \in Known',
              s.of = t.of, t.of = u.of, s.seq <= t.seq, t.seq <= u.seq
       PROVE  Between(s, t, u)
  <2>1. CASE t = new
    <3>1. u = new
      <4>1. CASE u \in Known
        <5>1. u.seq <= old.seq /\ u.seq \in Nat
          BY <1>2, <1>7, <1>8, <1>14, <2>1, <4>1
        <5> QED
          BY <1>9, <1>14, <2>1, <5>1
      <4> QED
        BY <1>3, <4>1
    <3> QED
      BY <2>1, <3>1 DEF Between
  <2>2. CASE s = new
    <3>1. t = new
      <4>1. CASE t \in Known
        <5>1. t.seq <= old.seq /\ t.seq \in Nat
          BY <1>2, <1>7, <1>8, <1>14, <2>2, <4>1
        <5> QED
          BY <1>9, <1>14, <2>2, <5>1
      <4> QED
        BY <1>3, <4>1
    <3> QED
      BY <2>2, <3>1 DEF Between
  <2>3. CASE s \in Known /\ t \in Known /\ u \in Known
    BY <1>14, <2>3 DEF OneHistory
  <2>4. CASE s \in Known /\ t \in Known /\ u = new
    <3>1. s.of = a /\ t.of = a
      BY <1>2, <1>14, <2>4
    <3>2. t.seq <= old.seq
      BY <1>8, <2>4, <3>1
    <3>3. s.seq <= old.seq
      BY <1>8, <2>4, <3>1
    <3>4. Between(s, t, old) /\ Follows(s, old, paid)
      BY <1>1, <1>14, <2>4, <3>1, <3>2, <3>3 DEF OneHistory
    <3>5. ASSUME NEW o \in s.open \cap new.open PROVE o \in old.open
      BY <1>1, <1>2, <3>4, <3>5 DEF Follows, Evolves
    <3> QED
      BY <2>4, <3>4, <3>5 DEF Between
  <2> QED
    BY <1>3, <2>1, <2>2, <2>3, <2>4
<1> QED
  BY <1>10, <1>13, <1>14 DEF OneHistory, Between

-----------------------------------------------------------------------------

(* The records. *)

(* The engine's steps leave the page alone. *)
LEMMA EngineRecords ==
  ASSUME View!TypeOK, Calm => RecordsSound, NEW a \in Shown, Evolves(a),
         UNCHANGED <<current, View!display, fetch, socket>>
  PROVE  Calm' => RecordsSound'
<1> SUFFICES ASSUME Calm' PROVE RecordsSound'
  OBVIOUS
<1>1. RecordsSound
  BY DEF Calm, View!display
<1>2. ASSUME NEW b \in Shown, NEW o \in View!Options PROVE RecordSound(stored'[b][o], b, o, paid', events')
  BY <1>1 DEF RecordsSound, RecordSound, Evolves, View!display
<1>3. \A o : Final(o)' <=> Final(o)
  BY DEF Final, Pending, Newer, View!display
<1> QED
  BY <1>1, <1>2, <1>3 DEF RecordsSound, RecordSound, View!display

(* A request or a push takes its state from the engine: no option that has  *)
(* ended is open in it.                                                     *)
LEMMA CallRecords ==
  ASSUME View!TypeOK, EngineSound, Calm => RecordsSound,
         UNCHANGED <<paid, current, View!display>>,
         \A p \in Pending' : p \in Pending \/ (current \in Shown /\ p.open = engine[current].open)
  PROVE  Calm' => RecordsSound'
<1> SUFFICES ASSUME Calm' PROVE RecordsSound'
  OBVIOUS
<1>1. RecordsSound
  BY DEF Calm, View!display
<1>2. ASSUME NEW b \in Shown, NEW o \in View!Options PROVE RecordSound(stored'[b][o], b, o, paid', events')
  BY <1>1 DEF RecordsSound, RecordSound, View!display
<1>3. ASSUME current \in Shown, NEW o \in View!Options, historyRef[o].times > 0 PROVE Final(o)'
  <2>1. Final(o)
    BY <1>1, <1>3 DEF RecordsSound
  <2>2. paid[o] # -1
    BY <1>1, <1>3 DEF RecordsSound, RecordSound
  <2>3. o \notin engine[current].open
    BY <1>3, <2>2 DEF EngineSound
  <2> QED
    BY <2>1, <2>3 DEF Final, Newer, View!display
<1> QED
  BY <1>1, <1>2, <1>3 DEF RecordsSound, RecordSound, View!display

LEMMA PendingKnown ==
  ASSUME View!TypeOK, Addressed, NEW p \in Pending
  PROVE  p \in Known /\ p \in View!States /\ p.of = current /\ current \in Shown
<1>1. p = socket.data \/ (~ fetch.late /\ p = fetch.data)
  BY DEF Pending
<1>2. p # NoState
  BY DEF Pending
<1>3. p \in Known /\ p \in View!States
  BY <1>1, <1>2, KnownStates
<1>4. p.of = current
  BY <1>1, <1>2 DEF Addressed
<1> QED
  BY <1>3, <1>4 DEF View!States

(* What applyState makes of a state that was asked for by the account that  *)
(* is shown and is no older than what is shown: an option that is gone has  *)
(* ended, was not written down before, and its result is read off the       *)
(* balance unless something else happened.                                  *)
LEMMA GoneEnded ==
  ASSUME View!TypeOK, OneHistory, RecordsSound, NEW new \in Known, new.of = current,
         Newer(new), NEW o \in View!Gone(prevState, new)
  PROVE  /\ o \in View!Options /\ o \in Bought[current] /\ paid[o] # -1
         /\ historyRef[o].times = 0
         /\ new.seq = prevState.seq + 1 =>
               (View!Outcome(prevState, new) = "win" <=> paid[o] > 0)
         /\ new.seq >= prevState.seq + 1
<1>1. prevState # NoState /\ o \in prevState.open /\ o \notin new.open
  BY DEF View!Gone
<1>2. prevState \in Known /\ prevState.of = current /\ prevState.seq <= new.seq
  BY <1>1, KnownStates DEF RecordsSound, Newer, View!States
<1>3. Was(prevState) /\ Follows(prevState, new, paid)
  BY <1>2 DEF OneHistory
<1>4. current \in Shown /\ o \in Bought[current] /\ o \in View!Options
  BY <1>1, <1>2, <1>3, Own DEF Was
<1>5. paid[o] # -1 /\ (new.seq = prevState.seq + 1 => new.balance = prevState.balance + paid[o])
  BY <1>1, <1>3 DEF Follows
<1>6. historyRef[o].times = 0
  <2>1. ~ (historyRef[o].times > 0)
    BY <1>1, <1>4 DEF RecordsSound, Final
  <2>2. historyRef[o].times \in Nat
    BY <1>4 DEF View!TypeOK, View!Records
  <2> QED
    BY <2>1, <2>2
<1>7. /\ prevState.seq \in Nat /\ new.seq \in Nat /\ prevState.balance \in Nat /\ new.balance \in Nat
      /\ paid[o] \in Int
  <2>1. prevState \in View!States /\ new \in View!States
    BY <1>2, KnownStates
  <2>2. paid[o] \in Pots \cup {-1}
    BY <1>4 DEF View!TypeOK
  <2>3. paid[o] \in Int
    <3>1. \A x \in Nat : x \in Int
      OBVIOUS
    <3>2. -1 \in Int
      OBVIOUS
    <3> QED
      BY <2>2, <3>1, <3>2, Bounds
  <2> QED
    BY <2>1, <2>3 DEF View!States
<1>8. new.seq # prevState.seq
  BY <1>1, <1>3 DEF Follows
<1>9. new.seq >= prevState.seq + 1
  BY <1>2, <1>7, <1>8
<1>10. new.seq = prevState.seq + 1 => (View!Outcome(prevState, new) = "win" <=> paid[o] > 0)
  <2> SUFFICES ASSUME new.seq = prevState.seq + 1
               PROVE  View!Outcome(prevState, new) = "win" <=> paid[o] > 0
    OBVIOUS
  <2>1. new.balance = prevState.balance + paid[o]
    BY <1>5
  <2>2. new.balance > prevState.balance <=> paid[o] > 0
    BY <1>7, <2>1
  <2> QED
    BY <2>2 DEF View!Outcome
<1> QED
  BY <1>4, <1>5, <1>6, <1>9, <1>10

LEMMA Unchanging ==
  ASSUME NEW new, NEW key, NEW late, View!ApplyState(new, key, late), Calm'
  PROVE  /\ Calm /\ ~ late
         /\ (view # NoState /\ view.of = new.of) => ~ (view.seq > new.seq)
         /\ (View!Gone(prevState, new) # {} /\ "mixed" \notin events') => ~ (new.seq > prevState.seq + 1)
         /\ events \subseteq events'
<1>1. events' = events \cup View!Mishaps(new, late)
  BY DEF View!ApplyState
<1>2. Calm /\ events \subseteq events' /\ "late_reply" \notin events' /\ "reordered" \notin events'
  BY <1>1 DEF Calm
<1> QED
  BY <1>1, <1>2 DEF View!Mishaps

LEMMA RecordsApplied ==
  ASSUME View!TypeOK, OneHistory, Addressed, Calm => RecordsSound,
         NEW new, NEW key, NEW late \in BOOLEAN, View!ApplyState(new, key, late),
         ~ late => new \in Pending /\ key = current,
         UNCHANGED <<paid, current>>, Pending' \subseteq Pending
  PROVE  Calm' => RecordsSound'
<1> SUFFICES ASSUME Calm' PROVE RecordsSound'
  OBVIOUS
<1>1. RecordsSound /\ ~ late /\ events \subseteq events'
  BY Unchanging
<1>2. /\ new \in Pending /\ key = current
      /\ new \in Known /\ new \in View!States /\ new.of = current /\ current \in Shown
  BY <1>1, PendingKnown
<1>3. Newer(new)
  <2>1. CASE prevState = NoState
    BY <2>1 DEF Newer
  <2>2. CASE prevState # NoState
    <3>1. prevState.of = new.of /\ view = prevState
      BY <1>1, <1>2, <2>2 DEF RecordsSound, Addressed
    <3>2. ~ (prevState.seq > new.seq)
      BY <2>2, <3>1, Unchanging
    <3>3. prevState.seq \in Nat /\ new.seq \in Nat
      BY <1>2, <2>2, KnownStates DEF View!States
    <3> QED
      BY <3>2, <3>3 DEF Newer
  <2> QED
    BY <2>1, <2>2
<1> DEFINE gone    == View!Gone(prevState, new)
           outcome == View!Outcome(prevState, new)
           updated == View!Written(historyRef, gone, outcome)
<1>4. prevState' = new /\ view' = new
  BY DEF View!ApplyState
<1>5. /\ gone = {} => UNCHANGED <<historyRef, stored>>
      /\ gone # {} => /\ historyRef' = updated
                      /\ stored' = [a \in Shown |-> IF a = current THEN updated ELSE stored[a]]
  BY <1>2 DEF View!ApplyState
<1>6. \A o \in View!Options :
         updated[o] = IF o \in gone THEN [times |-> historyRef[o].times + 1, said |-> outcome] ELSE historyRef[o]
  BY DEF View!Written
<1>7. historyRef = stored[current]
  BY <1>1, <1>2 DEF RecordsSound
<1>8. ASSUME NEW o \in gone
      PROVE  /\ o \in View!Options /\ o \in Bought[current] /\ paid[o] # -1
             /\ historyRef[o].times = 0
             /\ "mixed" \notin events' => (outcome = "win" <=> paid[o] > 0)
  <2>1. /\ o \in View!Options /\ o \in Bought[current] /\ paid[o] # -1
        /\ historyRef[o].times = 0
        /\ new.seq = prevState.seq + 1 => (outcome = "win" <=> paid[o] > 0)
        /\ new.seq >= prevState.seq + 1
    BY <1>1, <1>2, <1>3, GoneEnded
  <2>2. "mixed" \notin events' => ~ (new.seq > prevState.seq + 1)
    BY Unchanging
  <2>3. prevState.seq \in Nat /\ new.seq \in Nat
    BY <1>2, KnownStates DEF View!States, View!Gone
  <2>4. "mixed" \notin events' => new.seq = prevState.seq + 1
    BY <2>1, <2>2, <2>3
  <2> QED
    BY <2>1, <2>4
<1>9. UNCHANGED <<paid, current>>
  OBVIOUS
<1> HIDE DEF gone, outcome, updated
<1>10. historyRef' = stored'[current]
  <2>1. CASE gone = {}
    BY <1>5, <1>7, <2>1
  <2>2. CASE gone # {}
    BY <1>2, <1>5, <2>2
  <2> QED
    BY <2>1, <2>2
<1>11. \A a \in Shown \ {current} : stored'[a] = stored[a]
  BY <1>5
<1>12. ASSUME NEW o \in View!Options
       PROVE  historyRef'[o] = IF o \in gone THEN [times |-> historyRef[o].times + 1, said |-> outcome]
                               ELSE historyRef[o]
  <2>1. CASE gone = {}
    BY <1>5, <2>1
  <2>2. CASE gone # {}
    BY <1>5, <1>6, <2>2
  <2> QED
    BY <2>1, <2>2
<1>13. ASSUME NEW o \in View!Options PROVE RecordSound(historyRef'[o], current, o, paid', events')
  <2>1. CASE o \in gone
    <3>1. historyRef'[o].times = 1 /\ historyRef'[o].said = outcome
      <4>1. historyRef'[o] = [times |-> historyRef[o].times + 1, said |-> outcome]
        BY <1>12, <2>1
      <4>2. historyRef[o].times + 1 = 1
        BY <1>8, <2>1
      <4> QED
        BY <4>1, <4>2
    <3> QED
      BY <1>8, <1>9, <2>1, <3>1 DEF RecordSound
  <2>2. CASE o \notin gone
    <3>1. RecordSound(historyRef[o], current, o, paid, events) /\ historyRef'[o] = historyRef[o]
      BY <1>1, <1>2, <1>7, <1>12, <2>2 DEF RecordsSound
    <3> QED
      BY <1>1, <1>9, <3>1 DEF RecordSound
  <2> QED
    BY <2>1, <2>2
<1>14. ASSUME NEW a \in Shown, NEW o \in View!Options PROVE RecordSound(stored'[a][o], a, o, paid', events')
  <2>1. CASE a = current
    BY <1>10, <1>13, <2>1
  <2>2. CASE a # current
    <3>1. RecordSound(stored[a][o], a, o, paid, events) /\ stored'[a][o] = stored[a][o]
      BY <1>1, <1>11, <2>2 DEF RecordsSound
    <3> QED
      BY <1>1, <1>9, <3>1 DEF RecordSound
  <2> QED
    BY <2>1, <2>2
<1>15. ASSUME NEW o \in View!Options, historyRef'[o].times > 0 PROVE Final(o)'
  <2>1. CASE o \in gone
    <3>1. prevState # NoState /\ o \in prevState.open /\ o \notin new.open
      BY <2>1 DEF gone, View!Gone
    <3>2. ASSUME NEW p \in Pending, p.seq >= new.seq PROVE o \notin p.open
      <4>1. p \in Known /\ p.of = current
        BY PendingKnown
      <4>2. prevState \in Known /\ prevState.of = current /\ prevState.seq <= new.seq
        BY <1>1, <1>2, <1>3, <3>1, KnownStates DEF RecordsSound, Newer, View!States
      <4>3. new.seq <= p.seq
        BY <1>2, <3>2, <4>1, KnownStates DEF View!States
      <4>4. Between(prevState, new, p)
        BY <1>2, <4>1, <4>2, <4>3 DEF OneHistory
      <4> QED
        BY <3>1, <4>4 DEF Between
    <3>3. new # NoState
      BY <1>2, Bounds
    <3> QED
      BY <1>4, <3>1, <3>2, <3>3 DEF Final, Newer
  <2>2. CASE o \notin gone
    <3>1. historyRef[o].times > 0
      BY <1>12, <1>15, <2>2
    <3>2. Final(o)
      BY <1>1, <1>2, <3>1 DEF RecordsSound
    <3>3. o \notin new.open
      BY <1>2, <1>3, <3>2 DEF Final
    <3>4. ASSUME NEW p \in Pending, p.seq >= new.seq PROVE o \notin p.open
      <4>1. Newer(p)
        <5>1. CASE prevState = NoState
          BY <5>1 DEF Newer
        <5>2. CASE prevState # NoState
          <6>1. prevState.seq \in Nat /\ new.seq \in Nat /\ p.seq \in Nat
            BY <1>2, <5>2, PendingKnown, KnownStates DEF View!States
          <6>2. new.seq >= prevState.seq
            BY <1>3, <5>2 DEF Newer
          <6> QED
            BY <3>4, <6>1, <6>2 DEF Newer
        <5> QED
          BY <5>1, <5>2
      <4> QED
        BY <3>2, <4>1 DEF Final
    <3>5. new # NoState
      BY <1>2, Bounds
    <3> QED
      BY <1>4, <3>3, <3>4, <3>5 DEF Final, Newer
  <2> QED
    BY <2>1, <2>2
<1> QED
  BY <1>2, <1>4, <1>9, <1>10, <1>14, <1>15 DEF RecordsSound

LEMMA ViewStarts == View!Init => ViewInvariant
<1> SUFFICES ASSUME View!Init PROVE ViewInvariant
  OBVIOUS
<1>1. View!TypeOK
  <2>1. \A a \in Shown : View!Cardinality(Bought[a]) \in Nat
    <3>1. \A S : View!Cardinality(S) = Cardinality(S)
      BY DEF View!Cardinality, Cardinality
    <3> QED
      BY <3>1, EventuallyGiven, FS_CardinalityType
  <2>2. View!Blank \in [View!Options -> View!Records]
    BY DEF View!Blank, View!Records
  <2>3. engine \in [Shown -> [balance: Nat, open: SUBSET View!Options, seq: Nat]]
    BY <2>1 DEF View!Init
  <2>4. stored \in [Shown -> [View!Options -> View!Records]]
    BY <2>2 DEF View!Init
  <2>5. paid \in [View!Options -> Pots \cup {-1}]
    BY DEF View!Init
  <2>6. fetch \in [of: View!Ids, data: View!States \cup {NoState}, busy: BOOLEAN, late: BOOLEAN]
    BY DEF View!Init, View!Idle, View!Asked, View!Ids
  <2>7. socket \in [of: View!Ids, up: BOOLEAN, data: View!States \cup {NoState}]
    BY DEF View!Init, View!Socket, View!Ids
  <2>8. budget \in [topups: Nat, switches: Nat, drops: Nat]
    BY DEF View!Init
  <2> QED
    BY <2>2, <2>3, <2>4, <2>5, <2>6, <2>7, <2>8 DEF View!Init, View!TypeOK, View!Ids
<1>2. EngineSound
  BY DEF View!Init, EngineSound
<1>3. Addressed
  BY DEF View!Init, Addressed, View!Socket, View!Idle, View!Asked
<1>4. OneHistory
  <2>1. Snapshots(prevState, fetch, socket) = {}
    BY DEF Snapshots, View!Init, View!Socket, View!Idle, View!Asked
  <2>2. \A s \in Known : \E a \in Shown : s = View!State(a)
    BY <2>1 DEF Known
  <2>3. \A a \in Shown : View!State(a).of = a /\ View!State(a).seq = 0 /\ View!State(a).open = {}
    BY DEF View!State, View!Init
  <2>4. \A s \in Known : s.of \in Shown /\ s = View!State(s.of) /\ s.seq = 0 /\ s.open = {}
    BY <2>2, <2>3
  <2>5. \A a \in Shown : engine[a].seq = 0
    BY DEF View!Init
  <2>6. ASSUME NEW s \in Known, NEW t \in Known, s.of = t.of PROVE Follows(s, t, paid)
    BY <2>4, <2>6 DEF Follows
  <2> QED
    BY <2>4, <2>5, <2>6 DEF OneHistory, Was, Between
<1>5. RecordsSound
  <2>1. \A a \in Shown, o \in View!Options : stored[a][o].times = 0
    BY DEF View!Init, View!Blank
  <2>2. \A a \in Shown, o \in View!Options : RecordSound(stored[a][o], a, o, paid, events)
    BY <2>1 DEF RecordSound
  <2> QED
    BY <2>2, Bounds DEF RecordsSound, View!Init
<1> QED
  BY <1>1, <1>2, <1>3, <1>4, <1>5 DEF ViewInvariant

(* A step that takes nothing from the engine adds nothing to what is known. *)
LEMMA QuietStep ==
  ASSUME View!TypeOK, EngineSound, OneHistory, UNCHANGED View!market,
         Snapshots(prevState, fetch, socket)' \subseteq Known
  PROVE  EngineSound' /\ OneHistory'
<1>1. \A a \in Shown : View!State(a)' = View!State(a)
  BY DEF View!State, View!market
<1>2. Known' \subseteq Known
  BY <1>1 DEF Known
<1> QED
  BY <1>2, HistoryKept DEF EngineSound, View!market

LEMMA ViewStep == ViewInvariant /\ [View!Next]_(View!viewVars) => ViewInvariant'
<1> SUFFICES ASSUME ViewInvariant, [View!Next]_(View!viewVars) PROVE ViewInvariant'
  OBVIOUS
<1>0. View!TypeOK /\ EngineSound /\ OneHistory /\ Addressed /\ (Calm => RecordsSound)
  BY DEF ViewInvariant
<1>f. /\ fetch \in [of: View!Ids, data: View!States \cup {NoState}, busy: BOOLEAN, late: BOOLEAN]
      /\ socket \in [of: View!Ids, up: BOOLEAN, data: View!States \cup {NoState}]
      /\ current \in Shown \cup {Guest}
  BY <1>0 DEF View!TypeOK, View!Ids
<1>1. ASSUME \/ \E o \in View!Options : View!PlaceBinary(o) \/ View!Settle(o)
             \/ \E a \in Shown : View!Topup(a)
      PROVE  ViewInvariant'
  <2>1. View!TypeOK'
    BY <1>0, <1>1, ViewTypedEngine
  <2>2. PICK c \in Shown : Evolves(c)
    BY <1>0, <1>1, EngineEvolves
  <2>3. UNCHANGED <<current, View!display, fetch, socket>>
    BY <1>0, <1>1, EngineEvolves
  <2>4. OneHistory'
    BY <1>0, <2>1, <2>2, <2>3, HistoryGrows DEF View!display
  <2>5. Addressed'
    BY <1>0, <2>3 DEF Addressed, View!display
  <2>6. Calm' => RecordsSound'
    BY <1>0, <2>2, <2>3, EngineRecords
  <2> QED
    BY <2>1, <2>2, <2>4, <2>5, <2>6 DEF ViewInvariant, Evolves
<1>2. CASE View!Refresh
  <2>1. fetch' = View!Asked(current) /\ current \in Shown
    BY <1>f, <1>2 DEF View!Refresh, View!Ask
  <2>2. fetch'.of = current /\ fetch'.data = NoState /\ fetch'.busy = TRUE /\ fetch'.late = FALSE
    BY <2>1 DEF View!Asked
  <2>3. UNCHANGED <<View!market, current, View!display, socket>>
    BY <1>2 DEF View!Refresh
  <2>4. View!TypeOK'
    BY <1>0, <1>2, ViewTypedCalls
  <2>5. Addressed'
    BY <1>0, <2>1, <2>2, <2>3 DEF Addressed, View!display
  <2>6. EngineSound' /\ OneHistory'
    BY <1>0, <2>2, <2>3, QuietStep DEF Snapshots, Known, View!display
  <2>7. Pending' \subseteq Pending
    BY <2>2, <2>3 DEF Pending
  <2>8. Calm' => RecordsSound'
    BY <1>0, <2>3, <2>7, CallRecords DEF View!market
  <2> QED
    BY <2>4, <2>5, <2>6, <2>8 DEF ViewInvariant
<1>3. CASE View!Serve
  <2>1. fetch.busy /\ fetch.of \in Shown /\ (~ fetch.late => fetch.of = current)
    BY <1>0, <1>3 DEF View!Serve, Addressed
  <2>2. /\ fetch'.of = fetch.of /\ fetch'.data = View!State(fetch.of)
        /\ fetch'.busy = fetch.busy /\ fetch'.late = fetch.late
    BY <1>f, <1>3 DEF View!Serve
  <2>3. UNCHANGED <<View!market, current, View!display, socket>>
    BY <1>3 DEF View!Serve
  <2>4. View!TypeOK'
    BY <1>0, <1>3, ViewTypedCalls
  <2>s. /\ View!State(fetch.of) \in Known /\ View!State(fetch.of).of = fetch.of
        /\ View!State(fetch.of).open = engine[fetch.of].open
    BY <1>0, <2>1, KnownStates DEF View!State
  <2>5. Addressed'
    BY <1>0, <2>1, <2>2, <2>3, <2>s DEF Addressed, View!display
  <2>6. EngineSound' /\ OneHistory'
    BY <1>0, <2>2, <2>3, <2>s, QuietStep DEF Snapshots, Known, View!display
  <2>7. \A p \in Pending' : p \in Pending \/ (current \in Shown /\ p.open = engine[current].open)
    BY <2>1, <2>2, <2>3, <2>s DEF Pending
  <2>8. Calm' => RecordsSound'
    BY <1>0, <2>3, <2>7, CallRecords DEF View!market
  <2> QED
    BY <2>4, <2>5, <2>6, <2>8 DEF ViewInvariant
<1>4. CASE View!ReplyArrives
  <2>1. /\ fetch.data # NoState /\ fetch.data \in View!States /\ fetch.late \in BOOLEAN
        /\ View!ApplyState(fetch.data, fetch.of, fetch.late)
        /\ UNCHANGED <<View!market, current, socket>>
    BY <1>f, <1>4 DEF View!ReplyArrives
  <2>2. fetch'.data = NoState /\ fetch'.busy = FALSE
    BY <1>4 DEF View!ReplyArrives, View!Idle, View!Asked
  <2>3. prevState' = fetch.data /\ view' = fetch.data
    BY <2>1 DEF View!ApplyState
  <2>4. View!TypeOK'
    BY <1>0, <1>4, ViewTypedCalls
  <2>5. Addressed'
    BY <1>0, <2>1, <2>2, <2>3 DEF Addressed
  <2>6. EngineSound' /\ OneHistory'
    BY <1>0, <2>1, <2>2, <2>3, QuietStep DEF Snapshots, Known
  <2>7. Pending' \subseteq Pending
    BY <2>1, <2>2 DEF Pending
  <2>8. ~ fetch.late => fetch.data \in Pending /\ fetch.of = current
    BY <1>0, <2>1 DEF Pending, Addressed
  <2>9. Calm' => RecordsSound'
    BY <1>0, <2>1, <2>7, <2>8, RecordsApplied DEF View!market
  <2> QED
    BY <2>4, <2>5, <2>6, <2>9 DEF ViewInvariant
<1>5. CASE View!ReplyFails
  <2>2. fetch'.data = NoState /\ fetch'.busy = FALSE
    BY <1>5 DEF View!ReplyFails, View!Idle, View!Asked
  <2>3. UNCHANGED <<View!market, current, View!display, socket>>
    BY <1>5 DEF View!ReplyFails
  <2>4. View!TypeOK'
    BY <1>0, <1>5, ViewTypedCalls
  <2>5. Addressed'
    BY <1>0, <2>2, <2>3 DEF Addressed, View!display
  <2>6. EngineSound' /\ OneHistory'
    BY <1>0, <2>2, <2>3, QuietStep DEF Snapshots, Known, View!display
  <2>7. Pending' \subseteq Pending
    BY <2>2, <2>3 DEF Pending
  <2>8. Calm' => RecordsSound'
    BY <1>0, <2>3, <2>7, CallRecords DEF View!market
  <2> QED
    BY <2>4, <2>5, <2>6, <2>8 DEF ViewInvariant
<1>6. CASE View!Push
  <2>1. socket.of = current /\ current \in Shown
    BY <1>0, <1>f, <1>6 DEF View!Push, Addressed
  <2>2. socket'.of = socket.of /\ socket'.data = View!State(current)
    BY <1>f, <1>6, <2>1 DEF View!Push
  <2>3. UNCHANGED <<View!market, current, View!display, fetch>>
    BY <1>6 DEF View!Push
  <2>4. View!TypeOK'
    BY <1>0, <1>6, ViewTypedSocket
  <2>s. /\ View!State(current) \in Known /\ View!State(current).of = current
        /\ View!State(current).open = engine[current].open
    BY <1>0, <2>1, KnownStates DEF View!State
  <2>5. Addressed'
    BY <1>0, <2>1, <2>2, <2>3, <2>s DEF Addressed, View!display
  <2>6. EngineSound' /\ OneHistory'
    BY <1>0, <2>2, <2>3, <2>s, QuietStep DEF Snapshots, Known, View!display
  <2>7. \A p \in Pending' : p \in Pending \/ (current \in Shown /\ p.open = engine[current].open)
    BY <2>1, <2>2, <2>3, <2>s DEF Pending
  <2>8. Calm' => RecordsSound'
    BY <1>0, <2>3, <2>7, CallRecords DEF View!market
  <2> QED
    BY <2>4, <2>5, <2>6, <2>8 DEF ViewInvariant
<1>7. CASE View!PushArrives
  <2>1. /\ socket.data # NoState /\ socket.data \in View!States
        /\ View!ApplyState(socket.data, current, FALSE)
        /\ UNCHANGED <<View!market, current, fetch>>
    BY <1>f, <1>7 DEF View!PushArrives
  <2>2. socket'.data = NoState /\ socket'.of = socket.of
    BY <1>f, <1>7 DEF View!PushArrives
  <2>3. prevState' = socket.data /\ view' = socket.data
    BY <2>1 DEF View!ApplyState
  <2>4. View!TypeOK'
    BY <1>0, <1>7, ViewTypedSocket
  <2>5. Addressed'
    BY <1>0, <2>1, <2>2, <2>3 DEF Addressed
  <2>6. EngineSound' /\ OneHistory'
    BY <1>0, <2>1, <2>2, <2>3, QuietStep DEF Snapshots, Known
  <2>7. Pending' \subseteq Pending
    BY <2>1, <2>2 DEF Pending
  <2>8. socket.data \in Pending
    BY <2>1 DEF Pending
  <2>9. Calm' => RecordsSound'
    BY <1>0, <2>1, <2>7, <2>8, RecordsApplied DEF View!market
  <2> QED
    BY <2>4, <2>5, <2>6, <2>9 DEF ViewInvariant
<1>8. CASE View!Drop \/ View!Reconnect
  <2>2. socket'.data = NoState /\ socket'.of = socket.of
    <3>1. CASE View!Drop
      BY <1>f, <3>1 DEF View!Drop
    <3>2. CASE View!Reconnect
      BY <3>2 DEF View!Reconnect, View!Socket
    <3> QED
      BY <1>8, <3>1, <3>2
  <2>3. UNCHANGED <<View!market, current, View!display, fetch>>
    BY <1>8 DEF View!Drop, View!Reconnect
  <2>4. View!TypeOK'
    BY <1>0, <1>8, ViewTypedSocket
  <2>5. Addressed'
    BY <1>0, <2>2, <2>3 DEF Addressed, View!display
  <2>6. EngineSound' /\ OneHistory'
    BY <1>0, <2>2, <2>3, QuietStep DEF Snapshots, Known, View!display
  <2>7. Pending' \subseteq Pending
    BY <2>2, <2>3 DEF Pending
  <2>8. Calm' => RecordsSound'
    BY <1>0, <2>3, <2>7, CallRecords DEF View!market
  <2> QED
    BY <2>4, <2>5, <2>6, <2>8 DEF ViewInvariant
<1>9. ASSUME NEW a \in View!Ids, View!Select(a) PROVE ViewInvariant'
  <2>1. /\ a # current /\ current' = a /\ view' = NoState /\ prevState' = NoState
        /\ a \in Shown => historyRef' = stored[a]
        /\ UNCHANGED <<View!market, stored, events>>
    BY <1>9, Bounds DEF View!Select, View!Reset
  <2>2. socket'.of = a /\ socket'.data = NoState
    BY <1>9 DEF View!Select, View!Socket
  <2>3. /\ fetch'.data \in {fetch.data, NoState}
        /\ fetch.busy => fetch'.busy /\ fetch'.late /\ fetch'.of = fetch.of /\ fetch'.data = fetch.data
        /\ ~ fetch.busy => fetch'.of = a /\ fetch'.data = NoState /\ (fetch'.busy => a \in Shown)
    <3>1. CASE fetch.busy
      BY <1>f, <1>9, <3>1 DEF View!Select, View!Ask
    <3>2. CASE ~ fetch.busy
      BY <1>9, <3>2 DEF View!Select, View!Ask, View!Idle, View!Asked, View!Ids
    <3> QED
      BY <3>1, <3>2
  <2>4. View!TypeOK'
    BY <1>0, <1>9, ViewTypedSelect DEF View!Ids
  <2>5. Addressed'
    BY <1>0, <1>f, <2>1, <2>2, <2>3 DEF Addressed
  <2>6. EngineSound' /\ OneHistory'
    BY <1>0, <2>1, <2>2, <2>3, QuietStep DEF Snapshots, Known
  <2>7. Pending' = {}
    BY <1>0, <2>2, <2>3 DEF Pending, Addressed
  <2>8. ASSUME Calm' PROVE RecordsSound'
    <3>1. RecordsSound
      BY <1>0, <2>1, <2>8 DEF Calm
    <3>2. \A b \in Shown, o \in View!Options : RecordSound(stored'[b][o], b, o, paid', events')
      BY <2>1, <3>1 DEF RecordsSound, View!market
    <3>3. \A o : Final(o)'
      BY <2>1, <2>7 DEF Final
    <3> QED
      BY <2>1, <3>2, <3>3 DEF RecordsSound
  <2> QED
    BY <2>4, <2>5, <2>6, <2>8 DEF ViewInvariant
<1>10. CASE UNCHANGED View!viewVars
  <2>1. UNCHANGED <<View!market, current, View!display, fetch, socket, budget>>
    BY <1>10 DEF View!viewVars, View!market, View!display
  <2>2. View!TypeOK'
    BY <1>0, <2>1 DEF View!TypeOK, View!market, View!display
  <2>3. Addressed'
    BY <1>0, <2>1 DEF Addressed, View!display
  <2>4. EngineSound' /\ OneHistory'
    BY <1>0, <2>1, QuietStep DEF Snapshots, Known, View!display
  <2>5. Pending' = Pending
    BY <2>1 DEF Pending
  <2>6. Calm' => RecordsSound'
    BY <1>0, <2>1, <2>5, CallRecords DEF View!market
  <2> QED
    BY <2>2, <2>3, <2>4, <2>6 DEF ViewInvariant
<1> QED
  BY <1>1, <1>2, <1>3, <1>4, <1>5, <1>6, <1>7, <1>8, <1>9, <1>10 DEF View!Next

LEMMA ViewInvariantHolds == EventuallySpec => []ViewInvariant
BY ViewStarts, ViewStep, ViewSteps, PTL DEF View!Spec

\* The history an account keeps in the browser has its own options only, each
\* once and with what came of it, although pushes and replies come over two
\* channels and accounts are switched while they are out; but for the mishaps
\* that HistorySound names (useAccount.ts, applyState).
THEOREM HistoryIsSound == EventuallySpec => []HistorySound
<1>1. ViewInvariant => HistorySound
  <2> SUFFICES ASSUME ViewInvariant, Calm, NEW a \in Shown, NEW o \in View!Options
               PROVE  /\ stored[a][o].times <= IF View!Owner(o) = a THEN 1 ELSE 0
                      /\ (stored[a][o].times > 0 /\ "mixed" \notin events) =>
                            paid[o] # -1 /\ (stored[a][o].said = "win" <=> paid[o] > 0)
    BY DEF HistorySound, View!HistorySound, Calm
  <2>1. RecordSound(stored[a][o], a, o, paid, events)
    BY DEF ViewInvariant, RecordsSound
  <2>2. o \in Bought[a] <=> View!Owner(o) = a
    BY Owned
  <2> QED
    BY <2>1, <2>2 DEF RecordSound
<1> QED
  BY <1>1, ViewInvariantHolds, PTL

-----------------------------------------------------------------------------

(* Payouts and transfers.  WithdrawalsProofs and TransfersProofs prove of   *)
(* each module what it promises on its own; their instances have the same   *)
(* definitions as Payout and Transfer, so what they prove holds here.       *)
Alone == INSTANCE WithdrawalsProofs WITH
    Users <- Owners, Amounts <- PayoutAmounts, Admins <- Sessions, MaxMoves <- PayoutMoves,
    Faults <- PayoutFaults, request <- wRequest, hooks <- wHooks, paid <- wPaid

Apart == INSTANCE TransfersProofs WITH
    Requests <- TransferRequests, Scale <- Units, Initial <- Funds, Faults <- TransferFaults,
    request <- tRequest, row <- tRow, told <- tTold

LEMMA SamePayouts == Payout!Spec => Alone!Spec
<1>1. Payout!Init => Alone!Init
  BY Zenon DEF Alone!Init, Payout!Init, Alone!Channels, Payout!Channels, Alone!Done, Payout!Done,
     Alone!Idle, Payout!Idle, Alone!Payers, Payout!Payers
<1>2. UNCHANGED Payout!vars => UNCHANGED Alone!vars
  BY Zenon DEF Alone!vars, Payout!vars
<1>3. Payout!Next => Alone!Next
  BY Zenon DEF Alone!Next, Payout!Next, Alone!Customer, Payout!Customer, Alone!Withdraw,
      Payout!Withdraw,
     Alone!HasFunds, Payout!HasFunds, Alone!DebitSavings, Payout!DebitSavings, Alone!SetStatus,
     Payout!SetStatus, Alone!world, Payout!world, Alone!WithdrawNGN, Payout!WithdrawNGN,
     Alone!Payers, Payout!Payers, Alone!Payout, Payout!Payout, Alone!PayoutAccepted,
     Payout!PayoutAccepted, Alone!rows, Payout!rows, Alone!PayoutRefused, Payout!PayoutRefused,
     Alone!FailOver, Payout!FailOver, Alone!Done, Payout!Done, Alone!PayoutReplyLost,
     Payout!PayoutReplyLost, Alone!PayoutMark, Payout!PayoutMark, Alone!AbortPayout,
     Payout!AbortPayout, Alone!Webhook, Payout!Webhook, Alone!SettleSent, Payout!SettleSent,
     Alone!Deliver, Payout!Deliver, Alone!Settleable, Payout!Settleable, Alone!SettleFailed,
     Payout!SettleFailed, Alone!CreditSavings, Payout!CreditSavings, Alone!Provider,
     Payout!Provider, Alone!BankPays, Payout!BankPays, Alone!MaySettle, Payout!MaySettle,
     Alone!Notify, Payout!Notify, Alone!BankFails, Payout!BankFails, Alone!BankReverses,
     Payout!BankReverses, Alone!Approve, Payout!Approve, Alone!ApproveLock, Payout!ApproveLock,
     Alone!At, Payout!At, Alone!LockWon, Payout!LockWon, Alone!Go, Payout!Go, Alone!Finish,
     Payout!Finish, Alone!Idle, Payout!Idle, Alone!SendOk, Payout!SendOk, Alone!Broadcast,
     Payout!Broadcast, Alone!SendRefused, Payout!SendRefused, Alone!SendLost, Payout!SendLost,
     Alone!SendGarbled, Payout!SendGarbled, Alone!ApproveRollback, Payout!ApproveRollback,
     Alone!ApproveMark, Payout!ApproveMark, Alone!RejectRefund, Payout!RejectRefund,
     Alone!AbortAdmin, Payout!AbortAdmin, Alone!ApproveRead, Payout!ApproveRead, Alone!Working,
     Payout!Working, Alone!RejectRead, Payout!RejectRead
<1>4. [Payout!Next]_(Payout!vars) => [Alone!Next]_(Alone!vars)
  BY <1>2, <1>3
<1> QED
  BY <1>1, <1>4, PTL DEF Payout!Spec, Alone!Spec

LEMMA PayoutTypes == EventuallySpec => []Payout!TypeOK
<1>1. Alone!WithdrawalsAssumption
  <2>1. \A S : IsFiniteSet(S) => Alone!IsFiniteSet(S)
    BY DEF IsFiniteSet, Alone!IsFiniteSet
  <2> QED
    BY <2>1, EventuallyGiven DEF Alone!WithdrawalsAssumption, Alone!AllFaults, Payout!AllFaults
<1>2. Alone!TypeOK => Payout!TypeOK
  BY Zenon DEF Alone!TypeOK, Payout!TypeOK, Alone!Channels, Payout!Channels, Alone!Statuses,
     Payout!Statuses, Alone!HandlerPcs, Payout!HandlerPcs, Alone!AdminPcs, Payout!AdminPcs,
     Alone!Payers, Payout!Payers, Alone!BankStates, Payout!BankStates, Alone!Outcomes,
     Payout!Outcomes
<1> QED
  BY <1>1, <1>2, PayoutSteps, SamePayouts, Alone!TypeCorrect, PTL

LEMMA SameTransfers == Transfer!Spec => Apart!Spec
<1>1. Transfer!Init => Apart!Init
  BY Zenon DEF Apart!Init, Transfer!Init
<1>2. UNCHANGED Transfer!vars => UNCHANGED Apart!vars
  BY Zenon DEF Apart!vars, Transfer!vars
<1>3. ASSUME NEW t PROVE Transfer!Start(t) => Apart!Start(t)
  <2>1. Transfer!Open = Apart!Open
    BY DEF Transfer!Open, Apart!Open, Transfer!Final, Apart!Final
  <2>2. \A S : Transfer!Cardinality(S) = Apart!Cardinality(S)
    BY DEF Transfer!Cardinality, Apart!Cardinality
  <2> QED
    BY <2>1, <2>2
       DEF Apart!Start, Transfer!Start, Apart!KeyFree, Transfer!KeyFree, Apart!Goto,
           Transfer!Goto, Apart!Happens, Transfer!Happens, Apart!books, Transfer!books,
           Apart!table, Transfer!table, Apart!trade, Transfer!trade, Apart!Kinds,
           Transfer!Kinds, Apart!From, Transfer!From, Apart!To, Transfer!To
<1>4. ASSUME NEW t PROVE Transfer!Step(t) => Apart!Step(t)
  BY <1>3, Zenon
     DEF Apart!Step, Transfer!Step, Apart!Replay, Transfer!Replay, Apart!KeyFree,
         Transfer!KeyFree, Apart!Goto, Transfer!Goto, Apart!Smooth, Transfer!Smooth, Apart!books,
         Transfer!books, Apart!table, Transfer!table, Apart!Open, Transfer!Open, Apart!Final,
         Transfer!Final, Apart!Happens, Transfer!Happens, Apart!SavingsDebit,
         Transfer!SavingsDebit, Apart!Into, Transfer!Into, Apart!From, Transfer!From,
         Apart!Amount, Transfer!Amount, Apart!Take, Transfer!Take, Apart!SetRow, Transfer!SetRow,
         Apart!Fault, Transfer!Fault, Apart!SavingsRefused, Transfer!SavingsRefused,
         Apart!FailTransfer, Transfer!FailTransfer, Apart!RefundSavings, Transfer!RefundSavings,
         Apart!GiveBack, Transfer!GiveBack, Apart!FaultSticks, Transfer!FaultSticks,
         Apart!MirrorLeg, Transfer!MirrorLeg, Apart!To, Transfer!To, Apart!MarkCompleted,
         Transfer!MarkCompleted, Apart!EngineDebit, Transfer!EngineDebit, Apart!DebitAllowed,
         Transfer!DebitAllowed, Apart!FreeMargin, Transfer!FreeMargin, Apart!Out, Transfer!Out,
         Apart!EngineRefuses, Transfer!EngineRefuses, Apart!EngineCredit, Transfer!EngineCredit,
         Apart!Give, Transfer!Give, Apart!Converted, Transfer!Converted, Apart!CreditFailed,
         Transfer!CreditFailed, Apart!EngineCreditDown, Transfer!EngineCreditDown, Apart!Commit,
         Transfer!Commit, Apart!MirrorAllowed, Transfer!MirrorAllowed, Apart!WriteMirrors,
         Transfer!WriteMirrors, Apart!CommitFailed, Transfer!CommitFailed, Apart!CommitRefused,
         Transfer!CommitRefused, Apart!UndoFrom, Transfer!UndoFrom, Apart!UndoTo,
         Transfer!UndoTo, Apart!Reclaim, Transfer!Reclaim, Apart!asked, Transfer!asked,
         Apart!trade, Transfer!trade, Apart!ScaleOf, Transfer!ScaleOf, Apart!Answered,
         Transfer!Answered, Apart!Written, Transfer!Written
<1>5. Transfer!Next => Apart!Next
  BY <1>4, Zenon DEF Apart!Next, Transfer!Next, Apart!Abort, Transfer!Abort, Apart!Trade,
      Transfer!Trade,
     Apart!Open, Transfer!Open, Apart!Final, Transfer!Final, Apart!Goto, Transfer!Goto,
     Apart!Fault, Transfer!Fault, Apart!Happens, Transfer!Happens, Apart!books, Transfer!books,
     Apart!table, Transfer!table, Apart!asked, Transfer!asked, Apart!trade, Transfer!trade
<1>6. [Transfer!Next]_(Transfer!vars) => [Apart!Next]_(Apart!vars)
  BY <1>2, <1>5
<1> QED
  BY <1>1, <1>6, PTL DEF Transfer!Spec, Apart!Spec

LEMMA TransferTypes == EventuallySpec => []Transfer!TypeOK
<1>1. Apart!TransfersAssumption
  BY EventuallyGiven DEF Apart!TransfersAssumption, Apart!AllFaults, Transfer!AllFaults,
      Apart!Legs, Transfer!Legs
<1>2. Apart!TypeOK => Transfer!TypeOK
  BY Zenon DEF Apart!TypeOK, Transfer!TypeOK, Apart!Pcs, Transfer!Pcs, Apart!Final, Transfer!Final,
     Apart!Legs, Transfer!Legs, Apart!Statuses, Transfer!Statuses, Apart!Moves, Transfer!Moves,
     Apart!AllEvents, Transfer!AllEvents, Apart!AllFaults, Transfer!AllFaults
<1> QED
  BY <1>1, <1>2, TransferSteps, SameTransfers, Apart!TypeCorrect, PTL

\* Whatever runs, its variables keep their types: no wallet is overdrawn, no
\* row, request or state is one the handlers do not know.
THEOREM EventuallyTypes == EventuallySpec => []TypesOK
<1>1. ViewInvariant => View!TypeOK
  BY DEF ViewInvariant
<1>2. TypeOK /\ Deposit!TypeOK /\ View!TypeOK /\ Payout!TypeOK /\ Transfer!TypeOK => TypesOK
  BY DEF TypesOK
<1> QED
  BY <1>1, <1>2, StakingSteps, TypeCorrect, ChargesTyped, ViewInvariantHolds, PayoutTypes,
     TransferTypes, PTL
=============================================================================
