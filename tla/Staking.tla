------------------------------ MODULE Staking ------------------------------
(***************************************************************************)
(* The staking service (src/staking): a customer picks an algorithm, pays  *)
(* through Paystack, and Paystack's webhooks turn the stake ACTIVE or      *)
(* FAILED.  The service is one Node process over SQLite: what runs between *)
(* two awaits is one action, and handlers interleave at their awaits.  A   *)
(* webhook is answered 200 before it is looked at, so Paystack never sends *)
(* again what was lost after that.                                         *)
(*                                                                         *)
(* A stake, its payment and its charge at Paystack share one reference.    *)
(***************************************************************************)
EXTENDS Naturals, FiniteSets

CONSTANTS
    Refs,          \* references; each request that succeeds takes a new one
    Visitors,      \* claims of the tokens: records [id, email]
    Algorithms,    \* rows of the catalogue: [status, min, max], max = 0 is none
    Amounts,       \* amounts a visitor may ask to stake
    MaxHooks,      \* bound: deliveries of one webhook event
    StakeFaults    \* what may go wrong, a subset of AllStakeFaults

ASSUME HooksBounded == MaxHooks \in Nat

AllStakeFaults ==
    { "crash",       \* the process dies, between any two statements
      "paystack",    \* a call to Paystack fails or answers something else
      "declined" }   \* the customer's bank declines an attempt

VARIABLES
    users,       \* staking_users: the email of each id, None without a row
    stakes,      \* stakes.status and whether exness_account is set
    payments,    \* payments.status, "absent" without a row
    mails,       \* messages of each kind handed to the SMTP relay
    asking,      \* requests that wait for Paystack to open their charge
    verifying,   \* webhook handlers that wait for Paystack's verification
    page,        \* what the browser shows for the reference
    charge,      \* the charge at Paystack
    hooks,       \* webhook deliveries on their way
    mishaps      \* which mishap befell which reference

stakingVars == <<users, stakes, payments, mails, asking, verifying, page, charge, hooks, mishaps>>
rows  == <<stakes, payments>>

None     == "none"
Statuses == {"absent", "PENDING_PAYMENT", "ACTIVE", "FAILED"}
Kinds    == {"success", "failed"}
Letters  == {"admin", "activated", "failed"}
Mishaps  == {"cut", "event_lost", "declined"}
Identities == {v.id : v \in Visitors}

Init ==
    /\ users = [i \in Identities |-> None]
    /\ stakes = [r \in Refs |-> [status |-> "absent", exness |-> FALSE]]
    /\ payments = [r \in Refs |-> "absent"]
    /\ mails = [r \in Refs |-> [l \in Letters |-> 0]]
    /\ asking = {}
    /\ verifying = [r \in Refs |-> 0]
    /\ page = [r \in Refs |-> None]
    /\ charge = [r \in Refs |-> None]
    /\ hooks = [e \in Refs \X Kinds |-> 0]
    /\ mishaps = {}

-----------------------------------------------------------------------------
(* Statements of db.js: each is a transaction of its own. *)

\* staking_users.email is UNIQUE: the row of another id with the email makes
\* the upsert throw, and the handler answer 500.
EmailFree(v) == \A i \in Identities \ {v.id} : users[i] # v.email
UpsertUser(v) == EmailFree(v) /\ users' = [users EXCEPT ![v.id] = v.email]

CreateStake(r)   == stakes' = [stakes EXCEPT ![r] = [status |-> "PENDING_PAYMENT", exness |-> FALSE]]
CreatePayment(r) == payments' = [payments EXCEPT ![r] = "PENDING"]
ActivateStake(r) == stakes' = [stakes EXCEPT ![r].status = "ACTIVE"]
FailStake(r)     == stakes' = [stakes EXCEPT ![r].status = "FAILED"]

\* A slip: a closed payment is not written again.
UpdateOpenPayment(r, s) ==
    payments' = [payments EXCEPT ![r] = IF @ = "PENDING" THEN s ELSE @]
\* An UPDATE: without a row it changes nothing.
UpdatePayment(r, s) ==
    payments' = [payments EXCEPT ![r] = IF @ = "absent" THEN @ ELSE s]

GetStake(r) == stakes[r].status

\* notifyAdminNewStake and notifyUserStakeActivated: not awaited, and what
\* becomes of them is only logged.
NotifyActivated(r) == mails' = [mails EXCEPT ![r].admin = @ + 1, ![r].activated = @ + 1]
NotifyFailed(r)    == mails' = [mails EXCEPT ![r].failed = @ + 1]

Befalls(m, S) == mishaps' = mishaps \cup ({m} \X S)

-----------------------------------------------------------------------------
(* Requests of the customer and of the administrator. *)

\* GET /my-stakes: the row is written even if the visitor never staked.
MyStakes(v) ==
    /\ UpsertUser(v)
    /\ UNCHANGED <<rows, mails, asking, verifying, page, charge, hooks, mishaps>>

\* The early returns of POST /init.
Accepted(a, n) ==
    /\ a.status = "ACTIVE"
    /\ n >= a.min
    /\ a.max # 0 => n <= a.max

\* POST /init up to its await.
StakeInit(v, r) ==
    /\ \E a \in Algorithms, n \in Amounts : Accepted(a, n)
    /\ stakes[r].status = "absent" /\ charge[r] = None /\ r \notin asking    \* uuidv4()
    /\ UpsertUser(v)
    /\ asking' = asking \cup {r}
    /\ UNCHANGED <<rows, mails, verifying, page, charge, hooks, mishaps>>

\* Paystack opens the charge (it answers in InitDone).
InitializeTransaction(r) ==
    /\ r \in asking /\ charge[r] = None
    /\ charge' = [charge EXCEPT ![r] = "open"]
    /\ UNCHANGED <<users, rows, mails, asking, verifying, page, hooks, mishaps>>

\* The rest of POST /init: two statements, then the address of the charge.
InitDone(r) ==
    /\ r \in asking /\ charge[r] = "open"
    /\ CreateStake(r) /\ CreatePayment(r)
    /\ page' = [page EXCEPT ![r] = "checkout"]
    /\ asking' = asking \ {r}
    /\ UNCHANGED <<users, mails, verifying, charge, hooks, mishaps>>

\* Its catch: whether or not Paystack opened the charge, nothing is stored.
InitFailed(r) ==
    /\ "paystack" \in StakeFaults /\ r \in asking
    /\ asking' = asking \ {r}
    /\ page' = [page EXCEPT ![r] = "error"]
    /\ UNCHANGED <<users, rows, mails, verifying, charge, hooks, mishaps>>

\* GET /callback, where Paystack sends the customer back: it verifies for the
\* page to show, and writes nothing.
Callback(r) ==
    /\ page[r] \in {"checkout", "failed"}
    /\ \/ /\ charge[r] = "success"
          /\ page' = [page EXCEPT ![r] = "success"]
       \/ /\ charge[r] = "success" => "paystack" \in StakeFaults
          /\ page' = [page EXCEPT ![r] = "failed"]
    /\ UNCHANGED <<users, rows, mails, asking, verifying, charge, hooks, mishaps>>

\* POST /admin/set-exness: whatever the status of the stake.
SetExness(r) ==
    /\ stakes[r].status # "absent"
    /\ stakes' = [stakes EXCEPT ![r].exness = TRUE]
    /\ UNCHANGED <<users, payments, mails, asking, verifying, page, charge, hooks, mishaps>>

-----------------------------------------------------------------------------
(* Paystack. *)

Sends(r, kind) == \E n \in 1 .. MaxHooks : hooks' = [hooks EXCEPT ![<<r, kind>>] = n]

\* The customer pays, on a page that is still open in the browser.
Pay(r) ==
    /\ page[r] \in {"checkout", "failed"} /\ charge[r] = "open"
    /\ charge' = [charge EXCEPT ![r] = "success"]
    /\ Sends(r, "success")
    /\ UNCHANGED <<users, rows, mails, asking, verifying, page, mishaps>>

\* An attempt is declined; the customer may try again on the same reference.
Decline(r) ==
    /\ "declined" \in StakeFaults /\ <<"declined", r>> \notin mishaps
    /\ page[r] \in {"checkout", "failed"} /\ charge[r] = "open"
    /\ Sends(r, "failed")
    /\ Befalls("declined", {r})
    /\ UNCHANGED <<users, rows, mails, asking, verifying, page, charge>>

-----------------------------------------------------------------------------
(* POST /webhook, in any order of the events. *)

Arrives(r, kind) ==
    /\ hooks[<<r, kind>>] > 0
    /\ hooks' = [hooks EXCEPT ![<<r, kind>>] = @ - 1]

\* charge.success up to its await.
SuccessArrives(r) ==
    /\ Arrives(r, "success")
    /\ verifying' = [verifying EXCEPT ![r] = @ + 1]
    /\ UNCHANGED <<users, rows, mails, asking, page, charge, mishaps>>

\* A slip: the handler goes on whether or not one waits.
VerifiedAnyway(r) == charge[r] = "success"
Verified(r) == verifying[r] > 0 /\ charge[r] = "success"
Return(r)   == verifying' = [verifying EXCEPT ![r] = @ - 1]

\* Slips: the status is not looked at again after the await; it is compared
\* with a payment's status.
AwaitedBefore(r) == GetStake(r) # "absent"
AwaitedMisread(r) == GetStake(r) = "PENDING"
\* Only a stake that waits for its payment is activated.
Awaited(r) == GetStake(r) = "PENDING_PAYMENT"

\* The rest of charge.success, for a charge that was verified.
Activate(r) ==
    /\ Verified(r) /\ Awaited(r) /\ Return(r)
    /\ ActivateStake(r) /\ UpdatePayment(r, "SUCCESS")
    /\ NotifyActivated(r)
    /\ UNCHANGED <<users, asking, page, charge, hooks, mishaps>>

\* "Already processed", or no such stake.
Ignore(r) ==
    /\ Verified(r) /\ ~ Awaited(r) /\ Return(r)
    /\ UNCHANGED <<users, rows, mails, asking, page, charge, hooks, mishaps>>

\* The verification throws or does not say success: the event is dropped.
VerifyFails(r) ==
    /\ "paystack" \in StakeFaults /\ verifying[r] > 0 /\ Return(r)
    /\ Befalls("event_lost", {r})
    /\ UNCHANGED <<users, rows, mails, asking, page, charge, hooks>>

\* charge.failed: no verification, and no look at the stake's status.
FailedArrives(r) ==
    /\ Arrives(r, "failed")
    /\ IF GetStake(r) = "absent" THEN UNCHANGED <<rows, mails>>
       ELSE FailStake(r) /\ UpdatePayment(r, "FAILED") /\ NotifyFailed(r)
    /\ UNCHANGED <<users, asking, verifying, page, charge, mishaps>>

-----------------------------------------------------------------------------
(* Crashes, and the shutdown on SIGTERM: server.close waits for open        *)
(* connections only, and those of the waiting webhooks were answered.       *)

\* Handlers are forgotten; those of `cut' had done the first of their two
\* statements.
Stops(cut) ==
    /\ "crash" \in StakeFaults
    /\ asking' = {}
    /\ verifying' = [r \in Refs |-> 0]
    /\ mishaps' = mishaps \cup ({"cut"} \X cut)
           \cup ({"event_lost"} \X ({r \in Refs : verifying[r] > 0} \ cut))
    /\ UNCHANGED <<users, payments, mails, page, charge>>

Restart == Stops({}) /\ UNCHANGED <<stakes, hooks>>

CrashInInit(r) ==
    /\ r \in asking /\ charge[r] = "open"
    /\ Stops({r}) /\ CreateStake(r) /\ UNCHANGED hooks

CrashInActivate(r) ==
    /\ Verified(r) /\ Awaited(r)
    /\ Stops({r}) /\ ActivateStake(r) /\ UNCHANGED hooks

CrashInFailure(r) ==
    /\ Arrives(r, "failed") /\ GetStake(r) # "absent"
    /\ Stops({r}) /\ FailStake(r)

-----------------------------------------------------------------------------

\* Paystack delivers and answers; the event loop runs what is ready.
Answered(r) == Activate(r) \/ Ignore(r) \/ VerifyFails(r)

Next ==
    \/ \E v \in Visitors : MyStakes(v)
    \/ \E v \in Visitors, r \in Refs : StakeInit(v, r)
    \/ \E r \in Refs :
        \/ InitializeTransaction(r) \/ InitDone(r) \/ InitFailed(r)
        \/ Callback(r) \/ SetExness(r)
        \/ Pay(r) \/ Decline(r)
        \/ SuccessArrives(r) \/ FailedArrives(r) \/ Answered(r)
        \/ CrashInInit(r) \/ CrashInActivate(r) \/ CrashInFailure(r)
    \/ Restart

Spec == Init /\ [][Next]_stakingVars
StakingFairness ==
    \A r \in Refs :
        /\ WF_stakingVars(SuccessArrives(r))
        /\ WF_stakingVars(Answered(r))
FairSpec == Spec /\ StakingFairness

-----------------------------------------------------------------------------
(* Properties. *)

TypeOK ==
    /\ users \in [Identities -> {v.email : v \in Visitors} \cup {None}]
    /\ stakes \in [Refs -> [status: Statuses, exness: BOOLEAN]]
    /\ payments \in [Refs -> {"absent", "PENDING", "SUCCESS", "FAILED"}]
    /\ mails \in [Refs -> [Letters -> Nat]]
    /\ asking \subseteq Refs
    /\ verifying \in [Refs -> Nat]
    /\ page \in [Refs -> {None, "checkout", "error", "success", "failed"}]
    /\ charge \in [Refs -> {None, "open", "success"}]
    /\ hooks \in [Refs \X Kinds -> Nat]
    /\ mishaps \subseteq Mishaps \X Refs

Agreed == {<<"absent", "absent">>, <<"PENDING_PAYMENT", "PENDING">>,
           <<"ACTIVE", "SUCCESS">>, <<"FAILED", "FAILED">>}

\* The two rows of a reference tell the same story, in any order of the
\* events and whatever became of their handlers, unless the process died
\* between the two statements of a handler (routes.js: /init, /webhook).
RowsAgree ==
    \A r \in Refs :
        <<"cut", r>> \in mishaps \/ <<stakes[r].status, payments[r]>> \in Agreed

\* The administrator, who opens an Exness account for each of these mails, is
\* told once of a stake, however often Paystack repeats the event and
\* however the handlers' verifications overlap; and only of a paid one.
AnnouncedOnce ==
    \A r \in Refs :
        /\ mails[r].admin <= 1
        /\ mails[r].admin = 1 => charge[r] = "success"

\* A charge that was paid makes its stake ACTIVE, although Paystack is told
\* 200 at once, unless the event was lost behind that answer or an attempt on
\* the reference had been declined (POST /webhook).
PaidActivates ==
    \A r \in Refs :
        charge[r] = "success" ~>
            \/ stakes[r].status = "ACTIVE"
            \/ <<"event_lost", r>> \in mishaps
            \/ <<"declined", r>> \in mishaps
=============================================================================
