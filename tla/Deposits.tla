------------------------------ MODULE Deposits ------------------------------
(***************************************************************************)
(* A Paystack deposit, from the card tab of DepositModal to the ledger     *)
(* (payments/paystack.go): POST initiate checks the KYC cap, opens a       *)
(* charge and stores a pending row; the charge is paid on Paystack's page; *)
(* then the webhook and the page's verify call race to credit it, both     *)
(* through creditPaystack, whose first statement claims the row and whose  *)
(* transaction credits it.  Handlers interleave at their database and      *)
(* Paystack calls.                                                         *)
(***************************************************************************)
EXTENDS Integers, FiniteSetsExt

CONSTANTS
    Refs,         \* references of one customer, a new one for each initiate
    Worth,        \* the dollars of each
    Cap,          \* what the customer's tier may deposit in all
    None,         \* nothing
    MaxHooks,     \* bound: deliveries of one webhook
    DepositFaults \* what may go wrong, a subset of AllDepositFaults

AllDepositFaults ==
    { "row_lost",   \* the INSERT of the pending row fails, which is ignored
      "paystack",   \* a call to Paystack fails
      "claim",      \* the UPDATE that claims the row fails, which is taken
                    \* for a row that was claimed before
      "cut",        \* a handler ends between claiming and crediting: the
                    \* process dies, the database or the request is cancelled
      "left" }      \* the customer closes the page

VARIABLES
    rate,         \* DepositModal: ngnRate is known
    psLoading,    \* DepositModal: the button waits
    initiating,   \* POST initiate, past the check of the cap
    checkouts,    \* checkout pages the browser was sent to
    transaction,  \* the charge at Paystack
    row,          \* paystack_payments.status
    deliveries,   \* webhooks on their way
    returned,     \* references the browser came back with, not yet verified
    asked,        \* POST verify, waiting for Paystack
    crediting,    \* handlers that claimed a row: [ref, via]
    told,         \* what the page was told of each reference
    credited,     \* deposit rows of the ledger for each reference
    mishap        \* what befell which reference

sheet == <<rate, psLoading>>
depositVars == <<sheet, initiating, checkouts, transaction, row, deliveries, returned, asked,
                 crediting, told, credited, mishap>>

Init ==
    /\ rate = FALSE /\ psLoading = FALSE
    /\ initiating = {} /\ checkouts = {} /\ returned = {} /\ asked = {} /\ crediting = {}
    /\ transaction = [r \in Refs |-> None]
    /\ row = [r \in Refs |-> "absent"]
    /\ deliveries = [r \in Refs |-> 0]
    /\ told = [r \in Refs |-> None]
    /\ credited = [r \in Refs |-> 0]
    /\ mishap = {}

Mishaps == {"row_lost", "cut", "unheard", "unclaimed"}
Befalls(what, r) == mishap' = mishap \cup {<<what, r>>}

-----------------------------------------------------------------------------
(* DepositModal, the card tab; POST /payments/paystack/initiate. *)

\* GET /payments/rates, when the tab is shown; silent if it fails.
LoadRate ==
    /\ ~ rate /\ rate' = TRUE
    /\ UNCHANGED <<psLoading, initiating, checkouts, transaction, row, deliveries, returned, asked,
                   crediting, told, credited, mishap>>

\* checkDepositCap: confirmed deposits only.
WithinCap(r) == MapThenSumSet(LAMBDA s : credited[s] * Worth[s], Refs) + Worth[r] <= Cap

\* The button of the tab: amounts are typed in naira, so it needs the rate.
CardOffered == rate /\ ~ psLoading

\* handlePaystack; a deposit over the cap is refused.
Initiate(r) ==
    /\ CardOffered
    /\ r \notin initiating /\ transaction[r] = None /\ told[r] = None
    /\ IF WithinCap(r)
       THEN psLoading' = TRUE /\ initiating' = initiating \cup {r} /\ UNCHANGED told
       ELSE told' = [told EXCEPT ![r] = "refused"] /\ UNCHANGED <<psLoading, initiating>>
    /\ UNCHANGED <<rate, checkouts, transaction, row, deliveries, returned, asked, crediting, credited, mishap>>

ChargeOpened(r) ==
    /\ r \in initiating /\ transaction[r] = None
    /\ transaction' = [transaction EXCEPT ![r] = "open"]
    /\ UNCHANGED <<sheet, initiating, checkouts, row, deliveries, returned, asked, crediting,
                   told, credited, mishap>>

\* The row is stored, or not, and the browser goes to the checkout page, from
\* which it may come back and deposit again.
Initiated(r) ==
    /\ r \in initiating /\ transaction[r] = "open"
    /\ initiating' = initiating \ {r} /\ psLoading' = FALSE
    /\ checkouts' = checkouts \cup {r}
    /\ \/ row' = [row EXCEPT ![r] = "pending"] /\ UNCHANGED mishap
       \/ "row_lost" \in DepositFaults /\ Befalls("row_lost", r) /\ UNCHANGED row
    /\ UNCHANGED <<rate, transaction, deliveries, returned, asked, crediting, told, credited>>

\* No answer, an error or HTML: the error is shown.
InitiateFails(r) ==
    /\ "paystack" \in DepositFaults /\ r \in initiating
    /\ initiating' = initiating \ {r} /\ psLoading' = FALSE
    /\ told' = [told EXCEPT ![r] = "error"]
    /\ UNCHANGED <<rate, checkouts, transaction, row, deliveries, returned, asked, crediting, credited, mishap>>

-----------------------------------------------------------------------------
(* Paystack's page. *)

\* The customer pays; the webhook is sent none to MaxHooks times, and the
\* browser is sent back.
Pay(r) ==
    /\ r \in checkouts /\ transaction[r] = "open"
    /\ transaction' = [transaction EXCEPT ![r] = "success"]
    /\ \E n \in 0 .. MaxHooks :
          /\ deliveries' = [deliveries EXCEPT ![r] = n]
          /\ \/ returned' = returned \cup {r} /\ UNCHANGED mishap
             \/ /\ "left" \in DepositFaults /\ UNCHANGED returned
                /\ IF n = 0 THEN Befalls("unheard", r) ELSE UNCHANGED mishap
    /\ UNCHANGED <<sheet, initiating, checkouts, row, asked, crediting, told, credited>>

-----------------------------------------------------------------------------
(* creditPaystack *)

Handlers == [ref: Refs, via: {"webhook", "verify"}]

\* A slip: only a row that is confirmed is refused.
ClaimUnlessConfirmed(r) == row[r] \in {"pending", "processing"}
\* Another: the status of a row that was opened is misspelt.
ClaimMisspelt(r) == row[r] = "initiated"
\* UPDATE ... SET status = 'processing' WHERE status = 'pending'
Claimable(r) == row[r] = "pending"

\* What the caller answers when nothing was claimed, or all was done: the
\* webhook 200, the verify call `confirmed'.
Done(r, via) == told' = IF via = "verify" THEN [told EXCEPT ![r] = "confirmed"] ELSE told

\* The claim, of a row that nobody else will claim if it is the last chance.
Claim(r, via, last) ==
    \/ /\ Claimable(r) /\ row' = [row EXCEPT ![r] = "processing"]
       /\ crediting' = crediting \cup {[ref |-> r, via |-> via]}
       /\ UNCHANGED <<told, mishap>>
    \/ ~ Claimable(r) /\ Done(r, via) /\ UNCHANGED <<row, crediting, mishap>>
    \/ /\ "claim" \in DepositFaults /\ Claimable(r)
       /\ Done(r, via) /\ UNCHANGED <<row, crediting>>
       /\ IF last THEN Befalls("unclaimed", r) ELSE UNCHANGED mishap

\* The transaction: balance, ledger, status and FX row.
Credit(h) ==
    /\ h \in crediting /\ crediting' = crediting \ {h}
    /\ credited' = [credited EXCEPT ![h.ref] = @ + 1]
    /\ row' = [row EXCEPT ![h.ref] = "confirmed"]
    /\ Done(h.ref, h.via)
    /\ UNCHANGED <<sheet, initiating, checkouts, transaction, deliveries, returned, asked, mishap>>

\* The claim stands and nothing is credited; a webhook that was answered 500
\* is sent again.
CreditFails(h) ==
    /\ h \in crediting /\ crediting' = crediting \ {h}
    /\ "cut" \in DepositFaults /\ Befalls("cut", h.ref)
    /\ deliveries' = IF h.via = "webhook" THEN [deliveries EXCEPT ![h.ref] = @ + 1] ELSE deliveries
    /\ told' = IF h.via = "verify" THEN [told EXCEPT ![h.ref] = "error"] ELSE told
    /\ UNCHANGED <<sheet, initiating, checkouts, transaction, row, returned, asked, credited>>

-----------------------------------------------------------------------------
(* POST /payments/paystack/webhook and POST /payments/paystack/verify. *)

Webhook(r) ==
    /\ deliveries[r] > 0
    /\ [ref |-> r, via |-> "webhook"] \notin crediting
    /\ deliveries' = [deliveries EXCEPT ![r] = @ - 1]
    /\ Claim(r, "webhook", deliveries[r] = 1 /\ r \notin returned \cup asked)
    /\ UNCHANGED <<sheet, initiating, checkouts, transaction, returned, asked, credited>>

\* The page verifies the reference in the address bar; the row is looked at.
Verify(r) ==
    /\ r \in returned /\ returned' = returned \ {r}
    /\ IF row[r] \in {"absent", "confirmed"}
       THEN /\ told' = [told EXCEPT ![r] = IF row[r] = "absent" THEN "error" ELSE "already_confirmed"]
            /\ UNCHANGED asked
       ELSE asked' = asked \cup {r} /\ UNCHANGED told
    /\ UNCHANGED <<sheet, initiating, checkouts, transaction, row, deliveries, crediting, credited, mishap>>

\* Paystack answers that the charge succeeded.
PaystackVerified(r) ==
    /\ r \in asked /\ transaction[r] = "success" /\ asked' = asked \ {r}
    /\ Claim(r, "verify", deliveries[r] = 0)
    /\ UNCHANGED <<sheet, initiating, checkouts, transaction, deliveries, returned, credited>>

\* It cannot be reached: 502.  Nobody else may credit the charge.
VerifyFails(r) ==
    /\ "paystack" \in DepositFaults /\ r \in asked /\ asked' = asked \ {r}
    /\ IF deliveries[r] = 0 /\ row[r] = "pending" THEN Befalls("unheard", r) ELSE UNCHANGED mishap
    /\ told' = [told EXCEPT ![r] = "error"]
    /\ UNCHANGED <<sheet, initiating, checkouts, transaction, row, deliveries, returned, crediting, credited>>

Ends(h) == Credit(h) \/ CreditFails(h)
Answers(r) == PaystackVerified(r) \/ VerifyFails(r)

Next ==
    \/ LoadRate
    \/ \E r \in Refs :
          \/ Initiate(r) \/ ChargeOpened(r) \/ Initiated(r) \/ InitiateFails(r) \/ Pay(r)
          \/ Webhook(r) \/ Verify(r) \/ Answers(r)
    \/ \E h \in Handlers : Ends(h)

Spec == Init /\ [][Next]_depositVars
\* Webhooks that are sent arrive, a page that is open runs its effects, and
\* handlers run to their end.
DepositFairness ==
    /\ \A r \in Refs : WF_depositVars(Webhook(r)) /\ WF_depositVars(Verify(r)) /\ WF_depositVars(Answers(r))
    /\ \A h \in Handlers : WF_depositVars(Ends(h))
FairSpec == Spec /\ DepositFairness

-----------------------------------------------------------------------------
(* Properties. *)

TypeOK ==
    /\ rate \in BOOLEAN /\ psLoading \in BOOLEAN
    /\ initiating \cup checkouts \cup returned \cup asked \subseteq Refs
    /\ transaction \in [Refs -> {None, "open", "success"}]
    /\ row \in [Refs -> {"absent", "pending", "processing", "confirmed"}]
    /\ deliveries \in [Refs -> Nat] /\ credited \in [Refs -> Nat]
    /\ crediting \subseteq Handlers
    /\ told \in [Refs -> {None, "refused", "error", "confirmed", "already_confirmed"}]
    /\ mishap \subseteq Mishaps \X Refs

\* A charge is credited at most once, and only if it was paid, however the
\* webhook's deliveries and the page's verify call overlap (creditPaystack).
CreditedOnce ==
    \A r \in Refs : credited[r] <= 1 /\ (credited[r] = 1 => transaction[r] = "success")

\* A charge that was paid is credited by the webhook or, if it never comes,
\* by the page, unless the row was lost, the handler that claimed it was cut
\* off before it credited it, the last handler could not claim it and said it
\* was done, or no webhook came and the page was closed or its verification
\* failed (page.tsx verify on return, paystack.go).
PaidIsCredited ==
    \A r \in Refs : transaction[r] = "success" ~>
        \/ credited[r] = 1
        \/ \E what \in Mishaps : <<what, r>> \in mishap
=============================================================================
