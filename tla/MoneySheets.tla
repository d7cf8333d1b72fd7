---------------------------- MODULE MoneySheets ----------------------------
(***************************************************************************)
(* The sheets of the page that move money or lift a limit: WithdrawSheet   *)
(* (USDT and NGN), TransferModal and KycSheet, inside BottomSheet.  One is *)
(* open at a time.  Nothing in a sheet is disabled while a request is out  *)
(* except the button that sent it: fields, tabs and the sheet itself stay  *)
(* live, and answers arrive in any order, or never.                        *)
(*                                                                         *)
(* A transfer or KYC form is a component that stays mounted when its sheet *)
(* is closed; a withdrawal form is inside the sheet and is forgotten 260   *)
(* ms after the sheet is closed, when its slide has ended.                 *)
(***************************************************************************)
EXTENDS Naturals, FiniteSets

CONSTANTS
    Dests,        \* complete destinations: an address, a bank with a number
    Amounts,      \* amounts that the form accepts for the account's balance
    Savings,      \* the savings leg
    RealAccounts, \* the accounts of the user
    None,         \* nothing: an incomplete field, no name, no form
    MaxOpens,     \* bound: times a sheet is opened or its tab changed
    MaxEdits,     \* bound: changes of a field, and reviews
    MaxPresses    \* bound: requests sent by the buttons

VARIABLES
    sheet,        \* the sheet that is open, or None
    channel,      \* WithdrawSheet: the tab; its account is left out
    saved,        \* the page: user.savings_balance is positive
    wform,        \* the withdrawal form, None when it is not mounted
    xform,        \* TransferModal: [form, busy]: what is filled in, and the
                  \* request out
    closeTimers,  \* TransferModal: timeouts of 900 ms that close the sheet
    kyc,          \* KycSheet: [status, busy]
    tier,         \* Postgres: users.kyc_tier >= 1
    calls,        \* requests on their way, each with what was done of it
    sent,         \* ghost: every withdrawal and transfer sent
    moneyUsed     \* [opens, edits, presses] so far

moneyVars == <<sheet, channel, saved, wform, xform, closeTimers, kyc, tier, calls, sent, moneyUsed>>

Sheets   == {"withdraw", "transfer", "kyc"}
Channels == {"usdt", "ngn"}
Legs     == RealAccounts \cup {Savings}
Bound(what, bound) == moneyUsed[what] < bound /\ moneyUsed' = [moneyUsed EXCEPT ![what] = @ + 1]
\* Requests are numbered by what has been used up when they are sent.
Number == moneyUsed.opens + moneyUsed.edits + moneyUsed.presses

\* The answer of GET /wallet/ngn/resolve: the name of the holder.
NameOf(d) == d

BlankForm == [amount |-> None, dest |-> None, holder |-> None, resolving |-> 0,
              confirm |-> FALSE, busy |-> 0, reviewed |-> None]
BlankTransfer == [from |-> None, to |-> None, amount |-> None]

Init ==
    /\ sheet = None /\ channel = "usdt" /\ saved = TRUE /\ wform = None
    /\ xform = [form |-> BlankTransfer, busy |-> 0]
    /\ closeTimers = 0
    /\ kyc = [status |-> None, busy |-> FALSE] /\ tier = FALSE
    /\ calls = {} /\ sent = {}
    /\ moneyUsed = [opens |-> 0, edits |-> 0, presses |-> 0]

\* A request: its kind and number, what it asks for, and what was done.
Call(kind, what) == [kind |-> kind, n |-> Number, what |-> what, state |-> "out"]
With(c, state)   == (calls \ {c}) \cup {[c EXCEPT !.state = state]}
\* refreshBalances, once c is answered.
Balances(c) ==
    (calls \ {c}) \cup {[kind |-> "balances", n |-> c.n, what |-> None, state |-> "out"]}

-----------------------------------------------------------------------------
(* BottomSheet: opening, closing, the end of the slide. *)

\* The effect of TransferModal on `open' and on the accounts.
ResetTransfer == [xform EXCEPT !.form = BlankTransfer]

\* AppDrawer: the Savings card, there in real mode; its Withdraw waits for
\* savings.
CardOffers(s) == s = "transfer" \/ (s = "withdraw" /\ saved)
\* AppDrawer: the menu.
MenuOffers(s) == s \in {"transfer", "kyc"}

\* The drawer closes as it opens a sheet; KycSheet asks for the status each
\* time.
OpenSheet(s) ==
    /\ sheet = None /\ Bound("opens", MaxOpens)
    /\ CardOffers(s) \/ MenuOffers(s)
    /\ sheet' = s
    /\ wform' = IF s = "withdraw" /\ wform = None THEN BlankForm ELSE wform
    /\ xform' = IF s = "transfer" THEN ResetTransfer ELSE xform
    /\ calls' = IF s = "kyc" THEN calls \cup {Call("status", None)} ELSE calls
    /\ UNCHANGED <<channel, saved, closeTimers, kyc, tier, sent>>

\* Escape, the backdrop, the cross, a drag of 80 px: at any time.
CloseSheet ==
    /\ sheet # None /\ sheet' = None
    /\ UNCHANGED <<channel, saved, wform, xform, closeTimers, kyc, tier, calls, sent, moneyUsed>>

\* The timer of the slide: the content is unmounted.
Unmount ==
    /\ sheet # "withdraw" /\ wform # None
    /\ wform' = None
    /\ UNCHANGED <<sheet, channel, saved, xform, closeTimers, kyc, tier, calls, sent, moneyUsed>>

-----------------------------------------------------------------------------
(* WithdrawSheet.  Its buttons are live while the sheet slides out. *)

Mounted == wform # None

\* A slip: the review of what was typed before stands.
EditKeepsReview(f) == f
\* Every change of the amount or the destination takes the review back.
Edited(f) == [f EXCEPT !.confirm = FALSE]

SwitchChannel(c) ==
    /\ Mounted /\ c # channel /\ Bound("opens", MaxOpens)
    /\ channel' = c /\ wform' = BlankForm
    /\ UNCHANGED <<sheet, saved, xform, closeTimers, kyc, tier, calls, sent>>

TypeAmount(n) ==
    /\ Mounted /\ n # wform.amount /\ Bound("edits", MaxEdits)
    /\ wform' = [Edited(wform) EXCEPT !.amount = n]
    /\ UNCHANGED <<sheet, channel, saved, xform, closeTimers, kyc, tier, calls, sent>>

\* On the NGN form a complete bank and number are resolved; the request
\* before is cancelled.
TypeDest(d) ==
    /\ Mounted /\ d # wform.dest /\ Bound("edits", MaxEdits)
    /\ LET asks == channel = "ngn" /\ d # None
       IN  /\ wform' = [Edited(wform) EXCEPT !.dest = d, !.holder = None,
                                             !.resolving = IF asks THEN Number ELSE 0]
           /\ calls' = IF asks THEN calls \cup {Call("resolve", d)} ELSE calls
    /\ UNCHANGED <<sheet, channel, saved, xform, closeTimers, kyc, tier, sent>>

\* A slip: the answer of a cancelled request is shown.
AnyAnswer(c) == Mounted /\ channel = "ngn"
\* `cancelled': only the last request of the form that is mounted counts.
Current(c) == Mounted /\ wform.resolving = c.n

Resolved(c) ==
    /\ c.kind = "resolve" /\ calls' = calls \ {c}
    /\ \E name \in {NameOf(c.what), None} :    \* None: could not verify account
          wform' = IF Current(c) THEN [wform EXCEPT !.holder = name, !.resolving = 0] ELSE wform
    /\ UNCHANGED <<sheet, channel, saved, xform, closeTimers, kyc, tier, sent, moneyUsed>>

\* validAmount and validAddress; `ready' of the NGN form.
UsdtReady(f) == f.amount # None /\ f.dest # None
NgnReady(f)  == f.amount # None /\ f.dest # None /\ f.holder # None /\ f.resolving = 0
Ready(f)     == IF channel = "ngn" THEN NgnReady(f) ELSE UsdtReady(f)

\* What the buttons say: the amount, and the address or the holder's name.
UsdtLabel(f) == [amount |-> f.amount, who |-> f.dest]
NgnLabel(f)  == [amount |-> f.amount, who |-> f.holder]
Label(f)     == IF channel = "ngn" THEN NgnLabel(f) ELSE UsdtLabel(f)

\* The first press.
Review ==
    /\ Mounted /\ Ready(wform) /\ wform.busy = 0 /\ ~ wform.confirm
    /\ Bound("edits", MaxEdits)
    /\ wform' = [wform EXCEPT !.confirm = TRUE, !.reviewed = Label(wform)]
    /\ UNCHANGED <<sheet, channel, saved, xform, closeTimers, kyc, tier, calls, sent>>

\* The second.
Withdraw ==
    /\ Mounted /\ Ready(wform) /\ wform.busy = 0 /\ wform.confirm
    /\ Bound("presses", MaxPresses)
    /\ LET w == [n |-> Number, amount |-> wform.amount, dest |-> wform.dest, channel |-> channel,
                 name |-> wform.holder]
       IN  /\ wform' = [wform EXCEPT !.busy = Number]
           /\ calls' = calls \cup {Call("withdraw", w)}
           /\ sent' = sent \cup {[kind |-> "withdraw", n |-> Number, what |-> w,
                                  reviewed |-> wform.reviewed, moved |-> FALSE]}
    /\ UNCHANGED <<sheet, channel, saved, xform, closeTimers, kyc, tier>>

\* The wallet writes the withdrawal, or refuses it.
WithdrawServed(c) ==
    /\ c.kind = "withdraw" /\ c.state = "out"
    /\ \E ok \in BOOLEAN :
          /\ calls' = With(c, IF ok THEN "done" ELSE "refused")
          /\ sent' = {IF s.n = c.n THEN [s EXCEPT !.moved = ok] ELSE s : s \in sent}
    /\ UNCHANGED <<sheet, channel, saved, wform, xform, closeTimers, kyc, tier, moneyUsed>>

\* Its form, if it is still mounted, may send again.
Freed(c, f) == IF f # None /\ f.busy = c.n THEN [f EXCEPT !.busy = 0] ELSE f

\* onSubmitted: the balances are asked for and the withdrawal sheet is closed,
\* whichever form it shows now; the review stays.
WithdrawAnswered(c) ==
    /\ c.kind = "withdraw" /\ c.state = "done"
    /\ calls' = Balances(c)
    /\ sheet' = IF sheet = "withdraw" THEN None ELSE sheet
    /\ wform' = Freed(c, wform)
    /\ UNCHANGED <<channel, saved, xform, closeTimers, kyc, tier, sent, moneyUsed>>

\* Refused, or no answer whatever was done: the error is shown and the review
\* is taken back.
WithdrawFails(c) ==
    /\ c.kind = "withdraw" /\ calls' = calls \ {c}
    /\ wform' = IF wform # None /\ wform.busy = c.n THEN Edited(Freed(c, wform)) ELSE wform
    /\ UNCHANGED <<sheet, channel, saved, xform, closeTimers, kyc, tier, sent, moneyUsed>>

-----------------------------------------------------------------------------
(* TransferModal. *)

Filled(form) == [xform EXCEPT !.form = form]

\* Picking what To has for From clears To.
PickedFrom(form, leg) == [form EXCEPT !.from = leg, !.to = IF @ = leg THEN None ELSE @]

PickFrom(leg) ==
    /\ sheet = "transfer" /\ leg # xform.form.from /\ Bound("edits", MaxEdits)
    /\ xform' = Filled(PickedFrom(xform.form, leg))
    /\ UNCHANGED <<sheet, channel, saved, wform, closeTimers, kyc, tier, calls, sent>>

\* The leg From has is disabled.
PickTo(leg) ==
    /\ sheet = "transfer" /\ leg \notin {xform.form.from, xform.form.to} /\ Bound("edits", MaxEdits)
    /\ xform' = Filled([xform.form EXCEPT !.to = leg])
    /\ UNCHANGED <<sheet, channel, saved, wform, closeTimers, kyc, tier, calls, sent>>

TypeTransfer(n) ==
    /\ sheet = "transfer" /\ n # xform.form.amount /\ Bound("edits", MaxEdits)
    /\ xform' = Filled([xform.form EXCEPT !.amount = n])
    /\ UNCHANGED <<sheet, channel, saved, wform, closeTimers, kyc, tier, calls, sent>>

\* canSubmit, for an amount that the source has.
CanSubmit == None \notin {xform.form.from, xform.form.to, xform.form.amount} /\ xform.busy = 0

\* handleSubmit: every press has an idempotency key of its own, its number.
Transfer ==
    /\ sheet = "transfer" /\ CanSubmit /\ Bound("presses", MaxPresses)
    /\ xform' = [xform EXCEPT !.busy = Number]
    /\ calls' = calls \cup {Call("transfer", xform.form)}
    /\ sent' = sent \cup {[kind |-> "transfer", n |-> Number, what |-> xform.form,
                           reviewed |-> None, moved |-> FALSE]}
    /\ UNCHANGED <<sheet, channel, saved, wform, closeTimers, kyc, tier>>

TransferServed(c) ==
    /\ c.kind = "transfer" /\ c.state = "out"
    /\ \E ok \in BOOLEAN :
          /\ calls' = With(c, IF ok THEN "done" ELSE "refused")
          /\ sent' = {IF s.n = c.n THEN [s EXCEPT !.moved = ok] ELSE s : s \in sent}
    /\ UNCHANGED <<sheet, channel, saved, wform, xform, closeTimers, kyc, tier, moneyUsed>>

\* The success is shown, the balances are asked for, the timer is set.
TransferAnswered(c) ==
    /\ c.kind = "transfer" /\ c.state = "done"
    /\ calls' = Balances(c)
    /\ xform' = [xform EXCEPT !.busy = 0]
    /\ closeTimers' = closeTimers + 1
    /\ UNCHANGED <<sheet, channel, saved, wform, kyc, tier, sent, moneyUsed>>

\* Refused, or `network error' whatever was done.
TransferFails(c) ==
    /\ c.kind = "transfer" /\ calls' = calls \ {c}
    /\ xform' = [xform EXCEPT !.busy = 0]
    /\ UNCHANGED <<sheet, channel, saved, wform, closeTimers, kyc, tier, sent, moneyUsed>>

\* refreshBalances: the accounts are new objects and an open form is reset.
BalancesArrive(c) ==
    /\ c.kind = "balances" /\ calls' = calls \ {c}
    /\ saved' \in BOOLEAN
    /\ xform' = IF sheet = "transfer" THEN ResetTransfer ELSE xform
    /\ UNCHANGED <<sheet, channel, wform, closeTimers, kyc, tier, sent, moneyUsed>>

\* setTimeout(onClose, 900), also on a sheet opened again since.
TimedClose ==
    /\ closeTimers > 0 /\ closeTimers' = closeTimers - 1
    /\ sheet' = IF sheet = "transfer" THEN None ELSE sheet
    /\ UNCHANGED <<channel, saved, wform, xform, kyc, tier, calls, sent, moneyUsed>>

-----------------------------------------------------------------------------
(* KycSheet. *)

\* The form is shown for a status that is known and not verified.
FormShown == kyc.status = "unverified"

\* GET /wallet/kyc reads the tier; its answer is shown when it comes.
StatusServed(c) ==
    /\ c.kind = "status" /\ c.state = "out"
    /\ calls' = With(c, IF tier THEN "verified" ELSE "unverified")
    /\ UNCHANGED <<sheet, channel, saved, wform, xform, closeTimers, kyc, tier, sent, moneyUsed>>

StatusAnswered(c) ==
    /\ c.kind = "status" /\ calls' = calls \ {c}
    /\ kyc' = IF c.state = "out" THEN kyc ELSE [kyc EXCEPT !.status = c.state]
    /\ UNCHANGED <<sheet, channel, saved, wform, xform, closeTimers, tier, sent, moneyUsed>>

\* The button of the form, filled in.
SubmitOffered == sheet = "kyc" /\ FormShown /\ ~ kyc.busy

SubmitKyc ==
    /\ SubmitOffered /\ Bound("presses", MaxPresses)
    /\ kyc' = [kyc EXCEPT !.busy = TRUE]
    /\ calls' = calls \cup {Call("submit", None)}
    /\ UNCHANGED <<sheet, channel, saved, wform, xform, closeTimers, tier, sent>>

\* The provider's verdict; an approval lifts the tier.
KycServed(c) ==
    /\ c.kind = "submit" /\ c.state = "out"
    /\ \E approved \in BOOLEAN :
          /\ tier' = (tier \/ approved)
          /\ calls' = With(c, IF tier' THEN "verified" ELSE "unverified")
    /\ UNCHANGED <<sheet, channel, saved, wform, xform, closeTimers, kyc, sent, moneyUsed>>

\* The answer has the new tier.
KycAnswered(c) ==
    /\ c.kind = "submit" /\ c.state # "out"
    /\ calls' = IF c.state = "verified" THEN Balances(c) ELSE calls \ {c}
    /\ kyc' = [status |-> c.state, busy |-> FALSE]
    /\ UNCHANGED <<sheet, channel, saved, wform, xform, closeTimers, tier, sent, moneyUsed>>

\* An error, or no answer whatever was decided.
KycFails(c) ==
    /\ c.kind = "submit" /\ calls' = calls \ {c}
    /\ kyc' = [kyc EXCEPT !.busy = FALSE]
    /\ UNCHANGED <<sheet, channel, saved, wform, xform, closeTimers, tier, sent, moneyUsed>>

Next ==
    \/ \E s \in Sheets : OpenSheet(s)
    \/ CloseSheet \/ Unmount \/ Review \/ Withdraw \/ Transfer \/ TimedClose \/ SubmitKyc
    \/ \E c \in Channels : SwitchChannel(c)
    \/ \E n \in Amounts : TypeAmount(n) \/ TypeTransfer(n)
    \/ \E d \in Dests \cup {None} : TypeDest(d)
    \/ \E leg \in Legs : PickFrom(leg) \/ PickTo(leg)
    \/ \E c \in calls :
          \/ Resolved(c) \/ WithdrawServed(c) \/ WithdrawAnswered(c) \/ WithdrawFails(c)
          \/ TransferServed(c) \/ TransferAnswered(c) \/ TransferFails(c) \/ BalancesArrive(c)
          \/ StatusServed(c) \/ StatusAnswered(c) \/ KycServed(c) \/ KycAnswered(c) \/ KycFails(c)

Spec == Init /\ [][Next]_moneyVars

-----------------------------------------------------------------------------
(* Properties. *)

TypeOK ==
    /\ sheet \in Sheets \cup {None} /\ channel \in Channels /\ saved \in BOOLEAN
    /\ wform # None => wform.dest \in Dests \cup {None} /\ wform.amount \in Amounts \cup {None}
    /\ xform.form \in [from: Legs \cup {None}, to: Legs \cup {None}, amount: Amounts \cup {None}]
    /\ closeTimers \in 0..MaxPresses
    /\ kyc \in [status: {None, "verified", "unverified"}, busy: BOOLEAN] /\ tier \in BOOLEAN

\* The withdrawal that is sent is one whose amount and destination the button
\* named when it was reviewed, and a payout's name is that of the bank and
\* number sent with it, whatever was typed or refused between the two presses
\* and in whatever order names are resolved (UsdtWithdrawForm, NgnWithdrawForm).
SentAsReviewed ==
    \A s \in sent : s.kind = "withdraw" =>
        LET ngn == s.what.channel = "ngn"
        IN  /\ s.reviewed = [amount |-> s.what.amount, who |-> IF ngn THEN s.what.name ELSE s.what.dest]
            /\ ngn => s.what.name = NameOf(s.what.dest)
=============================================================================
