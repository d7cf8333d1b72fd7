------------------------------ MODULE Session ------------------------------
(***************************************************************************)
(* Who is signed in on this browser and which account the page trades:     *)
(* useAuth.ts, api.ts, affiliate.ts, AuthModal, AccountSwitcherSheet,      *)
(* ConnectBrokerSheet and the effects of page.tsx that run when the user   *)
(* object changes.                                                         *)
(*                                                                         *)
(* Requests of an earlier user may be answered after the next one signed   *)
(* in; a reload forgets the React state and keeps localStorage.            *)
(***************************************************************************)
EXTENDS Integers, FiniteSets

CONSTANTS
    Users,        \* the people who use this browser
    Accounts,     \* the real accounts there can be
    Primary,      \* the account each user is born with
    Extra,        \* the accounts a user may create later
    BrokerOf,     \* the broker account of each user who has a broker to link
    Nobody,       \* no user, no token
    None,         \* no account
    Guest,        \* accountId of a visitor
    DemoOf,       \* the demo account of each user
    Reloads,      \* bound: page loads
    Logins,       \* bound: sign-ins
    Links,        \* bound: presses of `Link broker'
    MaxCalls      \* bound: calls of the page in flight

VARIABLES
    opened,       \* Postgres: the accounts of each user
    token,        \* localStorage otuburu_token: whose it is
    aids,         \* the real accounts its claims name
    user,         \* useAuth: Nobody, or [who, token, accounts]
    loading,      \* useAuth: the session is being restored
    mode,         \* localStorage otuburu.mode
    selectedReal, \* selectedRealId
    remembered,   \* localStorage otuburu.selected_real of each user
    pendingRef,   \* localStorage otuburu.pendingRef is set
    reference,    \* a Paystack reference is in the address bar
    requests,     \* calls of the page: [kind, of, acct, aids, data]
    introduced,   \* ghost: who was introduced by a link
    linked,       \* Postgres: the users with a broker link
    crossed,      \* answers for one user that met another: see below
    used          \* [loads, logins, links] so far

browser    == <<token, aids, mode, remembered, pendingRef, reference>>
react      == <<user, loading, selectedReal>>
sessionVars == <<opened, browser, react, requests, introduced, linked, crossed, used>>

Unread == {None}
CallWith(kind, who, acct, claims) ==
    [kind |-> kind, of |-> who, acct |-> acct, aids |-> claims, data |-> Unread]
Call(kind, who, acct) == CallWith(kind, who, acct, {})
Brokers == {BrokerOf[u] : u \in DOMAIN BrokerOf}
Session == [who: Users, token: Users, accounts: SUBSET Accounts]

\* A user's own account, those they may create and those of brokers.
ASSUME AccountsGiven ==
    /\ Primary \in [Users -> Accounts] /\ Extra \in [Users -> SUBSET Accounts]
    /\ DOMAIN BrokerOf \subseteq Users /\ Brokers \subseteq Accounts
    /\ \A u \in Users : Extra[u] \cap Brokers = {}
    /\ Nobody \notin Users \cup Session /\ None \notin Accounts

Count(what, bound) == used[what] < bound /\ used' = [used EXCEPT ![what] = @ + 1]

\* GET /auth/me: the accounts of the token's user.
Me(who) == opened[who]

Init ==
    /\ opened = [u \in Users |-> {Primary[u]}]
    /\ token = Nobody /\ aids = {} /\ user = Nobody /\ loading = FALSE
    /\ mode = "demo" /\ selectedReal = None
    /\ remembered = [u \in Users |-> None]
    /\ pendingRef = FALSE /\ reference = FALSE
    /\ requests = {}
    /\ introduced = {}
    /\ linked = {}
    /\ crossed = {}
    /\ used = [loads |-> 0, logins |-> 0, links |-> 0]

-----------------------------------------------------------------------------
(* Which account the page trades. *)

\* A slip: the account chosen last, whoever owns it.
AnySelected(u, selected) ==
    IF u = Nobody THEN None ELSE IF selected # None THEN selected ELSE Primary[u.who]
\* realAccountId: the chosen account if the user has it, else some account
\* of theirs.
RealAccount(u, selected) ==
    IF u = Nobody THEN None
    ELSE IF selected \in u.accounts THEN selected ELSE Primary[u.who]

AccountId ==
    IF user = Nobody THEN Guest
    ELSE IF mode = "real" THEN RealAccount(user, selectedReal) ELSE DemoOf[user.who]

-----------------------------------------------------------------------------
(* The effects that run when the user object changes. *)

\* The deposit of a customer who comes back from Paystack is verified once;
\* the address bar is cleaned before the call.
VerifyOnReturn(u) ==
    IF u # Nobody /\ reference
    THEN /\ mode' = "real" /\ reference' = FALSE
    ELSE UNCHANGED <<mode, reference>>

VerifyCall(u) == IF u # Nobody /\ reference THEN {Call("verify", u.who, None)} ELSE {}

\* The choice stored for this user, if it is still one of their accounts.
Hydrated(u) ==
    IF u # Nobody /\ remembered[u.who] \in u.accounts THEN remembered[u.who]
    ELSE selectedReal

\* setUser and what follows from it; `calls' are the page's requests left.
SetUser(u, calls) ==
    /\ user' = u
    /\ VerifyOnReturn(u)
    /\ selectedReal' = Hydrated(u)
    /\ requests' = calls \cup VerifyCall(u)

-----------------------------------------------------------------------------
(* Loading the page; restoring the session. *)

\* A link with ?ref=, the return from Paystack, or a plain reload: the React
\* state is new, answers to the page before are nobody's.
LoadPage(link, returning) ==
    /\ Count("loads", Reloads)
    /\ user' = Nobody /\ selectedReal' = None
    /\ pendingRef' = (pendingRef \/ link)
    /\ reference' = (reference \/ returning)
    /\ loading' = (token # Nobody)
    /\ requests' = IF token = Nobody THEN {} ELSE {Call("restore", token, None)}
    /\ UNCHANGED <<opened, token, aids, mode, remembered, introduced, linked, crossed>>

\* The gateway answers /auth/me with what Postgres has now.
Answer(r) ==
    /\ r.kind \in {"restore", "loginMe", "me", "createdMe"} /\ r.data = Unread
    /\ requests' = (requests \ {r}) \cup {[r EXCEPT !.data = Me(r.of)]}
    /\ UNCHANGED <<opened, browser, react, introduced, linked, crossed, used>>

Signed(who, accounts) == [who |-> who, token |-> who, accounts |-> accounts]

Restored(r) ==
    /\ r.kind = "restore" /\ r.data # Unread
    /\ SetUser(Signed(r.of, r.data), requests \ {r})
    /\ loading' = FALSE
    /\ UNCHANGED <<opened, token, aids, remembered, pendingRef, introduced, linked, crossed, used>>

\* Not ok, or no answer: the visitor sees the landing page; the token stays.
RestoreFails(r) ==
    /\ r.kind = "restore"
    /\ requests' = requests \ {r} /\ loading' = FALSE
    /\ UNCHANGED <<opened, browser, user, selectedReal, introduced, linked, crossed, used>>

-----------------------------------------------------------------------------
(* Signing in and out. *)

\* The ref that waits goes with the request.
GoogleCalls == {"google", "googleRef"}
GoogleCall(u) == Call(IF pendingRef THEN "googleRef" ELSE "google", u, None)

SigningIn == \E r \in requests : r.kind \in GoogleCalls \cup {"loginMe"}

\* The sheet opens on the landing page.  Closed and opened again it has
\* forgotten that somebody is signing in.
SignInOffered == user = Nobody /\ ~ loading

\* Google, or the plugin of the native app, has given a credential.
SignIn(u) ==
    /\ SignInOffered
    /\ Count("logins", Logins)
    /\ requests' = requests \cup {GoogleCall(u)}
    /\ crossed' = IF SigningIn THEN crossed \cup {"two_logins"} ELSE crossed
    /\ UNCHANGED <<opened, browser, react, introduced, linked>>

\* A slip: accounts of every type.
AllAccounts(who) == opened[who]
\* queryRealAccountIDs: the accounts of type real, no broker account.
Claims(who) == opened[who] \ Brokers

\* POST /auth/google: a first sign-in with a ref is attributed to it.
GoogleOk(r) ==
    /\ r.kind \in GoogleCalls
    /\ requests' = (requests \ {r})
                   \cup {CallWith("loginMe", r.of, None, Claims(r.of))}
    /\ introduced' = IF r.kind = "googleRef" THEN introduced \cup {r.of} ELSE introduced
    /\ UNCHANGED <<opened, browser, react, linked, crossed, used>>

\* A slip: the ref stays for the next one to sign in.
KeepRef == UNCHANGED pendingRef
ClearPendingRef == pendingRef' = FALSE

StoreToken(who, claims) == token' = who /\ aids' = claims

\* The answer of /auth/me is taken as it is: an error lists no accounts.
SignedIn(r) ==
    /\ r.kind = "loginMe" /\ r.data # Unread
    /\ StoreToken(r.of, r.aids)
    /\ \E listed \in {r.data, {}} : SetUser(Signed(r.of, listed), requests \ {r})
    /\ ClearPendingRef
    /\ UNCHANGED <<opened, loading, remembered, introduced, linked, crossed, used>>

\* loginWithGoogle throws; after POST /auth/google the attribution stands
\* and the ref is kept.
SignInFails(r) ==
    /\ r.kind \in GoogleCalls \cup {"loginMe"}
    /\ requests' = requests \ {r}
    /\ crossed' = IF r.kind = "loginMe" THEN crossed \cup {"half_login"} ELSE crossed
    /\ UNCHANGED <<opened, browser, react, introduced, linked, used>>

\* The footer of the drawer.
SignOutOffered == user # Nobody

Logout ==
    /\ SignOutOffered
    /\ StoreToken(Nobody, {}) /\ user' = Nobody
    /\ UNCHANGED <<opened, mode, remembered, pendingRef, reference, loading, selectedReal,
                   requests, introduced, linked, crossed, used>>

-----------------------------------------------------------------------------
(* Refreshing balances. *)

Room == user # Nobody /\ Cardinality(requests) < MaxCalls

RefreshBalances ==
    /\ Room
    /\ requests' = requests \cup {Call("me", user.token, None)}
    /\ UNCHANGED <<opened, browser, react, introduced, linked, crossed, used>>

\* The answer is merged into the user there is by then.
Refreshed(r) ==
    /\ r.kind = "me" /\ r.data # Unread
    /\ IF user = Nobody
       THEN requests' = requests \ {r} /\ UNCHANGED <<mode, reference, user, selectedReal, crossed>>
       ELSE /\ SetUser([who |-> r.of, token |-> user.token, accounts |-> r.data], requests \ {r})
            /\ crossed' = IF r.of = user.who THEN crossed ELSE crossed \cup {"late_me"}
    /\ UNCHANGED <<opened, token, aids, remembered, pendingRef, loading, introduced, linked, used>>

\* The verify call is answered, ok or not: refreshBalances either way.
Verified(r) ==
    /\ r.kind = "verify"
    /\ requests' = (requests \ {r}) \cup {Call("me", r.of, None)}
    /\ UNCHANGED <<opened, browser, react, introduced, linked, crossed, used>>

-----------------------------------------------------------------------------
(* Accounts: choose one, create one. *)

SelectReal(u, a) ==
    /\ selectedReal' = a /\ mode' = "real"
    /\ remembered' = [remembered EXCEPT ![u] = a]

\* AccountSwitcherSheet lists the accounts of the user, the selected one too.
SwitchOffered(a) == user # Nobody /\ a \in user.accounts

SwitchAccount(a) ==
    /\ SwitchOffered(a)
    /\ SelectReal(user.who, a)
    /\ UNCHANGED <<opened, token, aids, pendingRef, reference, user, loading, requests,
                   introduced, linked, crossed, used>>

\* The drawer's user card.
ToggleOffered == user # Nobody

ToggleMode ==
    /\ ToggleOffered
    /\ mode' = IF mode = "demo" THEN "real" ELSE "demo"
    /\ UNCHANGED <<opened, token, aids, remembered, pendingRef, reference, react, requests,
                   introduced, linked, crossed, used>>

\* The create section: a new name and kind is a new account.  The button waits
\* for the answer, the Enter key of the name does not.
CreateOffered(a) ==
    /\ a \in Extra[token] \ opened[token]
    /\ \A r \in requests : r.kind = "create" => r.acct # a

\* createAccountApi
CreateAccount(a) ==
    /\ Room /\ CreateOffered(a)
    /\ requests' = requests \cup {CallWith("create", token, a, aids)}
    /\ UNCHANGED <<opened, browser, react, introduced, linked, crossed, used>>

\* The new token adds the account to the claims of the token that asked.
\* handleAccountCreated: applyToken stores it, whoever is signed in by then,
\* and asks for the balances.
Created(r) ==
    /\ r.kind = "create"
    /\ opened' = [opened EXCEPT ![r.of] = @ \cup {r.acct}]
    /\ StoreToken(r.of, r.aids \cup {r.acct})
    /\ crossed' = IF token = r.of THEN crossed ELSE crossed \cup {"late_token"}
    /\ requests' = (requests \ {r}) \cup {Call("createdMe", r.of, r.acct)}
    /\ UNCHANGED <<mode, remembered, pendingRef, reference, react, introduced, linked, used>>

CreateFails(r) ==
    /\ r.kind = "create"
    /\ requests' = requests \ {r}
    /\ UNCHANGED <<opened, browser, react, introduced, linked, crossed, used>>

\* The rest of handleAccountCreated: the answer is merged, if there is one,
\* and the account is selected.
CreatedAndRead(r) ==
    /\ r.kind = "createdMe" /\ r.data # Unread
    /\ \E merged \in BOOLEAN :
          /\ user' = IF user = Nobody \/ ~ merged THEN user ELSE Signed(r.of, r.data)
          /\ crossed' = IF user # Nobody /\ user.who # r.of THEN crossed \cup {"late_me"} ELSE crossed
    /\ SelectReal(r.of, r.acct)
    /\ requests' = requests \ {r}
    /\ UNCHANGED <<opened, token, aids, pendingRef, reference, loading, introduced, linked, used>>

-----------------------------------------------------------------------------
(* ConnectBrokerSheet. *)

\* The form takes the identifier and the token of a MetaApi account; its
\* button waits for the call and for the list after it.
LinkOffered ==
    /\ token \in DOMAIN BrokerOf
    /\ ~ \E r \in requests : r.kind \in {"link", "linked"}

\* handleSubmit
LinkBroker ==
    /\ Room /\ LinkOffered
    /\ Count("links", Links)
    /\ requests' = requests \cup {Call("link", token, BrokerOf[token])}
    /\ UNCHANGED <<opened, browser, react, introduced, linked, crossed>>

\* POST /api/lp-links stores the link and its account in one transaction,
\* and the sheet reads the list.
LinkStored(r) ==
    /\ r.kind = "link"
    /\ opened' = [opened EXCEPT ![r.of] = @ \cup {r.acct}]
    /\ linked' = linked \cup {r.of}
    /\ requests' = (requests \ {r}) \cup {Call("linked", r.of, r.acct)}
    /\ UNCHANGED <<browser, react, introduced, crossed, used>>

LinkFails(r) ==
    /\ r.kind = "link"
    /\ requests' = requests \ {r}
    /\ UNCHANGED <<opened, browser, react, introduced, linked, crossed, used>>

\* onCreated, with the user of the press: balances are asked for, and the
\* account is selected before they come.
Linked(r) ==
    /\ r.kind = "linked"
    /\ requests' = (requests \ {r}) \cup {Call("me", r.of, None)}
    /\ SelectReal(r.of, r.acct)
    /\ UNCHANGED <<opened, token, aids, pendingRef, reference, user, loading, introduced, linked, crossed, used>>

\* Remove, on a row of the list.
UnlinkOffered == token \in linked

\* handleDelete: the link goes, its account stays.
UnlinkBroker ==
    /\ Room /\ UnlinkOffered
    /\ requests' = requests \cup {Call("unlink", token, None)}
    /\ UNCHANGED <<opened, browser, react, introduced, linked, crossed, used>>

Unlinked(r) ==
    /\ r.kind = "unlink"
    /\ linked' \in {linked, linked \ {r.of}}
    /\ requests' = requests \ {r}
    /\ UNCHANGED <<opened, browser, react, introduced, crossed, used>>

Reply(r) ==
    \/ Answer(r) \/ Restored(r) \/ RestoreFails(r) \/ GoogleOk(r) \/ SignedIn(r)
    \/ SignInFails(r) \/ Refreshed(r) \/ Verified(r) \/ Created(r) \/ CreateFails(r)
    \/ CreatedAndRead(r) \/ LinkStored(r) \/ LinkFails(r) \/ Linked(r) \/ Unlinked(r)

Next ==
    \/ \E link, returning \in BOOLEAN : LoadPage(link, returning)
    \/ \E u \in Users : SignIn(u)
    \/ \E r \in requests : Reply(r)
    \/ Logout \/ RefreshBalances \/ ToggleMode
    \/ LinkBroker \/ UnlinkBroker
    \/ \E a \in Accounts : SwitchAccount(a) \/ CreateAccount(a)

Spec == Init /\ [][Next]_sessionVars

-----------------------------------------------------------------------------
(* Properties. *)

TypeOK ==
    /\ opened \in [Users -> SUBSET Accounts]
    /\ token \in Users \cup {Nobody} /\ aids \subseteq Accounts \ Brokers
    /\ user \in Session \cup {Nobody}
    /\ loading \in BOOLEAN /\ mode \in {"demo", "real"}
    /\ selectedReal \in Accounts \cup {None} /\ remembered \in [Users -> Accounts \cup {None}]
    /\ pendingRef \in BOOLEAN /\ reference \in BOOLEAN
    /\ linked \subseteq Users
    /\ crossed \subseteq {"late_me", "late_token", "half_login", "two_logins"}

\* The account the page trades belongs to the user whose token its calls
\* carry, through sign-outs, other users, stale choices and late answers,
\* unless an answer for one user was merged into another or a late new token
\* replaced another user's (page.tsx realAccountId, useAuth.ts).
AccountIsOwn ==
    ({"late_me", "late_token"} \cap crossed = {} /\ user # Nobody) =>
        /\ AccountId \in opened[token] \cup {DemoOf[token]}
        /\ token = user.who

\* One link introduces one new user: signing out and in again, or as someone
\* else, does not present it again, unless a sign-in failed half way or a
\* second one began before it was answered (useAuth.ts, affiliate.ts).
IntroducedOnce ==
    {"half_login", "two_logins"} \cap crossed = {} => Cardinality(introduced) <= used.loads

\* A comment on api.ts says of a linked broker account that "the user can
\* trade once" the engine has it: while the page trades it, the token names
\* it among the accounts the gateway lets its bearer trade.
LinkedIsTradeable ==
    (user # Nobody /\ AccountId \in Brokers) => AccountId \in aids
=============================================================================
