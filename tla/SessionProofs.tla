--------------------------- MODULE SessionProofs ---------------------------
(***************************************************************************)
(* The account the page trades is its user's own, and one link introduces  *)
(* one user, for any number of people who share the browser, of accounts,  *)
(* page loads, sign-ins and calls in flight.                               *)
(***************************************************************************)
EXTENDS Session, FiniteSetTheorems, TLAPS

Calls == [kind: {"restore", "google", "googleRef", "loginMe", "me", "createdMe", "verify", "create", "link",
                 "linked", "unlink"},
          of: Users, acct: Accounts \cup {None}, aids: SUBSET (Accounts \ Brokers),
          data: SUBSET (Accounts \cup {None})]

(* What a call asks for is an account that can be opened; what it was told  *)
(* was so then, and accounts are never closed.                              *)
CallSound(r) ==
    /\ r \in Calls
    /\ r.kind \in {"create", "link"} => r.acct \in Accounts
    /\ r.kind = "create" => r.acct \notin Brokers
    /\ r.data = Unread \/ r.data \subseteq opened[r.of]

Typed ==
    /\ TypeOK
    /\ used \in [loads: Nat, logins: Nat, links: Nat]
    /\ \A r \in requests : CallSound(r)

(* The page restores a session and does nothing else meanwhile. *)
Restoring ==
    /\ loading => user = Nobody /\ \A r, s \in requests : r = s
    /\ \A r \in requests :
          /\ r.kind = "restore" <=> loading
          /\ r.kind = "restore" => r.of = token

Uncrossed == {"late_me", "late_token"} \cap crossed = {}

(* The token in the browser is that of the user, who has the accounts. *)
Owned ==
    /\ \A u \in Users : Primary[u] \in opened[u]
    /\ user # Nobody =>
          /\ token # Nobody
          /\ Uncrossed => token = user.who /\ user.accounts \subseteq opened[user.who]

OwnInv == Typed /\ Restoring /\ Owned

-----------------------------------------------------------------------------
(* Every action only adds calls of these, to those there are. *)

LEMMA CallMade ==
  ASSUME NEW k \in {"restore", "google", "googleRef", "loginMe", "me", "createdMe", "verify", "linked", "unlink"},
         NEW u \in Users, NEW a \in Accounts \cup {None}, NEW cs \in SUBSET (Accounts \ Brokers)
  PROVE  CallSound(CallWith(k, u, a, cs))'
BY DEF CallSound, Calls, CallWith, Unread

LEMMA CallAsked ==
  ASSUME NEW k \in {"create", "link"}, NEW u \in Users, NEW a \in Accounts,
         NEW cs \in SUBSET (Accounts \ Brokers), k = "create" => a \notin Brokers
  PROVE  CallSound(CallWith(k, u, a, cs))'
BY DEF CallSound, Calls, CallWith, Unread

(* Accounts are opened, never closed. *)
Grows == \A u \in Users : opened[u] \subseteq opened'[u]

LEMMA CallsKept ==
  ASSUME Typed, Grows, NEW r \in requests
  PROVE  CallSound(r)'
BY DEF Typed, Grows, CallSound, Calls

(* SetUser and what runs when the user object changes. *)
LEMMA UserSet ==
  ASSUME Typed, NEW u \in Session, NEW rest \in SUBSET requests, SetUser(u, rest)
  PROVE  /\ user' = u /\ user' \in Session
         /\ mode' \in {"demo", "real"} /\ reference' \in BOOLEAN
         /\ selectedReal' \in Accounts \cup {None}
         /\ \A c \in requests' : c \in requests \/ c = CallWith("verify", u.who, None, {})
<1>1. u.who \in Users /\ u.accounts \subseteq Accounts
  BY DEF Session
<1>2. user' = u /\ user' \in Session
  BY DEF SetUser
<1>3. mode' \in {"demo", "real"} /\ reference' \in BOOLEAN
  BY DEF SetUser, VerifyOnReturn, Typed, TypeOK
<1>4. selectedReal' \in Accounts \cup {None}
  BY <1>1 DEF SetUser, Hydrated, Typed, TypeOK
<1>5. requests' = rest \cup VerifyCall(u)
  BY DEF SetUser
<1>6. \A c \in requests' : c \in requests \/ c = CallWith("verify", u.who, None, {})
  BY <1>5 DEF VerifyCall, Call
<1> QED
  BY <1>2, <1>3, <1>4, <1>6

-----------------------------------------------------------------------------

LEMMA InitOwn == Init => OwnInv
<1> SUFFICES ASSUME Init PROVE OwnInv
  OBVIOUS
<1>1. Typed
  BY AccountsGiven DEF Init, Typed, TypeOK
<1>2. Restoring /\ Owned
  BY AccountsGiven DEF Init, Restoring, Owned
<1> QED
  BY <1>1, <1>2 DEF OwnInv

(* Actions that add no call and open no account. *)
LEMMA TypedQuiet ==
  ASSUME OwnInv,
         \/ \E link, returning \in BOOLEAN : LoadPage(link, returning)
         \/ Logout \/ ToggleMode
         \/ \E a \in Accounts : SwitchAccount(a)
         \/ \E r \in requests : RestoreFails(r) \/ SignInFails(r) \/ CreateFails(r)
                                \/ LinkFails(r) \/ Unlinked(r)
  PROVE  Typed'
<1>1. ASSUME NEW link \in BOOLEAN, NEW returning \in BOOLEAN, LoadPage(link, returning) PROVE Typed'
  <2>1. TypeOK' /\ used' \in [loads: Nat, logins: Nat, links: Nat]
    BY <1>1 DEF OwnInv, Typed, TypeOK, LoadPage, Count
  <2>2. token # Nobody => token \in Users
    BY DEF OwnInv, Typed, TypeOK
  <2>3. \A r \in requests' : CallSound(r)'
    BY <1>1, <2>2, CallMade DEF LoadPage, Call
  <2> QED
    BY <2>1, <2>3 DEF Typed
<1>2. CASE Logout
  BY <1>2 DEF OwnInv, Typed, TypeOK, Logout, StoreToken, CallSound
<1>3. CASE ToggleMode
  BY <1>3 DEF OwnInv, Typed, TypeOK, ToggleMode, react, CallSound
<1>4. ASSUME NEW a \in Accounts, SwitchAccount(a) PROVE Typed'
  BY <1>4 DEF OwnInv, Typed, TypeOK, SwitchAccount, SelectReal, CallSound
<1>5. ASSUME NEW r \in requests, RestoreFails(r) PROVE Typed'
  BY <1>5 DEF OwnInv, Typed, TypeOK, RestoreFails, browser, CallSound
<1>6. ASSUME NEW r \in requests, SignInFails(r) PROVE Typed'
  BY <1>6 DEF OwnInv, Typed, TypeOK, SignInFails, browser, react, CallSound
<1>7. ASSUME NEW r \in requests, CreateFails(r) \/ LinkFails(r) PROVE Typed'
  BY <1>7 DEF OwnInv, Typed, TypeOK, CreateFails, LinkFails, browser, react, CallSound
<1>8. ASSUME NEW r \in requests, Unlinked(r) PROVE Typed'
  BY <1>8 DEF OwnInv, Typed, TypeOK, Unlinked, browser, react, CallSound
<1> QED
  BY <1>1, <1>2, <1>3, <1>4, <1>5, <1>6, <1>7, <1>8

(* Actions that only make one more call, or put one in another's place. *)
LEMMA TypedCalls ==
  ASSUME OwnInv,
         \/ \E u \in Users : SignIn(u)
         \/ RefreshBalances \/ LinkBroker \/ UnlinkBroker
         \/ \E a \in Accounts : CreateAccount(a)
         \/ \E r \in requests : GoogleOk(r) \/ Answer(r) \/ Verified(r) \/ Linked(r)
  PROVE  Typed'
<1>0. TypeOK /\ \A r \in requests : CallSound(r) /\ r.of \in Users
  BY DEF OwnInv, Typed, CallSound, Calls
<1>1. ASSUME NEW u \in Users, SignIn(u) PROVE Typed'
  <2>1. TypeOK' /\ used' \in [loads: Nat, logins: Nat, links: Nat] /\ Grows
    BY <1>1 DEF OwnInv, Typed, TypeOK, SignIn, Count, browser, react, Grows
  <2>2. \A r \in requests' : r \in requests \/ r = CallWith("google", u, None, {})
                               \/ r = CallWith("googleRef", u, None, {})
    BY <1>1 DEF SignIn, GoogleCall, Call
  <2> QED
    BY <2>1, <2>2, CallMade, CallsKept DEF OwnInv, Typed
<1>2. CASE RefreshBalances
  <2>1. TypeOK' /\ used' = used /\ Grows
    BY <1>2 DEF OwnInv, Typed, TypeOK, RefreshBalances, browser, react, Grows
  <2>2. user.token \in Users
    BY <1>0, <1>2 DEF RefreshBalances, Room, TypeOK, Session
  <2>3. PICK new : new = CallWith("me", user.token, None, {})
    OBVIOUS
  <2>4. \A r \in requests' : r \in requests \/ r = new
    BY <1>2, <2>3 DEF RefreshBalances, Call
  <2>5. CallSound(new)'
    BY <2>2, <2>3, CallMade
  <2> QED
    BY <2>1, <2>4, <2>5, CallsKept DEF OwnInv, Typed
<1>3. CASE LinkBroker
  <2>1. TypeOK' /\ used' \in [loads: Nat, logins: Nat, links: Nat] /\ Grows
    BY <1>3 DEF OwnInv, Typed, TypeOK, LinkBroker, Count, browser, react, Grows
  <2>2. token \in Users /\ BrokerOf[token] \in Accounts
    BY <1>3, AccountsGiven DEF LinkBroker, LinkOffered, Brokers
  <2>3. \A r \in requests' : r \in requests \/ r = CallWith("link", token, BrokerOf[token], {})
    BY <1>3 DEF LinkBroker, Call
  <2> QED
    BY <2>1, <2>2, <2>3, CallAsked, CallsKept DEF OwnInv, Typed
<1>4. CASE UnlinkBroker
  <2>1. TypeOK' /\ used' = used /\ Grows
    BY <1>4 DEF OwnInv, Typed, TypeOK, UnlinkBroker, browser, react, Grows
  <2>2. token \in Users
    BY <1>0, <1>4 DEF UnlinkBroker, UnlinkOffered, TypeOK
  <2>3. \A r \in requests' : r \in requests \/ r = CallWith("unlink", token, None, {})
    BY <1>4 DEF UnlinkBroker, Call
  <2> QED
    BY <2>1, <2>2, <2>3, CallMade, CallsKept DEF OwnInv, Typed
<1>5. ASSUME NEW a \in Accounts, CreateAccount(a) PROVE Typed'
  <2>1. TypeOK' /\ used' = used /\ Grows
    BY <1>5 DEF OwnInv, Typed, TypeOK, CreateAccount, browser, react, Grows
  <2>2. token \in Users
    BY <1>0, <1>5 DEF CreateAccount, Room, OwnInv, Owned, TypeOK
  <2>3. a \notin Brokers /\ aids \subseteq Accounts \ Brokers
    BY <1>0, <1>5, <2>2, AccountsGiven DEF CreateAccount, CreateOffered, TypeOK
  <2>4. \A r \in requests' : r \in requests \/ r = CallWith("create", token, a, aids)
    BY <1>5 DEF CreateAccount
  <2> QED
    BY <2>1, <2>2, <2>3, <2>4, CallAsked, CallsKept DEF OwnInv, Typed
<1>6. ASSUME NEW r \in requests, GoogleOk(r) PROVE Typed'
  <2>1. TypeOK' /\ used' = used /\ Grows
    BY <1>6 DEF OwnInv, Typed, TypeOK, GoogleOk, browser, react, Grows
  <2>2. Claims(r.of) \subseteq Accounts \ Brokers
    BY <1>0 DEF TypeOK, Claims
  <2>3. PICK new : new = CallWith("loginMe", r.of, None, Claims(r.of))
    OBVIOUS
  <2>4. \A c \in requests' : c \in requests \/ c = new
    BY <1>6, <2>3 DEF GoogleOk
  <2>5. CallSound(new)'
    BY <1>0, <2>2, <2>3, CallMade
  <2> QED
    BY <2>1, <2>4, <2>5, CallsKept DEF OwnInv, Typed
<1>7. ASSUME NEW r \in requests, Answer(r) PROVE Typed'
  <2>1. TypeOK' /\ used' = used /\ Grows
    BY <1>7 DEF OwnInv, Typed, TypeOK, Answer, browser, react, Grows
  <2>2. r \in Calls /\ Me(r.of) \subseteq Accounts
    BY <1>0 DEF CallSound, TypeOK, Me
  <2>3. PICK told \in Calls : told = [r EXCEPT !.data = Me(r.of)]
    BY <2>2 DEF Calls
  <2>4. told.kind = r.kind /\ told.of = r.of /\ told.data = opened[r.of]
    BY <2>2, <2>3 DEF Calls, Me
  <2>5. opened' = opened /\ r.kind \notin {"create", "link"}
    BY <1>7 DEF Answer
  <2>6. CallSound(told)'
    BY <2>4, <2>5 DEF CallSound
  <2>7. \A c \in requests' : c \in requests \/ c = told
    BY <1>7, <2>3 DEF Answer
  <2> QED
    BY <2>1, <2>6, <2>7, CallsKept DEF OwnInv, Typed
<1>8. ASSUME NEW r \in requests, Verified(r) PROVE Typed'
  <2>1. TypeOK' /\ used' = used /\ Grows
    BY <1>8 DEF OwnInv, Typed, TypeOK, Verified, browser, react, Grows
  <2>2. \A c \in requests' : c \in requests \/ c = CallWith("me", r.of, None, {})
    BY <1>8 DEF Verified, Call
  <2> QED
    BY <1>0, <2>1, <2>2, CallMade, CallsKept DEF OwnInv, Typed
<1>9. ASSUME NEW r \in requests, Linked(r) PROVE Typed'
  <2>1. r.acct \in Accounts \cup {None}
    BY <1>0 DEF CallSound, Calls
  <2>2. TypeOK' /\ used' = used /\ Grows
    BY <1>0, <1>9, <2>1 DEF TypeOK, Linked, SelectReal, Grows
  <2>3. \A c \in requests' : c \in requests \/ c = CallWith("me", r.of, None, {})
    BY <1>9 DEF Linked, Call
  <2> QED
    BY <1>0, <2>2, <2>3, CallMade, CallsKept DEF OwnInv, Typed
<1> QED
  BY <1>1, <1>2, <1>3, <1>4, <1>5, <1>6, <1>7, <1>8, <1>9

(* Actions that change the user, the token or the accounts. *)
LEMMA TypedAnswers ==
  ASSUME OwnInv, NEW r \in requests,
         \/ Restored(r) \/ SignedIn(r) \/ Refreshed(r) \/ Created(r) \/ CreatedAndRead(r) \/ LinkStored(r)
  PROVE  Typed'
<1>0. TypeOK /\ CallSound(r) /\ r.of \in Users /\ r.acct \in Accounts \cup {None}
      /\ r.aids \subseteq Accounts \ Brokers
  BY DEF OwnInv, Typed, CallSound, Calls
<1>1. r.data # Unread => Signed(r.of, r.data) \in Session
  BY <1>0 DEF CallSound, TypeOK, Signed, Session
<1>2. CASE Restored(r)
  <2>1. /\ user' \in Session /\ mode' \in {"demo", "real"} /\ reference' \in BOOLEAN
        /\ selectedReal' \in Accounts \cup {None}
        /\ \A c \in requests' : c \in requests \/ c = CallWith("verify", r.of, None, {})
    BY <1>1, <1>2, UserSet DEF OwnInv, Restored, Signed
  <2>2. TypeOK' /\ used' = used /\ Grows
    BY <1>0, <1>2, <2>1 DEF TypeOK, Restored, Grows
  <2> QED
    BY <1>0, <2>1, <2>2, CallMade, CallsKept DEF OwnInv, Typed
<1>3. CASE SignedIn(r)
  <2>1. PICK listed \in {r.data, {}} : SetUser(Signed(r.of, listed), requests \ {r})
    BY <1>3 DEF SignedIn
  <2>2. Signed(r.of, listed) \in Session
    BY <1>0, <1>1, <1>3 DEF Signed, Session, SignedIn
  <2>3. /\ user' \in Session /\ mode' \in {"demo", "real"} /\ reference' \in BOOLEAN
        /\ selectedReal' \in Accounts \cup {None}
        /\ \A c \in requests' : c \in requests \/ c = CallWith("verify", r.of, None, {})
    BY <2>1, <2>2, UserSet DEF OwnInv, Signed
  <2>4. TypeOK' /\ used' = used /\ Grows
    BY <1>0, <1>3, <2>3 DEF TypeOK, SignedIn, StoreToken, ClearPendingRef, Grows
  <2> QED
    BY <1>0, <2>3, <2>4, CallMade, CallsKept DEF OwnInv, Typed
<1>4. CASE Refreshed(r)
  <2>1. CASE user = Nobody
    BY <1>0, <1>4, <2>1 DEF OwnInv, Typed, TypeOK, Refreshed, CallSound
  <2>2. CASE user # Nobody
    <3> DEFINE merged == [who |-> r.of, token |-> user.token, accounts |-> r.data]
    <3>1. merged \in Session
      BY <1>0, <1>1, <1>4, <2>2 DEF TypeOK, Session, Signed, Refreshed
    <3>2. SetUser(merged, requests \ {r})
      BY <1>4, <2>2 DEF Refreshed
    <3>3. /\ user' \in Session /\ mode' \in {"demo", "real"} /\ reference' \in BOOLEAN
          /\ selectedReal' \in Accounts \cup {None}
          /\ \A c \in requests' : c \in requests \/ c = CallWith("verify", r.of, None, {})
      BY <3>1, <3>2, UserSet DEF OwnInv
    <3>4. TypeOK' /\ used' = used /\ Grows
      BY <1>0, <1>4, <2>2, <3>3 DEF TypeOK, Refreshed, Grows
    <3> QED
      BY <1>0, <3>3, <3>4, CallMade, CallsKept DEF OwnInv, Typed
  <2> QED
    BY <2>1, <2>2
<1>5. CASE Created(r)
  <2>1. r.acct \in Accounts \ Brokers
    BY <1>0, <1>5 DEF CallSound, Created
  <2>2. TypeOK' /\ used' = used /\ Grows
    BY <1>0, <1>5, <2>1 DEF TypeOK, Created, StoreToken, react, Grows
  <2>3. \A c \in requests' : c \in requests \/ c = CallWith("createdMe", r.of, r.acct, {})
    BY <1>5 DEF Created, Call
  <2> QED
    BY <1>0, <2>2, <2>3, CallMade, CallsKept DEF OwnInv, Typed
<1>6. CASE CreatedAndRead(r)
  <2>1. TypeOK' /\ used' = used /\ Grows
    BY <1>0, <1>1, <1>6 DEF TypeOK, CreatedAndRead, SelectReal, Grows
  <2>2. requests' \subseteq requests
    BY <1>6 DEF CreatedAndRead
  <2> QED
    BY <2>1, <2>2, CallsKept DEF OwnInv, Typed
<1>7. CASE LinkStored(r)
  <2>1. r.acct \in Accounts
    BY <1>0, <1>7 DEF CallSound, LinkStored
  <2>2. TypeOK' /\ used' = used /\ Grows
    BY <1>0, <1>7, <2>1 DEF TypeOK, LinkStored, browser, react, Grows
  <2>3. \A c \in requests' : c \in requests \/ c = CallWith("linked", r.of, r.acct, {})
    BY <1>7 DEF LinkStored, Call
  <2> QED
    BY <1>0, <2>2, <2>3, CallMade, CallsKept DEF OwnInv, Typed
<1> QED
  BY <1>2, <1>3, <1>4, <1>5, <1>6, <1>7

-----------------------------------------------------------------------------

LEMMA StaysIdle ==
  ASSUME Restoring, loading = FALSE, loading' = FALSE,
         \A c \in requests' : c \in requests \/ c.kind # "restore"
  PROVE  Restoring'
BY DEF Restoring

LEMMA OwnedKept ==
  ASSUME Typed, Owned, Grows, token' = token, user' = user, crossed \subseteq crossed'
  PROVE  Owned'
<1>1. user # Nobody => user.who \in Users
  BY DEF Typed, TypeOK, Session
<1>2. Uncrossed' => Uncrossed
  BY DEF Uncrossed
<1> QED
  BY <1>1, <1>2 DEF Owned, Grows

LEMMA RestoringStep == OwnInv /\ Next => Restoring'
<1> SUFFICES ASSUME OwnInv, Next PROVE Restoring'
  OBVIOUS
<1>0. Restoring /\ loading \in BOOLEAN
  BY DEF OwnInv, Typed, TypeOK
<1>1. ASSUME NEW link \in BOOLEAN, NEW returning \in BOOLEAN, LoadPage(link, returning) PROVE Restoring'
  <2>1. CASE token = Nobody
    <3>1. requests' = {} /\ loading' = FALSE
      BY <1>1, <2>1 DEF LoadPage
    <3> QED
      BY <3>1 DEF Restoring
  <2>2. CASE token # Nobody
    <3>1. PICK c : c = CallWith("restore", token, None, {})
      OBVIOUS
    <3>2. c.kind = "restore" /\ c.of = token
      BY <3>1 DEF CallWith
    <3>3. requests' = {c} /\ loading' = TRUE /\ user' = Nobody /\ token' = token
      BY <1>1, <2>2, <3>1 DEF LoadPage, Call
    <3> QED
      BY <3>2, <3>3 DEF Restoring
  <2> QED
    BY <2>1, <2>2
<1>2. ASSUME NEW u \in Users, SignIn(u) PROVE Restoring'
  <2>1. loading = FALSE /\ loading' = loading
    BY <1>0, <1>2 DEF SignIn, SignInOffered, react
  <2>2. \A c \in requests' : c \in requests \/ c.kind # "restore"
    BY <1>2 DEF SignIn, GoogleCall, Call, CallWith
  <2> QED
    BY <1>0, <2>1, <2>2, StaysIdle
<1>3. CASE Logout \/ ToggleMode
  BY <1>0, <1>3, StaysIdle DEF Logout, SignOutOffered, ToggleMode, ToggleOffered, react, Restoring
<1>4. CASE RefreshBalances \/ LinkBroker \/ UnlinkBroker
  <2>1. loading = FALSE /\ loading' = loading
    BY <1>0, <1>4 DEF Restoring, RefreshBalances, LinkBroker, UnlinkBroker, Room, react
  <2>2. \A c \in requests' : c \in requests \/ c.kind # "restore"
    BY <1>4 DEF RefreshBalances, LinkBroker, UnlinkBroker, Call, CallWith
  <2> QED
    BY <1>0, <2>1, <2>2, StaysIdle
<1>5. ASSUME NEW a \in Accounts, SwitchAccount(a) \/ CreateAccount(a) PROVE Restoring'
  <2>1. loading = FALSE /\ loading' = loading
    BY <1>0, <1>5 DEF Restoring, SwitchAccount, SwitchOffered, CreateAccount, Room, react
  <2>2. \A c \in requests' : c \in requests \/ c.kind # "restore"
    BY <1>5 DEF SwitchAccount, CreateAccount, CallWith
  <2> QED
    BY <1>0, <2>1, <2>2, StaysIdle
<1>6. ASSUME NEW r \in requests, Reply(r) PROVE Restoring'
  <2>0. CallSound(r) /\ r.of \in Users
    BY DEF OwnInv, Typed, CallSound, Calls
  <2>1. CASE Answer(r)
    <3>1. r \in Calls
      BY <2>0 DEF CallSound
    <3>2. PICK told : told = [r EXCEPT !.data = Me(r.of)]
      OBVIOUS
    <3>3. told.kind = r.kind /\ told.of = r.of
      BY <3>1, <3>2 DEF Calls
    <3>4. requests' = (requests \ {r}) \cup {told} /\ UNCHANGED <<token, user, loading>>
      BY <2>1, <3>2 DEF Answer, browser, react
    <3> QED
      BY <1>0, <3>3, <3>4 DEF Restoring
  <2>2. CASE Restored(r)
    <3>1. requests \ {r} = {} /\ loading' = FALSE
      BY <1>0, <2>2 DEF Restoring, Restored
    <3>2. \A c \in requests' : c.kind = "verify"
      BY <2>2, <3>1 DEF Restored, SetUser, VerifyCall, Call, CallWith
    <3> QED
      BY <3>1, <3>2 DEF Restoring
  <2>3. CASE RestoreFails(r)
    BY <1>0, <2>3 DEF Restoring, RestoreFails
  <2>4. CASE r.kind # "restore"
    <3>1. loading = FALSE
      BY <1>0, <2>4 DEF Restoring
    <3>2. CASE GoogleOk(r) \/ SignInFails(r) \/ Verified(r)
      <4>1. loading' = loading /\ \A c \in requests' : c \in requests \/ c.kind # "restore"
        BY <3>2 DEF GoogleOk, SignInFails, Verified, react, Call, CallWith
      <4> QED
        BY <1>0, <3>1, <4>1, StaysIdle
    <3>3. CASE SignedIn(r)
      <4>1. loading' = loading /\ \A c \in requests' : c \in requests \/ c.kind # "restore"
        BY <3>3 DEF SignedIn, SetUser, VerifyCall, Call, CallWith
      <4> QED
        BY <1>0, <3>1, <4>1, StaysIdle
    <3>4. CASE Refreshed(r)
      <4>1. loading' = loading /\ \A c \in requests' : c \in requests \/ c.kind # "restore"
        BY <3>4 DEF Refreshed, SetUser, VerifyCall, Call, CallWith
      <4> QED
        BY <1>0, <3>1, <4>1, StaysIdle
    <3>5. CASE Created(r) \/ CreateFails(r) \/ CreatedAndRead(r)
      <4>1. loading' = loading /\ \A c \in requests' : c \in requests \/ c.kind # "restore"
        BY <3>5 DEF Created, CreateFails, CreatedAndRead, react, Call, CallWith
      <4> QED
        BY <1>0, <3>1, <4>1, StaysIdle
    <3>6. CASE LinkStored(r) \/ LinkFails(r) \/ Linked(r) \/ Unlinked(r)
      <4>1. loading' = loading /\ \A c \in requests' : c \in requests \/ c.kind # "restore"
        BY <3>6 DEF LinkStored, LinkFails, Linked, Unlinked, react, Call, CallWith
      <4> QED
        BY <1>0, <3>1, <4>1, StaysIdle
    <3> QED
      BY <1>6, <2>1, <2>2, <2>3, <3>2, <3>3, <3>4, <3>5, <3>6 DEF Reply
  <2>5. r.kind = "restore" => Answer(r) \/ Restored(r) \/ RestoreFails(r)
    BY <1>6 DEF Reply, GoogleOk, GoogleCalls, SignedIn, SignInFails, Refreshed, Verified, Created, CreateFails,
                CreatedAndRead, LinkStored, LinkFails, Linked, Unlinked
  <2> QED
    BY <2>1, <2>2, <2>3, <2>4, <2>5
<1> QED
  BY <1>1, <1>2, <1>3, <1>4, <1>5, <1>6 DEF Next

LEMMA OwnedStep == OwnInv /\ Next => Owned'
<1> SUFFICES ASSUME OwnInv, Next PROVE Owned'
  OBVIOUS
<1>0. Typed /\ TypeOK /\ Restoring /\ Owned
  BY DEF OwnInv, Typed
<1>1. ASSUME NEW link \in BOOLEAN, NEW returning \in BOOLEAN, LoadPage(link, returning) PROVE Owned'
  BY <1>0, <1>1 DEF LoadPage, Owned
<1>2. ASSUME NEW u \in Users, SignIn(u) PROVE Owned'
  BY <1>0, <1>2, OwnedKept DEF SignIn, browser, react, Grows
<1>3. CASE Logout
  BY <1>0, <1>3 DEF Logout, Owned
<1>4. CASE ToggleMode \/ RefreshBalances \/ LinkBroker \/ UnlinkBroker
  BY <1>0, <1>4, OwnedKept DEF ToggleMode, RefreshBalances, LinkBroker, UnlinkBroker, browser,
      react, Grows
<1>5. ASSUME NEW a \in Accounts, SwitchAccount(a) \/ CreateAccount(a) PROVE Owned'
  BY <1>0, <1>5, OwnedKept DEF SwitchAccount, SelectReal, CreateAccount, browser, react, Grows
<1>6. ASSUME NEW r \in requests, Reply(r) PROVE Owned'
  <2>0. CallSound(r) /\ r.of \in Users /\ Nobody \notin Users
    BY AccountsGiven DEF OwnInv, Typed, CallSound, Calls
  <2>1. CASE Answer(r) \/ RestoreFails(r) \/ GoogleOk(r) \/ SignInFails(r) \/ Verified(r)
    BY <1>0, <2>1, OwnedKept
    DEF Answer, RestoreFails, GoogleOk, SignInFails, Verified, browser, react, Grows
  <2>2. CASE CreateFails(r) \/ LinkFails(r) \/ Linked(r) \/ Unlinked(r)
    BY <1>0, <2>2, OwnedKept
    DEF CreateFails, LinkFails, Linked, SelectReal, Unlinked, browser, react, Grows
  <2>3. CASE LinkStored(r)
    <3>1. Grows
      BY <1>0, <2>3 DEF TypeOK, LinkStored, Grows
    <3> QED
      BY <1>0, <2>3, <3>1, OwnedKept DEF LinkStored, browser, react
  <2>4. CASE Restored(r)
    <3>1. user' = Signed(r.of, r.data) /\ UNCHANGED <<opened, token>> /\ token = r.of
      BY <1>0, <2>4 DEF Restored, SetUser, Restoring
    <3> QED
      BY <1>0, <2>0, <2>4, <3>1 DEF Owned, Signed, CallSound, Restored
  <2>5. CASE SignedIn(r)
    <3>1. PICK listed \in {r.data, {}} : user' = Signed(r.of, listed)
      BY <2>5 DEF SignedIn, SetUser
    <3>2. token' = r.of /\ opened' = opened
      BY <2>5 DEF SignedIn, StoreToken
    <3> QED
      BY <1>0, <2>0, <2>5, <3>1, <3>2 DEF Owned, Signed, CallSound, SignedIn
  <2>6. CASE Refreshed(r)
    <3>1. CASE user = Nobody
      BY <1>0, <2>6, <3>1, OwnedKept DEF Refreshed, Grows
    <3>2. CASE user # Nobody
      <4>1. /\ user' = [who |-> r.of, token |-> user.token, accounts |-> r.data]
            /\ UNCHANGED <<opened, token>>
            /\ crossed' = IF r.of = user.who THEN crossed ELSE crossed \cup {"late_me"}
        BY <2>6, <3>2 DEF Refreshed, SetUser
      <4>2. Uncrossed' => Uncrossed /\ r.of = user.who
        BY <4>1 DEF Uncrossed
      <4> QED
        BY <1>0, <2>0, <2>6, <3>2, <4>1, <4>2 DEF Owned, CallSound, Refreshed
    <3> QED
      BY <3>1, <3>2
  <2>7. CASE Created(r)
    <3>1. Grows
      BY <1>0, <2>7 DEF TypeOK, Created, Grows
    <3>2. /\ token' = r.of /\ user' = user
          /\ crossed' = IF token = r.of THEN crossed ELSE crossed \cup {"late_token"}
      BY <2>7 DEF Created, StoreToken, react
    <3>3. Uncrossed' => token' = token /\ Uncrossed
      BY <3>2 DEF Uncrossed
    <3>4. user # Nobody => user.who \in Users
      BY <1>0 DEF TypeOK, Session
    <3> QED
      BY <1>0, <2>0, <3>1, <3>2, <3>3, <3>4 DEF Owned, Grows
  <2>8. CASE CreatedAndRead(r)
    <3>1. UNCHANGED <<opened, token>>
      BY <2>8 DEF CreatedAndRead
    <3>2. crossed' = IF user # Nobody /\ user.who # r.of THEN crossed \cup {"late_me"} ELSE crossed
      BY <2>8 DEF CreatedAndRead
    <3>3. user' = user \/ (user # Nobody /\ user' = Signed(r.of, r.data))
      BY <2>8 DEF CreatedAndRead
    <3>4. CASE user' = user
      BY <1>0, <3>1, <3>2, <3>4, OwnedKept DEF Grows
    <3>5. CASE user # Nobody /\ user' = Signed(r.of, r.data)
      <4>1. Uncrossed' => Uncrossed /\ user.who = r.of
        BY <3>2, <3>5 DEF Uncrossed
      <4> QED
        BY <1>0, <2>0, <2>8, <3>1, <3>5, <4>1 DEF Owned, Signed, CallSound, CreatedAndRead
    <3> QED
      BY <3>3, <3>4, <3>5
  <2> QED
    BY <1>6, <2>1, <2>2, <2>3, <2>4, <2>5, <2>6, <2>7, <2>8 DEF Reply
<1> QED
  BY <1>1, <1>2, <1>3, <1>4, <1>5, <1>6 DEF Next

LEMMA OwnStep == OwnInv /\ [Next]_sessionVars => OwnInv'
<1> SUFFICES ASSUME OwnInv, [Next]_sessionVars PROVE OwnInv'
  OBVIOUS
<1>1. CASE Next
  <2>1. Typed'
    BY <1>1, TypedQuiet, TypedCalls, TypedAnswers DEF Next, Reply
  <2> QED
    BY <1>1, <2>1, RestoringStep, OwnedStep DEF OwnInv
<1>2. CASE UNCHANGED sessionVars
  BY <1>2 DEF sessionVars, browser, react, OwnInv, Typed, TypeOK, CallSound, Restoring, Owned,
      Uncrossed
<1> QED
  BY <1>1, <1>2

LEMMA OwnInductive == Spec => []OwnInv
<1> QED
  BY InitOwn, OwnStep, PTL DEF Spec

-----------------------------------------------------------------------------

(* The browser's state, and what it was answered, have their types. *)
THEOREM TypeCorrect == Spec => []TypeOK
<1>1. OwnInv => TypeOK
  BY DEF OwnInv, Typed
<1> QED
  BY <1>1, OwnInductive, PTL

(* Who signs out and in, which choice was stored and which answer comes when *)
(* does not matter: the account that is traded is the token's owner's        *)
(* (page.tsx realAccountId, useAuth.ts), unless a late answer crossed users. *)
THEOREM TradesOwnAccount == Spec => []AccountIsOwn
<1>1. ASSUME OwnInv PROVE AccountIsOwn
  <2> SUFFICES ASSUME Uncrossed, user # Nobody
               PROVE  AccountId \in opened[token] \cup {DemoOf[token]} /\ token = user.who
    BY DEF AccountIsOwn, Uncrossed
  <2>1. token = user.who /\ user.accounts \subseteq opened[token] /\ Primary[token] \in opened[token]
    BY <1>1 DEF OwnInv, Typed, TypeOK, Session, Owned
  <2> QED
    BY <2>1 DEF AccountId, RealAccount
<1> QED
  BY <1>1, OwnInductive, PTL

-----------------------------------------------------------------------------
(* One link introduces one user.  A link that waits has introduced nobody   *)
(* yet, unless the sign-in it went with has still to be answered; and that  *)
(* one is the only one.                                                     *)

Calm == {"half_login", "two_logins"} \cap crossed = {}
Signing(r) == r.kind \in {"google", "googleRef", "loginMe"}

IntroInv ==
    /\ IsFiniteSet(introduced)
    /\ Calm =>
          /\ \A r, s \in requests : Signing(r) /\ Signing(s) => r = s
          /\ \A r \in requests : r.kind = "googleRef" => pendingRef = TRUE
          /\ Cardinality(introduced) <= used.loads
          /\ pendingRef /\ (\A r \in requests : r.kind # "loginMe")
                => Cardinality(introduced) + 1 <= used.loads

LEMMA IntroKept ==
  ASSUME IntroInv, introduced' = introduced, used'.loads = used.loads, pendingRef' = pendingRef,
         crossed \subseteq crossed',
         \A c \in requests : Signing(c) => c \in requests',
         \A c \in requests' : Signing(c) => c \in requests
  PROVE  IntroInv'
<1>1. Calm' => Calm
  BY DEF Calm
<1>2. (\A c \in requests' : c.kind # "loginMe") => (\A c \in requests : c.kind # "loginMe")
  BY DEF Signing
<1>3. Calm => \A c, d \in requests' : Signing(c) /\ Signing(d) => c = d
  BY DEF IntroInv
<1> QED
  BY <1>1, <1>2, <1>3 DEF IntroInv, Signing

LEMMA IntroStep == OwnInv /\ IntroInv /\ Next => IntroInv'
<1> SUFFICES ASSUME OwnInv, IntroInv, Next PROVE IntroInv'
  OBVIOUS
<1>0. used \in [loads: Nat, logins: Nat, links: Nat] /\ pendingRef \in BOOLEAN
      /\ Cardinality(introduced) \in Nat
  BY FS_CardinalityType DEF OwnInv, Typed, TypeOK, IntroInv
<1>1. ASSUME NEW link \in BOOLEAN, NEW returning \in BOOLEAN, LoadPage(link, returning) PROVE IntroInv'
  <2>1. used'.loads = used.loads + 1 /\ introduced' = introduced /\ crossed' = crossed
    BY <1>0, <1>1 DEF LoadPage, Count
  <2>2. \A c \in requests' : ~ Signing(c)
    BY <1>1 DEF LoadPage, Call, CallWith, Signing
  <2>3. Calm' => Cardinality(introduced) <= used.loads
    BY <2>1 DEF IntroInv, Calm
  <2>4. Calm' => Cardinality(introduced) + 1 <= used'.loads
    BY <1>0, <2>1, <2>3
  <2>5. Calm' => Cardinality(introduced) <= used'.loads
    BY <1>0, <2>1, <2>3
  <2>6. \A c \in requests' : c.kind # "googleRef"
    BY <2>2 DEF Signing
  <2> QED
    BY <2>1, <2>2, <2>4, <2>5, <2>6 DEF IntroInv
<1>2. ASSUME NEW u \in Users, SignIn(u) PROVE IntroInv'
  <2>1. used'.loads = used.loads /\ introduced' = introduced /\ pendingRef' = pendingRef
    BY <1>0, <1>2 DEF SignIn, Count, browser
  <2>2. Calm' => Calm /\ \A c \in requests : ~ Signing(c)
    BY <1>2 DEF SignIn, SigningIn, GoogleCalls, Signing, Calm
  <2>3. PICK new : new = GoogleCall(u)
    OBVIOUS
  <2>4. requests' = requests \cup {new} /\ new.kind = (IF pendingRef THEN "googleRef" ELSE "google")
    BY <1>2, <2>3 DEF SignIn, GoogleCall, Call, CallWith
  <2>6. Calm' => \A c \in requests' : c.kind = "googleRef" => pendingRef = TRUE
    BY <1>0, <2>2, <2>4 DEF Signing
  <2>5. Calm' => \A c, d \in requests' : Signing(c) /\ Signing(d) => c = d
    BY <2>2, <2>4
  <2> QED
    BY <1>0, <2>1, <2>2, <2>4, <2>5, <2>6 DEF IntroInv
<1>3. CASE Logout \/ ToggleMode \/ RefreshBalances \/ UnlinkBroker
  BY <1>3, IntroKept
  DEF Logout, ToggleMode, RefreshBalances, UnlinkBroker, browser, Call, CallWith, Signing
<1>4. CASE LinkBroker
  <2>1. used'.loads = used.loads
    BY <1>0, <1>4 DEF LinkBroker, Count
  <2> QED
    BY <1>4, <2>1, IntroKept DEF LinkBroker, browser, Call, CallWith, Signing
<1>5. ASSUME NEW a \in Accounts, SwitchAccount(a) \/ CreateAccount(a) PROVE IntroInv'
  BY <1>5, IntroKept DEF SwitchAccount, CreateAccount, browser, CallWith, Signing
<1>6. ASSUME NEW r \in requests, Reply(r) PROVE IntroInv'
  <2>1. CASE GoogleOk(r)
    <3>1. PICK new : new = CallWith("loginMe", r.of, None, Claims(r.of))
      OBVIOUS
    <3>2. requests' = (requests \ {r}) \cup {new} /\ new.kind = "loginMe" /\ Signing(r)
      BY <2>1, <3>1 DEF GoogleOk, GoogleCalls, Signing, CallWith
    <3>3. UNCHANGED <<crossed, used, pendingRef>>
      BY <2>1 DEF GoogleOk, browser
    <3>4. Calm => \A c \in requests \ {r} : ~ Signing(c)
      BY <3>2 DEF IntroInv, Signing
    <3>5. CASE r.kind # "googleRef"
      <4>1. introduced' = introduced
        BY <2>1, <3>5 DEF GoogleOk
      <4> QED
        BY <3>2, <3>3, <3>4, <3>5, <4>1 DEF IntroInv, Calm
    <3>6. CASE r.kind = "googleRef"
      <4>1. introduced' = introduced \cup {r.of}
        BY <2>1, <3>6 DEF GoogleOk
      <4>2. IsFiniteSet(introduced')
        BY <4>1, FS_AddElement DEF IntroInv
      <4>3. Cardinality(introduced') = Cardinality(introduced)
            \/ Cardinality(introduced') = Cardinality(introduced) + 1
        BY <4>1, FS_AddElement DEF IntroInv
      <4>4. Calm => Cardinality(introduced) + 1 <= used.loads
        BY <3>4, <3>6 DEF IntroInv, Signing
      <4>5. Calm => Cardinality(introduced') <= used.loads
        BY <1>0, <4>3, <4>4
      <4> QED
        BY <3>2, <3>3, <3>4, <4>2, <4>5 DEF IntroInv, Calm
    <3> QED
      BY <3>5, <3>6
  <2>2. CASE SignedIn(r)
    <3>1. pendingRef' = FALSE /\ UNCHANGED <<introduced, crossed, used>>
      BY <2>2 DEF SignedIn, ClearPendingRef
    <3>2. \A c \in requests' : Signing(c) => c \in requests
      BY <2>2 DEF SignedIn, SetUser, VerifyCall, Call, CallWith, Signing
    <3>3. Calm => \A c \in requests \ {r} : ~ Signing(c)
      BY <2>2 DEF IntroInv, Signing, SignedIn
    <3>4. \A c \in requests' : Signing(c) => c # r
      BY <2>2 DEF SignedIn, SetUser, VerifyCall, Call, CallWith, Signing
    <3> QED
      BY <3>1, <3>2, <3>3, <3>4 DEF IntroInv, Calm, Signing
  <2>3. CASE SignInFails(r)
    <3>1. requests' = requests \ {r} /\ UNCHANGED <<introduced, pendingRef, used>>
      BY <2>3 DEF SignInFails, browser
    <3>2. Calm' => Calm /\ r.kind # "loginMe" /\ Signing(r)
      BY <2>3 DEF SignInFails, GoogleCalls, Calm, Signing
    <3>3. Calm' => \A c \in requests : c.kind # "loginMe"
      BY <3>2 DEF IntroInv, Signing
    <3> QED
      BY <3>1, <3>2, <3>3 DEF IntroInv
  <2>4. CASE Answer(r)
    <3>1. r \in Calls
      BY DEF OwnInv, Typed, CallSound
    <3>2. PICK told : told = [r EXCEPT !.data = Me(r.of)]
      OBVIOUS
    <3>3. told.kind = r.kind
      BY <3>1, <3>2 DEF Calls
    <3>4. requests' = (requests \ {r}) \cup {told} /\ UNCHANGED <<introduced, pendingRef, crossed, used>>
      BY <2>4, <3>2 DEF Answer, browser
    <3>5. Calm => \A c, d \in requests' : Signing(c) /\ Signing(d) => c = d
      BY <3>3, <3>4 DEF IntroInv, Signing
    <3>6. (\A c \in requests' : c.kind # "loginMe") => (\A c \in requests : c.kind # "loginMe")
      BY <3>3, <3>4
    <3>7. Calm => \A c \in requests' : c.kind = "googleRef" => pendingRef = TRUE
      BY <3>3, <3>4 DEF IntroInv
    <3> QED
      BY <3>4, <3>5, <3>6, <3>7 DEF IntroInv, Calm
  <2>5. CASE Restored(r)
    BY <2>5, IntroKept DEF Restored, SetUser, VerifyCall, Call, CallWith, Signing
  <2>6. CASE Refreshed(r)
    BY <2>6, IntroKept DEF Refreshed, SetUser, VerifyCall, Call, CallWith, Signing
  <2>7. CASE Created(r) \/ CreateFails(r) \/ CreatedAndRead(r)
    BY <2>7, IntroKept DEF Created, CreateFails, CreatedAndRead, browser, Call, CallWith, Signing
  <2>8. CASE RestoreFails(r) \/ Verified(r) \/ LinkFails(r) \/ Unlinked(r)
    BY <2>8, IntroKept DEF RestoreFails, Verified, LinkFails, Unlinked, browser, Call, CallWith,
        Signing
  <2>9. CASE LinkStored(r) \/ Linked(r)
    BY <2>9, IntroKept DEF LinkStored, Linked, browser, Call, CallWith, Signing
  <2> QED
    BY <1>6, <2>1, <2>2, <2>3, <2>4, <2>5, <2>6, <2>7, <2>8, <2>9 DEF Reply
<1> QED
  BY <1>1, <1>2, <1>3, <1>4, <1>5, <1>6 DEF Next

(* A link introduces one user at most (useAuth.ts, affiliate.ts), unless a   *)
(* sign-in failed half way or two overlapped.                                *)
THEOREM IntroducesOne == Spec => []IntroducedOnce
<1>1. Init => IntroInv
  BY FS_EmptySet DEF Init, IntroInv
<1>2. OwnInv /\ IntroInv /\ [Next]_sessionVars => IntroInv'
  <2>1. CASE UNCHANGED sessionVars
    BY <2>1 DEF sessionVars, browser, react, IntroInv, Calm, Signing
  <2> QED
    BY <2>1, IntroStep
<1>3. IntroInv => IntroducedOnce
  BY DEF IntroInv, IntroducedOnce, Calm
<1> QED
  BY <1>1, <1>2, <1>3, OwnInductive, PTL DEF Spec
=============================================================================
