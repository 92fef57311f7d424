---------------------------- MODULE SessionProofs ---------------------------
(***************************************************************************)
(* Whose session it is, for every number of tabs, users and logins.        *)
(*                                                                         *)
(* The argument: what a restore joins after its await, the cached session  *)
(* and the user of its token, was one session when it was cached, and      *)
(* tokens are never issued anew; and while a restore is under way its tab  *)
(* shows neither a login page nor a logout button.                         *)
(***************************************************************************)
EXTENDS Session, TLAPS

-----------------------------------------------------------------------------
(* The inductive invariant.                                                *)

\* A session of one login, or none.
Whole(s) == s = NoSession \/ (s.token \in DOMAIN issued /\ issued[s.token] = s.user)

\* What a restore holds: the session of the token it asks about; its tab shows
\* a session meanwhile.
Restoring(t) ==
  doing[t] = "restore" =>
    /\ session[t] # NoSession
    /\ auth[t].cached # NoSession /\ Whole(auth[t].cached)
    /\ auth[t].token = auth[t].cached.token

\* What a login that succeeded holds: the token issued to its user.
LoggingIn(t) ==
  doing[t] = "login" /\ auth[t].answer = "ok" =>
    auth[t].token \in DOMAIN issued /\ issued[auth[t].token] = auth[t].user

WInv ==
  /\ TypeOK
  /\ Whole(storage)
  /\ \A t \in Tabs : Whole(session[t]) /\ Restoring(t) /\ LoggingIn(t)

-----------------------------------------------------------------------------
(* Lemmas on the operators of a step.                                      *)

USE SessionAssumption

\* No session, and no fetch, have the types; neither is a real one.
LEMMA Blanks ==
  /\ NoSession \notin UserSession
  /\ NoFetch \in Fetch
  /\ \A fetch \in Fetch : fetch.answer # "none" => fetch # NoFetch
BY DEF NoSession, UserSession, NoFetch, Fetch, Tokens

\* A fetch that is answered is a fetch, and still awaited.
LEMMA AnswerShape ==
  ASSUME NEW fetch \in Fetch, NEW answer \in {"pending", "ok", "unauthorized", "failed"}
  PROVE  /\ [fetch EXCEPT !.answer = answer] \in Fetch
         /\ [fetch EXCEPT !.answer = answer] # NoFetch
         /\ [fetch EXCEPT !.answer = answer].answer = answer
         /\ [fetch EXCEPT !.answer = answer].token = fetch.token
         /\ [fetch EXCEPT !.answer = answer].cached = fetch.cached
         /\ [fetch EXCEPT !.answer = answer].user = fetch.user
BY Blanks DEF Fetch

\* What a sequence with one more element has.
LEMMA AppendShape ==
  ASSUME NEW S, NEW seq \in Seq(S), NEW e \in S
  PROVE  /\ Append(seq, e) \in Seq(S) /\ Len(Append(seq, e)) = Len(seq) + 1 /\ Len(seq) \in Nat
         /\ \A n \in DOMAIN seq : n \in DOMAIN Append(seq, e) /\ Append(seq, e)[n] = seq[n]
         /\ Len(seq) + 1 \in DOMAIN Append(seq, e) /\ Append(seq, e)[Len(seq) + 1] = e
         /\ \A n \in DOMAIN seq : seq[n] \in S
OBVIOUS

\* Awaiting keeps the types, and other tabs as they are.
LEMMA AwaitShape ==
  ASSUME TypeOK, NEW t \in Tabs, NEW what \in {"", "restore", "login"}, NEW fetch \in Fetch,
         Await(t, what, fetch), what = "" <=> fetch = NoFetch
  PROVE  /\ doing' \in [Tabs -> {"", "restore", "login"}] /\ auth' \in [Tabs -> Fetch]
         /\ doing'[t] = what /\ auth'[t] = fetch
         /\ \A u \in Tabs \ {t} : doing'[u] = doing[u] /\ auth'[u] = auth[u]
         /\ \A u \in Tabs : loading(u)' <=> auth'[u] # NoFetch
<1>1. /\ doing' = [doing EXCEPT ![t] = what] /\ auth' = [auth EXCEPT ![t] = fetch]
      /\ doing \in [Tabs -> {"", "restore", "login"}] /\ auth \in [Tabs -> Fetch]
      /\ \A u \in Tabs : doing[u] # "" <=> auth[u] # NoFetch
  BY DEF Await, TypeOK, loading
<1>2. doing' \in [Tabs -> {"", "restore", "login"}] /\ auth' \in [Tabs -> Fetch]
  BY <1>1
<1>3. doing'[t] = what /\ auth'[t] = fetch
  BY <1>1
<1>4. \A u \in Tabs \ {t} : doing'[u] = doing[u] /\ auth'[u] = auth[u]
  BY <1>1
<1> QED
  BY <1>1, <1>2, <1>3, <1>4 DEF loading

\* Becoming a session changes the storage and one tab.
LEMMA BecomeShape ==
  ASSUME TypeOK, NEW t \in Tabs, NEW s \in UserSession \cup {NoSession}, Become(t, s)
  PROVE  /\ storage' = s /\ session'[t] = s
         /\ session' \in [Tabs -> UserSession \cup {NoSession}]
         /\ \A u \in Tabs \ {t} : session'[u] = session[u]
BY DEF Become, TypeOK

\* The initial state satisfies the invariant.
LEMMA InvInit == Init => WInv
<1> SUFFICES ASSUME Init PROVE WInv
  OBVIOUS
<1>1. issued \in Seq(Active) /\ Len(issued) <= MaxLogins /\ expired \subseteq DOMAIN issued
  <2>1. issued = <<>> /\ expired = {}
    BY DEF Init
  <2>2. <<>> \in Seq(Active) /\ Len(<<>>) = 0
    OBVIOUS
  <2> QED
    BY <2>1, <2>2
<1>2. /\ storage \in UserSession \cup {NoSession}
      /\ session \in [Tabs -> UserSession \cup {NoSession}]
  BY DEF Init
<1>3. /\ doing \in [Tabs -> {"", "restore", "login"}]
      /\ auth \in [Tabs -> Fetch] /\ api \in [Tabs -> Fetch]
      /\ \A t \in Tabs : loading(t) <=> auth[t] # NoFetch
  <2>1. \A t \in Tabs : doing[t] = "" /\ auth[t] = NoFetch
    BY DEF Init
  <2> QED
    BY <2>1, Blanks DEF Init, loading
<1>4. opens \in 0..MaxOpens
  <2>1. opens = 0
    BY DEF Init
  <2> QED
    BY <2>1
<1>5. TypeOK
  BY <1>1, <1>2, <1>3, <1>4 DEF TypeOK
<1>6. Whole(storage) /\ \A t \in Tabs : Whole(session[t]) /\ Restoring(t) /\ LoggingIn(t)
  BY DEF Init, Whole, Restoring, LoggingIn
<1> QED
  BY <1>5, <1>6 DEF WInv

-----------------------------------------------------------------------------
(* Every step keeps the invariant.                                         *)

\* So does answering a fetch that a tab awaits.
LEMMA AnsweredKeeps ==
  ASSUME WInv, NEW t \in Tabs, doing[t] # "",
         NEW answer \in {"ok", "unauthorized", "failed"},
         doing[t] = "restore" \/ answer # "ok",
         auth' = [auth EXCEPT ![t].answer = answer],
         UNCHANGED <<issued, expired, browser, opens>>
  PROVE  WInv'
<1> /\ TypeOK /\ auth[t] \in Fetch
    /\ UNCHANGED <<issued, expired, storage, session, doing, api, opens>>
  BY DEF WInv, TypeOK, browser
<1> DEFINE fetch == [auth[t] EXCEPT !.answer = answer]
<1>1. /\ fetch \in Fetch /\ fetch # NoFetch /\ fetch.answer = answer
      /\ fetch.token = auth[t].token /\ fetch.cached = auth[t].cached
  <2>1. answer \in {"pending", "ok", "unauthorized", "failed"}
    OBVIOUS
  <2> QED
    BY <2>1, AnswerShape
<1>2. /\ auth' \in [Tabs -> Fetch] /\ auth'[t] = fetch
      /\ \A u \in Tabs \ {t} : auth'[u] = auth[u]
  BY <1>1 DEF TypeOK
<1> HIDE DEF fetch
<1>3. \A u \in Tabs : loading(u)' <=> auth'[u] # NoFetch
  BY <1>1, <1>2 DEF TypeOK, loading
<1>4. TypeOK'
  BY <1>2, <1>3 DEF TypeOK
<1>5. ASSUME NEW u \in Tabs PROVE Whole(session[u])' /\ Restoring(u)' /\ LoggingIn(u)'
  <2>1. Whole(session[u]) /\ Restoring(u) /\ LoggingIn(u)
    BY DEF WInv
  <2>2. CASE u = t
    BY <1>1, <1>2, <2>1, <2>2 DEF Whole, Restoring, LoggingIn
  <2>3. CASE u # t
    BY <1>2, <2>1, <2>3 DEF Whole, Restoring, LoggingIn
  <2> QED
    BY <2>2, <2>3
<1>6. Whole(storage)'
  BY DEF WInv, Whole
<1> QED
  BY <1>4, <1>5, <1>6 DEF WInv

\* So does issuing a token.
LEMMA IssuedKeeps ==
  ASSUME WInv, NEW t \in Tabs, doing[t] = "login",
         auth[t].user \in Active, Len(issued) < MaxLogins,
         issued' = Append(issued, auth[t].user),
         auth' = [auth EXCEPT ![t].answer = "ok", ![t].token = Len(issued) + 1],
         UNCHANGED <<expired, browser, opens>>
  PROVE  WInv'
<1> /\ TypeOK /\ auth[t] \in Fetch
    /\ UNCHANGED <<expired, storage, session, doing, api, opens>>
  BY DEF WInv, TypeOK, browser
<1> DEFINE fetch == [auth[t] EXCEPT !.answer = "ok", !.token = Len(issued) + 1]
<1>1. /\ issued' \in Seq(Active) /\ Len(issued') = Len(issued) + 1 /\ Len(issued) \in Nat
      /\ \A n \in DOMAIN issued : n \in DOMAIN issued' /\ issued'[n] = issued[n]
      /\ Len(issued) + 1 \in DOMAIN issued' /\ issued'[Len(issued) + 1] = auth[t].user
  <2>1. issued \in Seq(Active)
    BY DEF TypeOK
  <2> QED
    BY <2>1, AppendShape
<1>2. Len(issued') <= MaxLogins /\ Len(issued) + 1 \in Tokens
  BY <1>1 DEF Tokens
<1>3. expired \subseteq DOMAIN issued'
  BY <1>1 DEF TypeOK
<1>4. /\ fetch \in Fetch /\ fetch.answer = "ok"
      /\ fetch.token = Len(issued) + 1 /\ fetch.user = auth[t].user
  BY <1>2 DEF Fetch
<1>5. fetch # NoFetch
  BY <1>4, Blanks
<1>6. /\ auth' \in [Tabs -> Fetch] /\ auth'[t] = fetch
      /\ \A u \in Tabs \ {t} : auth'[u] = auth[u]
  BY <1>4 DEF TypeOK
<1> HIDE DEF fetch
<1>7. \A u \in Tabs : loading(u)' <=> auth'[u] # NoFetch
  BY <1>5, <1>6 DEF TypeOK, loading
<1>8. TypeOK'
  BY <1>1, <1>2, <1>3, <1>6, <1>7 DEF TypeOK
<1>9. ASSUME NEW u \in Tabs PROVE Whole(session[u])' /\ Restoring(u)' /\ LoggingIn(u)'
  <2>1. Whole(session[u]) /\ Restoring(u) /\ LoggingIn(u)
    BY DEF WInv
  <2>2. CASE u = t
    BY <1>1, <1>4, <1>6, <2>1, <2>2 DEF Whole, Restoring, LoggingIn
  <2>3. CASE u # t
    BY <1>1, <1>6, <2>1, <2>3 DEF Whole, Restoring, LoggingIn
  <2> QED
    BY <2>2, <2>3
<1>10. Whole(storage)'
  BY <1>1 DEF WInv, Whole
<1> QED
  BY <1>8, <1>9, <1>10 DEF WInv

\* So does a tab that becomes a whole session, or none, and awaits nothing.
LEMMA BecomingKeeps ==
  ASSUME WInv, NEW t \in Tabs, NEW s \in UserSession \cup {NoSession}, Whole(s),
         Become(t, s), Done(t), UNCHANGED <<issued, expired, api, opens>>
  PROVE  WInv'
<1> TypeOK
  BY DEF WInv
<1>1. /\ storage' = s /\ session'[t] = s
      /\ session' \in [Tabs -> UserSession \cup {NoSession}]
      /\ \A u \in Tabs \ {t} : session'[u] = session[u]
  BY BecomeShape
<1>2. /\ doing' \in [Tabs -> {"", "restore", "login"}] /\ auth' \in [Tabs -> Fetch]
      /\ doing'[t] = "" /\ auth'[t] = NoFetch
      /\ \A u \in Tabs \ {t} : doing'[u] = doing[u] /\ auth'[u] = auth[u]
      /\ \A u \in Tabs : loading(u)' <=> auth'[u] # NoFetch
  BY AwaitShape, Blanks DEF Done
<1>3. TypeOK'
  BY <1>1, <1>2 DEF TypeOK
<1>4. ASSUME NEW u \in Tabs PROVE Whole(session[u])' /\ Restoring(u)' /\ LoggingIn(u)'
  <2>1. Whole(session[u]) /\ Restoring(u) /\ LoggingIn(u)
    BY DEF WInv
  <2>2. CASE u = t
    BY <1>1, <1>2, <2>1, <2>2 DEF Whole, Restoring, LoggingIn
  <2>3. CASE u # t
    BY <1>1, <1>2, <2>1, <2>3 DEF Whole, Restoring, LoggingIn
  <2> QED
    BY <2>2, <2>3
<1>5. Whole(storage)'
  BY <1>1 DEF Whole
<1> QED
  BY <1>3, <1>4, <1>5 DEF WInv

\* So does clearing the storage, or leaving it as it is, and awaiting nothing.
LEMMA ClearingKeeps ==
  ASSUME WInv, NEW t \in Tabs, storage' \in {storage, NoSession}, Done(t),
         UNCHANGED <<issued, expired, session, api, opens>>
  PROVE  WInv'
<1> TypeOK
  BY DEF WInv
<1>1. /\ doing' \in [Tabs -> {"", "restore", "login"}] /\ auth' \in [Tabs -> Fetch]
      /\ doing'[t] = "" /\ auth'[t] = NoFetch
      /\ \A u \in Tabs \ {t} : doing'[u] = doing[u] /\ auth'[u] = auth[u]
      /\ \A u \in Tabs : loading(u)' <=> auth'[u] # NoFetch
  BY AwaitShape, Blanks DEF Done
<1>2. TypeOK'
  BY <1>1 DEF TypeOK
<1>3. ASSUME NEW u \in Tabs PROVE Whole(session[u])' /\ Restoring(u)' /\ LoggingIn(u)'
  <2>1. Whole(session[u]) /\ Restoring(u) /\ LoggingIn(u)
    BY DEF WInv
  <2>2. CASE u = t
    BY <1>1, <2>1, <2>2 DEF Whole, Restoring, LoggingIn
  <2>3. CASE u # t
    BY <1>1, <2>1, <2>3 DEF Whole, Restoring, LoggingIn
  <2> QED
    BY <2>2, <2>3
<1>4. Whole(storage)'
  BY DEF WInv, Whole
<1> QED
  BY <1>2, <1>3, <1>4 DEF WInv

\* What a restore joins is one session.
LEMMA RestoredWhole ==
  ASSUME WInv, NEW t \in Tabs, doing[t] = "restore"
  PROVE  LET joined == [auth[t].cached EXCEPT !.user = issued[auth[t].token]]
         IN  joined \in UserSession /\ Whole(joined)
<1> DEFINE cached == auth[t].cached
<1>1. TypeOK /\ Restoring(t)
  BY DEF WInv
<1>2. cached \in UserSession /\ auth[t].token = cached.token
  BY <1>1 DEF TypeOK, Fetch, Restoring
<1>3. cached.token \in DOMAIN issued
  BY <1>1 DEF Restoring, Whole
<1>4. issued[cached.token] \in Users
  <2>1. issued \in Seq(Active)
    BY <1>1 DEF TypeOK
  <2>2. issued[cached.token] \in Active
    BY <2>1, <1>3, AppendShape
  <2> QED
    BY <2>2
<1> HIDE DEF cached
<1>5. /\ [cached EXCEPT !.user = issued[cached.token]] \in UserSession
      /\ [cached EXCEPT !.user = issued[cached.token]].token = cached.token
      /\ [cached EXCEPT !.user = issued[cached.token]].user = issued[cached.token]
  BY <1>2, <1>4 DEF UserSession
<1> QED
  BY <1>2, <1>3, <1>5 DEF Whole, cached

\* So does sending a fetch for the session or a login.
LEMMA AwaitingKeeps ==
  ASSUME WInv, NEW t \in Tabs, NEW what \in {"restore", "login"}, NEW fetch \in Fetch,
         Await(t, what, fetch), fetch.answer = "pending",
         what = "restore" => /\ storage # NoSession /\ session'[t] = storage
                             /\ fetch.cached = storage /\ fetch.token = storage.token,
         session' \in [Tabs -> UserSession \cup {NoSession}],
         \A u \in Tabs : session'[u] \in {session[u], storage},
         \A u \in Tabs \ {t} : session'[u] = session[u],
         api' \in [Tabs -> Fetch], opens' \in 0..MaxOpens,
         UNCHANGED <<issued, expired, storage>>
  PROVE  WInv'
<1> TypeOK
  BY DEF WInv
<1>1. fetch # NoFetch
  BY Blanks
<1>2. /\ doing' \in [Tabs -> {"", "restore", "login"}] /\ auth' \in [Tabs -> Fetch]
      /\ doing'[t] = what /\ auth'[t] = fetch
      /\ \A u \in Tabs \ {t} : doing'[u] = doing[u] /\ auth'[u] = auth[u]
      /\ \A u \in Tabs : loading(u)' <=> auth'[u] # NoFetch
  BY <1>1, AwaitShape
<1>3. TypeOK'
  BY <1>2 DEF TypeOK
<1>4. Whole(storage) /\ Whole(storage)'
  BY DEF WInv, Whole
<1>5. ASSUME NEW u \in Tabs PROVE Whole(session[u])' /\ Restoring(u)' /\ LoggingIn(u)'
  <2>1. Whole(session[u]) /\ Restoring(u) /\ LoggingIn(u)
    BY DEF WInv
  <2>2. Whole(session[u])'
    BY <1>4, <2>1 DEF Whole
  <2>3. CASE u = t
    BY <1>2, <1>4, <2>2, <2>3 DEF Whole, Restoring, LoggingIn
  <2>4. CASE u # t
    BY <1>2, <2>1, <2>2, <2>4 DEF Whole, Restoring, LoggingIn
  <2> QED
    BY <2>3, <2>4
<1> QED
  BY <1>3, <1>4, <1>5 DEF WInv

\* So does opening a tab.
LEMMA OpenKeeps ==
  ASSUME WInv, NEW t \in Tabs, Open(t)
  PROVE  WInv'
<1> TypeOK
  BY DEF WInv
<1>1. /\ opens' \in 0..MaxOpens
      /\ session' = [session EXCEPT ![t] = storage]
      /\ api' = [api EXCEPT ![t] = NoFetch]
      /\ UNCHANGED <<issued, expired, storage>>
  <2>1. /\ opens < MaxOpens /\ opens' = opens + 1
        /\ session' = [session EXCEPT ![t] = storage]
        /\ api' = [api EXCEPT ![t] = NoFetch]
        /\ UNCHANGED <<issued, expired, storage>>
    BY DEF Open
  <2>2. opens \in 0..MaxOpens /\ MaxOpens \in Nat
    BY SessionAssumption DEF TypeOK
  <2>3. opens' \in 0..MaxOpens
    BY <2>1, <2>2
  <2> QED
    BY <2>1, <2>3
<1>2. /\ session' \in [Tabs -> UserSession \cup {NoSession}]
      /\ session'[t] = storage
      /\ \A u \in Tabs \ {t} : session'[u] = session[u]
      /\ api' \in [Tabs -> Fetch]
  BY <1>1, Blanks DEF TypeOK
<1>3. CASE storage = NoSession
  <2>1. /\ doing' \in [Tabs -> {"", "restore", "login"}] /\ auth' \in [Tabs -> Fetch]
        /\ doing'[t] = "" /\ auth'[t] = NoFetch
        /\ \A u \in Tabs \ {t} : doing'[u] = doing[u] /\ auth'[u] = auth[u]
        /\ \A u \in Tabs : loading(u)' <=> auth'[u] # NoFetch
    BY <1>3, AwaitShape, Blanks DEF Open, Done
  <2>2. TypeOK'
    BY <1>1, <1>2, <2>1 DEF TypeOK
  <2>3. ASSUME NEW u \in Tabs PROVE Whole(session[u])' /\ Restoring(u)' /\ LoggingIn(u)'
    <3>1. Whole(session[u]) /\ Restoring(u) /\ LoggingIn(u)
      BY DEF WInv
    <3>2. CASE u = t
      BY <1>1, <1>2, <1>3, <2>1, <3>2 DEF Whole, Restoring, LoggingIn
    <3>3. CASE u # t
      BY <1>1, <1>2, <2>1, <3>1, <3>3 DEF Whole, Restoring, LoggingIn
    <3> QED
      BY <3>2, <3>3
  <2>4. Whole(storage)'
    BY <1>1 DEF WInv, Whole
  <2> QED
    BY <2>2, <2>3, <2>4 DEF WInv
<1>4. CASE storage # NoSession
  <2> DEFINE fetch == [NoFetch EXCEPT !.token = storage.token, !.cached = storage,
                                      !.answer = "pending"]
  <2>1. storage \in UserSession
    BY <1>4 DEF TypeOK
  <2>2. storage.token \in Tokens
    BY <2>1 DEF UserSession
  <2>3. /\ fetch \in Fetch /\ fetch.answer = "pending"
        /\ fetch.token = storage.token /\ fetch.cached = storage
    BY <2>1, <2>2 DEF NoFetch, Fetch
  <2>4. Await(t, "restore", fetch)
    BY <1>4 DEF Open
  <2> HIDE DEF fetch
  <2> QED
    BY <1>1, <1>2, <1>4, <2>3, <2>4, AwaitingKeeps
<1> QED
  BY <1>3, <1>4

\* So does submitting a login.
LEMMA SubmitKeeps ==
  ASSUME WInv, NEW t \in Tabs, NEW user \in Users, Submit(t, user)
  PROVE  WInv'
<1> TypeOK
  BY DEF WInv
<1> DEFINE fetch == [NoFetch EXCEPT !.user = user, !.answer = "pending"]
<1>1. fetch \in Fetch /\ fetch.answer = "pending"
  BY DEF NoFetch, Fetch
<1>2. Await(t, "login", fetch) /\ UNCHANGED <<issued, expired, storage, session, api, opens>>
  BY DEF Submit
<1> HIDE DEF fetch
<1>3. /\ session' \in [Tabs -> UserSession \cup {NoSession}] /\ session' = session
      /\ api' \in [Tabs -> Fetch] /\ opens' \in 0..MaxOpens
  BY <1>2 DEF TypeOK
<1> QED
  BY <1>1, <1>2, <1>3, AwaitingKeeps

\* So does what only touches the pages' fetches, the expired tokens, or sessions
\* that are given up.
LEMMA OthersKeep ==
  ASSUME WInv, UNCHANGED <<issued, doing, auth, opens>>,
         expired' \subseteq DOMAIN issued, api' \in [Tabs -> Fetch],
         storage' \in {storage, NoSession},
         session' \in [Tabs -> UserSession \cup {NoSession}],
         \A u \in Tabs : session'[u] = session[u] \/ (doing[u] = "" /\ session'[u] = NoSession)
  PROVE  WInv'
<1>1. TypeOK'
  BY DEF WInv, TypeOK, loading
<1>2. Whole(storage)'
  BY DEF WInv, Whole
<1>3. ASSUME NEW u \in Tabs PROVE Whole(session[u])' /\ Restoring(u)' /\ LoggingIn(u)'
  BY DEF WInv, Whole, Restoring, LoggingIn
<1> QED
  BY <1>1, <1>2, <1>3 DEF WInv

\* Every step keeps the invariant.
LEMMA InvStep == WInv /\ [Next]_vars => WInv'
<1> SUFFICES ASSUME WInv, [Next]_vars PROVE WInv'
  OBVIOUS
<1> TypeOK
  BY DEF WInv
<1>1. ASSUME NEW t \in Tabs, ServeSession(t) PROVE WInv'
  <2>1. PICK answer \in Authenticate(auth[t].token) : auth' = [auth EXCEPT ![t].answer = answer]
    BY <1>1 DEF ServeSession
  <2>2. answer \in {"ok", "unauthorized", "failed"}
    BY DEF Authenticate
  <2> QED
    BY <1>1, <2>1, <2>2, AnsweredKeeps DEF ServeSession
<1>2. ASSUME NEW t \in Tabs, Login(t) PROVE WInv'
  <2>1. CASE /\ auth[t].user \in Active /\ Len(issued) < MaxLogins
             /\ issued' = Append(issued, auth[t].user)
             /\ auth' = [auth EXCEPT ![t].answer = "ok", ![t].token = Len(issued) + 1]
    BY <1>2, <2>1, IssuedKeeps DEF Login
  <2>2. ASSUME NEW answer \in {"unauthorized", "failed"},
               auth' = [auth EXCEPT ![t].answer = answer], UNCHANGED issued
        PROVE  WInv'
    <3>1. answer \in {"ok", "unauthorized", "failed"} /\ answer # "ok" /\ doing[t] # ""
      BY <1>2 DEF Login
    <3>2. UNCHANGED <<issued, expired, browser, opens>>
      BY <1>2, <2>2 DEF Login
    <3> QED
      BY <2>2, <3>1, <3>2, AnsweredKeeps
  <2> QED
    BY <1>2, <2>1, <2>2 DEF Login
<1>3. ASSUME NEW t \in Tabs, Restored(t) PROVE WInv'
  <2> DEFINE joined == [auth[t].cached EXCEPT !.user = issued[auth[t].token]]
  <2>1. joined \in UserSession /\ Whole(joined)
    BY <1>3, RestoredWhole DEF Restored
  <2>2. Whole(NoSession)
    BY DEF Whole
  <2>3. /\ Become(t, joined) \/ Become(t, NoSession)
        /\ Done(t) /\ UNCHANGED <<issued, expired, api, opens>>
    BY <1>3 DEF Restored
  <2> HIDE DEF joined
  <2> QED
    BY <2>1, <2>2, <2>3, BecomingKeeps
<1>4. ASSUME NEW t \in Tabs, LoggedIn(t) PROVE WInv'
  <2>1. CASE auth[t].answer = "ok"
    <3> DEFINE s == [token |-> auth[t].token, user |-> auth[t].user]
    <3>1. auth[t].token \in DOMAIN issued /\ issued[auth[t].token] = auth[t].user
      BY <1>4, <2>1 DEF LoggedIn, WInv, LoggingIn
    <3>2. issued \in Seq(Active) /\ Len(issued) <= MaxLogins
      BY DEF TypeOK
    <3>3. auth[t].token \in Tokens /\ auth[t].user \in Users
      <4>1. Len(issued) \in Nat /\ auth[t].token \in 1..Len(issued)
        BY <3>1, <3>2
      <4>2. auth[t].token \in Tokens
        BY <3>2, <4>1 DEF Tokens
      <4>3. issued[auth[t].token] \in Active
        BY <3>1, <3>2, AppendShape
      <4> QED
        BY <3>1, <4>2, <4>3
    <3>4. s \in UserSession /\ Whole(s)
      BY <3>1, <3>3 DEF UserSession, Whole
    <3>5. Become(t, s) /\ Done(t) /\ UNCHANGED <<issued, expired, api, opens>>
      BY <1>4, <2>1 DEF LoggedIn
    <3> HIDE DEF s
    <3> QED
      BY <3>4, <3>5, BecomingKeeps
  <2>2. CASE auth[t].answer # "ok"
    <3>1. storage' \in {storage, NoSession} /\ UNCHANGED session
      BY <1>4, <2>2 DEF LoggedIn
    <3> QED
      BY <1>4, <3>1, ClearingKeeps DEF LoggedIn
  <2> QED
    BY <2>1, <2>2
<1>5. ASSUME NEW t \in Tabs, Logout(t) PROVE WInv'
  <2>1. doing[t] = "" /\ storage' = NoSession /\ session' = [session EXCEPT ![t] = NoSession]
    BY <1>5 DEF Logout, PagesShown, loading, Become
  <2>2. /\ session' \in [Tabs -> UserSession \cup {NoSession}]
        /\ \A u \in Tabs : session'[u] = session[u] \/ (doing[u] = "" /\ session'[u] = NoSession)
    BY <2>1 DEF TypeOK
  <2>3. expired' \subseteq DOMAIN issued /\ api' \in [Tabs -> Fetch]
    BY <1>5 DEF Logout, TypeOK
  <2>4. UNCHANGED <<issued, doing, auth, opens>>
    BY <1>5 DEF Logout
  <2> QED
    BY <2>1, <2>2, <2>3, <2>4, OthersKeep
<1>6. ASSUME NEW t \in Tabs, Request(t) \/ Serve(t) \/ Requested(t) PROVE WInv'
  <2>1. storage.token \in Tokens \cup {0}
    <3>1. storage \in UserSession \cup {NoSession}
      BY DEF TypeOK
    <3>2. CASE storage \in UserSession
      BY <3>2 DEF UserSession
    <3>3. CASE storage = NoSession
      BY <3>3 DEF NoSession
    <3> QED
      BY <3>1, <3>2, <3>3
  <2>2. Request(t) => api' \in [Tabs -> Fetch]
    <3>1. [NoFetch EXCEPT !.token = storage.token, !.answer = "pending"] \in Fetch
      BY <2>1 DEF NoFetch, Fetch
    <3> QED
      BY <3>1 DEF Request, TypeOK
  <2>3. Serve(t) => api' \in [Tabs -> Fetch]
    <3>1. api[t] \in Fetch
      BY DEF TypeOK
    <3>2. \A answer \in {"ok", "unauthorized", "failed"} : [api[t] EXCEPT !.answer = answer] \in Fetch
      BY <3>1 DEF Fetch
    <3>3. Serve(t) => \E answer \in {"ok", "unauthorized", "failed"} :
                        api' = [api EXCEPT ![t].answer = answer]
      BY DEF Serve, Authenticate
    <3> QED
      BY <3>2, <3>3 DEF TypeOK
  <2>4. Requested(t) => api' \in [Tabs -> Fetch]
    BY Blanks DEF Requested, TypeOK
  <2>5. storage' \in {storage, NoSession}
    BY <1>6 DEF Request, Serve, Requested
  <2>6. UNCHANGED <<issued, expired, session, doing, auth, opens>>
    BY <1>6 DEF Request, Serve, Requested
  <2>7. /\ expired' \subseteq DOMAIN issued
        /\ session' \in [Tabs -> UserSession \cup {NoSession}]
    BY <2>6 DEF TypeOK
  <2> QED
    BY <1>6, <2>2, <2>3, <2>4, <2>5, <2>6, <2>7, OthersKeep
<1>7. ASSUME NEW token \in Tokens, Expire(token) PROVE WInv'
  <2>1. /\ UNCHANGED <<issued, storage, session, doing, auth, api, opens>>
        /\ expired' \subseteq DOMAIN issued
    BY <1>7 DEF Expire, browser, TypeOK
  <2>2. api' \in [Tabs -> Fetch] /\ session' \in [Tabs -> UserSession \cup {NoSession}]
    BY <2>1 DEF TypeOK
  <2> QED
    BY <2>1, <2>2, OthersKeep
<1>8. CASE UNCHANGED vars
  <2>1. UNCHANGED <<issued, expired, storage, session, doing, auth, api, opens>>
    BY <1>8 DEF vars
  <2>2. /\ expired' \subseteq DOMAIN issued /\ api' \in [Tabs -> Fetch]
        /\ session' \in [Tabs -> UserSession \cup {NoSession}]
    BY <2>1 DEF TypeOK
  <2> QED
    BY <2>1, <2>2, OthersKeep
<1> QED
  BY <1>1, <1>2, <1>3, <1>4, <1>5, <1>6, <1>7, <1>8, OpenKeeps, SubmitKeeps DEF Next, AuthStep

-----------------------------------------------------------------------------
(* The theorems.                                                           *)

\* What a restore or a login holds is always one session.
THEOREM OneSession == Spec => []WInv
BY InvInit, InvStep, PTL DEF Spec

\* The signals, the stored session and the fetches keep their types, and tokens
\* are issued to active users only.
THEOREM TypeCorrect == Spec => []TypeOK
<1>1. WInv => TypeOK
  BY DEF WInv
<1> QED
  BY <1>1, OneSession, PTL

\* A session shows the user its token was issued to, in whatever tab.
THEOREM WholeSessions == Spec => []SessionsAreWhole
<1>1. WInv => SessionsAreWhole
  BY DEF WInv, SessionsAreWhole, Whole
<1> QED
  BY <1>1, OneSession, PTL

\* No restore brings back what its tab logged out.
THEOREM LogoutLasts == Spec => StaysLoggedOut
<1>1. ASSUME WInv, Next, NEW t \in Tabs, session[t] = NoSession, session'[t] # NoSession
      PROVE  (doing[t] = "login" /\ doing'[t] = "") \/ opens' # opens
  <2> TypeOK
    BY <1>1 DEF WInv
  <2> doing[t] # "restore"
    BY <1>1 DEF WInv, Restoring
  <2>1. ASSUME NEW u \in Tabs, NEW s, Become(u, s) PROVE s # NoSession /\ u = t
    BY <1>1, <2>1 DEF Become, TypeOK
  <2>2. ASSUME NEW u \in Tabs, Done(u) PROVE doing'[u] = ""
    BY <2>2 DEF Done, Await, TypeOK
  <2>3. ASSUME NEW u \in Tabs, Restored(u) PROVE FALSE
    BY <2>1, <2>3 DEF Restored
  <2>4. ASSUME NEW u \in Tabs, LoggedIn(u) PROVE doing[t] = "login" /\ doing'[t] = ""
    BY <1>1, <2>1, <2>2, <2>4 DEF LoggedIn
  <2>5. ASSUME NEW u \in Tabs, Logout(u) PROVE FALSE
    BY <2>1, <2>5 DEF Logout
  <2>6. ASSUME NEW u \in Tabs, Open(u) PROVE opens' # opens
    <3>1. opens \in 0..MaxOpens
      BY DEF TypeOK
    <3>2. opens \in Nat
      BY <3>1, SessionAssumption
    <3>3. opens' = opens + 1
      BY <2>6 DEF Open
    <3> QED
      BY <3>2, <3>3
  <2>7. session' # session
    BY <1>1
  <2> QED
    BY <1>1, <2>3, <2>4, <2>5, <2>6, <2>7
       DEF Next, AuthStep, ServeSession, Login, Request, Serve, Requested, Submit, Expire, browser
<1>2. WInv /\ [Next]_vars =>
        [\A t \in Tabs :
           session[t] = NoSession /\ session'[t] # NoSession =>
             \/ doing[t] = "login" /\ doing'[t] = ""
             \/ opens' # opens]_vars
  BY <1>1
<1> QED
  BY <1>2, OneSession, PTL DEF Spec, StaysLoggedOut
=============================================================================
