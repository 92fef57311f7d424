------------------------------- MODULE Session ------------------------------
(***************************************************************************)
(* Who a browser is: Login and Authenticate of the backend, and the front  *)
(* end's AuthService (hooks/use-auth.ts) over api/client.ts.  A session is *)
(* kept twice: in localStorage, which all tabs of the browser share and    *)
(* from which each request takes its token; and in a signal of each tab,   *)
(* which the guards, the navigation and the buttons look at.               *)
(*                                                                         *)
(* An action is what runs between two awaits.                              *)
(***************************************************************************)
EXTENDS Naturals, Sequences

CONSTANTS
  Users, Nobody,
  Active,     \* the users that may log in
  Tabs,       \* the tabs of one browser
  MaxLogins,  \* bound on the logins
  MaxOpens    \* bound on how often a tab is opened or reloaded

ASSUME SessionAssumption ==
  Nobody \notin Users /\ Active \subseteq Users /\ MaxLogins \in Nat /\ MaxOpens \in Nat

Tokens == 1..MaxLogins

\* UserSession: a token, and the username, display name and role shown.
UserSession == [token : Tokens, user : Users]
NoSession == [token |-> 0, user |-> Nobody]

\* A fetch: the token in its header, or issued by its response; the session or the
\* user that the code awaiting it holds; and the response.
Fetch == [token : Tokens \cup {0}, cached : UserSession \cup {NoSession},
          user : Users \cup {Nobody},
          answer : {"none", "pending", "ok", "unauthorized", "failed"}]
NoFetch == [token |-> 0, cached |-> NoSession, user |-> Nobody, answer |-> "none"]

VARIABLES
  issued,   \* issued[n]: the user token n was issued to
  expired,  \* the tokens past their exp claim
  storage,  \* the session in localStorage
  session,  \* session[t]: the session signal of tab t
  doing,    \* doing[t]: what AuthService awaits, "restore" or "login"; or ""
  auth,     \* auth[t]: the fetch it awaits
  api,      \* api[t]: the fetch a page of t awaits
  opens

browser == <<storage, session, doing, api>>
vars == <<issued, expired, storage, session, doing, auth, api, opens>>

Init ==
  /\ issued = <<>> /\ expired = {}
  /\ storage = NoSession
  /\ session = [t \in Tabs |-> NoSession]
  /\ doing = [t \in Tabs |-> ""]
  /\ auth = [t \in Tabs |-> NoFetch] /\ api = [t \in Tabs |-> NoFetch]
  /\ opens = 0

\* The signals: while `loading' is set nothing else is on the screen; the login
\* page is there for who is not authenticated, the others for who is.
loading(t) == doing[t] # ""
authenticated(t) == session[t].token # 0
LoginShown(t) == ~loading(t) /\ ~authenticated(t)
PagesShown(t) == ~loading(t) /\ authenticated(t)

Await(t, what, fetch) ==
  /\ doing' = [doing EXCEPT ![t] = what]
  /\ auth' = [auth EXCEPT ![t] = fetch]

\* Mutant: `loading' is reset alone.
DoneKeeping(t) == doing' = [doing EXCEPT ![t] = ""] /\ UNCHANGED auth

Done(t) == Await(t, "", NoFetch)

(***************************************************************************)
(* The backend.                                                            *)
(***************************************************************************)
\* Authenticate lets a token pass that the backend issued and that has not
\* expired; a request may also be limited, or fail on its way.
Authenticate(token) ==
  {"failed", IF token \in DOMAIN issued /\ token \notin expired THEN "ok" ELSE "unauthorized"}

\* The handlers of a session, a login and any other endpoint.
ServeSession(t) ==
  /\ doing[t] = "restore" /\ auth[t].answer = "pending"
  /\ \E answer \in Authenticate(auth[t].token) : auth' = [auth EXCEPT ![t].answer = answer]
  /\ UNCHANGED <<issued, expired, browser, opens>>

Login(t) ==
  /\ doing[t] = "login" /\ auth[t].answer = "pending"
  /\ \/ /\ auth[t].user \in Active /\ Len(issued) < MaxLogins
        /\ issued' = Append(issued, auth[t].user)
        /\ auth' = [auth EXCEPT ![t].answer = "ok", ![t].token = Len(issued) + 1]
     \/ /\ \E answer \in {"unauthorized", "failed"} : auth' = [auth EXCEPT ![t].answer = answer]
        /\ UNCHANGED issued
  /\ UNCHANGED <<expired, browser, opens>>

Serve(t) ==
  /\ api[t].answer = "pending"
  /\ \E answer \in Authenticate(api[t].token) : api' = [api EXCEPT ![t].answer = answer]
  /\ UNCHANGED <<issued, expired, storage, session, doing, auth, opens>>

Expire(token) ==
  /\ token \in DOMAIN issued \ expired
  /\ expired' = expired \cup {token}
  /\ UNCHANGED <<issued, browser, auth, opens>>

(***************************************************************************)
(* The tabs.                                                               *)
(***************************************************************************)
\* A tab is opened or reloaded: what it had in memory is gone.  The signal starts
\* from localStorage, and restore asks the backend about it.
Open(t) ==
  /\ opens < MaxOpens /\ opens' = opens + 1
  /\ session' = [session EXCEPT ![t] = storage]
  /\ api' = [api EXCEPT ![t] = NoFetch]
  /\ IF storage = NoSession THEN Done(t)
     ELSE Await(t, "restore", [NoFetch EXCEPT !.token = storage.token, !.cached = storage,
                                              !.answer = "pending"])
  /\ UNCHANGED <<issued, expired, storage>>

\* saveSession and session.set.
Become(t, s) == storage' = s /\ session' = [session EXCEPT ![t] = s]

\* Mutant: the cached session is read after the await.
RestoredRereading(t) ==
  /\ doing[t] = "restore" /\ auth[t].answer \notin {"none", "pending"}
  /\ IF auth[t].answer = "ok" /\ storage # NoSession
     THEN Become(t, [storage EXCEPT !.user = issued[auth[t].token]])
     ELSE Become(t, NoSession)
  /\ Done(t)
  /\ UNCHANGED <<issued, expired, api, opens>>

\* {...cached, ...live}: the cached token, and who the backend says it is.  Any
\* error logs out, one that says nothing about the session too.
Restored(t) ==
  /\ doing[t] = "restore" /\ auth[t].answer \notin {"none", "pending"}
  /\ Become(t, IF auth[t].answer = "ok"
               THEN [auth[t].cached EXCEPT !.user = issued[auth[t].token]] ELSE NoSession)
  /\ Done(t)
  /\ UNCHANGED <<issued, expired, api, opens>>

Submit(t, user) ==
  /\ LoginShown(t)
  /\ Await(t, "login", [NoFetch EXCEPT !.user = user, !.answer = "pending"])
  /\ UNCHANGED <<issued, expired, storage, session, api, opens>>

\* Mutant: a login that failed is sent again.
LoggedInRetrying(t) ==
  /\ doing[t] = "login" /\ auth[t].answer \notin {"none", "pending"}
  /\ IF auth[t].answer = "ok"
     THEN Become(t, [token |-> auth[t].token, user |-> auth[t].user]) /\ Done(t)
     ELSE Await(t, "login", [auth[t] EXCEPT !.answer = "pending"]) /\ UNCHANGED <<storage, session>>
  /\ UNCHANGED <<issued, expired, api, opens>>

\* A 401 clears the stored session, which here is what a wrong password gets.
LoggedIn(t) ==
  /\ doing[t] = "login" /\ auth[t].answer \notin {"none", "pending"}
  /\ CASE auth[t].answer = "ok" -> Become(t, [token |-> auth[t].token, user |-> auth[t].user])
       [] auth[t].answer = "unauthorized" -> storage' = NoSession /\ UNCHANGED session
       [] OTHER -> UNCHANGED <<storage, session>>
  /\ Done(t)
  /\ UNCHANGED <<issued, expired, api, opens>>

\* Mutant: the button is there while a session is being restored.
LogoutWhileLoading(t) ==
  /\ authenticated(t)
  /\ Become(t, NoSession)
  /\ UNCHANGED <<issued, expired, doing, auth, api, opens>>

Logout(t) ==
  /\ PagesShown(t)
  /\ Become(t, NoSession)
  /\ UNCHANGED <<issued, expired, doing, auth, api, opens>>

\* A page sends a request, with the token that is in localStorage now.
Request(t) ==
  /\ PagesShown(t) /\ api[t] = NoFetch
  /\ api' = [api EXCEPT ![t] = [NoFetch EXCEPT !.token = storage.token, !.answer = "pending"]]
  /\ UNCHANGED <<issued, expired, storage, session, doing, auth, opens>>

\* On a 401 the stored session is cleared, whoever's it is; the signal is not.
Requested(t) ==
  /\ api[t].answer \notin {"none", "pending"}
  /\ storage' = IF api[t].answer = "unauthorized" THEN NoSession ELSE storage
  /\ api' = [api EXCEPT ![t] = NoFetch]
  /\ UNCHANGED <<issued, expired, session, doing, auth, opens>>

AuthStep(t) == ServeSession(t) \/ Login(t) \/ Restored(t) \/ LoggedIn(t)

Next ==
  \/ \E t \in Tabs :
       \/ AuthStep(t)
       \/ Open(t) \/ Logout(t) \/ Request(t) \/ Serve(t) \/ Requested(t)
       \/ \E user \in Users : Submit(t, user)
  \/ \E token \in Tokens : Expire(token)

Spec == Init /\ [][Next]_vars

\* A fetch that is awaited ends, if only with an error, and the tab goes on.
FairSpec == Spec /\ \A t \in Tabs : WF_vars(AuthStep(t))

-----------------------------------------------------------------------------
\* Every variable has its type: tokens are issued to active users only.
TypeOK ==
  /\ issued \in Seq(Active) /\ Len(issued) <= MaxLogins
  /\ expired \subseteq DOMAIN issued
  /\ storage \in UserSession \cup {NoSession}
  /\ session \in [Tabs -> UserSession \cup {NoSession}]
  /\ doing \in [Tabs -> {"", "restore", "login"}]
  /\ auth \in [Tabs -> Fetch] /\ api \in [Tabs -> Fetch]
  /\ \A t \in Tabs : loading(t) <=> auth[t] # NoFetch
  /\ opens \in 0..MaxOpens

\* A session, in localStorage or on the screen, is of one login: the role it
\* shows is that of its token's user, although a restore takes the two from
\* different places, and another tab may log in as someone else meanwhile.
SessionsAreWhole ==
  \A s \in {storage} \cup {session[t] : t \in Tabs} :
    s # NoSession => s.token \in DOMAIN issued /\ issued[s.token] = s.user

\* What a tab logged out stays so there: a tab without a session gets one by a
\* login or by being opened, never by a restore that was under way.
StaysLoggedOut ==
  [][\A t \in Tabs :
       session[t] = NoSession /\ session'[t] # NoSession =>
         \/ doing[t] = "login" /\ doing'[t] = ""
         \/ opens' # opens]_vars

\* No tab waits for its session for ever, with nothing else on the screen.
LoadingEnds == \A t \in Tabs : loading(t) ~> ~loading(t)

\* The front end's guards, navigation and buttons and the backend's middleware
\* look at one session.
GuardsAgree == \A t \in Tabs : PagesShown(t) => storage = session[t]
=============================================================================
