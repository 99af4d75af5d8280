---------------------------- MODULE TokenClient ----------------------------
(***************************************************************************)
(* The browser's side of the refresh tokens: the calls of api.js, the pair *)
(* kept in localStorage, and the login and logout of AuthContext, over     *)
(* RefreshTokens.  A slot is a call of the browser together with the       *)
(* request that serves it; several calls may be under way.                 *)
(*                                                                         *)
(* An access token is named by the refresh token it was issued with.  The  *)
(* pages hold one user's pair at a time.                                   *)
(***************************************************************************)
EXTENDS RefreshTokens, FiniteSets, Naturals

VARIABLES
    stored,     \* localStorage: the token pair
    lapsed,     \* the pairs whose access token has expired
    call        \* what each call of the browser is waiting for

clientVars == <<tokenVars, stored, lapsed, call>>

\* idle; sent: an authenticated fetch; asking: a rotation on its way; serving:
\* a login or rotation being served; granted, refused, failed: its answer on
\* the way back; leaving, closing: the same for a logout; rejected: the first
\* fetch of a page has thrown.
Phase == {"idle", "sent", "asking", "serving", "granted", "refused", "failed",
          "leaving", "closing", "rejected"}

Call == [phase : Phase,
         pair : Tokens \cup {None},     \* the token sent or received
         retried : BOOLEAN,             \* _retried, or about to be
         first : BOOLEAN]               \* the fetch that starts a page

NoCall == [phase |-> "idle", pair |-> None, retried |-> FALSE, first |-> FALSE]

ClientInit ==
    /\ TokenInit
    /\ stored = None
    /\ lapsed = {}
    /\ call = [s \in Slots |-> NoCall]

\* The calls that may still be issued a token.
Pending ==
    {s \in Slots : /\ call[s].phase \in {"sent", "asking", "serving", "granted"}
                   /\ call[s].retried => call[s].phase = "asking"}

\* Bound: a call that may be issued k tokens starts only while there are
\* enough of them for it and for the calls under way.
Supply(k) == Cardinality(Pending) + k <= Cardinality({n \in Tokens : Unused(n)})

Goes(s, c) == call' = [call EXCEPT ![s] = c]
Moves(s, phase) == Goes(s, [call[s] EXCEPT !.phase = phase])

\* apiFetch returns or throws; AuthContext has a catch for its first fetch only.
Returns(s) == Goes(s, NoCall)
Throws(s) == IF call[s].first THEN Moves(s, "rejected") ELSE Goes(s, NoCall)

\* A server takes the access token: it has not expired, its user is active.
Accepted(s) == call[s].pair \notin lapsed /\ owner[call[s].pair] \in active

-----------------------------------------------------------------------------
(* Steps of the browser. *)

\* apiFetch; without a pair the answer is 403 and nothing follows.  The first
\* fetch of a page asks for its user.
Fetch(s, first) ==
    /\ call[s] = NoCall
    /\ stored # None
    /\ Supply(1)
    /\ Goes(s, [phase |-> "sent", pair |-> stored, retried |-> FALSE, first |-> first])
    /\ UNCHANGED <<tokenVars, stored, lapsed>>

\* Mutant of Answered: a 401 to the retried call clears the pair.
AnsweredClearing(s) ==
    /\ call[s].phase = "sent"
    /\ call[s].pair \notin lapsed \/ call[s].retried \/ stored = None
    /\ stored' = IF call[s].pair \in lapsed THEN None ELSE stored
    /\ IF Accepted(s) THEN Returns(s) ELSE Throws(s)
    /\ UNCHANGED <<tokenVars, lapsed>>

\* The answer is no 401, or there is nothing more to try.
Answered(s) ==
    /\ call[s].phase = "sent"
    /\ call[s].pair \notin lapsed \/ call[s].retried \/ stored = None
    /\ IF Accepted(s) THEN Returns(s) ELSE Throws(s)
    /\ UNCHANGED <<tokenVars, stored, lapsed>>

\* Mutant of TryRefresh: a retried call is refreshed again.
TryRefreshAgain(s) ==
    /\ call[s].phase = "sent"
    /\ call[s].pair \in lapsed
    /\ stored # None
    /\ Goes(s, [phase |-> "asking", pair |-> stored, retried |-> TRUE,
                first |-> call[s].first])
    /\ UNCHANGED <<tokenVars, stored, lapsed>>

\* 401: tryRefresh presents the refresh token stored by now.
TryRefresh(s) ==
    /\ call[s].phase = "sent"
    /\ call[s].pair \in lapsed
    /\ ~call[s].retried
    /\ stored # None
    /\ Goes(s, [phase |-> "asking", pair |-> stored, retried |-> TRUE,
                first |-> call[s].first])
    /\ UNCHANGED <<tokenVars, stored, lapsed>>

\* Mutant of Store: the whole answer is stored.
StoreAnswer(s) ==
    /\ call[s].phase = "granted"
    /\ stored' = call[s]
    /\ Moves(s, "sent")
    /\ UNCHANGED <<tokenVars, lapsed>>

\* setTokens.  The rotation's call is sent again with the new pair; a login is
\* followed by a fetch of the user.
Store(s) ==
    /\ call[s].phase = "granted"
    /\ stored' = call[s].pair
    /\ Moves(s, "sent")
    /\ UNCHANGED <<tokenVars, lapsed>>

\* tryRefresh clears the pair on any answer that is not ok, and the 401 stands.
ClearOnRefusal(s) ==
    /\ call[s].phase \in {"refused", "failed"}
    /\ call[s].retried
    /\ stored' = None
    /\ Throws(s)
    /\ UNCHANGED <<tokenVars, lapsed>>

\* bootstrap, the first effect of AuthContext, clears the pair whatever was
\* thrown.
ClearOnStart(s) ==
    /\ call[s].phase = "rejected"
    /\ stored' = None
    /\ Goes(s, NoCall)
    /\ UNCHANGED <<tokenVars, lapsed>>

LoginFails(s) ==
    /\ call[s].phase \in {"refused", "failed"}
    /\ ~call[s].retried
    /\ Goes(s, NoCall)
    /\ UNCHANGED <<tokenVars, stored, lapsed>>

\* AuthContext.logout presents the stored token and then clears, whatever the
\* answer.
SignOut(s) ==
    /\ call[s] = NoCall
    /\ stored # None
    /\ Goes(s, [phase |-> "leaving", pair |-> stored, retried |-> FALSE, first |-> FALSE])
    /\ UNCHANGED <<tokenVars, stored, lapsed>>

SignedOut(s) ==
    /\ call[s].phase = "closing"
    /\ job[s] = NoJob
    /\ stored' = None
    /\ Goes(s, NoCall)
    /\ UNCHANGED <<tokenVars, lapsed>>

\* fetch throws: the request or its answer is lost.
Lose(s) ==
    /\ Faults
    /\ \/ call[s].phase \in {"sent", "asking", "granted", "refused", "failed"}
          /\ Throws(s)
       \/ call[s].phase = "leaving" /\ Moves(s, "closing")
    /\ UNCHANGED <<tokenVars, stored, lapsed>>

-----------------------------------------------------------------------------
(* Steps of the service on behalf of a call. *)

\* AuthContext.login, from the login page.  It does not ask whether a pair is
\* stored: one is if the fetch that follows a login has thrown.
SignIn(s, u, n) ==
    /\ call[s] = NoCall
    /\ Supply(2)
    /\ Login(s, u, n)
    /\ Moves(s, "serving")
    /\ UNCHANGED <<stored, lapsed>>

Ask(s, n) ==
    /\ call[s].phase = "asking"
    /\ Rotate(s, call[s].pair, n)
    /\ Moves(s, "serving")
    /\ UNCHANGED <<stored, lapsed>>

RefuseToken(s) ==
    /\ call[s].phase = "asking"
    /\ ~Usable(call[s].pair)
    /\ Moves(s, "refused")
    /\ UNCHANGED <<tokenVars, stored, lapsed>>

Leave(s) ==
    /\ call[s].phase = "leaving"
    /\ IF Usable(call[s].pair) THEN Logout(s, call[s].pair) ELSE UNCHANGED tokenVars
    /\ Moves(s, "closing")
    /\ UNCHANGED <<stored, lapsed>>

\* The transaction goes on; the answer leaves after it has ended.
Serve(s) ==
    /\ \/ (Revoke(s) \/ FindUser(s)) /\ UNCHANGED call
       \/ /\ Commit(s)
          /\ IF call[s].phase = "serving"
             THEN Goes(s, [call[s] EXCEPT !.phase = "granted", !.pair = job[s].fresh])
             ELSE UNCHANGED call
       \/ RefuseUser(s) /\ Moves(s, "refused")
    /\ UNCHANGED <<stored, lapsed>>

Fail(s) ==
    /\ Abort(s)
    /\ IF call[s].phase = "serving" THEN Moves(s, "failed") ELSE UNCHANGED call
    /\ UNCHANGED <<stored, lapsed>>

\* Time passes.  An access token expires (15 minutes) before the refresh token
\* it was issued with (7 days).
Lapse(t) ==
    /\ Exists(t) /\ t \notin lapsed
    /\ lapsed' = lapsed \cup {t}
    /\ UNCHANGED <<tokenVars, stored, call>>

-----------------------------------------------------------------------------
Continue(s) ==
    \/ Answered(s)
    \/ TryRefresh(s)
    \/ Store(s)
    \/ ClearOnRefusal(s)
    \/ ClearOnStart(s)
    \/ LoginFails(s)
    \/ SignedOut(s)
    \/ \E n \in Tokens : Ask(s, n)
    \/ RefuseToken(s)
    \/ Leave(s)
    \/ Serve(s)

ClientNext ==
    \/ \E s \in Slots : \/ \E first \in BOOLEAN : Fetch(s, first)
                        \/ SignOut(s)
                        \/ \E u \in Users, n \in Tokens : SignIn(s, u, n)
                        \/ Continue(s)
                        \/ Lose(s)
                        \/ Fail(s)
    \/ \E t \in Tokens : Lapse(t)
    \/ (\E t \in lapsed : Expire(t)) /\ UNCHANGED <<stored, lapsed, call>>
    \/ (\E u \in Users : Deactivate(u)) /\ UNCHANGED <<stored, lapsed, call>>

ClientSpec == ClientInit /\ [][ClientNext]_clientVars

\* As in RideService, with the browser's own event loop.
FairClientSpec == ClientSpec /\ \A s \in Slots : SF_clientVars(Continue(s))

-----------------------------------------------------------------------------
\* Calls and storage have their types.
ClientTypeOK ==
    /\ TokenTypeOK
    /\ stored \in Tokens \cup {None}
    /\ lapsed \subseteq Tokens
    /\ call \in [Slots -> Call]

\* The pair in localStorage could still be rotated.
SignedIn == stored # None /\ Usable(stored) /\ owner[stored] \in active

\* A user whose session is alive is signed out only by a logout, by a failing
\* service, by a page whose first fetch was thrown back, or by a refresh that
\* presented another token than the one stored (AuthContext, tryRefresh).
SignedOutForCause ==
    [][SignedIn /\ stored' = None =>
         \E s \in Slots :
            /\ call'[s] # call[s]
            /\ \/ call[s].phase \in {"closing", "failed", "rejected"}
               \/ call[s].phase = "refused" /\ call[s].pair # stored]_clientVars

\* A call is retried once, so it ends even if every access token has expired
\* by the time it is used, and no two calls wait for each other.
EveryCallEnds == \A s \in Slots : call[s] # NoCall ~> call[s] = NoCall
=============================================================================
