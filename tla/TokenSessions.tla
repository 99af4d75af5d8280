--------------------------- MODULE TokenSessions ---------------------------
(***************************************************************************)
(* What auth_service.py promises about refresh tokens, with every call     *)
(* taking effect in one step: a login opens a session, a rotation passes   *)
(* it on from one token to the next, a logout closes it.                   *)
(***************************************************************************)
CONSTANTS
    Users,      \* accounts
    Tokens,     \* jti claims
    None        \* no user, no token

ASSUME TokenAssumption == None \notin Users \cup Tokens

VARIABLES
    owner,      \* refresh_tokens.user_id, None while the row does not exist
    revoked,    \* the tokens whose row is marked revoked
    parent      \* the token presented for each token, None after a login

sessionVars == <<owner, revoked, parent>>

Exists(t) == owner[t] # None

\* The token's row exists and is not revoked.
Live(t) == Exists(t) /\ t \notin revoked

SessionInit ==
    /\ owner = [t \in Tokens |-> None]
    /\ revoked = {}
    /\ parent = [t \in Tokens |-> None]

Open(u, n) ==
    /\ ~Exists(n)
    /\ owner' = [owner EXCEPT ![n] = u]
    /\ UNCHANGED <<revoked, parent>>

Renew(t, n) ==
    /\ Live(t)
    /\ ~Exists(n)
    /\ owner' = [owner EXCEPT ![n] = owner[t]]
    /\ revoked' = revoked \cup {t}
    /\ parent' = [parent EXCEPT ![n] = t]

Close(t) ==
    /\ Live(t)
    /\ revoked' = revoked \cup {t}
    /\ UNCHANGED <<owner, parent>>

SessionNext ==
    \E t \in Tokens : \/ \E u \in Users : Open(u, t)
                      \/ \E n \in Tokens : Renew(t, n)
                      \/ Close(t)

SessionSpec == SessionInit /\ [][SessionNext]_sessionVars

-----------------------------------------------------------------------------
SessionTypeOK ==
    /\ owner \in [Tokens -> Users \cup {None}]
    /\ revoked \subseteq {t \in Tokens : Exists(t)}
    /\ parent \in [Tokens -> Tokens \cup {None}]

\* rotate_refresh_token: "a stolen refresh token is single-use at best".  No
\* token is ever exchanged for two others.
SingleUse ==
    \A m, n \in Tokens : parent[m] = parent[n] /\ parent[m] # None => m = n

\* "The presented token is revoked and a brand-new pair is issued": the token
\* a rotation was paid with is dead, and belonged to the same user.
PredecessorsRevoked ==
    \A n \in Tokens :
        parent[n] # None => parent[n] \in revoked /\ owner[parent[n]] = owner[n]
=============================================================================
