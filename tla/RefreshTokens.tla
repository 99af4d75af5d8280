--------------------------- MODULE RefreshTokens ---------------------------
(***************************************************************************)
(* login, rotate_refresh_token and logout as the database transactions     *)
(* they are.  As in RideService, a handler decides on the committed row it *)
(* read and its UPDATE waits for the row lock but does not look again.     *)
(* Passwords, signatures and access tokens are not modelled here: a call   *)
(* refused on them changes nothing.                                        *)
(***************************************************************************)
EXTENDS TokenSessions

CONSTANTS
    Slots,      \* requests the process can be handling at once
    Faults      \* may a request fail before its commit?

ASSUME FaultsAssumption == Faults \in BOOLEAN

VARIABLES
    expired,    \* tokens past expires_at
    active,     \* users whose is_active is set
    job         \* the local state of the request in each slot

tokenVars == <<sessionVars, expired, active, job>>

\* What is left of the call: to revoke the token presented, to look up its
\* user, to commit.
Job == [user : Users \cup {None},       \* for whom a token is to be issued
        token : Tokens \cup {None},     \* the token presented
        dead : BOOLEAN,                 \* its revoked flag, as it was read
        fresh : Tokens \cup {None},     \* the token to be issued
        todo : {{}, {"commit"}, {"check", "commit"}, {"revoke", "commit"},
                {"revoke", "check", "commit"}}]

NoJob == [user |-> None, token |-> None, dead |-> FALSE, fresh |-> None, todo |-> {}]

\* uuid4 never repeats, neither among rows nor among requests under way.
Unused(n) == ~Exists(n) /\ \A s \in Slots : job[s].fresh # n

\* The checks of rotate_refresh_token on the row.
Usable(t) == Live(t) /\ t \notin expired

\* The flush has marked the row and the transaction is open.
HoldsToken(s, t) ==
    /\ job[s].token = t
    /\ job[s].todo # {}
    /\ "revoke" \notin job[s].todo

TokenInit ==
    /\ SessionInit
    /\ expired = {}
    /\ active = Users
    /\ job = [s \in Slots |-> NoJob]

-----------------------------------------------------------------------------
Begin(s, j) ==
    /\ job[s] = NoJob
    /\ job' = [job EXCEPT ![s] = j]
    /\ UNCHANGED <<sessionVars, expired, active>>

\* login, with the right password
Login(s, u, n) ==
    /\ u \in active
    /\ Unused(n)
    /\ Begin(s, [user |-> u, token |-> None, dead |-> FALSE, fresh |-> n,
                 todo |-> {"commit"}])

\* Mutant of Rotate: the row's revoked flag is not looked at.
RotateUnchecked(s, t, n) ==
    /\ Exists(t) /\ t \notin expired
    /\ Unused(n)
    /\ Begin(s, [user |-> owner[t], token |-> t, dead |-> t \in revoked, fresh |-> n,
                 todo |-> {"revoke", "check", "commit"}])

\* rotate_refresh_token
Rotate(s, t, n) ==
    /\ Usable(t)
    /\ Unused(n)
    /\ Begin(s, [user |-> owner[t], token |-> t, dead |-> t \in revoked, fresh |-> n,
                 todo |-> {"revoke", "check", "commit"}])

\* logout, of a token there is something to revoke of
Logout(s, t) ==
    /\ Usable(t)
    /\ Begin(s, [user |-> None, token |-> t, dead |-> t \in revoked, fresh |-> None,
                 todo |-> {"revoke", "commit"}])

\* revoke_refresh_token: the flush waits for the row lock.
Revoke(s) ==
    /\ "revoke" \in job[s].todo
    /\ \A r \in Slots : ~HoldsToken(r, job[s].token)
    /\ job' = [job EXCEPT ![s].todo = @ \ {"revoke"}]
    /\ UNCHANGED <<sessionVars, expired, active>>

\* The user of the token is read after the revocation.
FindUser(s) ==
    /\ job[s].todo = {"check", "commit"}
    /\ job[s].user \in active
    /\ job' = [job EXCEPT ![s].todo = @ \ {"check"}]
    /\ UNCHANGED <<sessionVars, expired, active>>

EndWithout(s) ==
    /\ job' = [job EXCEPT ![s] = NoJob]
    /\ UNCHANGED <<sessionVars, expired, active>>

\* An inactive user: the exception rolls the revocation back.
RefuseUser(s) ==
    /\ job[s].todo = {"check", "commit"}
    /\ job[s].user \notin active
    /\ EndWithout(s)

Abort(s) ==
    /\ Faults
    /\ job[s] # NoJob
    /\ EndWithout(s)

\* Mutant of Commit: the new token is committed without the revocation.
CommitIssueOnly(s) ==
    LET j == job[s] IN
    /\ j.todo = {"commit"}
    /\ owner' = [t \in Tokens |-> IF t = j.fresh THEN j.user ELSE owner[t]]
    /\ parent' = [t \in Tokens |-> IF t = j.fresh THEN j.token ELSE parent[t]]
    /\ job' = [job EXCEPT ![s] = NoJob]
    /\ UNCHANGED <<revoked, expired, active>>

\* The revocation and the new row become visible together.
Commit(s) ==
    LET j == job[s] IN
    /\ j.todo = {"commit"}
    /\ owner' = [t \in Tokens |-> IF t = j.fresh THEN j.user ELSE owner[t]]
    /\ revoked' = revoked \cup ({j.token} \ {None})
    /\ parent' = [t \in Tokens |-> IF t = j.fresh THEN j.token ELSE parent[t]]
    /\ job' = [job EXCEPT ![s] = NoJob]
    /\ UNCHANGED <<expired, active>>

\* Time passes; an account is deactivated (no endpoint does it).
Expire(t) ==
    /\ Exists(t) /\ t \notin expired
    /\ expired' = expired \cup {t}
    /\ UNCHANGED <<sessionVars, active, job>>

Deactivate(u) ==
    /\ u \in active
    /\ active' = active \ {u}
    /\ UNCHANGED <<sessionVars, expired, job>>

Arrive(s) ==
    \E t \in Tokens : \/ \E u \in Users : Login(s, u, t)
                      \/ \E n \in Tokens : Rotate(s, t, n)
                      \/ Logout(s, t)

Proceed(s) == Revoke(s) \/ FindUser(s) \/ RefuseUser(s) \/ Commit(s)

TokenNext ==
    \/ \E s \in Slots : Arrive(s) \/ Proceed(s) \/ Abort(s)
    \/ \E t \in Tokens : Expire(t)
    \/ \E u \in Users : Deactivate(u)

TokenSpec == TokenInit /\ [][TokenNext]_tokenVars

-----------------------------------------------------------------------------
\* Rows, clocks and requests have their types.
TokenTypeOK ==
    /\ SessionTypeOK
    /\ expired \subseteq Tokens
    /\ active \subseteq Users
    /\ job \in [Slots -> Job]

\* The commit of a call whose token was revoked after the call had read it.
Overtaken(s) == Commit(s) /\ job[s].token \in revoked /\ ~job[s].dead

\* A token is used again only by a call that was under way when it was
\* revoked: every other change of the rows is a step of TokenSessions.
OnlyOverlapsReuse ==
    [][[SessionNext]_sessionVars \/ \E s \in Slots : Overtaken(s)]_tokenVars
=============================================================================
