---------------------------- MODULE TokenProofs ----------------------------
(***************************************************************************)
(* Refresh tokens: the abstract sessions, the transactions that implement  *)
(* them but for overtaken reads, and the browser over both.                *)
(***************************************************************************)
EXTENDS TokenClient, TLAPS

-----------------------------------------------------------------------------
(* TokenSessions *)

SessionInv == SessionTypeOK /\ SingleUse /\ PredecessorsRevoked

\* A token that was presented is revoked, so a live one has no successor yet
\* and renewing it gives it its only one.
LEMMA SessionStep == SessionInv /\ [SessionNext]_sessionVars => SessionInv'
<1> SUFFICES ASSUME SessionInv, [SessionNext]_sessionVars PROVE SessionInv'
    OBVIOUS
<1> USE TokenAssumption DEF SessionInv, SessionTypeOK, SingleUse, PredecessorsRevoked, Exists
<1>1. CASE UNCHANGED sessionVars
  BY <1>1 DEF sessionVars
<1>2. ASSUME NEW n \in Tokens, NEW u \in Users, Open(u, n) PROVE SessionInv'
  <2>1. parent[n] = None
    BY <1>2 DEF Open
  <2> QED  BY <1>2, <2>1 DEF Open
<1>3. ASSUME NEW t \in Tokens, NEW n \in Tokens, Renew(t, n) PROVE SessionInv'
  <2> USE <1>3 DEF Renew, Live
  <2>1. SessionTypeOK'
    OBVIOUS
  <2>2. \A m \in Tokens : parent[m] # t
    OBVIOUS
  <2>3. SingleUse'
    BY <2>2
  <2>4. PredecessorsRevoked'
    OBVIOUS
  <2> QED  BY <2>1, <2>3, <2>4
<1>4. ASSUME NEW t \in Tokens, Close(t) PROVE SessionInv'
  BY <1>4 DEF Close, Live
<1> QED  BY <1>1, <1>2, <1>3, <1>4 DEF SessionNext

\* Handled one call at a time a token is exchanged at most once, and is dead
\* from then on.
THEOREM SessionsAreSingleUse == SessionSpec => [](SingleUse /\ PredecessorsRevoked)
<1>1. SessionInit => SessionInv
  BY TokenAssumption DEF SessionInit, SessionInv, SessionTypeOK, SingleUse,
                         PredecessorsRevoked, Exists
<1>2. SessionInv => SingleUse /\ PredecessorsRevoked
  BY DEF SessionInv
<1> QED  BY <1>1, <1>2, SessionStep, PTL DEF SessionSpec

-----------------------------------------------------------------------------
(* RefreshTokens *)

\* What a request under way says of itself and of the rows.
JobOK(s) ==
    /\ job[s].dead = FALSE
    /\ job[s].todo = {} => job[s] = NoJob
    /\ job[s].token # None => Exists(job[s].token)
    /\ job[s].fresh # None => ~Exists(job[s].fresh) /\ job[s].user \in Users
    /\ job[s].token # None /\ job[s].fresh # None => job[s].user = owner[job[s].token]
    /\ job[s].token = None /\ job[s].fresh = None => job[s] = NoJob

FreshDistinct ==
    \A r, s \in Slots : job[s].fresh # None /\ job[r].fresh = job[s].fresh => r = s

TokenInv ==
    /\ TokenTypeOK
    /\ PredecessorsRevoked
    /\ \A s \in Slots : JobOK(s)
    /\ FreshDistinct

LEMMA NoJobOK == NoJob \in Job
  BY DEF NoJob, Job

LEMMA TokenInitInv == TokenInit => TokenInv
<1> SUFFICES ASSUME TokenInit PROVE TokenInv
    OBVIOUS
<1> USE TokenAssumption DEF TokenInit, SessionInit
<1>1. TokenTypeOK
  BY NoJobOK DEF TokenTypeOK, SessionTypeOK
<1>2. PredecessorsRevoked
  BY DEF PredecessorsRevoked
<1>3. \A s \in Slots : JobOK(s)
  BY DEF JobOK, NoJob
<1>4. FreshDistinct
  BY DEF FreshDistinct, NoJob
<1> QED  BY <1>1, <1>2, <1>3, <1>4 DEF TokenInv

\* A slot takes up a well-formed job, or goes on with one.
LEMMA JobStep ==
  ASSUME TokenInv, NEW s \in Slots, NEW j \in Job, job' = [job EXCEPT ![s] = j],
         UNCHANGED <<sessionVars, expired, active>>,
         j.dead = FALSE,
         j.todo = {} => j = NoJob,
         j.token # None => Exists(j.token),
         j.fresh # None => ~Exists(j.fresh) /\ j.user \in Users,
         j.token # None /\ j.fresh # None => j.user = owner[j.token],
         j.token = None /\ j.fresh = None => j = NoJob,
         j.fresh # None => \A r \in Slots \ {s} : job[r].fresh # j.fresh
  PROVE  TokenInv'
<1> USE DEF TokenInv, sessionVars
<1>1. job \in [Slots -> Job] /\ job' \in [Slots -> Job]
  BY DEF TokenTypeOK
<1>2. job'[s] = j /\ \A r \in Slots \ {s} : job'[r] = job[r]
  BY <1>1
<1>3. TokenTypeOK'
  BY <1>1 DEF TokenTypeOK, SessionTypeOK, Exists
<1>4. PredecessorsRevoked'
  BY DEF PredecessorsRevoked
<1>5. \A r \in Slots : JobOK(r)'
  <2> TAKE r \in Slots
  <2>1. CASE r = s
    BY <2>1, <1>2 DEF JobOK, Exists
  <2>2. CASE r # s
    <3>1. JobOK(r) /\ job'[r] = job[r]
      BY <2>2, <1>2
    <3> QED  BY <3>1 DEF JobOK, Exists
  <2> QED  BY <2>1, <2>2
<1>6. FreshDistinct'
  <2>1. ASSUME NEW r \in Slots, NEW q \in Slots,
               job'[q].fresh # None, job'[r].fresh = job'[q].fresh
        PROVE  r = q
    BY <2>1, <1>2 DEF FreshDistinct
  <2> QED  BY <2>1 DEF FreshDistinct
<1> QED  BY <1>3, <1>4, <1>5, <1>6

LEMMA ArriveTokenInv == ASSUME TokenInv, NEW s \in Slots, Arrive(s) PROVE TokenInv'
<1> USE TokenAssumption
<1>0. SessionTypeOK
  BY DEF TokenInv, TokenTypeOK
<1>1. ASSUME NEW t \in Tokens, NEW u \in Users, Login(s, u, t) PROVE TokenInv'
  <2> DEFINE j == [user |-> u, token |-> None, dead |-> FALSE, fresh |-> t,
                   todo |-> {"commit"}]
  <2>1. j \in Job /\ j.todo # {}
    BY DEF Job
  <2> QED  BY <1>1, <2>1, JobStep DEF Login, Begin, Unused
<1>2. ASSUME NEW t \in Tokens, NEW n \in Tokens, Rotate(s, t, n) PROVE TokenInv'
  <2> DEFINE j == [user |-> owner[t], token |-> t, dead |-> t \in revoked, fresh |-> n,
                   todo |-> {"revoke", "check", "commit"}]
  <2>1. t \notin revoked /\ owner[t] \in Users /\ Exists(t)
    BY <1>0, <1>2 DEF Rotate, Usable, Live, Exists, SessionTypeOK
  <2>2. j \in Job /\ j.todo # {}
    BY <2>1 DEF Job
  <2>3. j.dead = FALSE /\ j.token = t /\ j.fresh = n /\ j.user = owner[t]
    <3>1. (t \in revoked) = FALSE
      BY <2>1
    <3>2. j.dead = (t \in revoked)
      BY Zenon
    <3> QED  BY <3>1, <3>2
  <2>4. Begin(s, j) /\ Unused(n)
    BY <1>2 DEF Rotate
  <2> HIDE DEF j
  <2> QED  BY <2>1, <2>2, <2>3, <2>4, JobStep DEF Begin, Unused
<1>3. ASSUME NEW t \in Tokens, Logout(s, t) PROVE TokenInv'
  <2> DEFINE j == [user |-> None, token |-> t, dead |-> t \in revoked, fresh |-> None,
                   todo |-> {"revoke", "commit"}]
  <2>1. t \notin revoked /\ Exists(t)
    BY <1>3 DEF Logout, Usable, Live
  <2>2. j \in Job /\ j.todo # {}
    BY <2>1 DEF Job
  <2>3. j.dead = FALSE /\ j.token = t /\ j.fresh = None
    <3>1. (t \in revoked) = FALSE
      BY <2>1
    <3>2. j.dead = (t \in revoked)
      BY Zenon
    <3> QED  BY <3>1, <3>2
  <2>4. Begin(s, j)
    BY <1>3 DEF Logout
  <2> HIDE DEF j
  <2> QED  BY <2>1, <2>2, <2>3, <2>4, JobStep DEF Begin
<1> QED  BY <1>1, <1>2, <1>3 DEF Arrive

\* The steps up to the commit shorten the list of steps.
LEMMA ShortenInv ==
  ASSUME TokenInv, NEW s \in Slots, job[s].todo # {},
         NEW todo, todo # {}, [job[s] EXCEPT !.todo = todo] \in Job,
         job' = [job EXCEPT ![s].todo = todo],
         UNCHANGED <<sessionVars, expired, active>>
  PROVE  TokenInv'
<1> DEFINE j == [job[s] EXCEPT !.todo = todo]
<1>1. job[s] \in Job /\ JobOK(s)
  BY DEF TokenInv, TokenTypeOK
<1>2. job' = [job EXCEPT ![s] = j]
  BY DEF TokenInv, TokenTypeOK
<1>3. /\ j.user = job[s].user /\ j.token = job[s].token /\ j.dead = job[s].dead
      /\ j.fresh = job[s].fresh /\ j.todo = todo
  BY <1>1 DEF Job
<1>4. j.fresh # None => \A r \in Slots \ {s} : job[r].fresh # j.fresh
  BY <1>3 DEF TokenInv, FreshDistinct
<1>5. job[s] # NoJob
  BY DEF NoJob
<1> QED  BY <1>1, <1>2, <1>3, <1>4, <1>5, JobStep DEF JobOK

LEMMA EndInv == ASSUME TokenInv, NEW s \in Slots, EndWithout(s) PROVE TokenInv'
  BY NoJobOK, JobStep DEF EndWithout, NoJob

\* The rows after a commit.
LEMMA CommitTokenInv == ASSUME TokenInv, NEW s \in Slots, Commit(s) PROVE TokenInv'
<1> DEFINE j == job[s]
<1> USE TokenAssumption
<1>1. j \in Job /\ JobOK(s) /\ j.todo = {"commit"} /\ j # NoJob
  BY DEF TokenInv, TokenTypeOK, Commit, NoJob
<1>2. SessionTypeOK
  BY DEF TokenInv, TokenTypeOK
<1>3. \A t \in Tokens : owner'[t] = IF t = j.fresh THEN j.user ELSE owner[t]
  BY DEF Commit
<1>4. \A t \in Tokens : parent'[t] = IF t = j.fresh THEN j.token ELSE parent[t]
  BY DEF Commit
<1>5. \A t \in Tokens : Exists(t) => Exists(t)' /\ owner'[t] = owner[t]
  BY <1>1, <1>3 DEF JobOK, Exists
<1>6. j.token # None => j.token \in Tokens /\ j.token \in revoked'
  BY <1>1 DEF Job, Commit
<1>7. revoked \subseteq revoked' /\ revoked' \subseteq revoked \cup ({j.token} \ {None})
  BY DEF Commit
<1>8. SessionTypeOK'
  <2>1. owner' \in [Tokens -> Users \cup {None}] /\ parent' \in [Tokens -> Tokens \cup {None}]
    BY <1>1, <1>2 DEF Commit, SessionTypeOK, Job
  <2>2. \A t \in revoked' : t \in Tokens /\ Exists(t)'
    BY <1>1, <1>2, <1>5, <1>6, <1>7 DEF SessionTypeOK, JobOK
  <2> QED  BY <2>1, <2>2 DEF SessionTypeOK
<1>9. job' = [job EXCEPT ![s] = NoJob] /\ UNCHANGED <<expired, active>>
  BY DEF Commit
<1>10. TokenTypeOK'
  BY <1>8, <1>9, NoJobOK DEF TokenInv, TokenTypeOK
<1>11. PredecessorsRevoked'
  <2> SUFFICES ASSUME NEW n \in Tokens, parent'[n] # None
               PROVE  parent'[n] \in revoked' /\ owner'[parent'[n]] = owner'[n]
      BY DEF PredecessorsRevoked
  <2>1. CASE n = j.fresh
    BY <2>1, <1>1, <1>3, <1>4, <1>5, <1>6 DEF JobOK, Exists
  <2>2. CASE n # j.fresh
    <3>1. parent[n] # None /\ parent'[n] = parent[n] /\ owner'[n] = owner[n]
      BY <2>2, <1>3, <1>4
    <3>2. parent[n] \in revoked /\ owner[parent[n]] = owner[n]
      BY <3>1 DEF TokenInv, PredecessorsRevoked
    <3>3. Exists(parent[n]) /\ parent[n] \in Tokens
      BY <3>2, <1>2 DEF SessionTypeOK
    <3> QED  BY <3>1, <3>2, <3>3, <1>5, <1>7
  <2> QED  BY <2>1, <2>2
<1>12. \A r \in Slots : JobOK(r)'
  <2> TAKE r \in Slots
  <2>1. job \in [Slots -> Job]
    BY DEF TokenInv, TokenTypeOK
  <2>2. CASE r = s
    BY <2>1, <2>2, <1>9 DEF JobOK, NoJob
  <2>3. CASE r # s
    <3>1. JobOK(r) /\ job'[r] = job[r] /\ job[r] \in Job
      BY <2>1, <2>3, <1>9 DEF TokenInv
    <3>2. job[r].fresh # None => job[r].fresh # j.fresh
      BY <2>3 DEF TokenInv, FreshDistinct
    <3>3. job[r].fresh # None => job[r].fresh \in Tokens /\ ~Exists(job[r].fresh)'
      BY <3>1, <3>2, <1>3 DEF JobOK, Job, Exists
    <3>4. job[r].token # None =>
            job[r].token \in Tokens /\ Exists(job[r].token)' /\ owner'[job[r].token] = owner[job[r].token]
      BY <3>1, <1>5 DEF JobOK, Job
    <3> QED  BY <3>1, <3>3, <3>4 DEF JobOK
  <2> QED  BY <2>2, <2>3
<1>13. FreshDistinct'
  <2>1. job \in [Slots -> Job]
    BY DEF TokenInv, TokenTypeOK
  <2> QED  BY <2>1, <1>9 DEF TokenInv, FreshDistinct, NoJob
<1> QED  BY <1>10, <1>11, <1>12, <1>13 DEF TokenInv

LEMMA TokenNextInv == TokenInv /\ [TokenNext]_tokenVars => TokenInv'
<1> SUFFICES ASSUME TokenInv, [TokenNext]_tokenVars PROVE TokenInv'
    OBVIOUS
<1>1. CASE UNCHANGED tokenVars
  BY <1>1 DEF tokenVars, sessionVars, TokenInv, TokenTypeOK, SessionTypeOK, Exists,
              PredecessorsRevoked, JobOK, FreshDistinct
<1>2. ASSUME NEW s \in Slots, Arrive(s) PROVE TokenInv'
  BY <1>2, ArriveTokenInv
<1>3. ASSUME NEW s \in Slots, Revoke(s) PROVE TokenInv'
  <2> DEFINE todo == job[s].todo \ {"revoke"}
  <2>1. job[s] \in Job
    BY DEF TokenInv, TokenTypeOK
  <2>2. todo \in {{"commit"}, {"check", "commit"}}
    BY <1>3, <2>1 DEF Revoke, Job
  <2>3. [job[s] EXCEPT !.todo = todo] \in Job
    BY <2>1, <2>2 DEF Job
  <2>4. job' = [job EXCEPT ![s].todo = todo] /\ job[s].todo # {}
    BY <1>3 DEF Revoke
  <2>5. todo # {}
    BY <2>2
  <2> HIDE DEF todo
  <2> QED  BY <1>3, <2>3, <2>4, <2>5, ShortenInv DEF Revoke
<1>4. ASSUME NEW s \in Slots, FindUser(s) PROVE TokenInv'
  <2> DEFINE todo == job[s].todo \ {"check"}
  <2>1. job[s] \in Job
    BY DEF TokenInv, TokenTypeOK
  <2>2. todo = {"commit"}
    BY <1>4 DEF FindUser
  <2>3. [job[s] EXCEPT !.todo = todo] \in Job
    BY <2>1, <2>2 DEF Job
  <2>4. job' = [job EXCEPT ![s].todo = todo] /\ job[s].todo # {}
    BY <1>4 DEF FindUser
  <2>5. todo # {}
    BY <2>2
  <2> HIDE DEF todo
  <2> QED  BY <1>4, <2>3, <2>4, <2>5, ShortenInv DEF FindUser
<1>5. ASSUME NEW s \in Slots, RefuseUser(s) \/ Abort(s) PROVE TokenInv'
  BY <1>5, EndInv DEF RefuseUser, Abort
<1>6. ASSUME NEW s \in Slots, Commit(s) PROVE TokenInv'
  BY <1>6, CommitTokenInv
<1>7. ASSUME NEW t \in Tokens, Expire(t) PROVE TokenInv'
  BY <1>7 DEF Expire, sessionVars, TokenInv, TokenTypeOK, SessionTypeOK, Exists,
              PredecessorsRevoked, JobOK, FreshDistinct
<1>8. ASSUME NEW u \in Users, Deactivate(u) PROVE TokenInv'
  BY <1>8 DEF Deactivate, sessionVars, TokenInv, TokenTypeOK, SessionTypeOK, Exists,
              PredecessorsRevoked, JobOK, FreshDistinct
<1> QED  BY <1>1, <1>2, <1>3, <1>4, <1>5, <1>6, <1>7, <1>8 DEF TokenNext, Proceed

LEMMA TokenInvariance == TokenSpec => []TokenInv
  BY TokenInitInv, TokenNextInv, PTL DEF TokenSpec

\* However calls race and fail, a new token is committed only together with the
\* revocation of the one presented for it, and for the same user.
THEOREM RotationIsAtomic == TokenSpec => []PredecessorsRevoked
<1>1. TokenInv => PredecessorsRevoked
  BY DEF TokenInv
<1> QED  BY <1>1, TokenInvariance, PTL

\* The commit of a call whose token is still live is the abstract step.
LEMMA LiveCommit ==
  ASSUME TokenInv, NEW s \in Slots, Commit(s), job[s].token \notin revoked
  PROVE  SessionNext \/ UNCHANGED sessionVars
<1> DEFINE j == job[s]
<1> USE TokenAssumption
<1>1. j \in Job /\ JobOK(s) /\ j.todo = {"commit"} /\ j # NoJob
  BY DEF TokenInv, TokenTypeOK, Commit, NoJob
<1>2. SessionTypeOK
  BY DEF TokenInv, TokenTypeOK
<1>3. CASE j.token = None
  <2>1. j.fresh \in Tokens /\ j.user \in Users /\ ~Exists(j.fresh)
    BY <1>1, <1>3 DEF JobOK, Job
  <2>2. owner' = [owner EXCEPT ![j.fresh] = j.user] /\ revoked' = revoked
    BY <1>2, <1>3 DEF Commit, SessionTypeOK
  <2>3. parent[j.fresh] = None
    BY <2>1, <1>2 DEF TokenInv, PredecessorsRevoked, Exists, SessionTypeOK
  <2>4. parent' = parent
    BY <2>3, <1>2, <1>3 DEF Commit, SessionTypeOK
  <2>5. Open(j.user, j.fresh)
    BY <2>1, <2>2, <2>4 DEF Open
  <2> QED  BY <2>1, <2>5 DEF SessionNext
<1>4. CASE j.token # None /\ j.fresh = None
  <2>1. j.token \in Tokens /\ Live(j.token)
    BY <1>1, <1>4 DEF JobOK, Job, Live
  <2>2. owner' = owner /\ parent' = parent /\ revoked' = revoked \cup {j.token}
    BY <1>2, <1>4 DEF Commit, SessionTypeOK
  <2> QED  BY <2>1, <2>2 DEF Close, SessionNext
<1>5. CASE j.token # None /\ j.fresh # None
  <2>1. /\ j.token \in Tokens /\ Live(j.token) /\ j.fresh \in Tokens
        /\ ~Exists(j.fresh) /\ j.user = owner[j.token]
    BY <1>1, <1>5 DEF JobOK, Job, Live
  <2>2. /\ owner' = [owner EXCEPT ![j.fresh] = owner[j.token]]
        /\ parent' = [parent EXCEPT ![j.fresh] = j.token]
        /\ revoked' = revoked \cup {j.token}
    BY <2>1, <1>2, <1>5 DEF Commit, SessionTypeOK
  <2>3. Renew(j.token, j.fresh)
    BY <2>1, <2>2 DEF Renew
  <2> QED  BY <2>1, <2>3 DEF SessionNext
<1> QED  BY <1>3, <1>4, <1>5

\* Only commits change the rows.
LEMMA RowStep ==
  ASSUME TokenInv, [TokenNext]_tokenVars
  PROVE  (\E s \in Slots : Commit(s)) \/ UNCHANGED sessionVars
<1>1. CASE UNCHANGED tokenVars
  BY <1>1 DEF tokenVars
<1>2. CASE TokenNext
  BY <1>2 DEF TokenNext, Arrive, Proceed, Login, Rotate, Logout, Begin, Revoke, FindUser,
              RefuseUser, EndWithout, Abort, Expire, Deactivate
<1> QED  BY <1>1, <1>2

\* Every change of the rows is a step of the abstract sessions, unless it is
\* the commit of a call whose token was revoked after the call had read it.
THEOREM ReuseIsOverlap == TokenSpec => OnlyOverlapsReuse
<1>1. ASSUME TokenInv, [TokenNext]_tokenVars
      PROVE  [[SessionNext]_sessionVars \/ \E s \in Slots : Overtaken(s)]_tokenVars
  <2>1. ASSUME NEW s \in Slots, Commit(s)
        PROVE  [SessionNext]_sessionVars \/ Overtaken(s)
    <3>0. job[s].dead = FALSE
      BY <1>1 DEF TokenInv, JobOK
    <3>1. ~job[s].dead
      BY <3>0, Zenon
    <3>2. CASE job[s].token \in revoked
      BY <2>1, <3>1, <3>2 DEF Overtaken
    <3>3. CASE job[s].token \notin revoked
      BY <2>1, <3>3, <1>1, LiveCommit
    <3> QED  BY <3>2, <3>3
  <2> QED  BY <1>1, <2>1, RowStep
<1> QED  BY <1>1, TokenInvariance, PTL DEF TokenSpec, OnlyOverlapsReuse

-----------------------------------------------------------------------------
(* One request at a time *)

TokensStillLive == \A s \in Slots : job[s].token # None => job[s].token \notin revoked

LEMMA AloneStillLive ==
  ASSUME \A r, s \in Slots : r = s, TokenInv, TokensStillLive, [TokenNext]_tokenVars
  PROVE  TokensStillLive'
<1>0. job \in [Slots -> Job]
  BY DEF TokenInv, TokenTypeOK
<1>1. CASE UNCHANGED tokenVars
  BY <1>1 DEF tokenVars, sessionVars, TokensStillLive
<1>2. ASSUME NEW s \in Slots, Arrive(s) PROVE TokensStillLive'
  BY <1>0, <1>2 DEF Arrive, Login, Rotate, Logout, Usable, Live, Begin, sessionVars, TokensStillLive
<1>3. ASSUME NEW s \in Slots, Revoke(s) \/ FindUser(s) PROVE TokensStillLive'
  <2>1. job'[s].token = job[s].token /\ revoked' = revoked
    BY <1>0, <1>3 DEF Revoke, FindUser, sessionVars, Job
  <2> QED  BY <2>1 DEF TokensStillLive
<1>4. ASSUME NEW s \in Slots, RefuseUser(s) \/ Commit(s) \/ Abort(s) PROVE TokensStillLive'
  <2>1. job'[s].token = None
    BY <1>0, <1>4 DEF RefuseUser, Commit, Abort, EndWithout, NoJob
  <2> QED  BY <2>1 DEF TokensStillLive
<1>5. ASSUME NEW t \in Tokens, Expire(t) PROVE TokensStillLive'
  BY <1>5 DEF Expire, sessionVars, TokensStillLive
<1>6. ASSUME NEW u \in Users, Deactivate(u) PROVE TokensStillLive'
  BY <1>6 DEF Deactivate, sessionVars, TokensStillLive
<1> QED  BY <1>1, <1>2, <1>3, <1>4, <1>5, <1>6 DEF TokenNext, Proceed

\* Handled one at a time, the transactions implement the abstract sessions,
\* failures and rolled-back revocations included.
THEOREM SequentialTokens ==
  ASSUME \A r, s \in Slots : r = s
  PROVE  TokenSpec => SessionSpec
<1>1. TokenInit => SessionInit /\ TokensStillLive
  BY DEF TokenInit, TokensStillLive, NoJob
<1>2. TokenInv /\ TokensStillLive /\ [TokenNext]_tokenVars
        => TokensStillLive' /\ [SessionNext]_sessionVars
  <2> SUFFICES ASSUME TokenInv, TokensStillLive, [TokenNext]_tokenVars
               PROVE  TokensStillLive' /\ [SessionNext]_sessionVars
      OBVIOUS
  <2>1. ASSUME NEW s \in Slots, Commit(s) PROVE [SessionNext]_sessionVars
    <3>1. job[s].token \notin revoked
      BY TokenAssumption DEF TokensStillLive, TokenInv, TokenTypeOK, SessionTypeOK
    <3> QED  BY <2>1, <3>1, LiveCommit
  <2> QED  BY <2>1, RowStep, AloneStillLive
<1> QED  BY <1>1, <1>2, TokenInvariance, PTL DEF TokenSpec, SessionSpec

\* So a refresh token is then used once.
THEOREM SequentialSingleUse ==
  ASSUME \A r, s \in Slots : r = s
  PROVE  TokenSpec => []SingleUse
  BY SequentialTokens, SessionsAreSingleUse, PTL

\* What locking the row of the token, or rechecking it at commit, would give.
CommitsFindTokenLive == [][\A s \in Slots : ~Overtaken(s)]_tokenVars

\* However many refreshes and logouts overlap, they implement the abstract
\* sessions if no commit finds its token revoked by another.
THEOREM LiveCommitsSuffice == TokenSpec /\ CommitsFindTokenLive => SessionSpec
<1>1. TokenInit => SessionInit
  BY DEF TokenInit
<1>2. TokenInv /\ [TokenNext]_tokenVars /\ [\A s \in Slots : ~Overtaken(s)]_tokenVars
        => [SessionNext]_sessionVars
  <2> SUFFICES ASSUME TokenInv, [TokenNext]_tokenVars, [\A s \in Slots : ~Overtaken(s)]_tokenVars
               PROVE  [SessionNext]_sessionVars
    OBVIOUS
  <2>1. CASE UNCHANGED tokenVars
    BY <2>1 DEF tokenVars, sessionVars
  <2>2. ASSUME \A s \in Slots : ~Overtaken(s) PROVE [SessionNext]_sessionVars
    <3>1. ASSUME NEW s \in Slots, Commit(s) PROVE [SessionNext]_sessionVars
      <4>1. ~job[s].dead
        BY DEF TokenInv, JobOK
      <4>2. job[s].token \notin revoked
        BY <2>2, <3>1, <4>1 DEF Overtaken
      <4> QED  BY <3>1, <4>2, LiveCommit
    <3> QED  BY <3>1, RowStep
  <2> QED  BY <2>1, <2>2
<1> QED  BY <1>1, <1>2, TokenInvariance, PTL DEF TokenSpec, SessionSpec, CommitsFindTokenLive

\* No refresh token then yields two sessions.
THEOREM LiveCommitsKeepSingleUse == TokenSpec /\ CommitsFindTokenLive => []SingleUse
  BY LiveCommitsSuffice, SessionsAreSingleUse, PTL

-----------------------------------------------------------------------------
(* TokenClient *)

\* What is sent to be rotated or revoked is a token.
ClientInv ==
    /\ ClientTypeOK
    /\ \A s \in Slots : call[s].phase \in {"asking", "leaving"} => call[s].pair \in Tokens

\* A step that leaves call s waiting for c and the pair v in storage.
LEMMA CallStep ==
  ASSUME ClientInv, TokenTypeOK', NEW s \in Slots, NEW c \in Call,
         call' = [call EXCEPT ![s] = c],
         c.phase \in {"asking", "leaving"} => c.pair \in Tokens,
         stored' \in Tokens \cup {None}, lapsed' = lapsed
  PROVE  ClientInv'
  BY DEF ClientInv, ClientTypeOK

LEMMA BrowserStep ==
  ASSUME NEW s \in Slots,
         \/ Answered(s) \/ TryRefresh(s) \/ Store(s) \/ ClearOnRefusal(s) \/ ClearOnStart(s)
         \/ LoginFails(s) \/ SignedOut(s) \/ RefuseToken(s)
         \/ \E first \in BOOLEAN : Fetch(s, first)
         \/ SignOut(s) \/ Lose(s)
  PROVE  UNCHANGED tokenVars
  BY DEF Answered, TryRefresh, Store, ClearOnRefusal, ClearOnStart, LoginFails, SignedOut,
         RefuseToken, Fetch, SignOut, Lose

LEMMA CallOK ==
  ASSUME ClientInv, NEW s \in Slots
  PROVE  /\ NoCall \in Call
         /\ call \in [Slots -> Call]
         /\ call[s] \in Call
         /\ \A ph \in Phase : /\ [call[s] EXCEPT !.phase = ph] \in Call
                              /\ [call[s] EXCEPT !.phase = ph].phase = ph
                              /\ [call[s] EXCEPT !.phase = ph].pair = call[s].pair
  BY DEF ClientInv, ClientTypeOK, Call, NoCall, Phase

\* Every step of the browser is a step of the service or none of it.
LEMMA ServiceStep ==
  ASSUME ClientInv, [ClientNext]_clientVars
  PROVE  [TokenNext]_tokenVars
<1>1. CASE UNCHANGED clientVars
  BY <1>1 DEF clientVars
<1>2. ASSUME NEW s \in Slots, NEW u \in Users, NEW n \in Tokens, SignIn(s, u, n)
      PROVE  TokenNext
  BY <1>2 DEF SignIn, TokenNext, Arrive
<1>3. ASSUME NEW s \in Slots, NEW n \in Tokens, Ask(s, n) PROVE TokenNext
  <2>1. call[s].pair \in Tokens /\ Rotate(s, call[s].pair, n)
    BY <1>3 DEF Ask, ClientInv
  <2>2. Arrive(s)
    BY <2>1 DEF Arrive
  <2> QED  BY <2>2 DEF TokenNext
<1>4. ASSUME NEW s \in Slots, Leave(s) PROVE [TokenNext]_tokenVars
  <2>1. call[s].pair \in Tokens /\ (Logout(s, call[s].pair) \/ UNCHANGED tokenVars)
    BY <1>4 DEF Leave, ClientInv
  <2>2. Arrive(s) \/ UNCHANGED tokenVars
    BY <2>1 DEF Arrive
  <2> QED  BY <2>2 DEF TokenNext
<1>5. ASSUME NEW s \in Slots, Serve(s) \/ Fail(s) PROVE TokenNext
  BY <1>5 DEF Serve, Fail, TokenNext, Proceed
<1>6. ASSUME NEW t \in Tokens, Lapse(t) PROVE UNCHANGED tokenVars
  BY <1>6 DEF Lapse
<1>7. ASSUME NEW t \in lapsed, Expire(t) PROVE TokenNext
  BY <1>7 DEF TokenNext, ClientInv, ClientTypeOK
<1>8. ASSUME NEW u \in Users, Deactivate(u) PROVE TokenNext
  BY <1>8 DEF TokenNext
<1> QED
  BY <1>1, <1>2, <1>3, <1>4, <1>5, <1>6, <1>7, <1>8, BrowserStep DEF ClientNext, Continue

LEMMA ClientStepInv ==
  ASSUME ClientInv, TokenTypeOK', [ClientNext]_clientVars
  PROVE  ClientInv'
<1>0. /\ stored \in Tokens \cup {None} /\ lapsed \subseteq Tokens /\ call \in [Slots -> Call]
      /\ job \in [Slots -> Job]
  BY DEF ClientInv, ClientTypeOK, TokenTypeOK
<1>1. CASE UNCHANGED clientVars
  BY <1>1 DEF clientVars, tokenVars, sessionVars, ClientInv, ClientTypeOK
<1>2. ASSUME NEW s \in Slots,
             (\E first \in BOOLEAN : Fetch(s, first)) \/ SignOut(s) \/ TryRefresh(s)
      PROVE  ClientInv'
  <2>0. call[s].first \in BOOLEAN
    BY <1>0 DEF Call
  <2>1. PICK phase \in {"sent", "leaving", "asking"}, retried \in BOOLEAN, first \in BOOLEAN :
           /\ call' = [call EXCEPT ![s] = [phase |-> phase, pair |-> stored,
                                          retried |-> retried, first |-> first]]
           /\ stored # None
           /\ UNCHANGED <<stored, lapsed>>
    BY <1>2, <2>0 DEF Fetch, SignOut, TryRefresh, Goes
  <2> DEFINE c == [phase |-> phase, pair |-> stored, retried |-> retried, first |-> first]
  <2>2. c \in Call /\ c.pair \in Tokens
    BY <1>0, <2>1 DEF Call, Phase
  <2> HIDE DEF c
  <2> QED  BY <1>0, <2>1, <2>2, CallStep DEF c
<1>3. ASSUME NEW s \in Slots, Goes(s, NoCall), stored' \in Tokens \cup {None}, lapsed' = lapsed
      PROVE  ClientInv'
  <2>1. NoCall.phase = "idle"
    BY DEF NoCall
  <2> QED  BY <1>3, <2>1, CallOK, CallStep DEF Goes
<1>4. ASSUME NEW s \in Slots, NEW phase \in Phase \ {"asking", "leaving"}, Moves(s, phase),
             stored' \in Tokens \cup {None}, lapsed' = lapsed
      PROVE  ClientInv'
  BY <1>4, CallOK, CallStep DEF Moves, Goes
<1>5. ASSUME NEW s \in Slots,
             \/ Answered(s) \/ ClearOnRefusal(s) \/ ClearOnStart(s) \/ LoginFails(s)
             \/ SignedOut(s) \/ Lose(s)
      PROVE  ClientInv'
  <2>1. stored' \in Tokens \cup {None} /\ lapsed' = lapsed
    BY <1>0, <1>5 DEF Answered, ClearOnRefusal, ClearOnStart, LoginFails, SignedOut, Lose
  <2>2. Goes(s, NoCall) \/ Moves(s, "rejected") \/ Moves(s, "closing")
    BY <1>5 DEF Answered, ClearOnRefusal, ClearOnStart, LoginFails, SignedOut, Lose,
                Returns, Throws
  <2>3. {"rejected", "closing"} \subseteq Phase \ {"asking", "leaving"}
    BY DEF Phase
  <2> QED  BY <1>3, <1>4, <2>1, <2>2, <2>3
<1>6. ASSUME NEW s \in Slots, Store(s) PROVE ClientInv'
  <2>1. stored' \in Tokens \cup {None} /\ lapsed' = lapsed /\ Moves(s, "sent")
    BY <1>0, <1>6 DEF Store, Call
  <2> QED  BY <1>4, <2>1 DEF Phase
<1>7. ASSUME NEW s \in Slots,
             \/ RefuseToken(s) \/ Leave(s)
             \/ \E n \in Tokens : Ask(s, n) \/ \E u \in Users : SignIn(s, u, n)
      PROVE  ClientInv'
  <2>1. UNCHANGED <<stored, lapsed>>
        /\ (Moves(s, "refused") \/ Moves(s, "closing") \/ Moves(s, "serving"))
    BY <1>7 DEF RefuseToken, Leave, Ask, SignIn
  <2> QED  BY <1>0, <1>4, <2>1 DEF Phase
<1>8. ASSUME NEW s \in Slots, Serve(s) \/ Fail(s) PROVE ClientInv'
  <2>1. UNCHANGED <<stored, lapsed>>
    BY <1>8 DEF Serve, Fail
  <2>2. CASE UNCHANGED call
    BY <2>1, <2>2 DEF ClientInv, ClientTypeOK
  <2>3. CASE Moves(s, "refused") \/ Moves(s, "failed")
    BY <1>0, <1>4, <2>1, <2>3 DEF Phase
  <2>4. CASE Goes(s, [call[s] EXCEPT !.phase = "granted", !.pair = job[s].fresh])
    <3> DEFINE c == [call[s] EXCEPT !.phase = "granted", !.pair = job[s].fresh]
    <3>0. job[s] \in Job /\ call[s] \in Call
      BY <1>0
    <3>1. job[s].fresh \in Tokens \cup {None}
      BY <3>0 DEF Job
    <3>2. c \in Call /\ c.phase = "granted"
      BY <3>0, <3>1 DEF Call, Phase
    <3> HIDE DEF c
    <3> QED  BY <1>0, <2>1, <2>4, <3>2, CallStep DEF Goes, c
  <2> QED  BY <1>8, <2>2, <2>3, <2>4 DEF Serve, Fail
<1>9. ASSUME NEW t \in Tokens, Lapse(t) PROVE ClientInv'
  BY <1>9 DEF Lapse, ClientInv, ClientTypeOK
<1>10. ASSUME UNCHANGED <<stored, lapsed, call>> PROVE ClientInv'
  BY <1>10 DEF ClientInv, ClientTypeOK
<1> QED
  BY <1>1, <1>2, <1>5, <1>6, <1>7, <1>8, <1>9, <1>10 DEF ClientNext, Continue

LEMMA ClientInvariance == ClientSpec => [](TokenInv /\ ClientInv)
<1>1. ClientInit => TokenInv /\ ClientInv
  BY TokenInitInv DEF ClientInit, ClientInv, ClientTypeOK, TokenInv, Call, Phase, NoCall
<1>2. TokenInv /\ ClientInv /\ [ClientNext]_clientVars => TokenInv' /\ ClientInv'
  <2> SUFFICES ASSUME TokenInv, ClientInv, [ClientNext]_clientVars
               PROVE  TokenInv' /\ ClientInv'
      OBVIOUS
  <2>1. TokenInv'
    BY ServiceStep, TokenNextInv
  <2>2. TokenTypeOK'
    BY <2>1 DEF TokenInv
  <2> QED  BY <2>1, <2>2, ClientStepInv
<1> QED  BY <1>1, <1>2, PTL DEF ClientSpec

\* Rows, requests, calls and storage keep their types.
THEOREM ClientTypes == ClientSpec => []ClientTypeOK
<1>1. ClientInv => ClientTypeOK
  BY DEF ClientInv
<1> QED  BY <1>1, ClientInvariance, PTL

\* The browser only makes calls the service serves: whatever is proved of the
\* service holds under it.
THEOREM ClientUsesService == ClientSpec => TokenSpec
<1>1. ClientInit => TokenInit
  BY DEF ClientInit
<1>2. ClientInv /\ [ClientNext]_clientVars => [TokenNext]_tokenVars
  BY ServiceStep
<1> QED  BY <1>1, <1>2, ClientInvariance, PTL DEF ClientSpec, TokenSpec

-----------------------------------------------------------------------------
(* Why a pair is cleared. *)

\* The token exists, and never again can it be rotated.
Spent(t) == t \in revoked \/ t \in expired \/ owner[t] \notin active

\* What a call is waiting for, against the request that serves it: a rotation
\* that was refused had presented a token that is spent.
CallCause(s) ==
    /\ call[s].pair # None => Exists(call[s].pair)
    /\ call[s].retried => call[s].pair # None
    /\ job[s] # NoJob => call[s].phase \in {"serving", "closing"}
    /\ call[s].phase = "serving" =>
          /\ job[s].fresh # None
          /\ call[s].retried => job[s].token = call[s].pair
    /\ call[s].phase \in {"leaving", "closing"} => ~call[s].retried
    /\ call[s].phase = "granted" => call[s].pair # None
    /\ call[s].phase = "refused" /\ call[s].retried => Spent(call[s].pair)

CauseInv ==
    /\ stored # None => Exists(stored)
    /\ \A s \in Slots : CallCause(s)

\* Rows are neither deleted nor revived.
RowsOnly ==
    /\ \A t \in Tokens : Exists(t) => owner'[t] = owner[t]
    /\ revoked \subseteq revoked' /\ expired \subseteq expired' /\ active' \subseteq active

LEMMA RowsGrow ==
  ASSUME TokenInv, [TokenNext]_tokenVars
  PROVE  RowsOnly
<1> USE TokenAssumption DEF RowsOnly
<1>1. ASSUME NEW s \in Slots, Commit(s) PROVE RowsOnly
  <2>1. job[s] \in Job /\ (job[s].fresh # None => ~Exists(job[s].fresh))
    BY DEF TokenInv, TokenTypeOK, JobOK
  <2>2. \A t \in Tokens : Exists(t) => owner'[t] = owner[t]
    BY <1>1, <2>1 DEF Commit
  <2> QED  BY <1>1, <2>2 DEF Commit
<1>2. CASE UNCHANGED tokenVars
  BY <1>2 DEF tokenVars, sessionVars
<1>3. ASSUME NEW s \in Slots, Arrive(s) PROVE RowsOnly
  BY <1>3 DEF Arrive, Login, Rotate, Logout, Begin, sessionVars
<1>4. ASSUME NEW s \in Slots, Revoke(s) \/ FindUser(s) \/ RefuseUser(s) \/ Abort(s) PROVE RowsOnly
  BY <1>4 DEF Revoke, FindUser, RefuseUser, Abort, EndWithout, sessionVars
<1>5. ASSUME NEW t \in Tokens, Expire(t) PROVE RowsOnly
  BY <1>5 DEF Expire, sessionVars
<1>6. ASSUME NEW u \in Users, Deactivate(u) PROVE RowsOnly
  BY <1>6 DEF Deactivate, sessionVars
<1> QED  BY <1>1, <1>2, <1>3, <1>4, <1>5, <1>6 DEF TokenNext, Proceed

LEMMA StaysSpent ==
  ASSUME TokenInv, RowsOnly, NEW t \in Tokens, Exists(t)
  PROVE  Exists(t)' /\ (Spent(t) => Spent(t)')
  BY DEF RowsOnly, Spent, Exists

\* A step of slot s alone.
LEMMA CauseSlot ==
  ASSUME TokenInv, ClientInv, CauseInv, RowsOnly, NEW s \in Slots,
         \A t \in Slots \ {s} : call'[t] = call[t] /\ job'[t] = job[t],
         CallCause(s)', stored' # None => Exists(stored)'
  PROVE  CauseInv'
<1>1. ASSUME NEW t \in Slots \ {s} PROVE CallCause(t)'
  <2>1. /\ call'[t] = call[t] /\ job'[t] = job[t] /\ CallCause(t)
        /\ call[t].pair \in Tokens \cup {None}
    BY DEF CauseInv, ClientInv, ClientTypeOK, Call
  <2>2. call[t].pair # None =>
           /\ call[t].pair \in Tokens /\ Exists(call[t].pair)
    BY <2>1 DEF CallCause
  <2>3. ASSUME NEW n \in Tokens, n = call[t].pair
        PROVE  Exists(n)' /\ (Spent(n) => Spent(n)')
    BY <2>2, <2>3, StaysSpent, TokenAssumption
  <2>4. call[t].pair # None =>
           /\ owner'[call[t].pair] # None
           /\ Spent(call[t].pair) =>
                 \/ call[t].pair \in revoked' \/ call[t].pair \in expired'
                 \/ owner'[call[t].pair] \notin active'
    BY <2>2, <2>3 DEF Exists, Spent
  <2> QED  BY <2>1, <2>4 DEF CallCause, Exists, Spent
<1> QED  BY <1>1 DEF CauseInv

\* A step of the browser: no request serves the call before or after.
LEMMA CauseBrowser ==
  ASSUME TokenInv, ClientInv, CauseInv, UNCHANGED tokenVars, NEW s \in Slots, NEW c \in Call,
         call' = [call EXCEPT ![s] = c], job[s] = NoJob,
         c.pair # None => Exists(c.pair),
         c.retried => c.pair # None,
         c.phase \notin {"serving", "granted"},
         c.phase \in {"leaving", "closing"} => ~c.retried,
         c.phase = "refused" /\ c.retried => Spent(c.pair),
         stored' # None => Exists(stored')
  PROVE  CauseInv'
<1>1. call'[s] = c /\ \A t \in Slots \ {s} : call'[t] = call[t]
  BY DEF ClientInv, ClientTypeOK
<1>2. /\ owner' = owner /\ revoked' = revoked /\ expired' = expired /\ active' = active
      /\ job' = job
  BY DEF tokenVars, sessionVars
<1>3. RowsOnly
  BY <1>2 DEF RowsOnly
<1>4. CallCause(s)'
  BY <1>1, <1>2 DEF CallCause, Exists, Spent
<1>5. stored' # None => Exists(stored)'
  BY <1>2 DEF Exists
<1> QED  BY <1>1, <1>2, <1>3, <1>4, <1>5, CauseSlot

LEMMA MovedCall ==
  ASSUME ClientInv, NEW s \in Slots, NEW phase \in Phase
  PROVE  LET c == [call[s] EXCEPT !.phase = phase] IN
         c \in Call /\ c.phase = phase /\ c.pair = call[s].pair /\ c.retried = call[s].retried
  BY DEF ClientInv, ClientTypeOK, Call, Phase

LEMMA CauseOfBrowserStep ==
  ASSUME TokenInv, ClientInv, CauseInv, NEW s \in Slots,
         \/ Answered(s) \/ TryRefresh(s) \/ Store(s) \/ ClearOnRefusal(s) \/ ClearOnStart(s)
         \/ LoginFails(s) \/ SignedOut(s) \/ RefuseToken(s)
         \/ \E first \in BOOLEAN : Fetch(s, first)
         \/ SignOut(s) \/ Lose(s)
  PROVE  CauseInv'
<1> USE TokenAssumption
<1>0. /\ UNCHANGED tokenVars /\ CallCause(s)
      /\ stored \in Tokens \cup {None} /\ (stored # None => Exists(stored))
      /\ call[s] \in Call
  BY BrowserStep DEF CauseInv, ClientInv, ClientTypeOK
<1>1. job[s] = NoJob
  <2>1. CASE SignedOut(s)
    BY <2>1 DEF SignedOut
  <2>2. CASE (\E first \in BOOLEAN : Fetch(s, first)) \/ SignOut(s)
    <3>1. call[s] = NoCall
      BY <2>2 DEF Fetch, SignOut
    <3>2. call[s].phase = "idle"
      BY <3>1 DEF NoCall
    <3> QED  BY <1>0, <3>2 DEF CallCause
  <2>3. CASE \/ Answered(s) \/ TryRefresh(s) \/ Store(s) \/ ClearOnRefusal(s) \/ ClearOnStart(s)
             \/ LoginFails(s) \/ RefuseToken(s) \/ Lose(s)
    <3>1. call[s].phase \notin {"serving", "closing"}
      BY <2>3 DEF Answered, TryRefresh, Store, ClearOnRefusal, ClearOnStart, LoginFails,
                  RefuseToken, Lose
    <3> QED  BY <1>0, <3>1 DEF CallCause
  <2> QED  BY <2>1, <2>2, <2>3
<1>2. ASSUME NEW phase \in {"sent", "leaving", "asking"}, NEW retried \in BOOLEAN,
             NEW first \in BOOLEAN, phase = "leaving" => ~retried,
             Goes(s, [phase |-> phase, pair |-> stored, retried |-> retried, first |-> first]),
             stored # None, stored' = stored
      PROVE  CauseInv'
  <2> DEFINE c == [phase |-> phase, pair |-> stored, retried |-> retried, first |-> first]
  <2>1. c \in Call /\ c.phase = phase /\ c.pair = stored /\ c.retried = retried
    BY <1>0 DEF Call, Phase
  <2> HIDE DEF c
  <2> QED  BY <1>0, <1>1, <1>2, <2>1, CauseBrowser DEF Goes, c
<1>3. ASSUME Goes(s, NoCall), stored' \in {stored, None} PROVE CauseInv'
  <2>1. /\ NoCall \in Call /\ NoCall.phase = "idle"
        /\ NoCall.pair = None /\ NoCall.retried = FALSE
    BY DEF NoCall, Call, Phase
  <2> QED  BY <1>0, <1>1, <1>3, <2>1, CauseBrowser DEF Goes
<1>4. ASSUME NEW phase \in {"sent", "closing", "refused", "rejected"}, Moves(s, phase),
             phase = "closing" => call[s].phase = "leaving",
             phase = "refused" => Spent(call[s].pair),
             stored' # None => Exists(stored')
      PROVE  CauseInv'
  <2> DEFINE c == [call[s] EXCEPT !.phase = phase]
  <2>0. phase \in Phase
    BY DEF Phase
  <2>1. c \in Call /\ c.phase = phase /\ c.pair = call[s].pair /\ c.retried = call[s].retried
    BY <2>0, MovedCall
  <2>2. call' = [call EXCEPT ![s] = c]
    BY <1>4 DEF Moves, Goes
  <2> HIDE DEF c
  <2> QED  BY <1>0, <1>1, <1>4, <2>1, <2>2, CauseBrowser DEF CallCause
<1>5. CASE (\E first \in BOOLEAN : Fetch(s, first)) \/ SignOut(s) \/ TryRefresh(s)
  <2>1. call[s].first \in BOOLEAN
    BY <1>0 DEF Call
  <2> QED  BY <1>2, <1>5, <2>1 DEF Fetch, SignOut, TryRefresh
<1>6. CASE \/ Answered(s) \/ ClearOnRefusal(s) \/ ClearOnStart(s) \/ LoginFails(s)
           \/ SignedOut(s) \/ Lose(s)
  <2>1. stored' \in {stored, None}
    BY <1>6 DEF Answered, ClearOnRefusal, ClearOnStart, LoginFails, SignedOut, Lose
  <2>2. \/ Goes(s, NoCall) \/ Moves(s, "rejected")
        \/ Moves(s, "closing") /\ call[s].phase = "leaving"
    BY <1>6 DEF Answered, ClearOnRefusal, ClearOnStart, LoginFails, SignedOut, Lose,
                Returns, Throws
  <2>3. stored' # None => Exists(stored')
    BY <1>0, <2>1
  <2> QED  BY <1>3, <1>4, <2>1, <2>2, <2>3
<1>7. CASE Store(s)
  <2>1. stored' = call[s].pair /\ Moves(s, "sent") /\ (stored' # None => Exists(stored'))
    BY <1>0, <1>7 DEF Store, CallCause
  <2> QED  BY <1>4, <2>1
<1>8. CASE RefuseToken(s)
  <2>1. call[s].pair \in Tokens /\ call[s].pair # None /\ Exists(call[s].pair)
    BY <1>0, <1>8 DEF RefuseToken, ClientInv, CallCause
  <2>2. Spent(call[s].pair)
    BY <1>8, <2>1 DEF RefuseToken, Usable, Live, Spent
  <2> QED  BY <1>0, <1>4, <1>8, <2>1, <2>2 DEF RefuseToken
<1> QED  BY <1>5, <1>6, <1>7, <1>8

\* A request begins to serve the call.
LEMMA CauseOfArrival ==
  ASSUME TokenInv, ClientInv, CauseInv, RowsOnly, NEW s \in Slots,
         \/ \E u \in Users, n \in Tokens : SignIn(s, u, n)
         \/ \E n \in Tokens : Ask(s, n)
         \/ Leave(s)
  PROVE  CauseInv'
<1> USE TokenAssumption
<1>0. /\ CallCause(s) /\ stored \in Tokens \cup {None} /\ (stored # None => Exists(stored))
      /\ call \in [Slots -> Call] /\ job \in [Slots -> Job] /\ call[s] \in Call
  BY DEF CauseInv, ClientInv, ClientTypeOK, TokenInv, TokenTypeOK
<1>1. ASSUME NEW phase \in {"serving", "closing"}, NEW j, Moves(s, phase), Begin(s, j),
             stored' = stored,
             phase = "closing" => call[s].phase = "leaving",
             phase = "serving" => /\ j.fresh # None
                                  /\ call[s].retried => j.token = call[s].pair
      PROVE  CauseInv'
  <2>1. phase \in Phase
    BY DEF Phase
  <2>2. /\ call'[s].phase = phase /\ call'[s].pair = call[s].pair
        /\ call'[s].retried = call[s].retried
        /\ \A t \in Slots \ {s} : call'[t] = call[t]
    BY <1>0, <1>1, <2>1, MovedCall DEF Moves, Goes
  <2>3. /\ job'[s] = j /\ owner' = owner
        /\ \A t \in Slots \ {s} : job'[t] = job[t]
    BY <1>0, <1>1 DEF Begin, sessionVars
  <2>4. CallCause(s)'
    BY <1>0, <1>1, <2>2, <2>3 DEF CallCause, Exists
  <2>5. stored' # None => Exists(stored)'
    BY <1>0, <1>1, <2>3 DEF Exists
  <2> QED  BY <2>2, <2>3, <2>4, <2>5, CauseSlot
<1>2. ASSUME NEW u \in Users, NEW n \in Tokens, SignIn(s, u, n) PROVE CauseInv'
  <2> DEFINE j == [user |-> u, token |-> None, dead |-> FALSE, fresh |-> n, todo |-> {"commit"}]
  <2>1. Begin(s, j) /\ Moves(s, "serving") /\ stored' = stored
    BY <1>2 DEF SignIn, Login
  <2>2. j.fresh # None /\ ~call[s].retried
    BY <1>2 DEF SignIn, NoCall
  <2> HIDE DEF j
  <2> QED  BY <1>1, <2>1, <2>2
<1>3. ASSUME NEW n \in Tokens, Ask(s, n) PROVE CauseInv'
  <2> DEFINE t == call[s].pair
             j == [user |-> owner[t], token |-> t, dead |-> t \in revoked, fresh |-> n,
                   todo |-> {"revoke", "check", "commit"}]
  <2>1. Begin(s, j) /\ Moves(s, "serving") /\ stored' = stored
    BY <1>3 DEF Ask, Rotate
  <2>2. j.fresh # None /\ j.token = call[s].pair
    OBVIOUS
  <2> HIDE DEF j, t
  <2> QED  BY <1>1, <2>1, <2>2
<1>4. CASE Leave(s) /\ Usable(call[s].pair)
  <2>1. PICK j : Begin(s, j)
    BY <1>4 DEF Leave, Logout
  <2> QED  BY <1>1, <1>4, <2>1 DEF Leave
<1>5. CASE Leave(s) /\ ~Usable(call[s].pair)
  <2>1. UNCHANGED tokenVars /\ Moves(s, "closing") /\ call[s].phase = "leaving" /\ stored' = stored
    BY <1>5 DEF Leave
  <2> DEFINE c == [call[s] EXCEPT !.phase = "closing"]
  <2>2. c \in Call /\ c.phase = "closing" /\ c.pair = call[s].pair /\ c.retried = call[s].retried
    BY MovedCall DEF Phase
  <2>3. job[s] = NoJob
    BY <1>0, <2>1 DEF CallCause
  <2>4. call' = [call EXCEPT ![s] = c]
    BY <2>1 DEF Moves, Goes
  <2> HIDE DEF c
  <2> QED  BY <1>0, <2>1, <2>2, <2>3, <2>4, CauseBrowser DEF CallCause
<1> QED  BY <1>2, <1>3, <1>4, <1>5

\* The request that serves the call goes on or ends.
LEMMA CauseOfService ==
  ASSUME TokenInv, ClientInv, CauseInv, RowsOnly, NEW s \in Slots, Serve(s) \/ Fail(s)
  PROVE  CauseInv'
<1> USE TokenAssumption
<1>0. /\ CallCause(s) /\ stored \in Tokens \cup {None} /\ (stored # None => Exists(stored))
      /\ call \in [Slots -> Call] /\ job \in [Slots -> Job] /\ call[s] \in Call
      /\ job[s] \in Job /\ JobOK(s) /\ stored' = stored
      /\ call[s].pair \in Tokens \cup {None}
  BY DEF CauseInv, ClientInv, ClientTypeOK, TokenInv, TokenTypeOK, Serve, Fail, Call
<1>1. /\ stored # None => Exists(stored)'
      /\ call[s].pair # None => owner'[call[s].pair] = owner[call[s].pair]
  BY <1>0 DEF RowsOnly, CallCause, Exists
<1>2. stored' # None => Exists(stored)'
  BY <1>0, <1>1
<1>3. CASE (Revoke(s) \/ FindUser(s)) /\ UNCHANGED call
  <2>1. /\ job'[s].token = job[s].token /\ job'[s].fresh = job[s].fresh
        /\ \A t \in Slots \ {s} : job'[t] = job[t]
        /\ job[s].todo # {} /\ UNCHANGED <<sessionVars, expired, active>>
    <3>1. PICK todo : job' = [job EXCEPT ![s].todo = todo]
      BY <1>3 DEF Revoke, FindUser
    <3>2. job[s].todo # {} /\ UNCHANGED <<sessionVars, expired, active>>
      BY <1>3 DEF Revoke, FindUser
    <3> QED  BY <1>0, <3>1, <3>2 DEF Job
  <2>2. call[s].phase \in {"serving", "closing"}
    BY <1>0, <2>1 DEF CallCause, NoJob
  <2>3. CallCause(s)'
    BY <1>0, <1>3, <2>1, <2>2 DEF CallCause, Exists, sessionVars
  <2> QED  BY <1>2, <1>3, <2>1, <2>3, CauseSlot
<1>4. ASSUME NEW phase \in {"granted", "refused", "failed", "closing"},
             NEW pair \in Tokens \cup {None},
             job' = [job EXCEPT ![s] = NoJob],
             \A t \in Slots \ {s} : call'[t] = call[t],
             call'[s].phase = phase, call'[s].pair = pair, call'[s].retried = call[s].retried,
             pair # None => owner'[pair] # None,
             call[s].retried => pair # None,
             phase = "closing" => ~call[s].retried,
             phase = "granted" => pair # None,
             phase = "refused" /\ call[s].retried => owner'[pair] \notin active'
      PROVE  CauseInv'
  <2>1. job'[s] = NoJob /\ \A t \in Slots \ {s} : job'[t] = job[t]
    BY <1>0, <1>4
  <2>2. CallCause(s)'
    BY <1>4, <2>1 DEF CallCause, Exists, Spent
  <2> QED  BY <1>2, <1>4, <2>1, <2>2, CauseSlot
<1>5. ASSUME NEW phase \in {"refused", "failed"}, Moves(s, phase)
      PROVE  /\ call'[s].phase = phase /\ call'[s].pair = call[s].pair
             /\ call'[s].retried = call[s].retried
             /\ \A t \in Slots \ {s} : call'[t] = call[t]
  <2>1. phase \in Phase
    BY DEF Phase
  <2> QED  BY <1>0, <1>5, <2>1, MovedCall DEF Moves, Goes
<1>6. /\ call[s].pair # None => owner'[call[s].pair] # None
      /\ call[s].retried => call[s].pair # None
  BY <1>0, <1>1 DEF CallCause, Exists
<1>7. ASSUME Commit(s), call[s].phase = "serving",
             Goes(s, [call[s] EXCEPT !.phase = "granted", !.pair = job[s].fresh])
      PROVE  CauseInv'
  <2> DEFINE f == job[s].fresh
             c == [call[s] EXCEPT !.phase = "granted", !.pair = f]
  <2>1. f \in Tokens /\ job[s].user \in Users
    BY <1>0, <1>7 DEF CallCause, JobOK, Job
  <2>2. owner'[f] # None /\ job' = [job EXCEPT ![s] = NoJob]
    BY <1>7, <2>1 DEF Commit
  <2>3. c.phase = "granted" /\ c.pair = f /\ c.retried = call[s].retried
    BY <1>0 DEF Call
  <2>4. call' = [call EXCEPT ![s] = c]
    BY <1>7 DEF Goes
  <2> HIDE DEF c
  <2>5. /\ call'[s].phase = "granted" /\ call'[s].pair = f
        /\ call'[s].retried = call[s].retried
        /\ \A t \in Slots \ {s} : call'[t] = call[t]
    BY <1>0, <2>3, <2>4
  <2> QED  BY <1>4, <2>1, <2>2, <2>5
<1>8. ASSUME Commit(s) \/ Abort(s), call[s].phase # "serving", UNCHANGED call PROVE CauseInv'
  <2>1. job' = [job EXCEPT ![s] = NoJob] /\ job[s] # NoJob
    BY <1>8 DEF Commit, Abort, EndWithout, NoJob
  <2>2. call[s].phase = "closing" /\ ~call[s].retried
    BY <1>0, <1>8, <2>1 DEF CallCause
  <2> QED  BY <1>0, <1>4, <1>6, <1>8, <2>1, <2>2
<1>9. ASSUME RefuseUser(s), Moves(s, "refused") PROVE CauseInv'
  <2>1. /\ job' = [job EXCEPT ![s] = NoJob] /\ job[s] # NoJob
        /\ job[s].user \notin active /\ active' = active
        /\ job[s].todo = {"check", "commit"}
    BY <1>9 DEF RefuseUser, EndWithout, NoJob
  <2>2. ASSUME call[s].retried PROVE owner'[call[s].pair] \notin active'
    <3>1. call[s].phase = "serving"
      BY <1>0, <2>1, <2>2 DEF CallCause
    <3>2. /\ job[s].token = call[s].pair /\ job[s].fresh # None
          /\ call[s].pair # None
      BY <1>0, <2>2, <3>1 DEF CallCause
    <3>3. owner[call[s].pair] = job[s].user
      BY <1>0, <3>2 DEF JobOK
    <3> QED  BY <1>1, <2>1, <3>2, <3>3
  <2> QED  BY <1>0, <1>4, <1>5, <1>6, <1>9, <2>1, <2>2
<1>10. ASSUME Abort(s), Moves(s, "failed") PROVE CauseInv'
  <2>1. job' = [job EXCEPT ![s] = NoJob]
    BY <1>10 DEF Abort, EndWithout
  <2> QED  BY <1>0, <1>4, <1>5, <1>6, <1>10, <2>1
<1> QED  BY <1>3, <1>7, <1>8, <1>9, <1>10 DEF Serve, Fail

LEMMA CauseStep ==
  ASSUME TokenInv, ClientInv, CauseInv, [ClientNext]_clientVars
  PROVE  CauseInv'
<1>0. RowsOnly
  BY ServiceStep, RowsGrow
<1>1. ASSUME NEW t \in Slots PROVE call[t].pair \in Tokens \cup {None} /\ CallCause(t)
  BY DEF CauseInv, ClientInv, ClientTypeOK, Call
<1>2. ASSUME UNCHANGED <<stored, call, job>> PROVE CauseInv'
  <2>1. stored \in Tokens \cup {None} /\ (stored # None => Exists(stored))
    BY DEF CauseInv, ClientInv, ClientTypeOK
  <2>2. stored' # None => Exists(stored)'
    BY <1>0, <1>2, <2>1 DEF RowsOnly, Exists
  <2>3. ASSUME NEW t \in Slots PROVE CallCause(t)'
    <3>1. /\ call[t].pair # None =>
               /\ owner'[call[t].pair] = owner[call[t].pair]
               /\ Spent(call[t].pair) =>
                    \/ call[t].pair \in revoked' \/ call[t].pair \in expired'
                    \/ owner'[call[t].pair] \notin active'
      BY <1>0, <1>1 DEF RowsOnly, CallCause, Spent, Exists
    <3> QED  BY <1>1, <1>2, <3>1 DEF CallCause, Exists, Spent
  <2> QED  BY <2>2, <2>3 DEF CauseInv
<1>3. CASE UNCHANGED clientVars
  BY <1>2, <1>3 DEF clientVars, tokenVars
<1>4. ASSUME NEW t \in Tokens, Lapse(t) PROVE CauseInv'
  BY <1>2, <1>4 DEF Lapse, tokenVars
<1>5. ASSUME NEW t \in lapsed, Expire(t), UNCHANGED <<stored, lapsed, call>> PROVE CauseInv'
  BY <1>2, <1>5 DEF Expire
<1>6. ASSUME NEW u \in Users, Deactivate(u), UNCHANGED <<stored, lapsed, call>> PROVE CauseInv'
  BY <1>2, <1>6 DEF Deactivate
<1> QED
  BY <1>0, <1>3, <1>4, <1>5, <1>6, CauseOfBrowserStep, CauseOfArrival, CauseOfService
     DEF ClientNext, Continue

\* The pair of a session that is alive goes only with a logout, with a failing
\* service, with the first fetch of a page thrown back, or with the refusal of a
\* rotation that lost a race to the one whose pair is stored (tryRefresh,
\* bootstrap, logout): for any number of calls and tokens.
THEOREM SignOutsHaveCause == ClientSpec => SignedOutForCause
<1>1. ClientInit => CauseInv
  <2> SUFFICES ASSUME ClientInit PROVE CauseInv
      OBVIOUS
  <2>1. \A s \in Slots : CallCause(s)
    BY DEF ClientInit, TokenInit, CallCause, NoCall
  <2> QED  BY <2>1 DEF ClientInit, CauseInv
<1>2. ASSUME TokenInv, ClientInv, CauseInv, [ClientNext]_clientVars
      PROVE  [SignedIn /\ stored' = None =>
                \E s \in Slots :
                   /\ call'[s] # call[s]
                   /\ \/ call[s].phase \in {"closing", "failed", "rejected"}
                      \/ call[s].phase = "refused" /\ call[s].pair # stored]_clientVars
  <2> SUFFICES ASSUME SignedIn, stored' = None
               PROVE  \E s \in Slots :
                         /\ call'[s] # call[s]
                         /\ \/ call[s].phase \in {"closing", "failed", "rejected"}
                            \/ call[s].phase = "refused" /\ call[s].pair # stored
      OBVIOUS
  <2>1. stored' # stored
    BY DEF SignedIn
  <2>2. PICK s \in Slots : \/ Store(s) \/ ClearOnRefusal(s) \/ ClearOnStart(s) \/ SignedOut(s)
    BY <1>2, <2>1
       DEF ClientNext, Continue, clientVars, Fetch, SignOut, SignIn, Answered, TryRefresh,
           LoginFails, Ask, RefuseToken, Leave, Serve, Lose, Fail, Lapse
  <2>3. CallCause(s) /\ call \in [Slots -> Call] /\ call[s] \in Call
    BY <1>2 DEF CauseInv, ClientInv, ClientTypeOK
  <2>4. ~Store(s)
    BY <2>3 DEF Store, CallCause
  <2>5. call'[s].phase \in {"idle", "rejected"}
    <3>1. ASSUME Goes(s, NoCall) PROVE call'[s].phase = "idle"
      BY <2>3, <3>1 DEF Goes, NoCall
    <3>2. ASSUME Moves(s, "rejected") PROVE call'[s].phase = "rejected"
      BY <2>3, <3>2 DEF Moves, Goes, Call
    <3> QED  BY <2>2, <2>4, <3>1, <3>2 DEF ClearOnRefusal, ClearOnStart, SignedOut, Throws
  <2>6. CASE SignedOut(s) \/ ClearOnStart(s)
    <3>1. call[s].phase \in {"closing", "rejected"} /\ Goes(s, NoCall)
      BY <2>6 DEF SignedOut, ClearOnStart
    <3>2. call'[s].phase = "idle"
      BY <2>3, <3>1 DEF Goes, NoCall
    <3>3. call'[s] # call[s]
      BY <3>1, <3>2
    <3> QED  BY <3>1, <3>3
  <2>7. CASE ClearOnRefusal(s)
    <3>1. call[s].phase \in {"refused", "failed"} /\ call[s].retried
      BY <2>7 DEF ClearOnRefusal
    <3>2. call'[s] # call[s]
      BY <2>5, <3>1
    <3>3. call[s].phase = "refused" => Spent(call[s].pair)
      BY <2>3, <3>1 DEF CallCause
    <3>4. ~Spent(stored)
      BY DEF SignedIn, Usable, Live, Spent
    <3> QED  BY <3>1, <3>2, <3>3, <3>4
  <2> QED  BY <2>2, <2>4, <2>6, <2>7
<1>3. ClientSpec => []CauseInv
  BY <1>1, CauseStep, ClientInvariance, PTL DEF ClientSpec
<1> QED  BY <1>2, <1>3, ClientInvariance, PTL DEF ClientSpec, SignedOutForCause
=============================================================================
