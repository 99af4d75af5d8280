--------------------------- MODULE AccountsProofs --------------------------
(***************************************************************************)
(* The tables keep to the registry and answers are true, for any number of *)
(* requests, accounts and profiles.  The argument: a transaction that has  *)
(* inserted a row and is not over yet is alone with its key and its id,    *)
(* and no row that is committed has either.                                *)
(***************************************************************************)
EXTENDS Accounts, TLAPS

Shaped(t) ==
    /\ t.stage = "free" => t = Free
    /\ t.stage # "free" => t.op # "none"
    /\ t.op = "register" => t.row \in Row
    /\ t.op \in {"profile", "patch"} => t.user \in Users /\ users[t.user] # None
    /\ t.op = "profile" => t.status # None \/ users[t.user].role = "driver"
    /\ t.op = "patch" => t.row \in Row
    /\ t.stage \in {"flush", "commit"} => t.status = None

\* What a transaction that has flushed its insert relies on.
Inserted(t) ==
    /\ t.stage = "commit" /\ t.op = "register" =>
          t.user \in Users /\ users[t.user] = None /\ ~EmailTaken(t.row.email)
    /\ t.stage = "commit" /\ t.op = "profile" =>
          t.profile \in Profiles /\ drivers[t.profile] = None /\ ~HasProfile(t.user)

Apart(t, other) ==
    t.stage = "commit" /\ other.stage = "commit" /\ t.op = other.op =>
      /\ t.op = "register" => t.user # other.user /\ t.row.email # other.row.email
      /\ t.op = "profile" => t.profile # other.profile /\ t.user # other.user

AccountsInv ==
    /\ AccountsTypeOK
    /\ \A s \in Slots : Shaped(task[s]) /\ Inserted(task[s])
    /\ \A s, o \in Slots : s # o => Apart(task[s], task[o])
    /\ AnswersAreTrue

USE AccountsAssumption, RowAssumption

\* An UPDATE leaves the e-mail and the role alone.
LEMMA WrittenKeeps ==
    ASSUME NEW t \in Task, NEW now \in Row
    PROVE  /\ Written(t, now) \in Row
           /\ Written(t, now).email = now.email
           /\ Written(t, now).role = now.role
           /\ Written(t, now).name = IF "name" \in Changes(t) THEN t.patch.name ELSE now.name
           /\ Written(t, now).phone = IF "phone" \in Changes(t) THEN t.patch.phone ELSE now.phone
<1>1. t.patch \in Patch
    BY DEF Task
<1>2. /\ "name" \in Changes(t) => t.patch.name \in Names
      /\ "phone" \in Changes(t) => t.patch.phone \in Phones
    BY <1>1 DEF Changes, Patch
<1>3. /\ now.email \in Emails /\ now.role \in Roles
      /\ now.name \in Names /\ now.phone \in Phones \cup {None}
    BY DEF Row
<1> QED
    BY <1>2, <1>3 DEF Written, Row

LEMMA FreeTask ==
    /\ Free \in Task /\ Free.stage = "free" /\ Free.op = "none" /\ Free.status = None
    /\ {"none", "register", "profile", "patch"} \subseteq Ops
BY DEF Free, Task, Unnamed, Patch, Ops, Stages, Statuses

LEMMA AnsweredTask ==
    ASSUME NEW t \in Task, NEW status \in {200, 201, 403, 409, 500}
    PROVE  /\ Answered(t, status) \in Task
           /\ Answered(t, status).stage = "answered"
           /\ Answered(t, status).status = status
           /\ Answered(t, status).op = t.op
           /\ Answered(t, status).user = t.user
           /\ Answered(t, status).row = t.row
           /\ Answered(t, status).profile = t.profile
           /\ Answered(t, status).lost = t.lost
<1>1. "answered" \in Stages /\ status \in Statuses
    BY DEF Stages, Statuses
<1> QED
    BY <1>1 DEF Answered, Task

LEMMA AccountsInitInv == Init => AccountsInv
BY DEF Init, AccountsInv, AccountsTypeOK, Shaped, Inserted, Apart, AnswersAreTrue, Truthful, Free, Task,
    Unnamed, Patch, Ops, Stages, Statuses

\* A request reads, inserts or is answered: the tables stay as they are.
LEMMA InsertStep ==
    ASSUME AccountsInv, UNCHANGED <<users, drivers>>, NEW s \in Slots, NEW t \in Task,
           task' = [task EXCEPT ![s] = t], Shaped(t), Inserted(t), Truthful(t),
           \A o \in Slots \ {s} : Apart(t, task[o]) /\ Apart(task[o], t)
    PROVE  AccountsInv'
<1> USE DEF AccountsInv
<1>1. AccountsTypeOK'
    BY DEF AccountsTypeOK
<1>2. ASSUME NEW o \in Slots PROVE task'[o] = IF o = s THEN t ELSE task[o]
    BY DEF AccountsTypeOK
<1>3. ASSUME NEW o \in Slots PROVE Shaped(task[o])' /\ Inserted(task[o])'
    BY <1>2 DEF Shaped, Inserted, EmailTaken, HasProfile
<1>4. \A o, q \in Slots : o # q => Apart(task[o], task[q])'
    BY <1>2 DEF Apart
<1>5. AnswersAreTrue'
    BY <1>2 DEF AnswersAreTrue, Truthful, Clashes, EmailTaken, HasProfile
<1> QED
    BY <1>1, <1>3, <1>4, <1>5

LEMMA TaskStep ==
    ASSUME AccountsInv, UNCHANGED <<users, drivers>>, NEW s \in Slots, NEW t \in Task,
           task' = [task EXCEPT ![s] = t], Shaped(t), t.stage # "commit", Truthful(t)
    PROVE  AccountsInv'
<1>1. Inserted(t) /\ \A o \in Slots \ {s} : Apart(t, task[o]) /\ Apart(task[o], t)
    BY DEF Inserted, Apart
<1> QED
    BY <1>1, InsertStep

LEMMA CheckedInv ==
    ASSUME AccountsInv, NEW s \in Slots, NEW t \in Task, NEW status \in {403, 409, None},
           Checked(s, t, status), UNCHANGED <<users, drivers>>,
           t.op # "none", t.op = "register" => t.row \in Row,
           t.op \in {"profile", "patch"} => t.user \in Users /\ users[t.user] # None,
           t.op = "profile" => status # None \/ users[t.user].role = "driver",
           t.op = "patch" => t.row \in Row,
           status = 409 => Clashes(t), t.status = None
    PROVE  AccountsInv'
<1> DEFINE new == IF status = None THEN [t EXCEPT !.stage = "flush"] ELSE Answered(t, status)
<1>1. /\ new \in Task /\ new.op = t.op /\ new.row = t.row /\ new.user = t.user
      /\ new.stage = IF status = None THEN "flush" ELSE "answered"
      /\ new.status = IF status = None THEN t.status ELSE status
    BY AnsweredTask DEF Task, Stages
<1>2. task' = [task EXCEPT ![s] = new]
    BY DEF Checked
<1>3. Shaped(new) /\ new.stage # "commit" /\ Truthful(new)
    BY <1>1 DEF Shaped, Clashes, Truthful
<1> HIDE DEF new
<1> QED
    BY <1>1, <1>2, <1>3, TaskStep

LEMMA RegisterInv ==
    ASSUME AccountsInv, NEW s \in Slots, NEW row \in NewUsers, Register(s, row)
    PROVE  AccountsInv'
<1> DEFINE t == [Free EXCEPT !.op = "register", !.row = row]
<1>1. t \in Task /\ t.op = "register" /\ t.row = row /\ t.status = None
    BY FreeTask DEF Task
<1> HIDE DEF t
<1>2. /\ Checked(s, t, IF EmailTaken(row.email) THEN 409 ELSE None)
      /\ UNCHANGED <<users, drivers>>
    BY DEF Register, t
<1> QED
    BY <1>1, <1>2, CheckedInv DEF Clashes

LEMMA CreateProfileInv ==
    ASSUME AccountsInv, NEW s \in Slots, NEW u \in Users, CreateProfile(s, u)
    PROVE  AccountsInv'
<1> DEFINE t == [Free EXCEPT !.op = "profile", !.user = u]
           status == IF users[u].role # "driver" THEN 403 ELSE IF HasProfile(u) THEN 409 ELSE None
<1>1. t \in Task /\ t.op = "profile" /\ t.user = u /\ t.status = None
    BY FreeTask DEF Task
<1> HIDE DEF t
<1>2. Checked(s, t, status) /\ UNCHANGED <<users, drivers>> /\ users[u] # None
    BY DEF CreateProfile, t
<1>3. /\ status \in {403, 409, None}
      /\ status = None => users[u].role = "driver"
      /\ status = 409 => Clashes(t)
    BY <1>1 DEF Clashes
<1> HIDE DEF status
<1> QED
    BY <1>1, <1>2, <1>3, CheckedInv

LEMMA UpdateProfileInv ==
    ASSUME AccountsInv, NEW s \in Slots, NEW u \in Users, NEW patch \in Updates,
           UpdateProfile(s, u, patch)
    PROVE  AccountsInv'
<1> DEFINE t == [Free EXCEPT !.op = "patch", !.user = u, !.row = users[u], !.patch = patch]
<1>1. users[u] \in Row
    BY DEF UpdateProfile, AccountsInv, AccountsTypeOK
<1>2. t \in Task /\ t.op = "patch" /\ t.user = u /\ t.row = users[u] /\ t.status = None
    BY <1>1, FreeTask DEF Task
<1>3. Checked(s, t, None) /\ UNCHANGED <<users, drivers>> /\ users[u] # None
    BY DEF UpdateProfile
<1> HIDE DEF t
<1> QED
    BY <1>1, <1>2, <1>3, CheckedInv

\* A request that fails is answered with a server error.
LEMMA FailInv ==
    ASSUME AccountsInv, NEW s \in Slots, NEW old \in Task, Shaped(old),
           old.stage \in {"flush", "commit"}, old.lost \/ Clashes(old),
           task' = [task EXCEPT ![s] = Answered(old, 500)], UNCHANGED <<users, drivers>>
    PROVE  AccountsInv'
<1>2. PICK t \in Task : t = Answered(old, 500)
    BY AnsweredTask
<1>3. /\ t.op = old.op /\ t.row = old.row /\ t.lost = old.lost
      /\ t.user = old.user /\ t.stage = "answered" /\ t.status = 500
    BY <1>2, AnsweredTask
<1>4. Shaped(t) /\ t.stage # "commit"
    BY <1>3 DEF Shaped
<1>5. Truthful(t)
    <2>1. ~t.lost => Clashes(t)
        BY <1>3 DEF Clashes
    <2> QED
        BY <1>3, <2>1 DEF Truthful
<1>6. task' = [task EXCEPT ![s] = t]
    BY <1>2
<1> QED
    BY <1>4, <1>5, <1>6, TaskStep

LEMMA DeliverInv ==
    ASSUME AccountsInv, NEW s \in Slots, Deliver(s)
    PROVE  AccountsInv'
<1>1. Shaped(Free) /\ Truthful(Free)
    BY FreeTask DEF Shaped, Truthful
<1> QED
    BY <1>1, FreeTask, TaskStep DEF Deliver

LEMMA FlushedTask ==
    ASSUME NEW t \in Task, NEW u \in Users, NEW p \in Profiles \cup {None}
    PROVE  /\ Flushed(t, u, p) \in Task
           /\ Flushed(t, u, p).stage = "commit"
           /\ Flushed(t, u, p).user = u
           /\ Flushed(t, u, p).profile = p
           /\ Flushed(t, u, p).op = t.op
           /\ Flushed(t, u, p).row = t.row
           /\ Flushed(t, u, p).status = t.status
<1>1. "commit" \in Stages
    BY DEF Stages
<1> QED
    BY <1>1 DEF Flushed, Task

LEMMA FlushInv ==
    ASSUME AccountsInv, NEW s \in Slots, Flush(s)
    PROVE  AccountsInv'
<1> DEFINE old == task[s]
<1>1. /\ old \in Task /\ Shaped(old) /\ old.stage = "flush" /\ ~Blocked(s)
      /\ UNCHANGED <<users, drivers>>
    BY DEF Flush, AccountsInv, AccountsTypeOK
<1>2. CASE Clashes(old) /\ task' = [task EXCEPT ![s] = Answered(old, 500)]
    BY <1>1, <1>2, FailInv
<1>3. ASSUME NEW u \in Users, NEW p \in Profiles \cup {None}, ~Clashes(old),
             IF old.op = "register" THEN NewUser(u) ELSE u = old.user,
             IF old.op = "profile" THEN p # None /\ NewProfile(p) ELSE p = None,
             task' = [task EXCEPT ![s] = Flushed(old, u, p)]
      PROVE  AccountsInv'
    <2>1. PICK t \in Task : t = Flushed(old, u, p)
        BY <1>1, FlushedTask
    <2>2. /\ t.op = old.op /\ t.row = old.row /\ t.user = u /\ t.profile = p
          /\ t.stage = "commit" /\ t.status = old.status
        BY <1>1, <2>1, FlushedTask
    <2>3. Shaped(t) /\ Truthful(t)
        BY <1>1, <1>3, <2>2 DEF Shaped, Truthful
    <2>4. Inserted(t)
        BY <1>3, <2>2 DEF Inserted, NewUser, NewProfile, Clashes
    <2>5. ASSUME NEW o \in Slots \ {s} PROVE Apart(t, task[o]) /\ Apart(task[o], t)
        BY <1>1, <1>3, <2>2 DEF Apart, NewUser, NewProfile, Blocked, SameKey
    <2>6. task' = [task EXCEPT ![s] = t]
        BY <1>3, <2>1
    <2> QED
        BY <1>1, <2>3, <2>4, <2>5, <2>6, InsertStep
<1> QED
    BY <1>2, <1>3 DEF Flush

\* A commit takes nothing from the tables and leaves e-mails and roles alone.
Kept ==
    /\ \A u \in Users : users[u] # None =>
          users'[u] # None /\ users'[u].email = users[u].email /\ users'[u].role = users[u].role
    /\ \A p \in Profiles : drivers[p] # None => drivers'[p] = drivers[p]

LEMMA CommitStep ==
    ASSUME AccountsInv, NEW s \in Slots, NEW t \in Task, Kept,
           users' \in [Users -> Row \cup {None}], drivers' \in [Profiles -> Users \cup {None}],
           task' = [task EXCEPT ![s] = t], t.stage = "answered", Shaped(t)', Truthful(t)',
           \A o \in Slots \ {s} : Inserted(task[o])'
    PROVE  AccountsInv'
<1> USE DEF AccountsInv
<1>1. AccountsTypeOK'
    BY DEF AccountsTypeOK
<1>2. ASSUME NEW o \in Slots PROVE task'[o] = IF o = s THEN t ELSE task[o]
    BY DEF AccountsTypeOK
<1>3. ASSUME NEW o \in Slots \ {s} PROVE Shaped(task[o])' /\ Inserted(task[o])' /\ Truthful(task[o])'
    <2>1. task'[o] = task[o] /\ task[o] \in Task
        BY <1>2 DEF AccountsTypeOK
    <2>2. Shaped(task[o])'
        BY <2>1 DEF Kept, Shaped
    <2>3. Truthful(task[o])'
        <3>1. EmailTaken(task[o].row.email) => EmailTaken(task[o].row.email)'
            BY <2>1 DEF EmailTaken, Kept
        <3>2. ASSUME task[o].op = "profile" PROVE task[o].user \in Users /\ task[o].user # None
            BY <3>2 DEF Shaped
        <3>3. task[o].op = "profile" /\ HasProfile(task[o].user) => HasProfile(task[o].user)'
            BY <2>1, <3>2 DEF HasProfile, Kept
        <3>4. Clashes(task[o]) => Clashes(task[o])'
            BY <2>1, <3>1, <3>3 DEF Clashes
        <3>5. Truthful(task[o]) /\ Shaped(task[o])
            BY DEF AnswersAreTrue
        <3> QED
            BY <2>1, <3>2, <3>4, <3>5 DEF Truthful, Shaped, Kept
    <2> QED
        BY <2>2, <2>3
<1>4. Shaped(task[s])' /\ Inserted(task[s])' /\ Truthful(task[s])'
    BY <1>2 DEF Shaped, Inserted, Truthful
<1>5. \A o, q \in Slots : o # q => Apart(task[o], task[q])'
    BY <1>2 DEF Apart
<1> QED
    BY <1>1, <1>3, <1>4, <1>5 DEF AnswersAreTrue

LEMMA CommitInv ==
    ASSUME AccountsInv, NEW s \in Slots, Commit(s)
    PROVE  AccountsInv' /\ Kept
<1> DEFINE old == task[s]
<1>1. /\ old \in Task /\ Shaped(old) /\ Inserted(old) /\ old.stage = "commit" /\ old.status = None
      /\ \A o \in Slots \ {s} : Apart(old, task[o]) /\ Shaped(task[o]) /\ Inserted(task[o])
      /\ users \in [Users -> Row \cup {None}] /\ drivers \in [Profiles -> Users \cup {None}]
    BY DEF Commit, AccountsInv, AccountsTypeOK, Shaped
<1>2. PICK t \in Task : t = Answered(old, IF old.op = "patch" THEN 200 ELSE 201)
    BY <1>1, AnsweredTask
<1>3. /\ t.op = old.op /\ t.row = old.row /\ t.user = old.user /\ t.profile = old.profile
      /\ t.stage = "answered" /\ t.status = IF old.op = "patch" THEN 200 ELSE 201
    BY <1>1, <1>2, AnsweredTask
<1>4. task' = [task EXCEPT ![s] = t]
    BY <1>2 DEF Commit
<1>5. old.op \in {"register", "profile", "patch"}
    BY <1>1 DEF Task, Ops, Shaped
<1>6. CASE old.op = "register"
    <2>1. users' = [users EXCEPT ![old.user] = old.row] /\ drivers' = drivers
        BY <1>6 DEF Commit
    <2>2. /\ users' \in [Users -> Row \cup {None}] /\ drivers' \in [Profiles -> Users \cup {None}]
          /\ Kept
          /\ \A u \in Users : users'[u] = IF u = old.user THEN old.row ELSE users[u]
        BY <1>1, <1>6, <2>1 DEF Kept, Shaped, Inserted
    <2>3. Shaped(t)' /\ Truthful(t)'
        BY <1>1, <1>3, <1>6, <2>2 DEF Shaped, Inserted, Truthful
    <2>4. ASSUME NEW o \in Slots \ {s} PROVE Inserted(task[o])'
        BY <1>1, <1>4, <1>6, <2>1, <2>2 DEF Inserted, Apart, EmailTaken, HasProfile
    <2> QED
        BY <1>3, <1>4, <2>2, <2>3, <2>4, CommitStep
<1>7. CASE old.op = "profile"
    <2>1. users' = users /\ drivers' = [drivers EXCEPT ![old.profile] = old.user]
        BY <1>7 DEF Commit
    <2>2. /\ users' \in [Users -> Row \cup {None}] /\ drivers' \in [Profiles -> Users \cup {None}]
          /\ Kept
          /\ \A p \in Profiles : drivers'[p] = IF p = old.profile THEN old.user ELSE drivers[p]
        BY <1>1, <1>7, <2>1 DEF Kept, Shaped, Inserted
    <2>3. Shaped(t)' /\ Truthful(t)'
        BY <1>1, <1>3, <1>7, <2>1, <2>2 DEF Shaped, Inserted, Truthful
    <2>4. ASSUME NEW o \in Slots \ {s} PROVE Inserted(task[o])'
        BY <1>1, <1>4, <1>7, <2>1, <2>2 DEF Inserted, Apart, EmailTaken, HasProfile
    <2> QED
        BY <1>3, <1>4, <2>2, <2>3, <2>4, CommitStep
<1>8. CASE old.op = "patch"
    <2>1. users' = [users EXCEPT ![old.user] = Written(old, users[old.user])] /\ drivers' = drivers
        BY <1>8 DEF Commit
    <2>2. old.user \in Users /\ users[old.user] \in Row
        BY <1>1, <1>8 DEF Shaped
    <2>3. /\ Written(old, users[old.user]) \in Row
          /\ Written(old, users[old.user]).email = users[old.user].email
          /\ Written(old, users[old.user]).role = users[old.user].role
        BY <1>1, <2>2, WrittenKeeps
    <2>4. /\ users' \in [Users -> Row \cup {None}] /\ drivers' \in [Profiles -> Users \cup {None}]
          /\ Kept
          /\ \A u \in Users : users'[u] = None <=> users[u] = None
        BY <1>1, <2>1, <2>2, <2>3 DEF Kept
    <2>5. Shaped(t)' /\ Truthful(t)'
        BY <1>1, <1>3, <1>8, <2>4 DEF Shaped, Truthful
    <2>6. ASSUME NEW o \in Slots \ {s} PROVE Inserted(task[o])'
        <3>1. task'[o] = task[o]
            BY <1>4
        <3>2. \A e : EmailTaken(e)' => EmailTaken(e)
            BY <2>4 DEF EmailTaken, Kept
        <3> QED
            BY <1>1, <2>1, <2>4, <3>1, <3>2 DEF Inserted, HasProfile
    <2> QED
        BY <1>3, <1>4, <2>4, <2>5, <2>6, CommitStep
<1> QED
    BY <1>5, <1>6, <1>7, <1>8

LEMMA AccountsNextInv == AccountsInv /\ [Next]_vars => AccountsInv'
<1> SUFFICES ASSUME AccountsInv, [Next]_vars PROVE AccountsInv'
    OBVIOUS
<1>1. CASE UNCHANGED vars
    BY <1>1 DEF vars, AccountsInv, AccountsTypeOK, Shaped, Inserted, Apart, AnswersAreTrue, Truthful,
       Clashes, EmailTaken, HasProfile
<1>2. ASSUME NEW s \in Slots, Abort(s) PROVE AccountsInv'
    <2> DEFINE old == [task[s] EXCEPT !.lost = TRUE]
    <2>1. /\ task[s] \in Task /\ Shaped(task[s]) /\ task[s].stage \in {"flush", "commit"}
          /\ task' = [task EXCEPT ![s] = Answered(old, 500)] /\ UNCHANGED <<users, drivers>>
        BY <1>2 DEF Abort, AccountsInv, AccountsTypeOK
    <2>2. /\ old \in Task /\ old.op = task[s].op /\ old.stage = task[s].stage
          /\ old.row = task[s].row /\ old.user = task[s].user /\ old.status = task[s].status
          /\ old.lost
        BY <2>1 DEF Task
    <2> HIDE DEF old
    <2>3. Shaped(old)
        BY <2>1, <2>2 DEF Shaped
    <2> QED
        BY <2>1, <2>2, <2>3, FailInv
<1>3. ASSUME NEW s \in Slots, Proceed(s) PROVE AccountsInv'
    BY <1>2, <1>3, FlushInv, CommitInv, DeliverInv DEF Proceed
<1> QED
    BY <1>1, <1>3, RegisterInv, CreateProfileInv, UpdateProfileInv DEF Next

LEMMA AccountsInvariant == Spec => []AccountsInv
BY AccountsInitInv, AccountsNextInv, PTL DEF Spec

\* The tables and the requests keep their types.
THEOREM AccountsTypes == Spec => []AccountsTypeOK
BY AccountsInvariant, PTL DEF AccountsInv

\* A client that is told 201 has its account or profile, and one that is told 409 is
\* told so for a reason (register, create_profile, get_session).
THEOREM TrueAnswers == Spec => []AnswersAreTrue
BY AccountsInvariant, PTL DEF AccountsInv

\* Only a commit changes the tables.
LEMMA OthersKeepTables ==
    ASSUME [Next]_vars, ~\E s \in Slots : Commit(s)
    PROVE  UNCHANGED <<users, drivers>>
BY DEF Next, vars, Register, CreateProfile, UpdateProfile, Proceed, Flush, Abort, Deliver

\* A commit is a step of the registry, or changes nothing that it knows of.
LEMMA CommitRegisters ==
    ASSUME AccountsInv, NEW s \in Slots, Commit(s)
    PROVE  Registry!Next \/ UNCHANGED <<Account, drivers>>
<1> DEFINE t == task[s]
<1>1. /\ t \in Task /\ Shaped(t) /\ Inserted(t) /\ t.stage = "commit" /\ t.status = None
      /\ users \in [Users -> Row \cup {None}] /\ drivers \in [Profiles -> Users \cup {None}]
    BY DEF Commit, AccountsInv, AccountsTypeOK, Shaped
<1>2. t.op \in {"register", "profile", "patch"}
    BY <1>1 DEF Task, Ops, Shaped
<1>3. CASE t.op = "register"
    <2>1. users' = [users EXCEPT ![t.user] = t.row] /\ drivers' = drivers
        BY <1>3 DEF Commit
    <2>2. /\ t.user \in Users /\ users[t.user] = None /\ ~EmailTaken(t.row.email)
          /\ t.row \in Row /\ t.row.email \in Emails /\ t.row.role \in Roles
        BY <1>1, <1>3 DEF Shaped, Inserted, Row
    <2>3. Account' = [Account EXCEPT ![t.user] = [email |-> t.row.email, role |-> t.row.role]]
        BY <1>1, <2>1, <2>2 DEF Account
    <2>4. Account[t.user] = None
        BY <2>2 DEF Account
    <2>5. \A v \in Users : Account[v] # None => Account[v].email # t.row.email
        BY <2>2 DEF Account, EmailTaken
    <2>6. Registry!Register(t.user, t.row.email, t.row.role)
        BY <2>1, <2>3, <2>4, <2>5 DEF Registry!Register
    <2> QED
        BY <2>2, <2>6 DEF Registry!Next
<1>4. CASE t.op = "profile"
    <2>1. users' = users /\ drivers' = [drivers EXCEPT ![t.profile] = t.user]
        BY <1>4 DEF Commit
    <2>2. /\ t.user \in Users /\ users[t.user] # None /\ users[t.user].role = "driver"
          /\ t.profile \in Profiles /\ drivers[t.profile] = None /\ ~HasProfile(t.user)
        BY <1>1, <1>4 DEF Shaped, Inserted
    <2>3. Account' = Account
        BY <2>1 DEF Account
    <2>4. Account[t.user].role = "driver" /\ Account[t.user] # None
        <3>1. Account[t.user] = [email |-> users[t.user].email, role |-> users[t.user].role]
            BY <2>2 DEF Account
        <3>2. users[t.user].email \in Emails /\ users[t.user].role \in Roles
            BY <1>1, <2>2 DEF Row
        <3> QED
            BY <2>2, <3>1, <3>2
    <2>5. Registry!AddProfile(t.profile, t.user)
        BY <2>1, <2>2, <2>3, <2>4 DEF Registry!AddProfile, HasProfile
    <2> QED
        BY <2>2, <2>5 DEF Registry!Next
<1>5. CASE t.op = "patch"
    <2>1. users' = [users EXCEPT ![t.user] = Written(t, users[t.user])] /\ drivers' = drivers
        BY <1>5 DEF Commit
    <2>2. t.user \in Users /\ users[t.user] \in Row /\ users[t.user] # None
        BY <1>1, <1>5 DEF Shaped
    <2>3. /\ Written(t, users[t.user]) \in Row
          /\ Written(t, users[t.user]).email = users[t.user].email
          /\ Written(t, users[t.user]).role = users[t.user].role
        BY <1>1, <2>2, WrittenKeeps
    <2>4. Account' = Account
        BY <1>1, <2>1, <2>2, <2>3 DEF Account
    <2> QED
        BY <2>1, <2>4
<1> QED
    BY <1>2, <1>3, <1>4, <1>5

\* Whatever overlaps, the tables are those of the registry: an account per e-mail, a
\* profile per driver (AuthService.register, DriverService.create_profile).
THEOREM RegistryImplemented == Spec => RegistrySpec
<1>1. Init => Registry!Init
    BY DEF Init, Registry!Init, Account
<1>2. AccountsInv /\ [Next]_vars => [Registry!Next]_<<Account, drivers>>
    <2>1. UNCHANGED <<users, drivers>> => UNCHANGED <<Account, drivers>>
        BY DEF Account
    <2> QED
        BY <2>1, OthersKeepTables, CommitRegisters
<1> QED
    BY <1>1, <1>2, AccountsInvariant, PTL DEF Spec, RegistrySpec, Registry!Spec

\* The commit of a change of details does what was asked, of the row as it is now.
LEMMA CommitMerges ==
    ASSUME AccountsInv, NEW s \in Slots, Commit(s), task[s].op = "patch"
    PROVE  Merges(s, task[s].user)
<1> DEFINE t == task[s]
           u == task[s].user
<1>1. /\ t \in Task /\ Shaped(t) /\ t.stage = "commit"
      /\ users \in [Users -> Row \cup {None}] /\ task \in [Slots -> Task]
    BY DEF Commit, AccountsInv, AccountsTypeOK
<1>2. u \in Users /\ users[u] \in Row /\ users'[u] = Written(t, users[u])
    BY <1>1 DEF Commit, Shaped
<1>3. task'[s].status = 200
    BY <1>1, AnsweredTask DEF Commit
<1>4. /\ users'[u].email = users[u].email
      /\ users'[u].role = users[u].role
      /\ users'[u].name = IF "name" \in Changes(t) THEN t.patch.name ELSE users[u].name
      /\ users'[u].phone = IF "phone" \in Changes(t) THEN t.patch.phone ELSE users[u].phone
    BY <1>1, <1>2, WrittenKeeps
<1>5. /\ "name" \in Changes(t) => t.patch.name # None
      /\ "phone" \in Changes(t) => t.patch.phone # None
    BY DEF Changes
<1>6. t.row = users[u] =>
        /\ t.patch.name # None => users'[u].name = t.patch.name
        /\ t.patch.phone # None => users'[u].phone = t.patch.phone
    BY <1>4 DEF Changes
<1> QED
    BY <1>1, <1>3, <1>4, <1>5, <1>6 DEF Merges

\* Only the commit of a change of details is answered with 200.
LEMMA OnlyPatchesAnswer200 ==
    ASSUME AccountsInv, [Next]_vars, NEW s \in Slots,
           task'[s].status = 200, task[s].status # 200
    PROVE  Commit(s) /\ task[s].op = "patch"
<1>1. /\ task \in [Slots -> Task] /\ \A o \in Slots : task[o] \in Task
      /\ \A o \in Slots : task[o].stage \in {"flush", "commit"} => task[o].status = None
    BY DEF AccountsInv, AccountsTypeOK, Shaped
<1>2. PICK o \in Slots :
          \/ \E row \in NewUsers : Register(o, row)
          \/ \E u \in Users : CreateProfile(o, u) \/ \E patch \in Updates : UpdateProfile(o, u, patch)
          \/ Proceed(o)
    BY DEF Next, vars
<1>3. ASSUME NEW t \in Task, task' = [task EXCEPT ![o] = t], t.status # 200 PROVE FALSE
    BY <1>1, <1>3
<1>4. ASSUME NEW t \in Task, NEW status \in {403, 409, None}, t.status = None, Checked(o, t, status)
      PROVE  FALSE
    <2>1. CASE status = None
        <3>1. [t EXCEPT !.stage = "flush"] \in Task /\ [t EXCEPT !.stage = "flush"].status = None
            BY <1>4 DEF Task, Stages
        <3> QED
            BY <1>3, <1>4, <2>1, <3>1, AccountsAssumption DEF Checked
    <2>2. CASE status # None
        <3>1. Answered(t, status) \in Task /\ Answered(t, status).status = status
            BY <1>4, <2>2, AnsweredTask
        <3> QED
            BY <1>3, <1>4, <2>2, <3>1 DEF Checked
    <2> QED
        BY <2>1, <2>2
<1>5. ASSUME NEW row \in NewUsers, Register(o, row) PROVE FALSE
    <2> DEFINE t == [Free EXCEPT !.op = "register", !.row = row]
    <2>1. t \in Task /\ t.status = None
        BY FreeTask DEF Task
    <2> HIDE DEF t
    <2>2. Checked(o, t, IF EmailTaken(row.email) THEN 409 ELSE None)
        BY <1>5 DEF Register, t
    <2> QED
        BY <1>4, <2>1, <2>2
<1>6. ASSUME NEW u \in Users, CreateProfile(o, u) PROVE FALSE
    <2> DEFINE t == [Free EXCEPT !.op = "profile", !.user = u]
    <2>1. t \in Task /\ t.status = None
        BY FreeTask DEF Task
    <2> HIDE DEF t
    <2>2. PICK status \in {403, 409, None} : Checked(o, t, status)
        BY <1>6 DEF CreateProfile, t
    <2> QED
        BY <1>4, <2>1, <2>2
<1>7. ASSUME NEW u \in Users, NEW patch \in Updates, UpdateProfile(o, u, patch) PROVE FALSE
    <2>1. users[u] \in Row
        BY <1>7 DEF UpdateProfile, AccountsInv, AccountsTypeOK
    <2> DEFINE t == [Free EXCEPT !.op = "patch", !.user = u, !.row = users[u], !.patch = patch]
    <2>2. t \in Task /\ t.status = None
        BY <2>1, FreeTask DEF Task
    <2> HIDE DEF t
    <2>3. Checked(o, t, None)
        BY <1>7 DEF UpdateProfile, t
    <2> QED
        BY <1>4, <2>2, <2>3
<1>8. ~Flush(o)
    <2> SUFFICES ASSUME Flush(o) PROVE FALSE
        OBVIOUS
    <2>1. task[o] \in Task /\ task[o].status = None
        BY <1>1 DEF Flush
    <2>2. CASE task' = [task EXCEPT ![o] = Answered(task[o], 500)]
        BY <1>3, <2>1, <2>2, AnsweredTask
    <2>3. ASSUME NEW u \in Users, NEW p \in Profiles \cup {None},
                 task' = [task EXCEPT ![o] = Flushed(task[o], u, p)]
          PROVE  FALSE
        BY <1>3, <2>1, <2>3, FlushedTask
    <2> QED
        BY <2>2, <2>3 DEF Flush
<1>9. ~Abort(o)
    <2> DEFINE old == [task[o] EXCEPT !.lost = TRUE]
    <2>1. old \in Task
        <3>1. task[o] \in Task
            BY <1>1
        <3> QED
            BY <3>1 DEF Task
    <2> HIDE DEF old
    <2> QED
        BY <1>3, <2>1, AnsweredTask DEF Abort, old
<1>10. ~Deliver(o)
    BY <1>3, FreeTask DEF Deliver
<1>11. Commit(o)
    BY <1>2, <1>5, <1>6, <1>7, <1>8, <1>9, <1>10 DEF Proceed
<1>12. /\ task'[o].status = IF task[o].op = "patch" THEN 200 ELSE 201
       /\ \A q \in Slots \ {o} : task'[q] = task[q]
    <2>1. task[o] \in Task /\ task' = [task EXCEPT ![o] = Answered(task[o], IF task[o].op = "patch" THEN 200 ELSE 201)]
        BY <1>1, <1>11 DEF Commit
    <2> QED
        BY <1>1, <2>1, AnsweredTask
<1> QED
    BY <1>11, <1>12

\* A change of details touches only the columns its request names, whatever overlaps
\* it, and is told 200 only if it has been made (update_profile, get_session).
THEOREM MergedPatches == Spec => PatchesMerge
<1>1. ASSUME AccountsInv, [Next]_vars, NEW u \in Users, users[u] # None, users'[u] # users[u]
      PROVE  \E s \in Slots : Merges(s, u)
    <2>1. PICK s \in Slots : Commit(s)
        BY <1>1, OthersKeepTables
    <2>2. /\ task[s] \in Task /\ Shaped(task[s]) /\ Inserted(task[s]) /\ task[s].stage = "commit"
          /\ users \in [Users -> Row \cup {None}]
        BY <1>1, <2>1 DEF Commit, AccountsInv, AccountsTypeOK
    <2>3. task[s].op = "patch" /\ task[s].user = u
        BY <1>1, <2>1, <2>2 DEF Commit, Shaped, Inserted
    <2> QED
        BY <1>1, <2>1, <2>3, CommitMerges
<1>2. ASSUME AccountsInv, [Next]_vars, NEW s \in Slots, task'[s].status = 200, task[s].status # 200
      PROVE  Merges(s, task[s].user)
    BY <1>2, OnlyPatchesAnswer200, CommitMerges
<1>3. AccountsInv /\ [Next]_vars =>
        [/\ \A u \in Users : users[u] # None /\ users'[u] # users[u] =>
               \E s \in Slots : Merges(s, u)
         /\ \A s \in Slots : task'[s].status = 200 /\ task[s].status # 200 =>
               Merges(s, task[s].user)]_vars
    BY <1>1, <1>2
<1> QED
    BY <1>3, AccountsInvariant, PTL DEF Spec, PatchesMerge
=============================================================================
