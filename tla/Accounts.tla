------------------------------ MODULE Accounts -----------------------------
(***************************************************************************)
(* Registration, the rider's or driver's own details, and the driver       *)
(* profile.                                                                *)
(*                                                                         *)
(* register and create_profile look for a row with the same key and then   *)
(* insert one.  Requests overlap, so both may find none: what then keeps   *)
(* the second row out is the unique index, at the flush.  An insert waits  *)
(* for a transaction under way that holds its key.  update_profile writes  *)
(* the columns that are named and differ from what the request read.       *)
(*                                                                         *)
(* No account is deleted or deactivated by this program, and an access     *)
(* token of one is taken for granted here: RefreshTokens has the tokens.   *)
(***************************************************************************)
EXTENDS Naturals

CONSTANTS
    Users, Profiles,    \* ids that the rows of users and drivers may get
    Emails,
    Names, Phones,      \* values of full_name and phone
    NewUsers,           \* the rows that registrations give
    Updates,            \* the changes of details that requests ask for
    Slots,              \* requests the process can be handling at once
    Faults,             \* may a transaction fail?
    None

ASSUME AccountsAssumption ==
    /\ Faults \in BOOLEAN
    /\ None \notin Users \cup Profiles \cup Emails \cup Names \cup Phones \cup Nat

Roles == {"rider", "driver"}

Row == [email : Emails, role : Roles, name : Names, phone : Phones \cup {None}]

Patch == [name : Names \cup {None}, phone : Phones \cup {None}]
Unnamed == [name |-> None, phone |-> None]

ASSUME RowAssumption ==
    /\ None \notin Row \cup [email : Emails, role : Roles]
    /\ NewUsers \subseteq Row
    /\ Updates \subseteq Patch

VARIABLES
    users,      \* the table of users: a row for each id, or None
    drivers,    \* drivers.user_id for each id, or None
    task        \* the request in each slot

vars == <<users, drivers, task>>

Ops == {"none", "register", "profile", "patch"}
Stages == {"free", "flush", "commit", "answered"}
Statuses == {200, 201, 403, 409, 500, None}

Task == [op : Ops,
         stage : Stages,
         user : Users \cup {None},          \* the caller, or the new user
         row : Row \cup {None},             \* to insert, or as it was read
         patch : Patch,                     \* None: the column is not named
         profile : Profiles \cup {None},    \* the new profile
         status : Statuses,
         lost : BOOLEAN]                    \* history: the transaction was made to fail

Free == [op |-> "none", stage |-> "free", user |-> None, row |-> None,
         patch |-> Unnamed, profile |-> None, status |-> None, lost |-> FALSE]

EmailTaken(e) == \E u \in Users : users[u] # None /\ users[u].email = e
HasProfile(u) == \E p \in Profiles : drivers[p] = u

\* The columns that an UPDATE sets.
Changes(t) == {c \in {"name", "phone"} : t.patch[c] # None /\ t.patch[c] # t.row[c]}

SameKey(t, other) ==
    /\ t.op = other.op
    /\ t.op = "register" => t.row.email = other.row.email
    /\ t.op # "register" => t.user = other.user
    /\ t.op = "patch" => Changes(t) # {} /\ Changes(other) # {}

\* Mutant of Blocked: a request is kept waiting from its first read on.
BlockedFromTheRead(s) ==
    \E o \in Slots \ {s} : task[o].stage \in {"flush", "commit"} /\ SameKey(task[s], task[o])

\* The transaction that holds the key, or has the row locked, is not over.
Blocked(s) == \E o \in Slots \ {s} : task[o].stage = "commit" /\ SameKey(task[s], task[o])

\* Mutant of Clashes: the columns have indexes, but not unique ones.
ClashesNever(t) == FALSE

\* The unique indexes ix_users_email and ix_drivers_user_id.
Clashes(t) ==
    \/ t.op = "register" /\ EmailTaken(t.row.email)
    \/ t.op = "profile" /\ HasProfile(t.user)

NewUser(u) == users[u] = None /\ \A s \in Slots : task[s].user # u
NewProfile(p) == drivers[p] = None /\ \A s \in Slots : task[s].profile # p

\* Mutant of Written: the whole row is written, as it was read and changed.
WrittenWhole(t, now) ==
    [t.row EXCEPT !.name = IF t.patch.name # None THEN t.patch.name ELSE @,
                  !.phone = IF t.patch.phone # None THEN t.patch.phone ELSE @]

\* Mutant of Written: name and phone are mixed up.
WrittenSwapped(t, now) == [now EXCEPT !.name = t.patch.phone, !.phone = t.patch.name]

Written(t, now) ==
    [email |-> now.email, role |-> now.role,
     name |-> IF "name" \in Changes(t) THEN t.patch.name ELSE now.name,
     phone |-> IF "phone" \in Changes(t) THEN t.patch.phone ELSE now.phone]

-----------------------------------------------------------------------------
Init ==
    /\ users = [u \in Users |-> None]
    /\ drivers = [p \in Profiles |-> None]
    /\ task = [s \in Slots |-> Free]

Flushed(t, u, p) == [t EXCEPT !.stage = "commit", !.user = u, !.profile = p]
Answered(t, status) ==
    [op |-> t.op, stage |-> "answered", user |-> t.user, row |-> t.row,
     patch |-> t.patch, profile |-> t.profile, status |-> status, lost |-> t.lost]

\* A request has been checked: it goes on to the flush, or is answered with the
\* status of the error, which handle_app_error takes from its class.
Checked(s, t, status) ==
    task' = [task EXCEPT ![s] =
        IF status = None THEN [t EXCEPT !.stage = "flush"] ELSE Answered(t, status)]

Register(s, row) ==
    /\ task[s] = Free
    /\ Checked(s, [Free EXCEPT !.op = "register", !.row = row],
               IF EmailTaken(row.email) THEN 409 ELSE None)
    /\ UNCHANGED <<users, drivers>>

CreateProfile(s, u) ==
    /\ task[s] = Free
    /\ users[u] # None
    /\ Checked(s, [Free EXCEPT !.op = "profile", !.user = u],
               IF users[u].role # "driver" THEN 403 ELSE IF HasProfile(u) THEN 409 ELSE None)
    /\ UNCHANGED <<users, drivers>>

UpdateProfile(s, u, patch) ==
    /\ task[s] = Free
    /\ users[u] # None
    /\ Checked(s, [Free EXCEPT !.op = "patch", !.user = u, !.row = users[u], !.patch = patch], None)
    /\ UNCHANGED <<users, drivers>>

\* The INSERT or UPDATE.  An IntegrityError is not an AppError: the session rolls
\* back and the answer is a server error.
Flush(s) ==
    LET t == task[s] IN
    /\ t.stage = "flush"
    /\ ~Blocked(s)
    /\ \/ /\ Clashes(t)
          /\ task' = [task EXCEPT ![s] = Answered(@, 500)]
       \/ /\ ~Clashes(t)
          /\ \E u \in Users, p \in Profiles \cup {None} :
                /\ IF t.op = "register" THEN NewUser(u) ELSE u = t.user
                /\ IF t.op = "profile" THEN p # None /\ NewProfile(p) ELSE p = None
                /\ task' = [task EXCEPT ![s] = Flushed(t, u, p)]
    /\ UNCHANGED <<users, drivers>>

\* get_session commits before the answer goes out.
Commit(s) ==
    LET t == task[s] IN
    /\ t.stage = "commit"
    /\ users' = IF t.op = "register" THEN [users EXCEPT ![t.user] = t.row]
                ELSE IF t.op = "patch" THEN [users EXCEPT ![t.user] = Written(t, @)]
                ELSE users
    /\ drivers' = IF t.op = "profile" THEN [drivers EXCEPT ![t.profile] = t.user] ELSE drivers
    /\ task' = [task EXCEPT ![s] = Answered(@, IF t.op = "patch" THEN 200 ELSE 201)]

\* Mutant of Abort: get_session rolls back and does not raise.
AbortUnnoticed(s) ==
    /\ Faults
    /\ task[s].stage \in {"flush", "commit"}
    /\ task' = [task EXCEPT ![s] = Answered(@, IF task[s].op = "patch" THEN 200 ELSE 201)]
    /\ UNCHANGED <<users, drivers>>

\* The connection is lost or the commit fails: rolled back.
Abort(s) ==
    /\ Faults
    /\ task[s].stage \in {"flush", "commit"}
    /\ task' = [task EXCEPT ![s] = Answered([@ EXCEPT !.lost = TRUE], 500)]
    /\ UNCHANGED <<users, drivers>>

\* The answer goes out.
Deliver(s) ==
    /\ task[s].stage = "answered"
    /\ task' = [task EXCEPT ![s] = Free]
    /\ UNCHANGED <<users, drivers>>

Proceed(s) == Flush(s) \/ Commit(s) \/ Abort(s) \/ Deliver(s)

Next ==
    \E s \in Slots :
      \/ \E row \in NewUsers : Register(s, row)
      \/ \E u \in Users : CreateProfile(s, u) \/ \E patch \in Updates : UpdateProfile(s, u, patch)
      \/ Proceed(s)

\* The event loop and the database get to every request; an insert that waits is
\* not overtaken for ever by others of the same key.
Fairness ==
    \A s \in Slots : WF_vars(Commit(s) \/ Deliver(s)) /\ SF_vars(Flush(s))

Spec == Init /\ [][Next]_vars /\ Fairness

-----------------------------------------------------------------------------
AccountsTypeOK ==
    /\ users \in [Users -> Row \cup {None}]
    /\ drivers \in [Profiles -> Users \cup {None}]
    /\ task \in [Slots -> Task]

Account == [u \in Users |-> IF users[u] = None THEN None
                            ELSE [email |-> users[u].email, role |-> users[u].role]]

Registry == INSTANCE AccountRegistry WITH accounts <- Account, profiles <- drivers

\* Whatever the requests that overlap have read, the tables change as the
\* registry says: one account per e-mail, one profile per driver, and none for
\* a rider (AuthService.register, DriverService.create_profile).
RegistrySpec == Registry!Spec

Truthful(t) ==
    t.stage = "answered" =>
      /\ t.status = 201 /\ t.op = "register" =>
            t.user \in Users /\ users[t.user] # None /\ users[t.user].email = t.row.email
      /\ t.status = 201 /\ t.op = "profile" =>
            t.profile \in Profiles /\ drivers[t.profile] = t.user
      /\ t.status = 409 \/ (t.status = 500 /\ ~t.lost) => Clashes(t)

\* An answer says what has become of the request: 201 only once the rows are
\* committed; a conflict, or a server error though nothing made the transaction
\* fail, only if the e-mail or the profile is there (get_session, handle_app_error).
AnswersAreTrue == \A s \in Slots : Truthful(task[s])

\* The step is the commit of slot s, and changes of u's row what was asked.
Merges(s, u) ==
    LET t == task[s] IN
    /\ t.op = "patch" /\ t.user = u /\ t.stage = "commit" /\ task'[s].status = 200
    /\ \A c \in {"email", "role", "name", "phone"} :
          \/ users'[u][c] = users[u][c]
          \/ c \in {"name", "phone"} /\ t.patch[c] # None /\ users'[u][c] = t.patch[c]
    /\ t.row = users[u] =>
          \A c \in {"name", "phone"} : t.patch[c] # None => users'[u][c] = t.patch[c]

\* A change of details touches only the columns its request names, whatever has
\* been committed since it read the row: a phone that is not named stays, also if
\* the request read none.  Of a row not changed since, it leaves every column named
\* as asked.  And 200 is answered only by a commit that has done so
\* (update_profile, get_session).
PatchesMerge ==
    [][/\ \A u \in Users : users[u] # None /\ users'[u] # users[u] =>
             \E s \in Slots : Merges(s, u)
       /\ \A s \in Slots : task'[s].status = 200 /\ task[s].status # 200 =>
             Merges(s, task[s].user)]_vars

\* Every request is answered, those included that wait at the flush for another
\* with the same key (register, create_profile, update_profile).
EveryRequestEnds ==
    \A s \in Slots : task[s].stage \in {"flush", "commit"} ~> task[s].stage = "answered"
=============================================================================
