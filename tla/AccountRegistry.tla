-------------------------- MODULE AccountRegistry --------------------------
(***************************************************************************)
(* What the tables of users and drivers promise: an account per e-mail,    *)
(* of the role it was registered with and for ever, and at most one        *)
(* profile, for an account of the driver role.  Each step is atomic.       *)
(***************************************************************************)
CONSTANTS Users, Profiles, Emails, Roles, None

VARIABLES
    accounts,   \* the e-mail and role of each user, or None
    profiles    \* the user of each driver profile, or None

Init ==
    /\ accounts = [u \in Users |-> None]
    /\ profiles = [p \in Profiles |-> None]

Register(u, e, r) ==
    /\ accounts[u] = None
    /\ \A v \in Users : accounts[v] # None => accounts[v].email # e
    /\ accounts' = [accounts EXCEPT ![u] = [email |-> e, role |-> r]]
    /\ UNCHANGED profiles

AddProfile(p, u) ==
    /\ accounts[u] # None
    /\ accounts[u].role = "driver"
    /\ profiles[p] = None
    /\ \A q \in Profiles : profiles[q] # u
    /\ profiles' = [profiles EXCEPT ![p] = u]
    /\ UNCHANGED accounts

Next ==
    \E u \in Users :
      \/ \E e \in Emails, r \in Roles : Register(u, e, r)
      \/ \E p \in Profiles : AddProfile(p, u)

Spec == Init /\ [][Next]_<<accounts, profiles>>
=============================================================================
