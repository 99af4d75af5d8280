--------------------------- MODULE MCTokenClient ---------------------------
(***************************************************************************)
(* Instances of TokenClient for TLC.                                       *)
(***************************************************************************)
EXTENDS TokenClient

CONSTANTS u, t1

\* The state after one login: reached from ClientInit by SignIn, Serve, Store
\* and Answered.
SignedInInit ==
    /\ owner = [n \in Tokens |-> IF n = t1 THEN u ELSE None]
    /\ revoked = {}
    /\ parent = [n \in Tokens |-> None]
    /\ expired = {}
    /\ active = Users
    /\ job = [s \in Slots |-> NoJob]
    /\ stored = t1
    /\ lapsed = {}
    /\ call = [s \in Slots |-> NoCall]

FairSignedInSpec ==
    SignedInInit /\ [][ClientNext]_clientVars /\ \A s \in Slots : SF_clientVars(Continue(s))
=============================================================================
