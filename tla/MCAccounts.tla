----------------------------- MODULE MCAccounts ----------------------------
(***************************************************************************)
(* An instance of Accounts for TLC: an e-mail that is asked for in either  *)
(* role, a second one, and changes of one column and of both.               *)
(***************************************************************************)
EXTENDS Accounts

CONSTANTS e1, e2, x, y, z

MCEmails == {e1, e2}
MCNames == {x, y}
MCPhones == {z}

NewRow(e, r) == [email |-> e, role |-> r, name |-> x, phone |-> None]
MCNewUsers == {NewRow(e1, "driver"), NewRow(e1, "rider"), NewRow(e2, "rider")}
MCUpdates == {[name |-> y, phone |-> None], [name |-> x, phone |-> z]}
=============================================================================
