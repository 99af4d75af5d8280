----------------------------- MODULE MCRideRoom -----------------------------
(***************************************************************************)
(* Instances of RideRoom for TLC.                                          *)
(***************************************************************************)
EXTENDS RideRoom

\* The state after a match that nobody watched: reached from RoomInit by
\* Announce and Commit.
MatchedInit ==
    /\ ride = [status |-> "matched", named |-> TRUE]
    /\ change = None
    /\ audience = {}
    /\ dead = {}
    /\ room = {}
    /\ endpoint = [c \in Sockets |-> At("unused")]
    /\ line = [c \in Sockets |-> <<>>]
    /\ page = [p \in Pages |-> [socket |-> None, shown |-> None]]

FairMatchedSpec == MatchedInit /\ [][RoomNext]_roomVars /\ RoomFairness
=============================================================================
