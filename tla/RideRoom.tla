------------------------------ MODULE RideRoom ------------------------------
(***************************************************************************)
(* The WebSocket room of one ride: the row, the handler that announces a   *)
(* change of it, the sockets of the room with the endpoint that serves     *)
(* each, and the pages that show the ride.                                 *)
(*                                                                         *)
(* A handler broadcasts between its flush and its commit, holding the lock *)
(* of the row, so that one broadcast is under way at a time.  What it may  *)
(* change on a stale read is the subject of RideService: here its reads    *)
(* are current.                                                            *)
(***************************************************************************)
EXTENDS Sequences, FiniteSets, Naturals

CONSTANTS
    Pages,      \* pages that watch the ride
    Drivers,    \* those that watch it as its driver
    Sockets,    \* server ends of the connections that are made
    None,       \* no socket, no change, nothing shown
    Faults,     \* may a commit fail?
    Backlog     \* bound: messages a page has not received when another change begins

ASSUME RoomAssumption ==
    /\ Drivers \subseteq Pages
    /\ None \notin Sockets
    /\ Faults \in BOOLEAN
    /\ Backlog \in Nat

VARIABLES
    ride,       \* the committed row: its status, and whether it names a driver
    change,     \* the change being announced, or None
    audience,   \* the copy of the room the broadcast has still to send to
    dead,       \* those of the copy whose send failed
    room,       \* _rooms[ride_id]
    endpoint,   \* for each socket, how far its ride_updates is
    line,       \* for each socket, the statuses on their way to the page
    page        \* for each page, its socket and the status it shows

broadcastVars == <<ride, change, audience, dead>>
roomVars == <<broadcastVars, room, endpoint, line, page>>

Follows == [requested |-> {"matched", "cancelled"}, matched |-> {"on_trip", "cancelled"},
            on_trip |-> {"completed"}, completed |-> {}, cancelled |-> {}]
Status == DOMAIN Follows
Ride == [status : Status, named : BOOLEAN]

ASSUME NoneAssumption == None \notin Ride

\* unused: not connected yet; read: the snapshot is read; joined: the socket is
\* in the room; receiving: the snapshot is sent; ended: ride_updates has ended.
Stage == {"unused", "read", "joined", "receiving", "ended"}
Endpoint == [stage : Stage, snapshot : Status \cup {None}]
At(stage) == [stage |-> stage, snapshot |-> None]

Gone(c) == \A p \in Pages : page[p].socket # c

Unused == {c \in Sockets : endpoint[c].stage = "unused"}

\* What reaches a page that is still there.
Sent(c, status) ==
    line' = IF Gone(c) THEN line ELSE [line EXCEPT ![c] = Append(@, status)]

RoomInit ==
    /\ ride = [status |-> "requested", named |-> FALSE]
    /\ change = None
    /\ audience = {}
    /\ dead = {}
    /\ room = {}
    /\ endpoint = [c \in Sockets |-> At("unused")]
    /\ line = [c \in Sockets |-> <<>>]
    /\ page = [p \in Pages |-> [socket |-> None, shown |-> None]]

-----------------------------------------------------------------------------
(* The handler that changes the ride. *)

Announce(status) ==
    /\ change = None
    /\ status \in Follows[ride.status]
    /\ \A c \in Sockets : Len(line[c]) <= Backlog
    /\ change' = [status |-> status, named |-> ride.named \/ status = "matched"]
    /\ audience' = room
    /\ UNCHANGED <<ride, dead, room, endpoint, line, page>>

\* One send of broadcast.  To a page that has gone it may fail or be lost; it
\* fails once the endpoint has ended.  The dead are pruned after the last one.
Send(c) ==
    /\ c \in audience
    /\ audience' = audience \ {c}
    /\ Sent(c, change.status)
    /\ \E failed \in {{}, {c}} :
          /\ failed = {} => ~Gone(c) \/ endpoint[c].stage # "ended"
          /\ failed = {c} => Gone(c)
          /\ LET lost == dead \cup failed IN
             IF audience = {c}
             THEN dead' = {} /\ room' = room \ lost
             ELSE dead' = lost /\ UNCHANGED room
    /\ UNCHANGED <<ride, change, endpoint, page>>

Commit ==
    /\ change # None /\ audience = {}
    /\ ride' = change
    /\ change' = None
    /\ UNCHANGED <<audience, dead, room, endpoint, line, page>>

Rollback ==
    /\ Faults
    /\ change # None /\ audience = {}
    /\ change' = None
    /\ UNCHANGED <<ride, audience, dead, room, endpoint, line, page>>

-----------------------------------------------------------------------------
(* The endpoint of a socket. *)

\* Mutant of Join: the room is made anew for each socket.
JoinAlone(c) ==
    /\ endpoint[c].stage = "read"
    /\ room' = {c}
    /\ endpoint' = [endpoint EXCEPT ![c].stage = "joined"]
    /\ UNCHANGED <<broadcastVars, line, page>>

\* manager.connect
Join(c) ==
    /\ endpoint[c].stage = "read"
    /\ room' = room \cup {c}
    /\ endpoint' = [endpoint EXCEPT ![c].stage = "joined"]
    /\ UNCHANGED <<broadcastVars, line, page>>

\* Mutant of SendSnapshot: the socket waits for the next update.
SkipSnapshot(c) ==
    /\ endpoint[c].stage = "joined"
    /\ endpoint' = [endpoint EXCEPT ![c] = At("receiving")]
    /\ UNCHANGED <<broadcastVars, room, line, page>>

SendSnapshot(c) ==
    /\ endpoint[c].stage = "joined"
    /\ Sent(c, endpoint[c].snapshot)
    /\ endpoint' = [endpoint EXCEPT ![c] = At("receiving")]
    /\ UNCHANGED <<broadcastVars, room, page>>

\* The page has gone before the receive loop: accept or the snapshot's send
\* raises, and no one calls disconnect.
Break(c) ==
    /\ endpoint[c].stage \in {"read", "joined"} /\ Gone(c)
    /\ endpoint' = [endpoint EXCEPT ![c] = At("ended")]
    /\ UNCHANGED <<broadcastVars, room, line, page>>

\* Mutant of Disconnect: the room is dropped, whoever else is in it.
DisconnectAll(c) ==
    /\ endpoint[c].stage = "receiving" /\ Gone(c)
    /\ room' = {}
    /\ endpoint' = [endpoint EXCEPT ![c] = At("ended")]
    /\ UNCHANGED <<broadcastVars, line, page>>

\* receive_text raises WebSocketDisconnect.
Disconnect(c) ==
    /\ endpoint[c].stage = "receiving" /\ Gone(c)
    /\ room' = room \ {c}
    /\ endpoint' = [endpoint EXCEPT ![c] = At("ended")]
    /\ UNCHANGED <<broadcastVars, line, page>>

-----------------------------------------------------------------------------
(* A page. *)

\* Mutant of Connect: the snapshot is not filled in.
ConnectUnread(p) ==
    LET c == CHOOSE d \in Unused : TRUE IN
    /\ page[p].socket = None
    /\ p \in Drivers => ride.named
    /\ Unused # {}
    /\ page' = [page EXCEPT ![p].socket = c]
    /\ endpoint' = [endpoint EXCEPT ![c] = At("read")]
    /\ UNCHANGED <<broadcastVars, room, line>>

\* The hook connects, at once or when its timer fires, and _authorize reads
\* the row.  An attempt that is refused is made again and changes nothing.
\* Sockets are alike: which one it is does not matter.
Connect(p) ==
    LET c == CHOOSE d \in Unused : TRUE IN
    /\ page[p].socket = None
    /\ p \in Drivers => ride.named
    /\ Unused # {}
    /\ page' = [page EXCEPT ![p].socket = c]
    /\ endpoint' = [endpoint EXCEPT ![c] = [stage |-> "read", snapshot |-> ride.status]]
    /\ UNCHANGED <<broadcastVars, room, line>>

\* onmessage: setRide
Receive(p) ==
    LET c == page[p].socket IN
    /\ c # None /\ line[c] # <<>>
    /\ page' = [page EXCEPT ![p].shown = Head(line[c])]
    /\ line' = [line EXCEPT ![c] = Tail(@)]
    /\ UNCHANGED <<broadcastVars, room, endpoint>>

\* The connection is lost or the page is left; onclose sets the timer.
\* Bound: a socket remains for each page that is away.
Drop(p) ==
    LET c == page[p].socket IN
    /\ c # None
    /\ Cardinality(Unused) > Cardinality({q \in Pages : page[q].socket = None})
    /\ page' = [page EXCEPT ![p].socket = None]
    /\ line' = [line EXCEPT ![c] = <<>>]
    /\ UNCHANGED <<broadcastVars, room, endpoint>>

-----------------------------------------------------------------------------
Handler == Commit \/ \E c \in Sockets : Send(c)
Serve(c) == Join(c) \/ SendSnapshot(c) \/ Break(c) \/ Disconnect(c)
Watch(p) == Receive(p) \/ Connect(p)

RoomNext ==
    \/ Handler \/ Rollback
    \/ \E status \in Status : Announce(status)
    \/ \E c \in Sockets : Serve(c)
    \/ \E p \in Pages : Watch(p) \/ Drop(p)

RoomSpec == RoomInit /\ [][RoomNext]_roomVars

\* The event loop resumes what is ready, a send to a page that does not read
\* ends when the server's keepalive gives it up, and the hook's timer fires.
RoomFairness ==
    /\ WF_roomVars(Handler)
    /\ \A c \in Sockets : WF_roomVars(Serve(c))
    /\ \A p \in Pages : WF_roomVars(Watch(p))

-----------------------------------------------------------------------------
\* Row, room, endpoints, messages and pages have their types.
RoomTypeOK ==
    /\ ride \in Ride
    /\ change \in Ride \cup {None}
    /\ audience \subseteq Sockets /\ dead \subseteq Sockets /\ room \subseteq Sockets
    /\ endpoint \in [Sockets -> Endpoint]
    /\ line \in [Sockets -> Seq(Status)]
    /\ page \in [Pages -> [socket : Sockets \cup {None}, shown : Status \cup {None}]]

Over == Follows[ride.status] = {}

\* The status told last.
Told == IF change = None THEN ride.status ELSE change.status

\* The status page p will show when its messages have arrived.
WillShow(p) ==
    LET c == page[p].socket IN
    IF line[c] = <<>> THEN page[p].shown ELSE line[c][Len(line[c])]

\* A page that has been sent its snapshot shows the status told last, will do
\* so when its messages arrive, or is still to be told.
InStep(p) ==
    LET c == page[p].socket IN
    (c # None /\ endpoint[c].stage = "receiving") => c \in audience \/ WillShow(p) = Told

\* Whatever joins, leaves, dies or reconnects during the awaits of a broadcast,
\* a page is put out of step only by a snapshot that was overtaken before it
\* was sent, or by a commit that fails after the room has been told.
OnlyOvertakenSnapshotsMislead ==
    [][\A p \in Pages : InStep(p) /\ ~InStep(p)' =>
          \/ Rollback
          \/ SendSnapshot(page[p].socket) /\ endpoint[page[p].socket].snapshot # Told]_roomVars

\* Each change is sent to every page that has a joined socket, whatever joined,
\* left, died or was pruned during earlier broadcasts, and also if the page was
\* put out of step by one of them: it shows the change once its messages have
\* arrived, unless it is put out of step again (ConnectionManager.connect,
\* broadcast and disconnect).
EveryChangeIsTold ==
    [][change = None /\ change' # None =>
          \A p \in Pages :
              LET c == page[p].socket IN
              c # None /\ endpoint[c].stage \in {"joined", "receiving"} => c \in audience']_roomVars

\* A page that connects after the end of the ride comes to show it, whatever it
\* showed before: reconnecting heals a page that was out of step.
ReconnectHeals ==
    \A p \in Pages : (Over /\ page[p].socket = None /\ (p \in Drivers => ride.named))
                        ~> page[p].shown = ride.status
=============================================================================
