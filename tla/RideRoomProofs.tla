--------------------------- MODULE RideRoomProofs ---------------------------
(***************************************************************************)
(* For any number of pages and sockets, a page of the room is put out of   *)
(* step only by an overtaken snapshot or a failed commit.                  *)
(***************************************************************************)
EXTENDS RideRoom, SequenceTheorems, TLAPS

\* A socket that is known to a page or to the process has been connected.
Connected ==
    /\ \A p \in Pages : page[p].socket # None => endpoint[page[p].socket].stage # "unused"
    /\ \A c \in room \cup audience \cup dead : endpoint[c].stage # "unused"

\* No two pages share a socket.
SocketsDistinct ==
    \A p, q \in Pages : page[p].socket = page[q].socket /\ page[p].socket # None => p = q

\* The room holds the socket of every page that has been sent its snapshot;
\* only sockets whose page has gone are pruned.
RoomHoldsPages ==
    /\ \A p \in Pages :
          (page[p].socket # None /\ endpoint[page[p].socket].stage \in {"joined", "receiving"})
             => page[p].socket \in room
    /\ \A c \in dead : Gone(c)

\* A broadcast is of a change; a snapshot not sent yet has been read.
InOrder ==
    /\ audience # {} => change # None
    /\ audience = {} => dead = {}
    /\ \A c \in Sockets : endpoint[c].stage \in {"read", "joined"} => endpoint[c].snapshot \in Status

RoomInv ==
    /\ RoomTypeOK
    /\ InOrder
    /\ Connected
    /\ SocketsDistinct
    /\ RoomHoldsPages

-----------------------------------------------------------------------------
LEMMA FollowsTypes ==
    /\ Status = {"requested", "matched", "on_trip", "completed", "cancelled"}
    /\ \A status \in Status : Follows[status] \subseteq Status
  BY DEF Status, Follows

LEMMA RoomInitInv == RoomInit => RoomInv
<1> SUFFICES ASSUME RoomInit PROVE RoomInv
    OBVIOUS
<1> USE RoomAssumption, NoneAssumption DEF RoomInit
<1>1. RoomTypeOK
  BY FollowsTypes DEF RoomTypeOK, Ride, Endpoint, Stage, At
<1>2. Connected /\ SocketsDistinct /\ RoomHoldsPages /\ InOrder
  BY DEF At, InOrder, Connected, SocketsDistinct, RoomHoldsPages
<1> QED  BY <1>1, <1>2 DEF RoomInv

\* What a send does to the lines.
LEMMA SentOK ==
  ASSUME RoomTypeOK, NEW c \in Sockets, NEW status \in Status, Sent(c, status)
  PROVE  /\ line' \in [Sockets -> Seq(Status)]
         /\ \A d \in Sockets : d # c => line'[d] = line[d]
         /\ ~Gone(c) => /\ line'[c] # <<>>
                        /\ line'[c][Len(line'[c])] = status
<1>0. line \in [Sockets -> Seq(Status)]
  BY DEF RoomTypeOK
<1>1. CASE Gone(c)
  BY <1>0, <1>1 DEF Sent
<1>2. CASE ~Gone(c)
  <2>1. line' = [line EXCEPT ![c] = Append(line[c], status)]
    BY <1>2 DEF Sent
  <2>2. /\ Append(line[c], status) \in Seq(Status)
        /\ Len(Append(line[c], status)) = Len(line[c]) + 1
        /\ Append(line[c], status)[Len(line[c]) + 1] = status
        /\ Append(line[c], status) # <<>>
    BY <1>0
  <2> QED  BY <1>0, <2>1, <2>2
<1> QED  BY <1>1, <1>2

\* The last message stays the last when the first is received.
LEMMA LastOfTail ==
  ASSUME NEW T, NEW seq \in Seq(T), seq # <<>>
  PROVE  /\ Head(seq) \in T /\ Tail(seq) \in Seq(T)
         /\ Tail(seq) = <<>> => Head(seq) = seq[Len(seq)]
         /\ Tail(seq) # <<>> => Tail(seq)[Len(Tail(seq))] = seq[Len(seq)]
<1>1. /\ Head(seq) \in T /\ Tail(seq) \in Seq(T)
      /\ Len(Tail(seq)) = Len(seq) - 1
      /\ \A i \in 1 .. Len(Tail(seq)) : Tail(seq)[i] = seq[i + 1]
  BY HeadTailProperties
<1>2. Head(seq) = seq[1] /\ Len(seq) \in Nat /\ Len(seq) > 0
  BY SMT
<1>3. ASSUME Tail(seq) = <<>> PROVE Head(seq) = seq[Len(seq)]
  <2>1. Len(<<>>) = 0
    BY EmptySeq
  <2>2. Len(Tail(seq)) = 0
    BY <1>3, <2>1, Zenon
  <2>3. \A n \in Nat : n - 1 = 0 => n = 1
    OBVIOUS
  <2>4. Len(seq) = 1
    BY <1>1, <1>2, <2>2, <2>3, Zenon
  <2> QED  BY <1>2, <2>4, Zenon
<1>4. ASSUME Tail(seq) # <<>> PROVE Tail(seq)[Len(Tail(seq))] = seq[Len(seq)]
  <2>1. Len(Tail(seq)) \in Nat \ {0}
    BY <1>1, <1>4, EmptySeq
  <2> QED  BY <1>1, <1>2, <2>1
<1> QED  BY <1>1, <1>3, <1>4

-----------------------------------------------------------------------------
LEMMA AnnounceInv ==
  ASSUME RoomInv, NEW status \in Status, Announce(status)
  PROVE  RoomInv' /\ \A p \in Pages : InStep(p) => InStep(p)'
<1> USE RoomAssumption, NoneAssumption, FollowsTypes DEF Announce, RoomInv
<1>1. RoomTypeOK'
  BY DEF RoomTypeOK, Ride
<1>2. Connected' /\ SocketsDistinct' /\ RoomHoldsPages'
  BY DEF Connected, SocketsDistinct, RoomHoldsPages, Gone
<1>4. InOrder'
  <2>1. change' \in Ride
    BY DEF RoomTypeOK, Ride
  <2> QED  BY <2>1 DEF InOrder
<1>3. \A p \in Pages : InStep(p)'
  BY DEF InStep, RoomHoldsPages
<1> QED  BY <1>1, <1>2, <1>3, <1>4

LEMMA SendInv ==
  ASSUME RoomInv, NEW c \in Sockets, Send(c)
  PROVE  RoomInv' /\ \A p \in Pages : InStep(p) => InStep(p)'
<1> USE RoomAssumption, NoneAssumption DEF RoomInv
<1>0. change \in Ride /\ change.status \in Status /\ change # None
  BY DEF RoomTypeOK, Ride, InOrder, Send
<1>1. /\ line' \in [Sockets -> Seq(Status)]
      /\ \A d \in Sockets : d # c => line'[d] = line[d]
      /\ ~Gone(c) => line'[c] # <<>> /\ line'[c][Len(line'[c])] = change.status
  BY <1>0, SentOK DEF Send
<1>2. PICK failed \in {{}, {c}} :
         /\ failed = {c} => Gone(c)
         /\ \/ dead' = {} /\ room' = room \ (dead \cup failed)
            \/ audience # {c} /\ dead' = dead \cup failed /\ room' = room
  BY DEF Send
<1>3. UNCHANGED <<ride, change, endpoint, page>> /\ audience' = audience \ {c} /\ c \in audience
  BY DEF Send
<1>4. RoomTypeOK'
  BY <1>1, <1>2, <1>3 DEF RoomTypeOK
<1>5. Connected'
  BY <1>2, <1>3 DEF Connected
<1>6. SocketsDistinct'
  BY <1>3 DEF SocketsDistinct
<1>7. RoomHoldsPages'
  BY <1>2, <1>3 DEF RoomHoldsPages, Gone
<1>8. InOrder'
  BY <1>0, <1>2, <1>3 DEF InOrder
<1>9. ASSUME NEW p \in Pages, InStep(p) PROVE InStep(p)'
  <2>1. CASE page[p].socket = c
    BY <1>0, <1>1, <1>3, <2>1 DEF InStep, WillShow, Told, Gone
  <2>2. CASE page[p].socket # c
    BY <1>1, <1>3, <1>9, <2>2 DEF InStep, WillShow, Told, RoomTypeOK
  <2> QED  BY <2>1, <2>2
<1> QED  BY <1>4, <1>5, <1>6, <1>7, <1>8, <1>9

\* A commit or a rollback changes the row and the change alone.
LEMMA EndInv ==
  ASSUME RoomInv, Commit \/ Rollback
  PROVE  RoomInv'
<1> USE DEF RoomInv, Commit, Rollback
<1>1. RoomTypeOK'
  BY DEF RoomTypeOK
<1>2. Connected' /\ SocketsDistinct' /\ RoomHoldsPages'
  BY DEF Connected, SocketsDistinct, RoomHoldsPages, Gone
<1>3. InOrder'
  BY DEF InOrder, RoomHoldsPages
<1> QED  BY <1>1, <1>2, <1>3

LEMMA CommitInStep ==
  ASSUME RoomInv, Commit
  PROVE  \A p \in Pages : InStep(p) => InStep(p)'
  BY DEF RoomInv, RoomTypeOK, Commit, InStep, WillShow, Told

-----------------------------------------------------------------------------
\* A step of an endpoint other than the snapshot.
LEMMA EndpointInv ==
  ASSUME RoomInv, NEW c \in Sockets, Join(c) \/ Break(c) \/ Disconnect(c)
  PROVE  RoomInv' /\ \A p \in Pages : InStep(p) => InStep(p)'
<1> USE DEF RoomInv
<1>0. /\ endpoint \in [Sockets -> Endpoint]
      /\ UNCHANGED <<broadcastVars, line, page>>
  BY DEF RoomTypeOK, Join, Break, Disconnect
<1>1. PICK e \in Endpoint :
         /\ e.stage \in {"joined", "ended"}
         /\ endpoint' = [endpoint EXCEPT ![c] = e]
         /\ e.stage = "joined" => room' = room \cup {c} /\ e.snapshot = endpoint[c].snapshot
                                  /\ endpoint[c].stage = "read"
         /\ e.stage = "ended" => Gone(c) /\ room' \in {room, room \ {c}}
         /\ endpoint[c].stage # "unused"
  <2>1. CASE Join(c)
    <3>1. [endpoint[c] EXCEPT !.stage = "joined"] \in Endpoint
      BY <1>0 DEF Endpoint, Stage
    <3> QED  BY <1>0, <2>1, <3>1 DEF Join, Endpoint
  <2>2. CASE Break(c) \/ Disconnect(c)
    <3>1. At("ended") \in Endpoint /\ At("ended").stage = "ended"
      BY DEF Endpoint, Stage, At
    <3> QED  BY <1>0, <2>2, <3>1 DEF Break, Disconnect
  <2> QED  BY <2>1, <2>2
<1>2. RoomTypeOK'
  BY <1>0, <1>1 DEF RoomTypeOK, broadcastVars
<1>3. Connected' /\ SocketsDistinct'
  BY <1>0, <1>1 DEF Connected, SocketsDistinct, broadcastVars, RoomTypeOK
<1>4. RoomHoldsPages'
  BY <1>0, <1>1 DEF RoomHoldsPages, Gone, broadcastVars, RoomTypeOK
<1>5. InOrder'
  BY <1>0, <1>1 DEF InOrder, broadcastVars
<1>6. \A p \in Pages : InStep(p) => InStep(p)'
  BY <1>0, <1>1 DEF InStep, WillShow, Told, broadcastVars, RoomTypeOK
<1> QED  BY <1>2, <1>3, <1>4, <1>5, <1>6

LEMMA SnapshotInv ==
  ASSUME RoomInv, NEW c \in Sockets, SendSnapshot(c)
  PROVE  /\ RoomInv'
         /\ \A p \in Pages :
               InStep(p) /\ ~(page[p].socket = c /\ endpoint[c].snapshot # Told) => InStep(p)'
<1> USE DEF RoomInv
<1>0. /\ endpoint \in [Sockets -> Endpoint]
      /\ endpoint' = [endpoint EXCEPT ![c] = At("receiving")]
      /\ endpoint[c].stage = "joined" /\ endpoint[c].snapshot \in Status
      /\ UNCHANGED <<broadcastVars, room, page>>
  BY DEF RoomTypeOK, SendSnapshot, InOrder
<1>1. /\ line' \in [Sockets -> Seq(Status)]
      /\ \A d \in Sockets : d # c => line'[d] = line[d]
      /\ ~Gone(c) => line'[c] # <<>> /\ line'[c][Len(line'[c])] = endpoint[c].snapshot
  BY <1>0, SentOK DEF SendSnapshot
<1>2. At("receiving") \in Endpoint /\ At("receiving").stage = "receiving"
  BY DEF At, Endpoint, Stage
<1>3. RoomTypeOK'
  BY <1>0, <1>1, <1>2 DEF RoomTypeOK, broadcastVars
<1>4. Connected' /\ SocketsDistinct' /\ RoomHoldsPages' /\ InOrder'
  BY <1>0, <1>2 DEF Connected, SocketsDistinct, RoomHoldsPages, InOrder, Gone, broadcastVars,
                    RoomTypeOK
<1>5. ASSUME NEW p \in Pages, InStep(p),
             ~(page[p].socket = c /\ endpoint[c].snapshot # Told)
      PROVE  InStep(p)'
  <2>1. CASE page[p].socket = c
    BY <1>0, <1>1, <1>5, <2>1 DEF InStep, WillShow, Told, Gone, broadcastVars
  <2>2. CASE page[p].socket # c
    BY <1>0, <1>1, <1>5, <2>2 DEF InStep, WillShow, Told, broadcastVars, RoomTypeOK
  <2> QED  BY <2>1, <2>2
<1> QED  BY <1>3, <1>4, <1>5

-----------------------------------------------------------------------------
LEMMA ConnectInv ==
  ASSUME RoomInv, NEW p \in Pages, Connect(p)
  PROVE  RoomInv' /\ \A q \in Pages : InStep(q) => InStep(q)'
<1> DEFINE c == CHOOSE d \in Unused : TRUE
           e == [stage |-> "read", snapshot |-> ride.status]
<1> USE RoomAssumption, NoneAssumption DEF RoomInv
<1>0. /\ c \in Sockets /\ endpoint[c].stage = "unused"
      /\ page[p].socket = None
      /\ page' = [page EXCEPT ![p].socket = c]
      /\ endpoint' = [endpoint EXCEPT ![c] = e]
      /\ UNCHANGED <<broadcastVars, room, line>>
  BY DEF Connect, Unused
<1>1. e \in Endpoint /\ e.stage = "read" /\ e.snapshot \in Status
  BY DEF RoomTypeOK, Ride, Endpoint, Stage
<1> HIDE DEF c, e
<1>2. /\ endpoint \in [Sockets -> Endpoint]
      /\ page \in [Pages -> [socket : Sockets \cup {None}, shown : Status \cup {None}]]
  BY DEF RoomTypeOK
<1>3. RoomTypeOK'
  BY <1>0, <1>1, <1>2 DEF RoomTypeOK, broadcastVars
<1>4. \A q \in Pages : q # p => page'[q] = page[q] /\ page[q].socket # c
  BY <1>0, <1>2 DEF Connected
<1>5. page'[p].socket = c
  BY <1>0, <1>2
<1>6. Connected' /\ SocketsDistinct' /\ InOrder'
  BY <1>0, <1>1, <1>2, <1>4, <1>5 DEF Connected, SocketsDistinct, InOrder, broadcastVars
<1>7. RoomHoldsPages'
  BY <1>0, <1>1, <1>2, <1>4, <1>5 DEF RoomHoldsPages, Connected, Gone, broadcastVars
<1>8. \A q \in Pages : InStep(q) => InStep(q)'
  BY <1>0, <1>1, <1>2, <1>4, <1>5 DEF InStep, WillShow, Told, broadcastVars
<1> QED  BY <1>3, <1>6, <1>7, <1>8

LEMMA ReceiveInv ==
  ASSUME RoomInv, NEW p \in Pages, Receive(p)
  PROVE  RoomInv' /\ \A q \in Pages : InStep(q) => InStep(q)'
<1> DEFINE c == page[p].socket
<1> USE RoomAssumption, NoneAssumption DEF RoomInv
<1>0. /\ c \in Sockets /\ c # None /\ line[c] \in Seq(Status) /\ line[c] # <<>>
      /\ page' = [page EXCEPT ![p].shown = Head(line[c])]
      /\ line' = [line EXCEPT ![c] = Tail(line[c])]
      /\ UNCHANGED <<broadcastVars, room, endpoint>>
      /\ line \in [Sockets -> Seq(Status)]
      /\ page \in [Pages -> [socket : Sockets \cup {None}, shown : Status \cup {None}]]
  BY DEF RoomTypeOK, Receive
<1>1. /\ Head(line[c]) \in Status /\ Tail(line[c]) \in Seq(Status)
      /\ Tail(line[c]) = <<>> => Head(line[c]) = line[c][Len(line[c])]
      /\ Tail(line[c]) # <<>> => Tail(line[c])[Len(Tail(line[c]))] = line[c][Len(line[c])]
  BY <1>0, LastOfTail
<1>2. RoomTypeOK'
  BY <1>0, <1>1 DEF RoomTypeOK, broadcastVars
<1>3. \A q \in Pages : page'[q].socket = page[q].socket
  BY <1>0
<1>4. Connected' /\ SocketsDistinct' /\ RoomHoldsPages' /\ InOrder'
  BY <1>0, <1>3 DEF Connected, SocketsDistinct, RoomHoldsPages, InOrder, Gone, broadcastVars
<1>5. ASSUME NEW q \in Pages, page[q].socket # None PROVE WillShow(q)' = WillShow(q)
  <2>1. CASE q = p
    <3>1. page'[p].shown = Head(line[c]) /\ line'[c] = Tail(line[c]) /\ page'[p].socket = c
      BY <1>0
    <3> QED  BY <1>0, <1>1, <2>1, <3>1 DEF WillShow
  <2>2. CASE q # p
    <3>1. page[q].socket # c /\ page'[q] = page[q] /\ page[q].socket \in Sockets
      BY <1>0, <1>5, <2>2 DEF SocketsDistinct
    <3>2. line'[page[q].socket] = line[page[q].socket]
      BY <1>0, <3>1
    <3> QED  BY <3>1, <3>2 DEF WillShow
  <2> QED  BY <2>1, <2>2
<1>6. \A q \in Pages : InStep(q) => InStep(q)'
  BY <1>0, <1>3, <1>5 DEF InStep, Told, broadcastVars
<1> QED  BY <1>2, <1>4, <1>6

LEMMA DropInv ==
  ASSUME RoomInv, NEW p \in Pages, Drop(p)
  PROVE  RoomInv' /\ \A q \in Pages : InStep(q) => InStep(q)'
<1> DEFINE c == page[p].socket
<1> USE RoomAssumption, NoneAssumption DEF RoomInv
<1>0. /\ c \in Sockets /\ c # None /\ page[p].shown \in Status \cup {None}
      /\ page' = [page EXCEPT ![p].socket = None]
      /\ line' = [line EXCEPT ![c] = <<>>]
      /\ UNCHANGED <<broadcastVars, room, endpoint>>
      /\ line \in [Sockets -> Seq(Status)]
      /\ page \in [Pages -> [socket : Sockets \cup {None}, shown : Status \cup {None}]]
  BY DEF RoomTypeOK, Drop
<1>1. RoomTypeOK'
  <2>1. line' \in [Sockets -> Seq(Status)]
    BY <1>0
  <2>2. page' \in [Pages -> [socket : Sockets \cup {None}, shown : Status \cup {None}]]
    BY <1>0
  <2> QED  BY <1>0, <2>1, <2>2 DEF RoomTypeOK, broadcastVars
<1>2. /\ page'[p].socket = None
      /\ \A q \in Pages : q # p => page'[q] = page[q] /\ page[q].socket # c
  BY <1>0 DEF SocketsDistinct
<1>3. Connected' /\ SocketsDistinct' /\ RoomHoldsPages' /\ InOrder'
  BY <1>0, <1>2 DEF Connected, SocketsDistinct, RoomHoldsPages, InOrder, Gone, broadcastVars,
                    RoomTypeOK
<1>4. ASSUME NEW q \in Pages, InStep(q) PROVE InStep(q)'
  <2>1. CASE q = p
    BY <1>2, <2>1 DEF InStep
  <2>2. CASE q # p
    <3>1. page'[q] = page[q] /\ (page[q].socket # None => line'[page[q].socket] = line[page[q].socket])
      BY <1>0, <1>2, <2>2
    <3> QED  BY <1>0, <1>4, <3>1 DEF InStep, WillShow, Told, broadcastVars
  <2> QED  BY <2>1, <2>2
<1> QED  BY <1>1, <1>3, <1>4

-----------------------------------------------------------------------------
\* What each step does to the invariant and to the pages.
LEMMA RoomStep ==
  ASSUME RoomInv, [RoomNext]_roomVars
  PROVE  /\ RoomInv'
         /\ \A p \in Pages : InStep(p) /\ ~InStep(p)' =>
               \/ Rollback
               \/ SendSnapshot(page[p].socket) /\ endpoint[page[p].socket].snapshot # Told
<1>1. CASE UNCHANGED roomVars
  BY <1>1 DEF roomVars, broadcastVars, RoomInv, RoomTypeOK, InOrder, Connected, SocketsDistinct,
              RoomHoldsPages, Gone, InStep, WillShow, Told
<1>2. CASE \E status \in Status : Announce(status)
  BY <1>2, AnnounceInv
<1>3. CASE \E c \in Sockets : Send(c)
  BY <1>3, SendInv
<1>4. CASE Commit
  BY <1>4, EndInv, CommitInStep
<1>5. CASE Rollback
  BY <1>5, EndInv
<1>6. CASE \E c \in Sockets : Join(c) \/ Break(c) \/ Disconnect(c)
  BY <1>6, EndpointInv
<1>7. CASE \E c \in Sockets : SendSnapshot(c)
  BY <1>7, SnapshotInv
<1>8. CASE \E p \in Pages : Connect(p) \/ Receive(p) \/ Drop(p)
  BY <1>8, ConnectInv, ReceiveInv, DropInv
<1> QED
  BY <1>1, <1>2, <1>3, <1>4, <1>5, <1>6, <1>7, <1>8 DEF RoomNext, Handler, Serve, Watch

LEMMA RoomInvariance == RoomSpec => []RoomInv
<1>1. RoomInv /\ [RoomNext]_roomVars => RoomInv'
  BY RoomStep
<1> QED  BY <1>1, RoomInitInv, PTL DEF RoomSpec

\* Rows, messages, rooms and pages keep their types.
THEOREM RoomTypes == RoomSpec => []RoomTypeOK
<1>1. RoomInv => RoomTypeOK
  BY DEF RoomInv
<1> QED  BY <1>1, RoomInvariance, PTL

\* For any number of pages and connections, nothing that joins, leaves, dies or
\* reconnects while a change is announced puts a page out of step for good,
\* except a snapshot that was overtaken and a commit that fails.
THEOREM PagesStayInStep == RoomSpec => OnlyOvertakenSnapshotsMislead
<1>1. RoomInv /\ [RoomNext]_roomVars =>
        [\A p \in Pages : InStep(p) /\ ~InStep(p)' =>
             \/ Rollback
             \/ SendSnapshot(page[p].socket) /\ endpoint[page[p].socket].snapshot # Told]_roomVars
  BY RoomStep
<1> QED  BY <1>1, RoomInvariance, PTL DEF RoomSpec, OnlyOvertakenSnapshotsMislead

\* For any number of pages and connections, each change is sent to every page
\* that has a joined socket, also to one that an earlier broadcast has misled.
THEOREM EveryChangeTold == RoomSpec => EveryChangeIsTold
<1>1. ASSUME RoomInv, [RoomNext]_roomVars, change = None, change' # None, NEW p \in Pages,
             page[p].socket # None,
             endpoint[page[p].socket].stage \in {"joined", "receiving"}
      PROVE  page[p].socket \in audience'
  <2>1. PICK status \in Status : Announce(status)
    <3>1. ~UNCHANGED change
      BY <1>1
    <3>2. ~\E c \in Sockets : Send(c) \/ Serve(c)
      BY <3>1 DEF Send, Serve, Join, SendSnapshot, Break, Disconnect, broadcastVars
    <3>3. ~\E q \in Pages : Watch(q) \/ Drop(q)
      BY <3>1 DEF Watch, Receive, Connect, Drop, broadcastVars
    <3>4. ~(Commit \/ Rollback)
      BY <1>1 DEF Commit, Rollback
    <3> QED
      BY <1>1, <3>1, <3>2, <3>3, <3>4 DEF RoomNext, Handler, roomVars, broadcastVars
  <2>2. page[p].socket \in room /\ audience' = room
    BY <1>1, <2>1 DEF RoomInv, RoomHoldsPages, Announce
  <2> QED
    BY <2>2
<1>2. RoomInv /\ [RoomNext]_roomVars =>
        [change = None /\ change' # None =>
           \A p \in Pages :
             LET c == page[p].socket IN
             c # None /\ endpoint[c].stage \in {"joined", "receiving"} => c \in audience']_roomVars
  BY <1>1
<1> QED  BY <1>2, RoomInvariance, PTL DEF RoomSpec, EveryChangeIsTold
=============================================================================
