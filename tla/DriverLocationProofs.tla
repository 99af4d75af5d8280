------------------------ MODULE DriverLocationProofs -----------------------
(***************************************************************************)
(* Redis follows the row of every driver whose last report was alone and   *)
(* lost nothing, and the columns of a row drift apart only when reports    *)
(* overlap: for any drivers, positions, requests and zones.                *)
(*                                                                         *)
(* The invariant says how far each report has come: until the hash is      *)
(* written Redis is as the last report left it, after that as this one     *)
(* will leave it, but for the steps still due.                             *)
(***************************************************************************)
EXTENDS DriverLocation, WellFoundedInduction, TLAPS

\* What the report in slot s relies on, and has done.
Sound(s) ==
    LET j == job[s]
        d == j.driver
    IN
    IF d = None THEN j = Free ELSE
    /\ j.point \in Points
    /\ "leave" \in j.todo => j.read.zone \in Zones /\ "enter" \in j.todo
    /\ "enter" \in j.todo => d \in Online
    /\ "hash" \in j.todo /\ d \in Online =>
          "enter" \in j.todo /\ (Moves(j.read, j.point) => "leave" \in j.todo)
    /\ j.clean =>
          /\ j.read = row[d]
          /\ "hash" \in j.todo /\ trust[d] # "doubtful" => Follows(d)
          /\ "hash" \notin j.todo =>
                /\ locHash[d] = At(j.point)
                /\ d \in Online /\ "enter" \notin j.todo => d \in zoneSet[Zone(j.point)]
                /\ trust[d] = "sound" => \A z \in Zones : d \in zoneSet[z] =>
                      z = Zone(j.point) \/ (z = j.read.zone /\ "leave" \in j.todo)

LocationInv ==
    /\ LocationTypeOK
    /\ \A s \in Slots : Sound(s)
    /\ \A s, t \in Slots : s # t /\ job[s].driver = job[t].driver /\ job[s].driver # None =>
          ~job[s].clean
    /\ \A d \in Drivers \ Online, z \in Zones : d \notin zoneSet[z]
    /\ RedisFollows

USE LocationAssumption

LEMMA Placed ==
    ASSUME NEW p \in Points
    PROVE  /\ At(p) \in Row /\ At(p).location = p /\ At(p).zone = Zone(p)
           /\ Zone(p) \in Zones
BY DEF At, Row, Zones

LEMMA NowhereFacts == Nowhere \in Row /\ Nowhere.zone = None
BY DEF Nowhere, Row

LEMMA ZonesArePairs == None \notin Zones
BY DEF Zones, Zone

LEMMA FreeJob == Free \in Job /\ Free.driver = None /\ Free.todo = {}
BY NowhereFacts DEF Free, Job

\* A call, answered or lost, is no longer due.
LEMMA DoneJob ==
    ASSUME NEW j \in Job, NEW step
    PROVE  /\ [j EXCEPT !.todo = @ \ {step}] \in Job
           /\ [j EXCEPT !.todo = @ \ {step}].driver = j.driver
           /\ [j EXCEPT !.todo = @ \ {step}].read = j.read
           /\ [j EXCEPT !.todo = @ \ {step}].point = j.point
           /\ [j EXCEPT !.todo = @ \ {step}].clean = j.clean
           /\ [j EXCEPT !.todo = @ \ {step}].todo = j.todo \ {step}
BY DEF Job

LEMMA DoneIn ==
    ASSUME NEW s \in Slots, NEW step, job \in [Slots -> Job],
           job' = [job EXCEPT ![s].todo = @ \ {step}]
    PROVE  \E j \in Job :
             /\ job' = [job EXCEPT ![s] = j] /\ job'[s] = j
             /\ j.driver = job[s].driver /\ j.read = job[s].read /\ j.point = job[s].point
             /\ j.clean = job[s].clean /\ j.todo = job[s].todo \ {step}
<1>1. PICK old \in Job : old = job[s]
    OBVIOUS
<1>2. PICK j \in Job :
        /\ j = [old EXCEPT !.todo = @ \ {step}]
        /\ j.driver = old.driver /\ j.read = old.read /\ j.point = old.point
        /\ j.clean = old.clean /\ j.todo = old.todo \ {step}
    BY DoneJob
<1>3. job' = [job EXCEPT ![s] = j] /\ job'[s] = j
    BY <1>1, <1>2
<1> QED
    BY <1>1, <1>2, <1>3

LEMMA LocationInitInv == Init => LocationInv
<1> SUFFICES ASSUME Init PROVE LocationInv
    OBVIOUS
<1>1. PICK at \in [Drivers \ Reporting -> Parked] :
        row = [d \in Drivers |-> IF d \in Reporting THEN Nowhere ELSE At(at[d])]
    BY DEF Init
<1>2. row \in [Drivers -> Row]
    BY <1>1, Placed, NowhereFacts
<1>3. /\ locHash = row
      /\ zoneSet = [z \in Zones |-> {d \in Online : row[d].zone = z}]
      /\ job = [s \in Slots |-> Free]
      /\ trust = [d \in Drivers |-> "sound"]
    BY DEF Init
<1>4. LocationTypeOK
    BY <1>2, <1>3, FreeJob DEF LocationTypeOK
<1>5. \A s \in Slots : Sound(s)
    BY <1>3, FreeJob DEF Sound
<1>6. RedisFollows
    BY <1>2, <1>3 DEF RedisFollows, Follows
<1> QED
    BY <1>3, <1>4, <1>5, <1>6, FreeJob DEF LocationInv

\* A step of a report under way, other than its end.
LEMMA CallStep ==
    ASSUME LocationInv, NEW s \in Slots, NEW d \in Drivers, NEW j \in Job,
           job[s].driver = d, j.driver = d, j.clean => job[s].clean,
           job' = [job EXCEPT ![s] = j],
           UNCHANGED <<row, trust>>,
           locHash' \in [Drivers -> Row], zoneSet' \in [Zones -> SUBSET Drivers],
           \A e \in Drivers \ {d} : locHash'[e] = locHash[e],
           \A e \in Drivers \ {d}, z \in Zones : e \in zoneSet'[z] <=> e \in zoneSet[z],
           d \notin Online => \A z \in Zones : d \notin zoneSet'[z],
           Sound(s)'
    PROVE  LocationInv'
<1> USE DEF LocationInv
<1>1. LocationTypeOK'
    BY DEF LocationTypeOK
<1>2. \A t \in Slots : job'[t] = IF t = s THEN j ELSE job[t]
    BY DEF LocationTypeOK
<1>3. ASSUME NEW e \in Drivers \ {d} PROVE Follows(e)' <=> Follows(e)
    BY DEF Follows
<1>4. ASSUME NEW t \in Slots PROVE Sound(t)'
    <2>1. CASE t = s
        BY <2>1
    <2>2. CASE t # s /\ job[t].driver = d
        <3>1. ~job[t].clean /\ job'[t] = job[t]
            BY <1>2, <2>2, ZonesArePairs
        <3> QED
            BY <2>2, <3>1 DEF Sound
    <2>3. CASE t # s /\ job[t].driver # d
        <3>1. job'[t] = job[t] /\ job[t].driver \in Drivers \cup {None}
            BY <1>2, <2>3 DEF LocationTypeOK, Job
        <3>2. CASE job[t].driver = None
            BY <3>1, <3>2 DEF Sound
        <3>3. CASE job[t].driver \in Drivers \ {d}
            <4>1. Follows(job[t].driver)' <=> Follows(job[t].driver)
                BY <1>3, <3>1, <3>3
            <4>2. job[t].point \in Points => Zone(job[t].point) \in Zones
                BY Placed
            <4> QED
                BY <3>1, <3>3, <4>1, <4>2 DEF Sound
        <3> QED
            BY <2>3, <3>1, <3>2, <3>3
    <2> QED
        BY <2>1, <2>2, <2>3
<1>5. \A t, u \in Slots :
        t # u /\ job'[t].driver = job'[u].driver /\ job'[t].driver # None => ~job'[t].clean
    BY <1>2
<1>6. \A e \in Drivers \ Online, z \in Zones : e \notin zoneSet'[z]
    OBVIOUS
<1>7. RedisFollows'
    <2>1. ASSUME NEW e \in Drivers, ~Busy(e)', trust'[e] # "doubtful" PROVE Follows(e)'
        BY <1>2, <1>3, <2>1 DEF RedisFollows, Busy
    <2> QED
        BY <2>1 DEF RedisFollows
<1> QED
    BY <1>1, <1>4, <1>5, <1>6, <1>7

\* The reports that have a step due are those under way.
LEMMA DueJob ==
    ASSUME LocationInv, NEW s \in Slots, NEW step \in Steps, Due(s, step)
    PROVE  /\ job[s] \in Job /\ job[s].driver \in Drivers /\ Sound(s)
           /\ job[s].point \in Points /\ Zone(job[s].point) \in Zones
           /\ row \in [Drivers -> Row] /\ locHash \in [Drivers -> Row]
           /\ zoneSet \in [Zones -> SUBSET Drivers]
           /\ job[s].driver \notin Online => \A z \in Zones : job[s].driver \notin zoneSet[z]
<1>1. job[s] \in Job /\ Sound(s) /\ step \in job[s].todo
    BY DEF LocationInv, LocationTypeOK, Due
<1>2. job[s].driver # None
    BY <1>1, FreeJob DEF Sound
<1>3. job[s].driver \in Drivers
    BY <1>1, <1>2 DEF Job
<1>4. job[s].point \in Points
    BY <1>1, <1>2 DEF Sound
<1> QED
    BY <1>1, <1>3, <1>4, Placed DEF LocationInv, LocationTypeOK

LEMMA UpdateInv == ASSUME LocationInv, NEW s \in Slots, Update(s) PROVE LocationInv'
<1>1. Due(s, "update") /\ UNCHANGED <<row, locHash, zoneSet, trust>>
    BY DEF Update
<1>2. /\ job[s] \in Job /\ job[s].driver \in Drivers /\ Sound(s)
      /\ job[s].point \in Points
      /\ row \in [Drivers -> Row] /\ locHash \in [Drivers -> Row]
      /\ zoneSet \in [Zones -> SUBSET Drivers]
      /\ job[s].driver \notin Online => \A z \in Zones : job[s].driver \notin zoneSet[z]
    BY <1>1, DueJob DEF Steps
<1>3. PICK j \in Job :
        /\ job' = [job EXCEPT ![s] = j] /\ job'[s] = j
        /\ j.driver = job[s].driver /\ j.read = job[s].read /\ j.point = job[s].point
        /\ j.clean = job[s].clean /\ j.todo = job[s].todo \ {"update"}
    BY DoneIn DEF Update, LocationInv, LocationTypeOK
<1>5. Sound(s)'
    <2>1. Follows(job[s].driver)' <=> Follows(job[s].driver)
        BY <1>1, <1>3 DEF Follows
    <2> QED
        BY <1>1, <1>2, <1>3, <2>1, ZonesArePairs DEF Sound
<1> QED
    BY <1>1, <1>2, <1>3, <1>5, CallStep

\* What the calls to Redis have in common.
LEMMA RedisCall ==
    ASSUME LocationInv, NEW s \in Slots, NEW step \in {"hash", "leave", "enter"}, Call(s, step)
    PROVE  /\ Due(s, step) /\ UNCHANGED <<row, trust>>
           /\ job[s].driver \in Drivers /\ Sound(s) /\ job[s].driver # None
           /\ job[s].point \in Points /\ Zone(job[s].point) \in Zones
           /\ row \in [Drivers -> Row] /\ locHash \in [Drivers -> Row]
           /\ zoneSet \in [Zones -> SUBSET Drivers]
           /\ job[s].driver \notin Online => \A z \in Zones : job[s].driver \notin zoneSet[z]
           /\ \E j \in Job :
                /\ job' = [job EXCEPT ![s] = j] /\ job'[s] = j
                /\ j.driver = job[s].driver /\ j.read = job[s].read /\ j.point = job[s].point
                /\ j.clean = job[s].clean /\ j.todo = job[s].todo \ {step}
<1>1. Due(s, step) /\ UNCHANGED <<row, trust>>
    BY DEF Call
<1>2. step \in Steps
    BY DEF Steps
<1>3. /\ job[s] \in Job /\ job[s].driver \in Drivers /\ Sound(s)
      /\ job[s].point \in Points /\ Zone(job[s].point) \in Zones
      /\ row \in [Drivers -> Row] /\ locHash \in [Drivers -> Row]
      /\ zoneSet \in [Zones -> SUBSET Drivers]
      /\ job[s].driver \notin Online => \A z \in Zones : job[s].driver \notin zoneSet[z]
    BY <1>1, <1>2, DueJob
<1>4. \E j \in Job :
        /\ job' = [job EXCEPT ![s] = j] /\ job'[s] = j
        /\ j.driver = job[s].driver /\ j.read = job[s].read /\ j.point = job[s].point
        /\ j.clean = job[s].clean /\ j.todo = job[s].todo \ {step}
    BY DoneIn DEF Call, LocationInv, LocationTypeOK
<1> QED
    BY <1>1, <1>3, <1>4

LEMMA UpsertHashInv == ASSUME LocationInv, NEW s \in Slots, UpsertHash(s) PROVE LocationInv'
<1> DEFINE d == job[s].driver
           p == job[s].point
<1>1. /\ Due(s, "hash") /\ UNCHANGED <<row, trust>>
      /\ d \in Drivers /\ Sound(s) /\ d # None /\ p \in Points /\ Zone(p) \in Zones
      /\ row \in [Drivers -> Row] /\ locHash \in [Drivers -> Row]
      /\ zoneSet \in [Zones -> SUBSET Drivers]
      /\ d \notin Online => \A z \in Zones : d \notin zoneSet[z]
    BY RedisCall DEF UpsertHash
<1>2. PICK j \in Job :
        /\ job' = [job EXCEPT ![s] = j] /\ job'[s] = j
        /\ j.driver = job[s].driver /\ j.read = job[s].read /\ j.point = job[s].point
        /\ j.clean = job[s].clean /\ j.todo = job[s].todo \ {"hash"}
    BY RedisCall DEF UpsertHash
<1>3. /\ locHash' = [locHash EXCEPT ![d] = At(p)] /\ zoneSet' = zoneSet
      /\ "hash" \in job[s].todo
    BY DEF UpsertHash, Call, Due
<1>4. locHash' \in [Drivers -> Row] /\ locHash'[d] = At(p)
    BY <1>1, <1>3, Placed
<1>5. Sound(s)'
    <2>1. ASSUME j.clean, d \in Online PROVE "enter" \in j.todo
        BY <1>1, <1>2, <1>3, <2>1 DEF Sound
    <2>2. ASSUME j.clean, trust[d] = "sound", NEW z \in Zones, d \in zoneSet[z]
          PROVE  z = Zone(p) \/ (z = j.read.zone /\ "leave" \in j.todo)
        <3>1. Follows(d) /\ j.read = row[d]
            BY <1>1, <1>2, <1>3, <2>2 DEF Sound
        <3>2. z = j.read.zone /\ z # None /\ d \in Online
            BY <1>1, <2>2, <3>1, ZonesArePairs DEF Follows
        <3>3. Moves(j.read, p) => "leave" \in job[s].todo
            BY <1>1, <1>2, <1>3, <3>2 DEF Sound
        <3> QED
            BY <1>2, <3>2, <3>3 DEF Moves
    <2> QED
        BY <1>1, <1>2, <1>3, <1>4, <2>1, <2>2 DEF Sound
<1> QED
    BY <1>1, <1>2, <1>3, <1>4, <1>5, CallStep

LEMMA MarkUnavailableInv ==
    ASSUME LocationInv, NEW s \in Slots, MarkUnavailable(s) PROVE LocationInv'
<1> DEFINE d == job[s].driver
           p == job[s].point
           old == job[s].read.zone
<1>1. /\ Due(s, "leave") /\ UNCHANGED <<row, trust>>
      /\ d \in Drivers /\ Sound(s) /\ d # None /\ p \in Points /\ Zone(p) \in Zones
      /\ row \in [Drivers -> Row] /\ locHash \in [Drivers -> Row]
      /\ zoneSet \in [Zones -> SUBSET Drivers]
      /\ d \notin Online => \A z \in Zones : d \notin zoneSet[z]
    BY RedisCall DEF MarkUnavailable
<1>2. PICK j \in Job :
        /\ job' = [job EXCEPT ![s] = j] /\ job'[s] = j
        /\ j.driver = job[s].driver /\ j.read = job[s].read /\ j.point = job[s].point
        /\ j.clean = job[s].clean /\ j.todo = job[s].todo \ {"leave"}
    BY RedisCall DEF MarkUnavailable
<1>3. /\ zoneSet' = [zoneSet EXCEPT ![old] = @ \ {d}] /\ locHash' = locHash
      /\ "leave" \in job[s].todo /\ "hash" \notin job[s].todo
    BY DEF MarkUnavailable, Call, Due, Rank
<1>4. old \in Zones /\ "enter" \in job[s].todo
    BY <1>1, <1>3 DEF Sound
<1>5. /\ zoneSet' \in [Zones -> SUBSET Drivers]
      /\ \A z \in Zones : zoneSet'[z] = IF z = old THEN zoneSet[z] \ {d} ELSE zoneSet[z]
    BY <1>1, <1>3, <1>4
<1>6. Sound(s)'
    BY <1>1, <1>2, <1>3, <1>4, <1>5 DEF Sound
<1> QED
    BY <1>1, <1>2, <1>3, <1>5, <1>6, CallStep

LEMMA MarkAvailableInv ==
    ASSUME LocationInv, NEW s \in Slots, MarkAvailable(s) PROVE LocationInv'
<1> DEFINE d == job[s].driver
           p == job[s].point
<1>1. /\ Due(s, "enter") /\ UNCHANGED <<row, trust>>
      /\ d \in Drivers /\ Sound(s) /\ d # None /\ p \in Points /\ Zone(p) \in Zones
      /\ row \in [Drivers -> Row] /\ locHash \in [Drivers -> Row]
      /\ zoneSet \in [Zones -> SUBSET Drivers]
      /\ d \notin Online => \A z \in Zones : d \notin zoneSet[z]
    BY RedisCall DEF MarkAvailable
<1>2. PICK j \in Job :
        /\ job' = [job EXCEPT ![s] = j] /\ job'[s] = j
        /\ j.driver = job[s].driver /\ j.read = job[s].read /\ j.point = job[s].point
        /\ j.clean = job[s].clean /\ j.todo = job[s].todo \ {"enter"}
    BY RedisCall DEF MarkAvailable
<1>3. /\ zoneSet' = [zoneSet EXCEPT ![Zone(p)] = @ \cup {d}] /\ locHash' = locHash
      /\ "enter" \in job[s].todo /\ "hash" \notin job[s].todo /\ "leave" \notin job[s].todo
    BY DEF MarkAvailable, Call, Due, Rank
<1>4. d \in Online
    BY <1>1, <1>3 DEF Sound
<1>5. /\ zoneSet' \in [Zones -> SUBSET Drivers]
      /\ \A z \in Zones : zoneSet'[z] = IF z = Zone(p) THEN zoneSet[z] \cup {d} ELSE zoneSet[z]
    BY <1>1, <1>3
<1>6. Sound(s)'
    BY <1>1, <1>2, <1>3, <1>4, <1>5 DEF Sound
<1> QED
    BY <1>1, <1>2, <1>3, <1>4, <1>5, <1>6, CallStep

LEMMA LoseInv ==
    ASSUME LocationInv, NEW s \in Slots, NEW step \in {"hash", "leave", "enter"}, Lose(s, step)
    PROVE  LocationInv'
<1> DEFINE d == job[s].driver
<1>1. Due(s, step) /\ UNCHANGED <<row, locHash, zoneSet, trust>>
    BY DEF Lose
<1>2. /\ job[s] \in Job /\ d \in Drivers /\ Sound(s) /\ d # None
      /\ row \in [Drivers -> Row] /\ locHash \in [Drivers -> Row]
      /\ zoneSet \in [Zones -> SUBSET Drivers]
      /\ d \notin Online => \A z \in Zones : d \notin zoneSet[z]
    BY <1>1, DueJob DEF Steps
<1>3. PICK j : j = [driver |-> d, read |-> job[s].read, point |-> job[s].point,
                    todo |-> job[s].todo \ {step}, clean |-> FALSE]
    OBVIOUS
<1>4. /\ job[s].read \in Row /\ job[s].point \in Points \cup {None}
      /\ job[s].todo \ {step} \in SUBSET Steps
    BY <1>2 DEF Job
<1>5. /\ j.driver = d /\ j.read = job[s].read /\ j.point = job[s].point
      /\ j.todo = job[s].todo \ {step} /\ j.clean = FALSE /\ j \in Job
    BY <1>2, <1>3, <1>4 DEF Job
<1>6. job' = [job EXCEPT ![s] = j] /\ job'[s] = j
    BY <1>3 DEF Lose, LocationInv, LocationTypeOK
<1>7. /\ step = "enter" => "leave" \notin job[s].todo
      /\ step # "hash" => "hash" \notin job[s].todo
    BY <1>1 DEF Due, Rank
<1>8. Sound(s)'
    BY <1>2, <1>5, <1>6, <1>7 DEF Sound
<1> QED
    BY <1>1, <1>2, <1>5, <1>6, <1>8, CallStep

LEMMA WrittenRow ==
    ASSUME NEW j \in Job, j.point \in Points, NEW now \in Row
    PROVE  /\ Written(j, now) \in Row
           /\ now = j.read => Written(j, now) = At(j.point)
<1>1. /\ j.point[1] \in {p[1] : p \in Points} /\ j.point[2] \in {p[2] : p \in Points}
      /\ Zone(j.point) \in Zones
    BY DEF Zones
<1>2. /\ now.lat \in {p[1] : p \in Points} \cup {None} /\ now.zone \in Zones \cup {None}
      /\ now.lng \in {p[2] : p \in Points} \cup {None}
    BY DEF Row
<1>3. Written(j, now) \in Row
    BY <1>1, <1>2 DEF Written, Row
<1>4. now = j.read => Written(j, now) = At(j.point)
    BY DEF Written, At
<1> QED
    BY <1>3, <1>4

\* The end of a report.
LEMMA EndStep ==
    ASSUME LocationInv, NEW s \in Slots, NEW d \in Drivers, job[s].driver = d,
           job' = [job EXCEPT ![s] = Free],
           UNCHANGED <<locHash, zoneSet>>,
           row' \in [Drivers -> Row],
           trust' \in [Drivers -> {"sound", "healed", "doubtful"}],
           \A e \in Drivers \ {d} : row'[e] = row[e] /\ trust'[e] = trust[e],
           trust'[d] # "doubtful" => Follows(d)'
    PROVE  LocationInv'
<1> USE DEF LocationInv
<1>1. LocationTypeOK'
    BY FreeJob DEF LocationTypeOK
<1>2. \A t \in Slots : job'[t] = IF t = s THEN Free ELSE job[t]
    BY DEF LocationTypeOK
<1>3. ASSUME NEW e \in Drivers \ {d} PROVE Follows(e)' <=> Follows(e)
    BY DEF Follows
<1>4. ASSUME NEW t \in Slots PROVE Sound(t)'
    <2>1. CASE t = s
        BY <1>2, <2>1, FreeJob DEF Sound
    <2>2. CASE t # s /\ job[t].driver = d
        <3>1. ~job[t].clean /\ job'[t] = job[t]
            BY <1>2, <2>2, ZonesArePairs
        <3> QED
            BY <2>2, <3>1 DEF Sound
    <2>3. CASE t # s /\ job[t].driver # d
        <3>1. job'[t] = job[t] /\ job[t].driver \in Drivers \cup {None}
            BY <1>2, <2>3 DEF LocationTypeOK, Job
        <3>2. CASE job[t].driver = None
            BY <3>1, <3>2 DEF Sound
        <3>3. CASE job[t].driver \in Drivers \ {d}
            <4>1. Follows(job[t].driver)' <=> Follows(job[t].driver)
                BY <1>3, <3>1, <3>3
            <4> QED
                BY <3>1, <3>3, <4>1 DEF Sound
        <3> QED
            BY <2>3, <3>1, <3>2, <3>3
    <2> QED
        BY <2>1, <2>2, <2>3
<1>5. \A t, u \in Slots :
        t # u /\ job'[t].driver = job'[u].driver /\ job'[t].driver # None => ~job'[t].clean
    BY <1>2, FreeJob
<1>6. \A e \in Drivers \ Online, z \in Zones : e \notin zoneSet'[z]
    OBVIOUS
<1>7. RedisFollows'
    <2>1. ASSUME NEW e \in Drivers \ {d}, ~Busy(e)', trust'[e] # "doubtful" PROVE Follows(e)'
        <3>1. ~Busy(e)
            BY <1>2, <2>1 DEF Busy
        <3> QED
            BY <1>3, <2>1, <3>1 DEF RedisFollows
    <2> QED
        BY <2>1 DEF RedisFollows
<1> QED
    BY <1>1, <1>4, <1>5, <1>6, <1>7

LEMMA CommitInv == ASSUME LocationInv, NEW s \in Slots, Commit(s) PROVE LocationInv'
<1>1. PICK d, p : d = job[s].driver /\ p = job[s].point
    OBVIOUS
<1>2. /\ Due(s, "commit") /\ UNCHANGED <<locHash, zoneSet>>
      /\ row' = [row EXCEPT ![d] = Written(job[s], row[d])]
      /\ job' = [job EXCEPT ![s] = Free]
      /\ trust' = [trust EXCEPT ![d] = IF ~job[s].clean THEN "doubtful"
                                       ELSE IF trust[d] = "sound" THEN trust[d] ELSE "healed"]
    BY <1>1 DEF Commit
<1>3. /\ job[s] \in Job /\ d \in Drivers /\ Sound(s) /\ d # None /\ p \in Points
      /\ Zone(p) \in Zones /\ row \in [Drivers -> Row]
    BY <1>1, <1>2, DueJob, ZonesArePairs DEF Steps
<1>4. Written(job[s], row[d]) \in Row
    BY <1>1, <1>3, WrittenRow
<1>5. trust \in [Drivers -> {"sound", "healed", "doubtful"}]
    BY DEF LocationInv, LocationTypeOK
<1>6. \A step \in {"hash", "leave", "enter"} : step \notin job[s].todo
    BY <1>2 DEF Due, Rank
<1>7. ASSUME job[s].clean PROVE Follows(d)'
    <2>1. row'[d] = At(p)
        BY <1>1, <1>2, <1>3, <1>7, WrittenRow DEF Sound
    <2>2. locHash'[d] = At(p) /\ At(p).zone = Zone(p)
        BY <1>1, <1>2, <1>3, <1>6, <1>7, Placed DEF Sound
    <2>3. d \in Online => d \in zoneSet'[Zone(p)]
        BY <1>1, <1>2, <1>3, <1>6, <1>7 DEF Sound
    <2>4. trust'[d] = "sound" => \A z \in Zones : d \in zoneSet'[z] => z = Zone(p)
        <3>1. trust'[d] = "sound" => trust[d] = "sound"
            BY <1>2, <1>3, <1>5, <1>7
        <3> QED
            BY <1>1, <1>2, <1>3, <1>6, <1>7, <3>1 DEF Sound
    <2> QED
        BY <2>1, <2>2, <2>3, <2>4 DEF Follows
<1>8. trust'[d] # "doubtful" => Follows(d)'
    BY <1>2, <1>3, <1>5, <1>7
<1> QED
    BY <1>1, <1>2, <1>3, <1>4, <1>5, <1>8, EndStep

LEMMA AbortInv == ASSUME LocationInv, NEW s \in Slots, Abort(s) PROVE LocationInv'
<1>1. PICK d : d = job[s].driver
    OBVIOUS
<1>2. /\ job[s] # Free /\ job' = [job EXCEPT ![s] = Free] /\ UNCHANGED <<row, locHash, zoneSet>>
      /\ trust' = [trust EXCEPT ![d] =
            IF job[s].clean /\ "hash" \in job[s].todo THEN trust[d] ELSE "doubtful"]
    BY <1>1 DEF Abort
<1>3. /\ Sound(s) /\ d \in Drivers /\ d # None
      /\ row \in [Drivers -> Row] /\ trust \in [Drivers -> {"sound", "healed", "doubtful"}]
    BY <1>1, <1>2 DEF LocationInv, LocationTypeOK, Sound, Job
<1>4. trust'[d] # "doubtful" => Follows(d)'
    BY <1>1, <1>2, <1>3 DEF Sound, Follows
<1> QED
    BY <1>1, <1>2, <1>3, <1>4, EndStep

LEMMA TodoFacts ==
    ASSUME NEW d \in Drivers, NEW p \in Points
    PROVE  /\ Todo(d, p) \in SUBSET Steps /\ "hash" \in Todo(d, p)
           /\ "enter" \in Todo(d, p) <=> d \in Online
           /\ "leave" \in Todo(d, p) <=> d \in Online /\ Moves(row[d], p)
BY DEF Todo, Steps

LEMMA Tainted ==
    ASSUME NEW j \in Job
    PROVE  [j EXCEPT !.clean = FALSE] \in Job
<1> DEFINE S == SUBSET Steps
           D == Drivers \cup {None}
           P == Points \cup {None}
<1>1. j \in [driver : D, read : Row, point : P, todo : S, clean : BOOLEAN]
    BY DEF Job
<1> HIDE DEF S, D, P
<1>2. [j EXCEPT !.clean = FALSE] \in [driver : D, read : Row, point : P, todo : S, clean : BOOLEAN]
    BY <1>1
<1> QED
    BY <1>2 DEF Job, D, P, S

\* A report that comes in makes those of the same driver overlap.
LEMMA ReportInv ==
    ASSUME LocationInv, NEW s \in Slots, NEW d \in Reporting, NEW p \in Reported, Report(s, d, p)
    PROVE  LocationInv'
<1> USE DEF LocationInv
<1>1. /\ job[s] = Free /\ UNCHANGED <<row, locHash, zoneSet, trust>>
      /\ d \in Drivers /\ p \in Points /\ d # None
      /\ job \in [Slots -> Job] /\ row \in [Drivers -> Row]
    BY DEF Report, LocationTypeOK
<1>2. PICK j : j = [driver |-> d, read |-> row[d], point |-> p, todo |-> Todo(d, p),
                    clean |-> ~Busy(d)]
    OBVIOUS
<1>3. /\ j.driver = d /\ j.read = row[d] /\ j.point = p /\ j.todo = Todo(d, p)
      /\ j.clean <=> ~Busy(d)
      /\ j \in Job
    BY <1>1, <1>2, TodoFacts DEF Job, Busy
<1>4. job' \in [Slots -> Job] /\ job'[s] = j
    <2>1. ASSUME NEW t \in Slots, job[t].driver = d PROVE [job[t] EXCEPT !.clean = FALSE] \in Job
        BY <1>1, Tainted
    <2> QED
        BY <1>1, <1>2, <1>3, <2>1 DEF Report
<1>5. ASSUME NEW t \in Slots \ {s}, job[t].driver # d PROVE job'[t] = job[t]
    BY <1>5 DEF Report
<1>6. ASSUME NEW t \in Slots \ {s}, job[t].driver = d
      PROVE  /\ job'[t].driver = d /\ job'[t].point = job[t].point /\ job'[t].todo = job[t].todo
             /\ job'[t].read = job[t].read /\ ~job'[t].clean
    BY <1>1, <1>6 DEF Report, Job
<1>7. LocationTypeOK'
    BY <1>1, <1>4 DEF LocationTypeOK
<1>8. ASSUME NEW e \in Drivers PROVE Follows(e)' <=> Follows(e)
    BY <1>1 DEF Follows
<1>9. Sound(s)'
    <2>1. j.clean /\ trust[d] # "doubtful" => Follows(d)
        BY <1>1, <1>3 DEF RedisFollows
    <2>2. Follows(d)' <=> Follows(d)
        BY <1>1, <1>8
    <2>3. /\ "hash" \in j.todo
          /\ "enter" \in j.todo <=> d \in Online
          /\ "leave" \in j.todo <=> d \in Online /\ Moves(row[d], p)
        BY <1>1, <1>3, TodoFacts
    <2>4. Moves(row[d], p) => row[d].zone \in Zones
        BY <1>1 DEF Moves, Row
    <2> QED
        BY <1>1, <1>3, <1>4, <2>1, <2>2, <2>3, <2>4 DEF Sound
<1>10. ASSUME NEW t \in Slots \ {s} PROVE Sound(t)'
    <2>1. Sound(t) /\ job[t].driver \in Drivers \cup {None}
        BY <1>1 DEF Job
    <2>2. CASE job[t].driver = d
        BY <1>1, <1>6, <2>1, <2>2 DEF Sound
    <2>3. CASE job[t].driver # d /\ job[t].driver # None
        <3>1. Follows(job[t].driver)' <=> Follows(job[t].driver)
            BY <1>5, <1>8, <2>1, <2>3
        <3> QED
            BY <1>1, <1>5, <2>1, <2>3, <3>1 DEF Sound
    <2>4. CASE job[t].driver = None
        BY <1>1, <1>5, <2>1, <2>4 DEF Sound
    <2> QED
        BY <2>2, <2>3, <2>4
<1>11. ASSUME NEW t \in Slots, NEW u \in Slots, t # u,
              job'[t].driver = job'[u].driver, job'[t].driver # None
       PROVE  ~job'[t].clean
    <2>1. CASE t = s
        <3>1. job[u].driver = d
            BY <1>3, <1>4, <1>5, <1>11, <2>1
        <3> QED
            BY <1>3, <1>4, <2>1, <3>1 DEF Busy
    <2>2. CASE t # s /\ job[t].driver = d
        BY <1>6, <2>2
    <2>3. CASE t # s /\ job[t].driver # d
        <3>1. u # s /\ job[u].driver # d
            BY <1>3, <1>4, <1>5, <1>6, <1>11, <2>3
        <3> QED
            BY <1>5, <1>11, <2>3, <3>1
    <2> QED
        BY <2>1, <2>2, <2>3
<1>12. RedisFollows'
    <2>1. ASSUME NEW e \in Drivers, ~Busy(e)', trust'[e] # "doubtful" PROVE Follows(e)'
        <3>1. e # d
            BY <1>3, <1>4, <2>1 DEF Busy
        <3>2. ~Busy(e)
            BY <1>1, <1>5, <2>1, <3>1, FreeJob DEF Busy
        <3> QED
            BY <1>1, <1>8, <2>1, <3>2 DEF RedisFollows
    <2> QED
        BY <2>1 DEF RedisFollows
<1> QED
    BY <1>1, <1>7, <1>9, <1>10, <1>11, <1>12

LEMMA LocationNextInv == LocationInv /\ [Next]_vars => LocationInv'
<1> SUFFICES ASSUME LocationInv, [Next]_vars PROVE LocationInv'
    OBVIOUS
<1>1. CASE UNCHANGED vars
    <2>1. \A d : Follows(d)' <=> Follows(d)
        BY <1>1 DEF vars, Follows
    <2>2. \A s \in Slots : Sound(s)' <=> Sound(s)
        BY <1>1, <2>1 DEF vars, Sound
    <2> QED
        BY <1>1, <2>1, <2>2 DEF vars, LocationInv, LocationTypeOK, RedisFollows, Busy
<1>2. ASSUME NEW s \in Slots, Proceed(s) PROVE LocationInv'
    BY <1>2, UpdateInv, UpsertHashInv, MarkUnavailableInv, MarkAvailableInv, LoseInv, CommitInv,
       AbortInv DEF Proceed
<1> QED
    BY <1>1, <1>2, ReportInv DEF Next

LEMMA LocationInvariant == Spec => []LocationInv
BY LocationInitInv, LocationNextInv, PTL DEF Spec

\* Rows, hashes, sets and reports keep their types.
THEOREM LocationTypes == Spec => []LocationTypeOK
BY LocationInvariant, PTL DEF LocationInv

\* A driver whose last report was alone and lost nothing is where Redis says
\* (update_location).
THEOREM RedisFollowsReports == Spec => []RedisFollows
BY LocationInvariant, PTL DEF LocationInv

\* The columns of a position drift apart only when a report was overtaken
\* (set_location).
THEOREM DriftNeedsOverlap == Spec => OnlyOverlapsDrift
<1>1. ASSUME LocationInv, [Next]_vars, NEW d \in Drivers, row'[d] # row[d]
      PROVE  \/ Agrees(row'[d])
             \/ \E s \in Slots : job[s].driver = d /\ job'[s] = Free /\ job[s].read # row[d]
    <2>1. PICK s \in Slots : Commit(s)
        BY <1>1 DEF Next, vars, Report, Proceed, Update, UpsertHash, MarkUnavailable,
           MarkAvailable, Call, Lose, Abort
    <2>2. /\ job[s] \in Job /\ job[s].point \in Points
          /\ row \in [Drivers -> Row] /\ job \in [Slots -> Job]
        BY <1>1, <2>1, DueJob DEF Commit, Steps, LocationInv, LocationTypeOK
    <2>3. /\ job[s].driver = d /\ job'[s] = Free
          /\ row'[d] = Written(job[s], row[d])
        BY <1>1, <2>1, <2>2 DEF Commit
    <2>4. job[s].read = row[d] => row'[d] = At(job[s].point)
        BY <2>2, <2>3, WrittenRow
    <2>5. job[s].read = row[d] => Agrees(row'[d])
        BY <2>2, <2>4, Placed DEF Agrees
    <2> QED
        BY <2>3, <2>5
<1>2. LocationInv /\ [Next]_vars =>
        [\A d \in Drivers : row'[d] # row[d] =>
            \/ Agrees(row'[d])
            \/ \E s \in Slots :
                  /\ job[s].driver = d
                  /\ job'[s] = Free
                  /\ job[s].read # row[d]]_vars
    BY <1>1
<1> QED
    BY <1>2, LocationInvariant, PTL DEF Spec, OnlyOverlapsDrift

-----------------------------------------------------------------------------
(* The search for the nearest driver. *)

LEMMA LeastNatural ==
    ASSUME NEW T \in SUBSET Nat, T # {}
    PROVE  \E m \in T : \A n \in T : m <= n
<1>1. PICK m \in T : \A n \in T : <<n, m>> \notin OpToRel(<, Nat)
    BY NatLessThanWellFounded, WFMin
<1>2. ASSUME NEW n \in T PROVE m <= n
    <2>1. m \in Nat /\ n \in Nat /\ ~(n < m)
        BY <1>1 DEF OpToRel
    <2> QED
        BY <2>1
<1> QED
    BY <1>2

LEMMA DistanceNatural ==
    ASSUME NEW p \in Points, NEW q \in Points
    PROVE  /\ p[1] \in Int /\ p[2] \in Int /\ q[1] \in Int /\ q[2] \in Int
           /\ Distance(p, q) \in Nat
<1>1. \A a \in Int : a * a \in Nat
    OBVIOUS
<1>2. p[1] \in Int /\ p[2] \in Int /\ q[1] \in Int /\ q[2] \in Int
    OBVIOUS
<1>3. p[1] - q[1] \in Int /\ p[2] - q[2] \in Int
    BY <1>2
<1>4. Distance(p, q) \in Nat
    BY <1>1, <1>3 DEF Distance
<1> QED
    BY <1>2, <1>4

\* Among drivers in the radius one is nearest.
LEMMA NearestExists ==
    ASSUME LocationTypeOK, NEW p \in Points, NEW C \in SUBSET InRadius(p), C # {}
    PROVE  Nearest(p, C) # {}
<1> DEFINE Distances == {Distance(p, row[d].location) : d \in C}
<1>1. \A d \in C : row[d].location \in Points
    BY DEF InRadius, LocationTypeOK, Row
<1>2. Distances \in SUBSET Nat /\ Distances # {}
    BY <1>1, DistanceNatural
<1>3. PICK m \in Distances : \A n \in Distances : m <= n
    <2> HIDE DEF Distances
    <2> QED
        BY <1>2, LeastNatural
<1>4. PICK d \in C : m = Distance(p, row[d].location)
    OBVIOUS
<1>5. d \in Nearest(p, C)
    BY <1>3, <1>4 DEF Nearest
<1> QED
    BY <1>5

\* Two coordinates no farther apart than the side of a cell are in the same cell or
\* in adjacent ones.
LEMMA SquareBound ==
    ASSUME NEW a \in Int, NEW b \in Int, NEW c \in Nat, a * a + b * b <= c * c
    PROVE  -c <= a /\ a <= c /\ -c <= b /\ b <= c
OBVIOUS

LEMMA QuotientBounds ==
    ASSUME NEW x \in Int, NEW c \in Nat \ {0}
    PROVE  /\ x \div c \in Int
           /\ c * (x \div c) <= x
           /\ x < c * (x \div c) + c
OBVIOUS

LEMMA QuotientOrder ==
    ASSUME NEW q \in Int, NEW r \in Int, NEW c \in Nat \ {0}, c * q < c * r + 2 * c
    PROVE  q < r + 2
OBVIOUS

LEMMA QuotientsClose ==
    ASSUME NEW x \in Int, NEW y \in Int, NEW c \in Nat \ {0}, x - y <= c
    PROVE  (x \div c) - (y \div c) <= 1
<1> DEFINE q == x \div c
           r == y \div c
<1>1. q \in Int /\ r \in Int /\ c * q \in Int /\ c * r \in Int
    BY QuotientBounds
<1>2. c * q <= x /\ y < c * r + c
    BY QuotientBounds
<1>3. c * q < c * r + 2 * c
    <2> HIDE DEF q, r
    <2> QED
        BY <1>1, <1>2
<1>4. q < r + 2
    <2> HIDE DEF q, r
    <2> QED
        BY <1>1, <1>3, QuotientOrder
<1> QED
    BY <1>1, <1>4

\* A position within the side of a cell is in one of the nine cells around.
LEMMA CloseIsAround ==
    ASSUME NEW p \in Points, NEW q \in Points, Distance(p, q) <= CellSize * CellSize
    PROVE  Zone(q) \in Around(Zone(p))
<1>1. p[1] \in Int /\ p[2] \in Int /\ q[1] \in Int /\ q[2] \in Int
    BY DistanceNatural
<1>2. \A k \in {1, 2} : /\ -CellSize <= p[k] - q[k] /\ p[k] - q[k] <= CellSize
    BY <1>1, SquareBound DEF Distance
<1>3. \A k \in {1, 2} : q[k] - p[k] <= CellSize /\ p[k] - q[k] <= CellSize
    BY <1>1, <1>2
<1>4. \A k \in {1, 2} : /\ p[k] \div CellSize \in Int /\ q[k] \div CellSize \in Int
                        /\ (q[k] \div CellSize) - (p[k] \div CellSize) \in -1 .. 1
    <2> TAKE k \in {1, 2}
    <2>1. p[k] \div CellSize \in Int /\ q[k] \div CellSize \in Int
        BY <1>1, QuotientBounds
    <2>2. /\ (q[k] \div CellSize) - (p[k] \div CellSize) <= 1
          /\ (p[k] \div CellSize) - (q[k] \div CellSize) <= 1
        BY <1>1, <1>3, QuotientsClose
    <2> QED
        BY <2>1, <2>2
<1> DEFINE i == (q[1] \div CellSize) - (p[1] \div CellSize)
           j == (q[2] \div CellSize) - (p[2] \div CellSize)
<1>5. i \in -1 .. 1 /\ j \in -1 .. 1
    BY <1>4
<1>6. Zone(q) = <<Zone(p)[1] + i, Zone(p)[2] + j>>
    BY <1>4 DEF Zone
<1> HIDE DEF i, j
<1> QED
    BY <1>5, <1>6 DEF Around

\* The pre-filter by zones hides no driver whose columns agree and who is within the
\* side of a cell, and its fallback leaves nobody in the radius unfound (match_ride).
THEOREM ZonesHideNobodyNear == Spec => []NearbyDriverFound
<1>1. ASSUME LocationTypeOK PROVE NearbyDriverFound
    <2> SUFFICES ASSUME NEW p \in Points
                 PROVE  /\ InRadius(p) # {} => Match(p) # {}
                        /\ \A d \in InRadius(p) :
                             Agrees(row[d]) /\ Distance(p, row[d].location) <= CellSize * CellSize =>
                               \A e \in Match(p) :
                                 Distance(p, row[e].location) <= Distance(p, row[d].location)
        BY DEF NearbyDriverFound
    <2> DEFINE near == {d \in InRadius(p) : row[d].zone \in Around(Zone(p))}
    <2>1. InRadius(p) # {} => Match(p) # {}
        BY <1>1, NearestExists DEF Match
    <2>2. ASSUME NEW d \in InRadius(p), Agrees(row[d]),
                 Distance(p, row[d].location) <= CellSize * CellSize,
                 NEW e \in Match(p)
          PROVE  Distance(p, row[e].location) <= Distance(p, row[d].location)
        <3>1. row[d].location \in Points /\ row[d].zone = Zone(row[d].location)
            BY <1>1, <2>2 DEF InRadius, LocationTypeOK, Row, Agrees, At, Nowhere
        <3>2. d \in near
            BY <2>2, <3>1, CloseIsAround
        <3>3. Match(p) = Nearest(p, near)
            BY <3>2 DEF Match
        <3> QED
            BY <2>2, <3>2, <3>3 DEF Nearest
    <2> QED
        BY <2>1, <2>2
<1> QED
    BY <1>1, LocationTypes, PTL
-----------------------------------------------------------------------------
(* Reports that do not overtake each other. *)

\* Every commit of a report finds the row as the report read it.
ReportsAreFresh == [][\A s \in Slots : Commit(s) => job[s].read = row[job[s].driver]]_vars

\* The three copies of a position in a row are then of one position, always, as
\* models/driver.py says of the floats beside the geography column, whatever
\* fails in Redis.
THEOREM FreshReportsAgree == Spec /\ ReportsAreFresh => [](\A d \in Drivers : Agrees(row[d]))
<1> DEFINE AllAgree == \A d \in Drivers : Agrees(row[d])
<1>1. ASSUME Init PROVE AllAgree
    <2>1. PICK at \in [Drivers \ Reporting -> Parked] :
            row = [d \in Drivers |-> IF d \in Reporting THEN Nowhere ELSE At(at[d])]
        BY <1>1 DEF Init
    <2>2. ASSUME NEW d \in Drivers PROVE row[d] = Nowhere \/ \E p \in Points : row[d] = At(p)
        BY <2>1, LocationAssumption
    <2> QED
        BY <2>2, Placed DEF Agrees
<1>2. /\ LocationInv /\ AllAgree /\ [Next]_vars
      /\ [\A s \in Slots : Commit(s) => job[s].read = row[job[s].driver]]_vars
      => AllAgree'
    <2> SUFFICES ASSUME LocationInv, AllAgree, [Next]_vars,
                        [\A s \in Slots : Commit(s) => job[s].read = row[job[s].driver]]_vars,
                        NEW d \in Drivers, row'[d] # row[d]
                 PROVE  Agrees(row'[d])
        BY DEF Agrees, At, Nowhere
    <2>1. PICK s \in Slots : Commit(s)
        BY DEF Next, vars, Report, Proceed, Update, UpsertHash, MarkUnavailable,
           MarkAvailable, Call, Lose, Abort
    <2>2. /\ job[s] \in Job /\ job[s].point \in Points
          /\ row \in [Drivers -> Row] /\ job \in [Slots -> Job]
        BY <2>1, DueJob DEF Commit, Steps, LocationInv, LocationTypeOK
    <2>3. job[s].driver = d /\ row'[d] = Written(job[s], row[d])
        BY <2>1, <2>2 DEF Commit
    <2>4. job[s].read = row[d]
        BY <2>1, <2>3 DEF vars
    <2> QED
        BY <2>2, <2>3, <2>4, WrittenRow, Placed DEF Agrees
<1> QED
    BY <1>1, <1>2, LocationInvariant, PTL DEF Spec, ReportsAreFresh
=============================================================================
