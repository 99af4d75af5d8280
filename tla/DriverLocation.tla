--------------------------- MODULE DriverLocation --------------------------
(***************************************************************************)
(* Reports of drivers' positions, and the search for the nearest driver.   *)
(*                                                                         *)
(* A position is kept three times over: as the geography column that       *)
(* distances are computed from, as the two floats that answers show, and   *)
(* as the geohash zone the search is narrowed by; and again in Redis, as   *)
(* a hash per driver and a set per zone.  An UPDATE holds the columns that *)
(* differ from what its request read, so of two reports under way together *)
(* each may write a part of the row.  Redis calls may be lost, and         *)
(* precede a commit that may fail.                                         *)
(*                                                                         *)
(* A zone is a square of the grid; Geohash has the algorithm, and shows    *)
(* that its neighbours are those of the grid.  Which drivers are online    *)
(* does not change here: RideService has the calls that change it.         *)
(***************************************************************************)
EXTENDS Integers, FiniteSets

CONSTANTS
    Drivers,
    Online,     \* those who are online
    Reporting,  \* those whose positions change
    Slots,      \* requests the process can be handling at once
    Points,     \* positions: pairs of a latitude and a longitude
    Reported,   \* those that reports give
    Parked,     \* those where drivers who do not report are
    CellSize,   \* the side of a zone
    Radius,     \* settings.driver_search_radius_meters
    Faults,     \* may commits fail and Redis calls be lost?
    None

ASSUME LocationAssumption ==
    /\ Online \subseteq Drivers
    /\ Reporting \subseteq Drivers
    /\ Points \subseteq Int \X Int
    /\ Reported \subseteq Points
    /\ Parked \subseteq Points
    /\ CellSize \in Nat \ {0}
    /\ Radius \in Nat
    /\ Faults \in BOOLEAN
    /\ None \notin Drivers \cup Points \cup Int \cup (Int \X Int)

VARIABLES
    row,        \* drivers.location, current_lat, current_lng, geohash_zone
    locHash,    \* Redis: driver:loc:{id}
    zoneSet,    \* Redis: drivers:zone:{zone}
    job,        \* the report in each slot
    trust       \* history: what has become of each driver's Redis entries

vars == <<row, locHash, zoneSet, job, trust>>

Zone(p) == <<p[1] \div CellSize, p[2] \div CellSize>>
Zones == {Zone(p) : p \in Points}

Row == [location : Points \cup {None},
        lat : {p[1] : p \in Points} \cup {None},
        lng : {p[2] : p \in Points} \cup {None},
        zone : Zones \cup {None}]

\* The row of a driver who has never reported, and the one of a report.
Nowhere == [location |-> None, lat |-> None, lng |-> None, zone |-> None]
At(p) == [location |-> p, lat |-> p[1], lng |-> p[2], zone |-> Zone(p)]

Steps == {"update", "hash", "leave", "enter", "commit"}

Rank == [update |-> 1, hash |-> 2, leave |-> 3, enter |-> 4, commit |-> 5]

Job == [driver : Drivers \cup {None},
        read : Row,                     \* the row when the request read it
        point : Points \cup {None},     \* the position reported
        todo : SUBSET Steps,
        clean : BOOLEAN]                \* history: alone, and nothing lost

Free == [driver |-> None, read |-> Nowhere, point |-> None, todo |-> {}, clean |-> TRUE]

Busy(d) == \E s \in Slots : job[s].driver = d

Due(s, step) ==
    /\ step \in job[s].todo
    /\ \A t \in job[s].todo : Rank[step] <= Rank[t]

\* The row lock, from the flush to the end of the transaction.
Holds(s, d) == job[s].driver = d /\ "update" \notin job[s].todo

\* Mutant of Moves: the old zone is not left.
MovesNever(old, p) == FALSE

Moves(old, p) == old.zone # None /\ old.zone # Zone(p)

\* The steps of a report of driver d at p.
Todo(d, p) ==
    {"update", "hash", "commit"}
      \cup {t \in {"leave"} : d \in Online /\ Moves(row[d], p)}
      \cup {t \in {"enter"} : d \in Online}

\* Mutant of Written: the zone is written once, with the first report.
WrittenZoneOnce(j, now) ==
    [At(j.point) EXCEPT !.zone = IF j.read.zone = None THEN @ ELSE now.zone]

\* Mutant of Written: the coordinates of the point are swapped.
WrittenSwapped(j, now) == [At(j.point) EXCEPT !.location = <<j.point[2], j.point[1]>>]

\* set_location: the point is always written, the rest where it differs from
\* what was read.
Written(j, now) ==
    [location |-> j.point,
     lat |-> IF j.point[1] # j.read.lat THEN j.point[1] ELSE now.lat,
     lng |-> IF j.point[2] # j.read.lng THEN j.point[2] ELSE now.lng,
     zone |-> IF Zone(j.point) # j.read.zone THEN Zone(j.point) ELSE now.zone]

-----------------------------------------------------------------------------
\* Drivers who are not reporting have done so before.
Init ==
    \E at \in [Drivers \ Reporting -> Parked] :
      /\ row = [d \in Drivers |-> IF d \in Reporting THEN Nowhere ELSE At(at[d])]
      /\ locHash = row
      /\ zoneSet = [z \in Zones |-> {d \in Online : row[d].zone = z}]
      /\ job = [s \in Slots |-> Free]
      /\ trust = [d \in Drivers |-> "sound"]

\* update_location reads the driver's row.  Requests of one driver that
\* overlap are none of them clean.
Report(s, d, p) ==
    /\ job[s] = Free
    /\ job' = [t \in Slots |->
          IF t = s
          THEN [driver |-> d, read |-> row[d], point |-> p, todo |-> Todo(d, p), clean |-> ~Busy(d)]
          ELSE IF job[t].driver = d THEN [job[t] EXCEPT !.clean = FALSE] ELSE job[t]]
    /\ UNCHANGED <<row, locHash, zoneSet, trust>>

\* The flush waits for the lock of the row.
Update(s) ==
    /\ Due(s, "update")
    /\ \A t \in Slots : ~Holds(t, job[s].driver)
    /\ job' = [job EXCEPT ![s].todo = @ \ {"update"}]
    /\ UNCHANGED <<row, locHash, zoneSet, trust>>

\* A call to Redis that is answered.
Call(s, step) ==
    /\ Due(s, step)
    /\ job' = [job EXCEPT ![s].todo = @ \ {step}]
    /\ UNCHANGED <<row, trust>>

UpsertHash(s) ==
    /\ Call(s, "hash")
    /\ locHash' = [locHash EXCEPT ![job[s].driver] = At(job[s].point)]
    /\ UNCHANGED zoneSet

MarkUnavailable(s) ==
    /\ Call(s, "leave")
    /\ zoneSet' = [zoneSet EXCEPT ![job[s].read.zone] = @ \ {job[s].driver}]
    /\ UNCHANGED locHash

MarkAvailable(s) ==
    /\ Call(s, "enter")
    /\ zoneSet' = [zoneSet EXCEPT ![Zone(job[s].point)] = @ \cup {job[s].driver}]
    /\ UNCHANGED locHash

\* Every call to Redis is best effort.
Lose(s, step) ==
    /\ Faults
    /\ Due(s, step)
    /\ job' = [job EXCEPT ![s] =
          [driver |-> @.driver, read |-> @.read, point |-> @.point,
           todo |-> @.todo \ {step}, clean |-> FALSE]]
    /\ UNCHANGED <<row, locHash, zoneSet, trust>>

Commit(s) ==
    LET d == job[s].driver IN
    /\ Due(s, "commit")
    /\ row' = [row EXCEPT ![d] = Written(job[s], @)]
    /\ job' = [job EXCEPT ![s] = Free]
    /\ trust' = [trust EXCEPT ![d] =
          IF ~job[s].clean THEN "doubtful" ELSE IF @ = "sound" THEN @ ELSE "healed"]
    /\ UNCHANGED <<locHash, zoneSet>>

\* Rolled back; what has been written to Redis stays there.
Abort(s) ==
    LET d == job[s].driver IN
    /\ Faults
    /\ job[s] # Free
    /\ job' = [job EXCEPT ![s] = Free]
    /\ trust' = [trust EXCEPT ![d] =
          IF job[s].clean /\ "hash" \in job[s].todo THEN @ ELSE "doubtful"]
    /\ UNCHANGED <<row, locHash, zoneSet>>

Proceed(s) ==
    \/ Update(s) \/ UpsertHash(s) \/ MarkUnavailable(s) \/ MarkAvailable(s)
    \/ \E step \in {"hash", "leave", "enter"} : Lose(s, step)
    \/ Commit(s) \/ Abort(s)

Next ==
    \E s \in Slots :
      \/ \E d \in Reporting, p \in Reported : Report(s, d, p)
      \/ Proceed(s)

Spec == Init /\ [][Next]_vars

-----------------------------------------------------------------------------
(* find_nearest_available_driver, as match_ride calls it. *)

Distance(p, q) == (p[1] - q[1]) * (p[1] - q[1]) + (p[2] - q[2]) * (p[2] - q[2])

\* Mutant of Around: the pickup's own cell only.
AroundItself(z) == {z}

\* geohash_neighbors, and the cell itself.
Around(z) == {<<z[1] + i, z[2] + j>> : i \in -1 .. 1, j \in -1 .. 1}

InRadius(p) ==
    {d \in Online : row[d].location # None /\ Distance(p, row[d].location) <= Radius * Radius}

Nearest(p, candidates) ==
    {d \in candidates : \A e \in candidates :
        Distance(p, row[d].location) <= Distance(p, row[e].location)}

\* The drivers that match_ride may be answered: the nearest of the zones
\* around, and if there is none there, the nearest in the radius.
Match(p) ==
    LET near == {d \in InRadius(p) : row[d].zone \in Around(Zone(p))}
    IN  Nearest(p, IF near # {} THEN near ELSE InRadius(p))

-----------------------------------------------------------------------------
LocationTypeOK ==
    /\ row \in [Drivers -> Row]
    /\ locHash \in [Drivers -> Row]
    /\ zoneSet \in [Zones -> SUBSET Drivers]
    /\ job \in [Slots -> Job]
    /\ trust \in [Drivers -> {"sound", "healed", "doubtful"}]

\* Whether the columns of a row are of one position.
Agrees(r) == r = Nowhere \/ r = At(r.location)

\* The point, the floats and the zone of a driver drift apart only by the commit
\* of a report that was overtaken: the row had changed since it was read
\* (set_location).
OnlyOverlapsDrift ==
    [][\A d \in Drivers : row'[d] # row[d] =>
          \/ Agrees(row'[d])
          \/ \E s \in Slots :
                /\ job[s].driver = d
                /\ job'[s] = Free
                /\ job[s].read # row[d]]_vars

\* A driver online whose columns agree and who is not farther than the side of a
\* zone from the pickup is not passed over for one farther away, on whichever
\* side of a zone's border they are; and a driver in the radius is always
\* found, whatever the zones say (match_ride).
NearbyDriverFound ==
    \A p \in Points :
      /\ InRadius(p) # {} => Match(p) # {}
      /\ \A d \in InRadius(p) :
            Agrees(row[d]) /\ Distance(p, row[d].location) <= CellSize * CellSize =>
              \A e \in Match(p) :
                Distance(p, row[e].location) <= Distance(p, row[d].location)

Follows(d) ==
    /\ locHash[d] = row[d]
    /\ \A z \in Zones :
          /\ z = row[d].zone /\ d \in Online => d \in zoneSet[z]
          /\ d \in zoneSet[z] /\ trust[d] = "sound" => z = row[d].zone

\* A report that is alone and loses nothing leaves the driver's hash and the set
\* of their zone right, even after faults; and only faults and overlaps leave the
\* driver in the set of another zone (update_location).
RedisFollows == \A d \in Drivers : ~Busy(d) /\ trust[d] # "doubtful" => Follows(d)
=============================================================================
