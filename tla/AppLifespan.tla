---------------------------- MODULE AppLifespan ----------------------------
(***************************************************************************)
(* One process of the application: lifespan opens the Redis client and the *)
(* Kafka producer before the first request and closes both, then the       *)
(* database engine, after the last one.  Every failure on the way is       *)
(* logged and passed over.  The process may be killed at any moment, and   *)
(* is then started again.                                                  *)
(***************************************************************************)
EXTENDS Naturals

VARIABLES
    phase,      \* what lifespan does next
    client,     \* RedisCache._redis: "none" or "open"
    producer    \* KafkaPublisher._producer: "none" or "open"

lifespanVars == <<phase, client, producer>>

Phase == {"openRedis", "openKafka", "serving", "closeKafka", "dispose", "down"}

LifespanInit == phase = "openRedis" /\ client = "none" /\ producer = "none"

\* Mutant of OpenRedis: the client is kept only if the ping is answered.
OpenRedisAfterPing ==
    /\ phase = "openRedis"
    /\ phase' = "openKafka"
    /\ client' \in {"none", "open"}
    /\ UNCHANGED producer

\* start() keeps the client before it pings, so a ping that fails changes
\* nothing: the calls of a client without a server fail one by one.
OpenRedis ==
    /\ phase = "openRedis"
    /\ phase' = "openKafka"
    /\ client' = "open"
    /\ UNCHANGED producer

\* Mutant of OpenKafka: a broker that is down ends the start.
OpenKafkaOrFail ==
    /\ phase = "openKafka"
    /\ phase' \in {"serving", "closeKafka"}
    /\ producer' = IF phase' = "serving" THEN "open" ELSE "none"
    /\ UNCHANGED client

\* The producer is kept only once it is connected.
OpenKafka ==
    /\ phase = "openKafka"
    /\ phase' = "serving"
    /\ producer' \in {"none", "open"}
    /\ UNCHANGED client

\* stop() forgets a client or producer once it is closed; if closing fails
\* it is kept, and shutdown goes on.
CloseRedis ==
    /\ phase = "serving"
    /\ phase' = "closeKafka"
    /\ client' \in {"none", client}
    /\ UNCHANGED producer

CloseKafka ==
    /\ phase = "closeKafka"
    /\ phase' = "dispose"
    /\ producer' \in {"none", producer}
    /\ UNCHANGED client

Dispose ==
    /\ phase = "dispose"
    /\ phase' = "down"
    /\ UNCHANGED <<client, producer>>

\* A new process, after a shutdown or a kill.  A process that is killed before
\* it serves leaves nothing behind, so that it need not be followed.
Restart ==
    /\ phase \notin {"openRedis", "openKafka"}
    /\ phase' = "openRedis"
    /\ client' = "none"
    /\ producer' = "none"

Opening == OpenRedis \/ OpenKafka
Closing == CloseKafka \/ Dispose

-----------------------------------------------------------------------------
LifespanTypeOK ==
    /\ phase \in Phase
    /\ {client, producer} \subseteq {"none", "open"}

\* A Redis that is down when the process starts is used again as soon as it
\* is back, because the process keeps its client (redis.start).
ServesWithClient == phase = "serving" => client = "open"

\* Neither Redis nor Kafka being down keeps a process from serving (lifespan).
StartsDespiteFailures == phase = "openRedis" ~> phase = "serving"
=============================================================================
