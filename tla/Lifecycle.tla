----------------------------- MODULE Lifecycle -----------------------------
(***************************************************************************)
(* The application around the listener: lifespan in main.py with           *)
(* get_redis and close_redis of storage/redis.py.  Startup waits for a     *)
(* PING before it creates the listener task; shutdown waits for the task   *)
(* before it closes the Redis client the task uses.  The listener itself   *)
(* is Ingest, whose Start, Stop, Exit and Crash happen inside the steps of *)
(* the lifespan.                                                           *)
(***************************************************************************)
EXTENDS Ingest

CONSTANT MaxFailedBoots  \* bound: startups whose PING fails, crashes in them

ASSUME BootsOK == MaxFailedBoots \in Nat

VARIABLES
  phase,       \* the await lifespan is suspended at, "serving" at its yield
  client,      \* _redis_client: "none" or "open"
  failedBoots

boot    == <<phase, client, failedBoots>>
appVars == <<vars, boot>>

Phases == {"off", "ping", "serving", "stopping", "closing"}

AppInit == Init /\ phase = "off" /\ client = "none" /\ failedBoots = 0

\* get_redis stores the client before it waits for the PING.
Boot == /\ phase = "off"
        /\ phase' = "ping" /\ client' = "open"
        /\ UNCHANGED <<vars, failedBoots>>

\* start_mqtt, then the yield
PingAnswered == /\ phase = "ping"
                /\ Start
                /\ phase' = "serving"
                /\ UNCHANGED <<client, failedBoots>>

\* The exception leaves the try: stop_mqtt finds no task, close_redis the client.
PingFails == /\ phase = "ping" /\ failedBoots < MaxFailedBoots
             /\ failedBoots' = failedBoots + 1
             /\ phase' = "closing"
             /\ UNCHANGED <<vars, client>>

\* mutant: the task is cancelled and not awaited
ShutdownHasty == /\ phase = "serving"
                 /\ Stop
                 /\ phase' = "closing"
                 /\ UNCHANGED <<client, failedBoots>>

\* stop_mqtt sets the event, cancels the task and awaits it.
Shutdown == /\ phase = "serving"
            /\ Stop
            /\ phase' = "stopping"
            /\ UNCHANGED <<client, failedBoots>>

\* stop_mqtt returns when the task has ended.
ListenerStopped == /\ phase = "stopping" /\ pc = "stopped"
                   /\ phase' = "closing"
                   /\ UNCHANGED <<vars, client, failedBoots>>

\* close_redis is done and the process ends.
Closed == /\ phase = "closing"
          /\ phase' = "off" /\ client' = "none"
          /\ IF pc = "stopped" THEN Exit ELSE UNCHANGED vars
          /\ UNCHANGED failedBoots

\* The process dies; before the listener runs there is little to lose.
Killed == /\ phase # "off"
          /\ phase' = "off" /\ client' = "none"
          /\ \/ Crash /\ UNCHANGED failedBoots
             \/ /\ pc = "down" /\ failedBoots < MaxFailedBoots
                /\ failedBoots' = failedBoots + 1
                /\ UNCHANGED vars

\* mutant: the wait for the task blocks the event loop
ListenerBlocked == Listener /\ phase # "stopping"

ListenerRuns == Listener

Surroundings == \/ Refused \/ RedisFails \/ LinkDrop \/ Tick
                \/ \E d \in Devices, t \in Sending, f \in Flaws : Publish(d, t, f)

Lifespan == PingAnswered \/ ListenerStopped \/ Closed

AppNext == \/ Boot \/ PingFails \/ Shutdown \/ Killed \/ Lifespan
           \/ (ListenerRuns \/ Surroundings) /\ UNCHANGED boot

AppSpec == AppInit /\ [][AppNext]_appVars

\* The event loop resumes lifespan and the listener; nothing promises that the
\* process is started again (the reloading server of the Dockerfile waits for a
\* changed file when its child has died).
AppFairSpec == /\ AppSpec
               /\ WF_appVars(Lifespan)
               /\ WF_appVars(ListenerRuns /\ UNCHANGED boot)

-----------------------------------------------------------------------------
(* Properties.                                                             *)

\* Whenever a handler waits for a Redis command the client is open: shutdown
\* does not close it, and a failed startup does not leave a listener, under a
\* handler that is still running.
HandlersHaveRedis == pc \in Handling => client = "open"

\* Seen without the lifespan the application is the listener of Ingest, with its
\* fairness: startup and shutdown do not keep the listener from its steps.
ImplementsIngest == FairSpec

\* Shutdown ends, wherever the listener was and also after a failed startup.
ShutdownCompletes == (phase \in {"stopping", "closing"}) ~> (phase = "off")
=============================================================================
