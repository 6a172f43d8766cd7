-------------------------- MODULE LifecycleProofs --------------------------
(***************************************************************************)
(* The lifespan around the listener, for any number of failures: it gives  *)
(* the listener no step of its own, its Redis client outlives every        *)
(* handler, and what the listener promises the application promises.       *)
(***************************************************************************)
EXTENDS Lifecycle, IngestReaderProofs

\* What the phase of the lifespan says of the listener and of the client.
PhaseInv == /\ phase \in {"off", "ping"} => pc = "down"
            /\ phase = "closing" => pc \in {"down", "stopped"}
            /\ phase # "off" => client = "open"

\* The listener and its surroundings leave a listener alone that does not run.
LEMMA AtRest ==
  ASSUME ListenerRuns \/ Surroundings, pc \in {"down", "stopped"}
  PROVE  pc' = pc
<1>1. CASE ListenerRuns
  BY <1>1
     DEF ListenerRuns, Listener, Connect, Subscribe, ConnectionLost, Retry,
         Reject, Accept, RedisReplies, Unwind, Handling
<1>2. CASE Surroundings
  BY <1>2
     DEF Surroundings, Refused, RedisFails, LinkDrop, Tick, Publish, Handling
<1> QED
  BY <1>1, <1>2

LEMMA PhaseInit == AppInit => PhaseInv
  BY DEF AppInit, Init, PhaseInv

LEMMA PhaseInductive == PhaseInv /\ [AppNext]_appVars => PhaseInv'
<1> SUFFICES ASSUME PhaseInv, [AppNext]_appVars PROVE PhaseInv'
  OBVIOUS
<1>1. CASE Boot
  BY <1>1 DEF Boot, PhaseInv, vars
<1>2. CASE PingAnswered
  BY <1>2 DEF PingAnswered, PhaseInv
<1>3. CASE PingFails
  BY <1>3 DEF PingFails, PhaseInv, vars
<1>4. CASE Shutdown
  BY <1>4 DEF Shutdown, PhaseInv
<1>5. CASE ListenerStopped
  BY <1>5 DEF ListenerStopped, PhaseInv, vars
<1>6. CASE Closed
  <2>1. pc' = "down" /\ phase' = "off"
    BY <1>6 DEF Closed, PhaseInv, Exit, Gone, vars
  <2> QED
    BY <2>1 DEF PhaseInv
<1>7. CASE Killed
  <2>1. pc' = "down" /\ phase' = "off"
    BY <1>7 DEF Killed, Crash, Gone, vars
  <2> QED
    BY <2>1 DEF PhaseInv
<1>8. CASE (ListenerRuns \/ Surroundings) /\ UNCHANGED boot
  BY <1>8, AtRest DEF PhaseInv, boot
<1>9. CASE UNCHANGED appVars
  BY <1>9 DEF appVars, boot, vars, PhaseInv
<1> QED
  BY <1>1, <1>2, <1>3, <1>4, <1>5, <1>6, <1>7, <1>8, <1>9 DEF AppNext, Lifespan

\* Neither a shutdown nor a failed startup closes the client under a handler:
\* stop_mqtt has awaited the task before close_redis runs.
THEOREM RedisOutlivesHandlers == AppSpec => []HandlersHaveRedis
<1>1. PhaseInv => HandlersHaveRedis
  BY DEF PhaseInv, HandlersHaveRedis, Handling
<1> QED
  BY <1>1, PhaseInit, PhaseInductive, PTL DEF AppSpec

\* Every step of the application is a step of Ingest or leaves its variables
\* alone, so that what is proved of the listener holds in the application.
LEMMA ListenerStep == [AppNext]_appVars => [Next]_vars
<1> SUFFICES ASSUME [AppNext]_appVars PROVE [Next]_vars
  OBVIOUS
<1>1. CASE Boot \/ PingFails
  BY <1>1 DEF Boot, PingFails
<1>2. CASE Shutdown \/ Killed
  BY <1>2 DEF Shutdown, Killed, Next
<1>3. CASE Lifespan
  BY <1>3 DEF Lifespan, PingAnswered, ListenerStopped, Closed, Next
<1>4. CASE ListenerRuns \/ Surroundings
  BY <1>4 DEF ListenerRuns, Surroundings, Next
<1>5. CASE UNCHANGED appVars
  BY <1>5 DEF appVars
<1> QED
  BY <1>1, <1>2, <1>3, <1>4, <1>5 DEF AppNext

\* The safety half of ImplementsIngest: the application implements Spec.
THEOREM ListenerImplemented == AppSpec => Spec
<1>1. AppInit => Init
  BY DEF AppInit
<1> QED
  BY <1>1, ListenerStep, PTL DEF AppSpec, Spec

\* Through startups, shutdowns and kills of the application the store keeps what
\* the listener promises: events in sending order, snapshots that never go back
\* and are explained by the log, devices heard recently online, and the history.
THEOREM StoreOutlivesApplication ==
  AppSpec => /\ []LogInSendOrder /\ []AppendedIsCurrent /\ []SnapshotOfLoggedEvent
             /\ []SnapshotLagExplained /\ []ReportedCoversLog
             /\ []RecentlyHeardIsOnline /\ SnapshotMonotonic /\ HistorySpec
BY ListenerImplemented, OrderCorrect, AppendedCorrect, SnapshotCorrect, LagCorrect,
   ReportedCorrect, OnlineCorrect, MonotonicCorrect, HistoryCorrect, PTL
=============================================================================
