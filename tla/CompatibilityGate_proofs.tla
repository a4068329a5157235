----------------------- MODULE CompatibilityGate_proofs -----------------------
(***************************************************************************)
(* The safety properties of the gate for every number of requests, permits, *)
(* names and addresses.  IInv is inductive; each lemma below shows that one *)
(* of its parts survives every step, with one step of proof per action.     *)
(* Then follow the capacity of the cache and the refinement.                *)
(***************************************************************************)
EXTENDS CompatibilityGate, FiniteSetTheorems, TLAPS

(* Every step keeps the state well formed.  A task can only be spawned when it *)
(* was scheduled, and only for a strict plugin: hence the other two parts.     *)
LEMMA TypeStep == IInv /\ [Next]_vars => TypeOK'
<1> SUFFICES ASSUME IInv, [Next]_vars PROVE TypeOK'
  OBVIOUS
<1> USE PluginSettings, Bounds
    DEF IInv, TypeOK, ActiveRequests, IdleRequest, InFlightProbes,
         IdleProbe, ActiveUpdaters, IdleUpdater, Updaters,
        Runtimes, Selections, Keys, Status, Verdicts, AsksAreStrict, TasksAreSpawnedOnce
<1>1. ASSUME NEW r \in Requests, NEW h \in Hosts \cup {NoHost}, RequestArrives(r, h)
      PROVE  TypeOK'
  BY <1>1 DEF RequestArrives, Gating
<1>2. ASSUME NEW r \in Requests, NEW a \in Addresses, GatePasses(r, a)
      PROVE  TypeOK'
  BY <1>2 DEF GatePasses, Asks, Decides, Gating
<1>3. ASSUME NEW r \in Requests, NEW a \in Addresses, GateWithholds(r, a)
      PROVE  TypeOK'
  BY <1>3 DEF GateWithholds, Asks, Withhold, Decides, Gating
<1>4. ASSUME NEW r \in Requests, NEW a \in Addresses, GateIsFull(r, a)
      PROVE  TypeOK'
  BY <1>4 DEF GateIsFull, NeedsProbe, Asks, Withhold, Decides, Gating, Retained
<1>5. ASSUME NEW r \in Requests, NEW a \in Addresses, NEW p \in Permits,
             GateSchedules(r, a, p)
      PROVE  TypeOK'
  BY <1>5 DEF GateSchedules, NeedsProbe, Asks, Spawning, Task, KeyOf, Retained
<1>6. ASSUME NEW r \in Requests, SpawnProbe(r)
      PROVE  TypeOK'
  BY <1>6 DEF SpawnProbe, Gating, Task
<1>7. ASSUME NEW r \in Requests, RequestReplies(r)
      PROVE  TypeOK'
  BY <1>7 DEF RequestReplies
<1>8. ASSUME NEW p \in Permits, NEW kind \in {"verified", "rejected"},
             ProbeJudges(p, kind)
      PROVE  TypeOK'
  BY <1>8 DEF ProbeJudges, Task, Lifetime, Lesser
<1>9. ASSUME NEW p \in Permits, ProbeCompares(p)
      PROVE  TypeOK'
  BY <1>9 DEF ProbeCompares, Task
<1>10. ASSUME NEW p \in Permits, ProbePublishes(p)
      PROVE  TypeOK'
  BY <1>10 DEF ProbePublishes
<1>11. ASSUME NEW c \in Plugins \cup {NoPlugin}, WatcherReloads(c)
      PROVE  TypeOK'
  BY <1>11 DEF WatcherReloads, Locks, Reloaded, Updating
<1>12. CASE OptimizerStarts
  BY <1>12 DEF OptimizerStarts, Round
<1>13. CASE OptimizerDiscards
  BY <1>13 DEF OptimizerDiscards
<1>14. ASSUME NEW selection \in Selections, OptimizerUpdates(selection)
      PROVE  TypeOK'
  BY <1>14 DEF OptimizerUpdates, Locks, Updating
<1>15. ASSUME NEW u \in Updaters, Stores(u)
      PROVE  TypeOK'
  BY <1>15 DEF Stores, Updating
<1>16. ASSUME NEW u \in Updaters, BumpsEpoch(u)
      PROVE  TypeOK'
  BY <1>16 DEF BumpsEpoch, Updating
<1>17. ASSUME NEW u \in Updaters, ClearsCache(u)
      PROVE  TypeOK'
  BY <1>17 DEF ClearsCache
<1>18. CASE Tick
  BY <1>18 DEF Tick
<1>19. CASE UNCHANGED vars
  BY <1>19 DEF vars
<1> QED
  BY ONLY [Next]_vars, <1>1, <1>2, <1>3, <1>4, <1>5, <1>6, <1>7, <1>8, <1>9,
     <1>10, <1>11, <1>12, <1>13, <1>14, <1>15, <1>16, <1>17, <1>18, <1>19
     DEF Next, Request, Probe, Update

(* Only RequestArrives fills todo; every other step only shrinks it.           *)
LEMMA AsksStep == IInv /\ [Next]_vars => AsksAreStrict'
<1> SUFFICES ASSUME IInv, [Next]_vars PROVE AsksAreStrict'
  OBVIOUS
<1> USE NamesAreDistinct
    DEF IInv, AsksAreStrict, TypeOK, ActiveRequests, IdleRequest, InFlightProbes,
         IdleProbe, ActiveUpdaters, IdleUpdater, Updaters
<1>1. CASE UNCHANGED <<requests>>
  BY <1>1
<1>2. ASSUME NEW r \in Requests, NEW h \in Hosts \cup {NoHost}, RequestArrives(r, h)
      PROVE  AsksAreStrict'
  BY <1>2 DEF RequestArrives, Gating
<1>3. ASSUME NEW r \in Requests, NEW a \in Addresses, GatePasses(r, a)
      PROVE  AsksAreStrict'
  BY <1>3 DEF GatePasses, Asks, Decides, Gating
<1>4. ASSUME NEW r \in Requests, NEW a \in Addresses, GateWithholds(r, a)
      PROVE  AsksAreStrict'
  BY <1>4 DEF GateWithholds, Asks, Withhold, Decides, Gating
<1>5. ASSUME NEW r \in Requests, NEW a \in Addresses, GateIsFull(r, a)
      PROVE  AsksAreStrict'
  BY <1>5 DEF GateIsFull, NeedsProbe, Asks, Withhold, Decides, Gating, Retained
<1>6. ASSUME NEW r \in Requests, NEW a \in Addresses, NEW p \in Permits,
             GateSchedules(r, a, p)
      PROVE  AsksAreStrict'
  BY <1>6 DEF GateSchedules, NeedsProbe, Asks, Spawning, Task, KeyOf, Retained
<1>7. ASSUME NEW r \in Requests, SpawnProbe(r)
      PROVE  AsksAreStrict'
  BY <1>7 DEF SpawnProbe, Gating, Task
<1>8. ASSUME NEW r \in Requests, RequestReplies(r)
      PROVE  AsksAreStrict'
  BY <1>8 DEF RequestReplies
<1> QED
  BY ONLY [Next]_vars, <1>1, <1>2, <1>3, <1>4, <1>5, <1>6, <1>7, <1>8
     DEF Next, Request, Probe, Update, ProbeJudges, ProbeCompares,
         ProbePublishes, WatcherReloads, Locks, OptimizerStarts,
         OptimizerDiscards, OptimizerUpdates, Stores, BumpsEpoch, ClearsCache,
         Tick, vars

(* A scheduled task is left alone by everybody but the request that owns it.   *)
LEMMA TasksStep == IInv /\ [Next]_vars => TasksAreSpawnedOnce'
<1> SUFFICES ASSUME IInv, [Next]_vars PROVE TasksAreSpawnedOnce'
  OBVIOUS
<1> USE DEF IInv, TasksAreSpawnedOnce, AsksAreStrict, TypeOK, ActiveRequests, IdleRequest, InFlightProbes,
         IdleProbe, ActiveUpdaters, IdleUpdater, Updaters
<1>1. CASE UNCHANGED <<requests, probes>>
  BY <1>1
<1>2. ASSUME NEW r \in Requests, NEW h \in Hosts \cup {NoHost}, RequestArrives(r, h)
      PROVE  TasksAreSpawnedOnce'
  BY <1>2 DEF RequestArrives, Gating
<1>3. ASSUME NEW r \in Requests, NEW a \in Addresses, GatePasses(r, a)
      PROVE  TasksAreSpawnedOnce'
  BY <1>3 DEF GatePasses, Asks, Decides, Gating
<1>4. ASSUME NEW r \in Requests, NEW a \in Addresses, GateWithholds(r, a)
      PROVE  TasksAreSpawnedOnce'
  BY <1>4 DEF GateWithholds, Asks, Withhold, Decides, Gating
<1>5. ASSUME NEW r \in Requests, NEW a \in Addresses, GateIsFull(r, a)
      PROVE  TasksAreSpawnedOnce'
  BY <1>5 DEF GateIsFull, NeedsProbe, Asks, Withhold, Decides, Gating, Retained
<1>6. ASSUME NEW r \in Requests, NEW a \in Addresses, NEW p \in Permits,
             GateSchedules(r, a, p)
      PROVE  TasksAreSpawnedOnce'
  BY <1>6 DEF GateSchedules, NeedsProbe, Asks, Spawning, Task, KeyOf, Retained
<1>7. ASSUME NEW r \in Requests, SpawnProbe(r)
      PROVE  TasksAreSpawnedOnce'
  BY <1>7 DEF SpawnProbe, Gating, Task
<1>8. ASSUME NEW r \in Requests, RequestReplies(r)
      PROVE  TasksAreSpawnedOnce'
  BY <1>8 DEF RequestReplies
<1>9. ASSUME NEW p \in Permits, NEW kind \in {"verified", "rejected"},
             ProbeJudges(p, kind)
      PROVE  TasksAreSpawnedOnce'
  BY <1>9 DEF ProbeJudges, Task, Lifetime, Lesser
<1>10. ASSUME NEW p \in Permits, ProbeCompares(p)
      PROVE  TasksAreSpawnedOnce'
  BY <1>10 DEF ProbeCompares, Task
<1>11. ASSUME NEW p \in Permits, ProbePublishes(p)
      PROVE  TasksAreSpawnedOnce'
  BY <1>11 DEF ProbePublishes
<1> QED
  BY ONLY [Next]_vars, <1>1, <1>2, <1>3, <1>4, <1>5, <1>6, <1>7, <1>8, <1>9,
     <1>10, <1>11
     DEF Next, Request, Probe, Update, WatcherReloads, Locks, OptimizerStarts,
         OptimizerDiscards, OptimizerUpdates, Stores, BumpsEpoch, ClearsCache,
         Tick, vars

(* The lock keeps a second updater out until the cache is cleared, so what the *)
(* first one read under the lock is still current when it stores.              *)
LEMMA LockedStep == IInv /\ [Next]_vars => UpdatesAreLocked'
<1> SUFFICES ASSUME IInv, [Next]_vars PROVE UpdatesAreLocked'
  OBVIOUS
<1> USE PluginSettings, NamesAreDistinct
    DEF IInv, UpdatesAreLocked, SnapshotsAreOneGeneration, Offered, Runtimes,
        TypeOK, ActiveRequests, IdleRequest, InFlightProbes,
         IdleProbe, ActiveUpdaters, IdleUpdater, Updaters
<1>1. CASE UNCHANGED <<runtime, updateLock, updaters>>
  BY <1>1
<1>2. ASSUME NEW c \in Plugins \cup {NoPlugin}, WatcherReloads(c)
      PROVE  UpdatesAreLocked'
  BY <1>2 DEF WatcherReloads, Locks, Reloaded, Updating
<1>3. CASE OptimizerStarts
  BY <1>3 DEF OptimizerStarts, Round
<1>4. CASE OptimizerDiscards
  BY <1>4 DEF OptimizerDiscards
<1>5. ASSUME NEW selection \in Selections, OptimizerUpdates(selection)
      PROVE  UpdatesAreLocked'
  <2>1. updaters' = [updaters EXCEPT !["optimizer"] = updaters'["optimizer"]]
    BY <1>5 DEF OptimizerUpdates, Locks
  <2>2. updaters["watcher"].state \notin {"store", "bump", "clear"}
    BY <1>5 DEF OptimizerUpdates, Locks
  <2>3. runtime' = runtime /\ updateLock' = "optimizer"
    BY <1>5 DEF OptimizerUpdates, Locks
  <2>4. updaters'["optimizer"].next = [plugin |-> runtime.plugin, preferred |-> selection]
    BY <1>5 DEF OptimizerUpdates, Locks, Updating
  <2>5. selection \subseteq Offered(runtime.plugin)
    BY <1>5 DEF OptimizerUpdates, Offered
  <2>6. updaters'["optimizer"].state # "store" => selection = runtime.preferred
    BY <1>5 DEF OptimizerUpdates, Locks, Updating
  <2> QED
    BY <2>1, <2>2, <2>3, <2>4, <2>5, <2>6 DEF Runtimes
<1>6. ASSUME NEW u \in Updaters, Stores(u)
      PROVE  UpdatesAreLocked'
  BY <1>6 DEF Stores, Updating
<1>7. ASSUME NEW u \in Updaters, BumpsEpoch(u)
      PROVE  UpdatesAreLocked'
  BY <1>7 DEF BumpsEpoch, Updating
<1>8. ASSUME NEW u \in Updaters, ClearsCache(u)
      PROVE  UpdatesAreLocked'
  BY <1>8 DEF ClearsCache
<1> QED
  BY ONLY [Next]_vars, <1>1, <1>2, <1>3, <1>4, <1>5, <1>6, <1>7, <1>8
     DEF Next, Request, Probe, Update, RequestArrives, GatePasses,
         GateWithholds, GateIsFull, GateSchedules, SpawnProbe, RequestReplies,
         ProbeJudges, ProbeCompares, ProbePublishes, Tick, vars

(* What is stored was consistent when it was computed; requests copy it whole. *)
LEMMA GenerationStep == IInv /\ [Next]_vars => SnapshotsAreOneGeneration'
<1> SUFFICES ASSUME IInv, [Next]_vars PROVE SnapshotsAreOneGeneration'
  OBVIOUS
<1> USE PluginSettings, NamesAreDistinct
    DEF IInv, UpdatesAreLocked, SnapshotsAreOneGeneration, Offered, Runtimes,
        TypeOK, ActiveRequests, IdleRequest, InFlightProbes,
         IdleProbe, ActiveUpdaters, IdleUpdater, Updaters
<1>1. CASE UNCHANGED <<runtime, requests>>
  BY <1>1
<1>2. ASSUME NEW r \in Requests, NEW h \in Hosts \cup {NoHost}, RequestArrives(r, h)
      PROVE  SnapshotsAreOneGeneration'
  BY <1>2 DEF RequestArrives, Gating
<1>3. ASSUME NEW r \in Requests, NEW a \in Addresses, GatePasses(r, a)
      PROVE  SnapshotsAreOneGeneration'
  BY <1>3 DEF GatePasses, Asks, Decides, Gating
<1>4. ASSUME NEW r \in Requests, NEW a \in Addresses, GateWithholds(r, a)
      PROVE  SnapshotsAreOneGeneration'
  BY <1>4 DEF GateWithholds, Asks, Withhold, Decides, Gating
<1>5. ASSUME NEW r \in Requests, NEW a \in Addresses, GateIsFull(r, a)
      PROVE  SnapshotsAreOneGeneration'
  BY <1>5 DEF GateIsFull, NeedsProbe, Asks, Withhold, Decides, Gating, Retained
<1>6. ASSUME NEW r \in Requests, NEW a \in Addresses, NEW p \in Permits,
             GateSchedules(r, a, p)
      PROVE  SnapshotsAreOneGeneration'
  BY <1>6 DEF GateSchedules, NeedsProbe, Asks, Spawning, Task, KeyOf, Retained
<1>7. ASSUME NEW r \in Requests, SpawnProbe(r)
      PROVE  SnapshotsAreOneGeneration'
  BY <1>7 DEF SpawnProbe, Gating, Task
<1>8. ASSUME NEW r \in Requests, RequestReplies(r)
      PROVE  SnapshotsAreOneGeneration'
  BY <1>8 DEF RequestReplies
<1>9. ASSUME NEW u \in Updaters, Stores(u)
      PROVE  SnapshotsAreOneGeneration'
  BY <1>9 DEF Stores, Updating
<1> QED
  BY ONLY [Next]_vars, <1>1, <1>2, <1>3, <1>4, <1>5, <1>6, <1>7, <1>8, <1>9
     DEF Next, Request, Probe, Update, ProbeJudges, ProbeCompares,
         ProbePublishes, WatcherReloads, Locks, OptimizerStarts,
         OptimizerDiscards, OptimizerUpdates, BumpsEpoch, ClearsCache, Tick,
         vars

(* The epoch is loaded after Pending is in the cache: a bump that makes the     *)
(* task stale comes later than the insertion, and so does the clear after it.   *)
LEMMA PendingStep == IInv /\ [Next]_vars => PendingIsOwned'
<1> SUFFICES ASSUME IInv, [Next]_vars PROVE PendingIsOwned'
  OBVIOUS
<1> USE DEF IInv, PendingIsOwned, TasksAreSpawnedOnce, Pending, Absent, Status, Verdicts,
        TypeOK, ActiveRequests, IdleRequest, InFlightProbes,
         IdleProbe, ActiveUpdaters, IdleUpdater, Updaters
<1>1. CASE UNCHANGED <<epoch, cache, probes, updaters>>
  BY <1>1
<1>2. ASSUME NEW r \in Requests, NEW a \in Addresses, GateIsFull(r, a)
      PROVE  PendingIsOwned'
  BY <1>2 DEF GateIsFull, NeedsProbe, Asks, Withhold, Decides, Gating, Retained
<1>3. ASSUME NEW r \in Requests, NEW a \in Addresses, NEW p \in Permits,
             GateSchedules(r, a, p)
      PROVE  PendingIsOwned'
  BY <1>3 DEF GateSchedules, NeedsProbe, Asks, Spawning, Task, KeyOf, Retained
<1>4. ASSUME NEW r \in Requests, SpawnProbe(r)
      PROVE  PendingIsOwned'
  BY <1>4 DEF SpawnProbe, Gating, Task
<1>5. ASSUME NEW p \in Permits, NEW kind \in {"verified", "rejected"},
             ProbeJudges(p, kind)
      PROVE  PendingIsOwned'
  BY <1>5 DEF ProbeJudges, Task, Lifetime, Lesser
<1>6. ASSUME NEW p \in Permits, ProbeCompares(p)
      PROVE  PendingIsOwned'
  BY <1>6 DEF ProbeCompares, Task
<1>7. ASSUME NEW p \in Permits, ProbePublishes(p)
      PROVE  PendingIsOwned'
  BY <1>7 DEF ProbePublishes
<1>8. ASSUME NEW c \in Plugins \cup {NoPlugin}, WatcherReloads(c)
      PROVE  PendingIsOwned'
  BY <1>8 DEF WatcherReloads, Locks, Reloaded, Updating
<1>9. CASE OptimizerStarts
  BY <1>9 DEF OptimizerStarts, Round
<1>10. CASE OptimizerDiscards
  BY <1>10 DEF OptimizerDiscards
<1>11. ASSUME NEW selection \in Selections, OptimizerUpdates(selection)
      PROVE  PendingIsOwned'
  BY <1>11 DEF OptimizerUpdates, Locks, Updating
<1>12. ASSUME NEW u \in Updaters, Stores(u)
      PROVE  PendingIsOwned'
  BY <1>12 DEF Stores, Updating
<1>13. ASSUME NEW u \in Updaters, BumpsEpoch(u)
      PROVE  PendingIsOwned'
  BY <1>13 DEF BumpsEpoch, Updating
<1>14. ASSUME NEW u \in Updaters, ClearsCache(u)
      PROVE  PendingIsOwned'
  BY <1>14 DEF ClearsCache
<1> QED
  BY ONLY [Next]_vars, <1>1, <1>2, <1>3, <1>4, <1>5, <1>6, <1>7, <1>8, <1>9,
     <1>10, <1>11, <1>12, <1>13, <1>14
     DEF Next, Request, Probe, Update, RequestArrives, GatePasses,
         GateWithholds, RequestReplies, Tick, vars

(* A verdict's lifetime starts when it is computed and time only moves on.      *)
LEMMA TimelyStep == IInv /\ [Next]_vars => VerdictsAreTimely'
<1> SUFFICES ASSUME IInv, [Next]_vars PROVE VerdictsAreTimely'
  OBVIOUS
<1> USE PluginSettings, Bounds
    DEF IInv, VerdictsAreTimely, TasksAreSpawnedOnce, Verdicts,
        TypeOK, ActiveRequests, IdleRequest, InFlightProbes,
         IdleProbe, ActiveUpdaters, IdleUpdater, Updaters
<1>1. CASE UNCHANGED <<probes, now>>
  BY <1>1
<1>2. ASSUME NEW r \in Requests, NEW a \in Addresses, NEW p \in Permits,
             GateSchedules(r, a, p)
      PROVE  VerdictsAreTimely'
  BY <1>2 DEF GateSchedules, NeedsProbe, Asks, Spawning, Task, KeyOf, Retained
<1>3. ASSUME NEW r \in Requests, SpawnProbe(r)
      PROVE  VerdictsAreTimely'
  BY <1>3 DEF SpawnProbe, Gating, Task
<1>4. ASSUME NEW p \in Permits, NEW kind \in {"verified", "rejected"},
             ProbeJudges(p, kind)
      PROVE  VerdictsAreTimely'
  BY <1>4 DEF ProbeJudges, Task, Lifetime, Lesser
<1>5. ASSUME NEW p \in Permits, ProbeCompares(p)
      PROVE  VerdictsAreTimely'
  BY <1>5 DEF ProbeCompares, Task
<1>6. ASSUME NEW p \in Permits, ProbePublishes(p)
      PROVE  VerdictsAreTimely'
  BY <1>6 DEF ProbePublishes
<1>7. CASE Tick
  BY <1>7 DEF Tick
<1> QED
  BY ONLY [Next]_vars, <1>1, <1>2, <1>3, <1>4, <1>5, <1>6, <1>7
     DEF Next, Request, Probe, Update, RequestArrives, GatePasses,
         GateWithholds, GateIsFull, RequestReplies, WatcherReloads, Locks,
         OptimizerStarts, OptimizerDiscards, OptimizerUpdates, Stores,
         BumpsEpoch, ClearsCache, vars

-----------------------------------------------------------------------------

LEMMA InitIInv == Init => IInv
<1> USE PluginSettings, NamesAreDistinct, Bounds
<1> SUFFICES ASSUME Init PROVE IInv
  OBVIOUS
<1>1. TypeOK
  BY DEF Init, TypeOK, Runtimes, Updaters, IdleUpdater, IdleProbe, IdleRequest,
         Status, Selections, Addresses
<1>2. AsksAreStrict /\ TasksAreSpawnedOnce
  BY DEF Init, AsksAreStrict, TasksAreSpawnedOnce, IdleRequest
<1>3. UpdatesAreLocked
  BY DEF Init, UpdatesAreLocked, IdleUpdater
<1>4. SnapshotsAreOneGeneration
  BY DEF Init, SnapshotsAreOneGeneration, Offered
<1>5. PendingIsOwned /\ VerdictsAreTimely
  BY DEF Init, PendingIsOwned, VerdictsAreTimely, Absent, Pending, IdleProbe
<1> QED
  BY <1>1, <1>2, <1>3, <1>4, <1>5 DEF IInv

\* IInv holds in every reachable state of the gate.
THEOREM Invariance == Spec => []IInv
<1>1. IInv /\ [Next]_vars => IInv'
  BY TypeStep, AsksStep, TasksStep, LockedStep, GenerationStep, PendingStep, TimelyStep
     DEF IInv
<1> QED
  BY InitIInv, <1>1, PTL DEF Spec

\* The state stays well formed.
THEOREM TypeCorrect == Spec => []TypeOK
<1>1. IInv => TypeOK
  BY DEF IInv
<1> QED
  BY Invariance, <1>1, PTL

\* A Pending entry never outlives everybody who would remove it.
THEOREM PendingNeverAbandoned == Spec => []PendingIsOwned
<1>1. IInv => PendingIsOwned
  BY DEF IInv
<1> QED
  BY Invariance, <1>1, PTL

\* No snapshot, and no request, pairs a plugin with another plugin's addresses.
THEOREM OneGeneration == Spec => []SnapshotsAreOneGeneration
<1>1. IInv => SnapshotsAreOneGeneration
  BY DEF IInv
<1> QED
  BY Invariance, <1>1, PTL

\* runtime_update_lock makes load, store, bump and clear one update.
THEOREM Serial == Spec => []UpdatesAreSerial
<1>1. IInv => UpdatesAreSerial
  BY DEF IInv, UpdatesAreLocked, UpdatesAreSerial
<1> QED
  BY Invariance, <1>1, PTL

\* The optimizer never brings back a replaced configuration.
THEOREM NeverUndone == Spec => ReloadIsNeverUndone
<1>1. IInv /\ [Next]_vars =>
        [runtime'.plugin # runtime.plugin => updaters["watcher"].state = "store"]_vars
  <2> SUFFICES ASSUME IInv, [Next]_vars, runtime'.plugin # runtime.plugin
               PROVE  updaters["watcher"].state = "store"
    OBVIOUS
  <2>1. PICK u \in Updaters : Stores(u)
    BY DEF Next, Request, Probe, Update, vars, RequestArrives, GatePasses, GateWithholds,
           GateIsFull, GateSchedules, SpawnProbe, RequestReplies, ProbeJudges,
           ProbeCompares, ProbePublishes, WatcherReloads, OptimizerStarts,
           OptimizerDiscards, OptimizerUpdates, Locks, BumpsEpoch, ClearsCache, Tick
  <2> QED
    BY <2>1 DEF Stores, IInv, UpdatesAreLocked, Updaters
<1> QED
  BY Invariance, <1>1, PTL DEF Spec, ReloadIsNeverUndone

-----------------------------------------------------------------------------
(* The capacity of the cache.  A step that schedules nothing adds no key: a  *)
(* verdict takes the place of the probe that found it.                       *)
Keeps == Cached(cache)' \subseteq Cached(cache) \cup {probes[p].key : p \in InFlight}
Frees ==
  \A p \in Permits : probes'[p] # IdleProbe =>
    probes[p] # IdleProbe /\ probes'[p].key = probes[p].key

LEMMA LoadShrinks ==
  ASSUME Keeps, Frees
  PROVE  Load' \subseteq Load
BY DEF Keeps, Frees, Load, InFlight

LEMMA OthersKeepLoad ==
  ASSUME IInv, [Next]_vars,
         ~\E r \in Requests, a \in Addresses, p \in Permits : GateSchedules(r, a, p)
  PROVE  Load' \subseteq Load
<1>1. cache' = cache \/ cache' = Retained \/ cache' = [k \in Keys |-> Absent]
      \/ \E p \in Permits : ProbePublishes(p)
  BY DEF Next, vars, Request, Probe, Update, RequestArrives, GatePasses, GateWithholds, GateIsFull,
     SpawnProbe, RequestReplies, ProbeJudges, ProbeCompares, WatcherReloads, OptimizerStarts,
     OptimizerDiscards, OptimizerUpdates, Locks, Stores, BumpsEpoch, ClearsCache, Tick
<1>2. Keeps
  <2>1. CASE cache' = cache \/ cache' = Retained \/ cache' = [k \in Keys |-> Absent]
    BY <2>1 DEF Keeps, Cached, Retained
  <2>2. ASSUME NEW p \in Permits, ProbePublishes(p) PROVE Keeps
    <3>1. /\ cache' = [cache EXCEPT ![probes[p].key] = probes[p].verdict]
          /\ p \in InFlight
      BY <2>2 DEF ProbePublishes, InFlight, IdleProbe
    <3> QED
      BY <3>1 DEF Keeps, Cached, IInv, TypeOK
  <2> QED
    BY <1>1, <2>1, <2>2
<1>3. Frees
  <2>1. ASSUME NEW r \in Requests, SpawnProbe(r) PROVE Frees
    BY <2>1 DEF SpawnProbe, Frees, Task, IdleProbe, IInv, TypeOK, TasksAreSpawnedOnce
  <2>2. ASSUME NEW p \in Permits, Probe(p) PROVE Frees
    <3>1. probes[p] # IdleProbe
      BY <2>2 DEF Probe, ProbeJudges, ProbeCompares, ProbePublishes, IdleProbe
    <3>2. probes'[p] = IdleProbe \/ probes'[p].key = probes[p].key
      <4>1. probes \in [Permits -> {IdleProbe} \cup InFlightProbes]
        BY DEF IInv, TypeOK
      <4>2. CASE ProbePublishes(p)
        BY <4>1, <4>2 DEF ProbePublishes
      <4>3. CASE ProbeCompares(p)
        BY <4>1, <4>3 DEF ProbeCompares, Task
      <4>4. ASSUME NEW kind \in {"verified", "rejected"}, ProbeJudges(p, kind)
            PROVE  probes'[p].key = probes[p].key
        BY <4>1, <4>4 DEF ProbeJudges, Task
      <4> QED
        BY <2>2, <4>2, <4>3, <4>4 DEF Probe
    <3>3. \A q \in Permits : q # p => probes'[q] = probes[q]
      BY <2>2 DEF Probe, ProbeJudges, ProbeCompares, ProbePublishes, IInv, TypeOK
    <3> QED
      BY <3>1, <3>2, <3>3 DEF Frees
  <2>3. CASE probes' = probes
    BY <2>3 DEF Frees
  <2> QED
    BY <2>1, <2>2, <2>3
       DEF Next, vars, Request, Update, RequestArrives, GatePasses, GateWithholds, GateIsFull,
       RequestReplies, WatcherReloads, OptimizerStarts, OptimizerDiscards, OptimizerUpdates, Locks,
       Stores, BumpsEpoch, ClearsCache, Tick
<1> QED
  BY <1>2, <1>3, LoadShrinks

\* No more keys are being probed than permits are taken.
LEMMA KeysOfProbes ==
  ASSUME NEW taken \in SUBSET Permits
  PROVE  LET K == {probes[p].key : p \in taken}
         IN  IsFiniteSet(K) /\ Cardinality(K) <= Cardinality(taken)
<1> DEFINE K == {probes[p].key : p \in taken}
           f == [p \in taken |-> probes[p].key]
<1>1. IsFiniteSet(taken)
  BY PermitsAreFinite, FS_Subset
<1>2. f \in Surjection(taken, K)
  BY DEF Surjection
<1> HIDE DEF K, f
<1>3. IsFiniteSet(K) /\ Cardinality(K) <= Cardinality(taken)
  BY <1>1, <1>2, FS_Surjection
<1> QED
  BY <1>3 DEF K

\* The union of two finite sets has no more elements than they have together.
LEMMA UnionIsBounded ==
  ASSUME NEW S, NEW T, IsFiniteSet(S), IsFiniteSet(T)
  PROVE  IsFiniteSet(S \cup T) /\ Cardinality(S \cup T) <= Cardinality(S) + Cardinality(T)
<1>1. IsFiniteSet(S \cap T) /\ IsFiniteSet(S \cup T)
  BY FS_Intersection, FS_Union
<1>2. Cardinality(S \cup T) = Cardinality(S) + Cardinality(T) - Cardinality(S \cap T)
  BY FS_Union
<1>3. Cardinality(S) \in Nat /\ Cardinality(T) \in Nat /\ Cardinality(S \cap T) \in Nat
  BY <1>1, FS_CardinalityType
<1> QED
  BY <1>1, <1>2, <1>3

LEMMA LoadStep ==
  ASSUME IInv, LoadIsBounded, [Next]_vars
  PROVE  LoadIsBounded'
<1>0. Cardinality(Permits) \in Nat
  BY PermitsAreFinite, FS_CardinalityType
<1>1. CASE ~\E r \in Requests, a \in Addresses, p \in Permits : GateSchedules(r, a, p)
  <2>1. Load' \in SUBSET Load
    BY <1>1, OthersKeepLoad
  <2>2. IsFiniteSet(Load') /\ Cardinality(Load') <= Cardinality(Load)
    BY <2>1, FS_Subset DEF LoadIsBounded
  <2>3. Cardinality(Load) \in Nat /\ Cardinality(Load') \in Nat
    BY <2>2, FS_CardinalityType DEF LoadIsBounded
  <2> QED
    BY <1>0, <2>2, <2>3, Bounds DEF LoadIsBounded
<1>2. ASSUME NEW r \in Requests, NEW a \in Addresses, NEW p \in Permits, GateSchedules(r, a, p)
      PROVE  LoadIsBounded'
  <2> DEFINE kept == Cached(Retained)
             others == InFlight \ {p}
             K == {probes[q].key : q \in others}
             key == KeyOf(r, a)
  <2>1. kept \in SUBSET Load
    BY DEF Cached, Retained, Load
  <2>2. IsFiniteSet(kept) /\ Cardinality(kept) \in Nat /\ Cardinality(kept) < CacheCapacity
    BY <1>2, <2>1, FS_Subset, FS_CardinalityType DEF LoadIsBounded, GateSchedules, HasRoom
  <2>3. others \in SUBSET (Permits \ {p})
    BY DEF InFlight
  <2>4. IsFiniteSet(Permits \ {p}) /\ Cardinality(Permits \ {p}) = Cardinality(Permits) - 1
    BY PermitsAreFinite, FS_RemoveElement
  <2>5. IsFiniteSet(others) /\ Cardinality(others) <= Cardinality(Permits) - 1
    BY <2>3, <2>4, FS_Subset
  <2>6. IsFiniteSet(K) /\ Cardinality(K) <= Cardinality(others)
    BY KeysOfProbes DEF InFlight
  <2>7. Load' \in SUBSET ((kept \cup K) \cup {key})
    <3>1. cache' = [Retained EXCEPT ![key] = Pending]
      BY <1>2 DEF GateSchedules
    <3>2. Cached(cache') \subseteq kept \cup {key}
      BY <3>1 DEF Cached, Retained
    <3>3. \A q \in Permits : q # p => probes'[q] = probes[q]
      BY <1>2 DEF GateSchedules, IInv, TypeOK
    <3>4. probes'[p].key = key
      BY <1>2 DEF GateSchedules, Task, IInv, TypeOK
    <3>5. \A q \in InFlight' : probes'[q].key \in K \cup {key}
      BY <3>3, <3>4 DEF InFlight
    <3> QED
      BY <3>2, <3>5 DEF Load, Cached
  <2> HIDE DEF kept, others, K, key
  <2>8. IsFiniteSet(kept \cup K) /\ Cardinality(kept \cup K) <= Cardinality(kept) + Cardinality(K)
    BY <2>2, <2>6, UnionIsBounded
  <2>9. /\ IsFiniteSet((kept \cup K) \cup {key})
        /\ Cardinality((kept \cup K) \cup {key}) <= Cardinality(kept \cup K) + 1
    BY <2>8, FS_Singleton, UnionIsBounded
  <2>10. IsFiniteSet(Load') /\ Cardinality(Load') <= Cardinality((kept \cup K) \cup {key})
    BY <2>7, <2>9, FS_Subset
  <2>11. /\ Cardinality(Load') \in Nat /\ Cardinality((kept \cup K) \cup {key}) \in Nat
         /\ Cardinality(kept \cup K) \in Nat /\ Cardinality(K) \in Nat /\ Cardinality(others) \in Nat
    BY <2>5, <2>6, <2>8, <2>9, <2>10, FS_CardinalityType
  <2> QED
    BY <1>0, <2>2, <2>5, <2>6, <2>8, <2>9, <2>10, <2>11, Bounds DEF LoadIsBounded
<1> QED
  BY <1>1, <1>2

\* The cache exceeds its capacity by no more than the probes in flight beside the one
\* that was scheduled last.
THEOREM CacheStaysBounded == Spec => []CacheIsBounded
<1>0. Cardinality(Permits) \in Nat
  BY PermitsAreFinite, FS_CardinalityType
<1>1. Init => LoadIsBounded
  <2>1. Init => Load = {}
    BY DEF Init, Load, InFlight, Cached
  <2> QED
    BY <1>0, <2>1, FS_EmptySet, Bounds DEF LoadIsBounded
<1>2. IInv /\ LoadIsBounded /\ [Next]_vars => LoadIsBounded'
  BY LoadStep
<1>3. LoadIsBounded => CacheIsBounded
  <2>1. SUFFICES ASSUME LoadIsBounded PROVE CacheIsBounded
    OBVIOUS
  <2>2. Cached(cache) \in SUBSET Load
    BY DEF Load
  <2>3. IsFiniteSet(Cached(cache)) /\ Cardinality(Cached(cache)) <= Cardinality(Load)
    BY <2>1, <2>2, FS_Subset DEF LoadIsBounded
  <2>4. Cardinality(Cached(cache)) \in Nat /\ Cardinality(Load) \in Nat
    BY <2>1, <2>3, FS_CardinalityType DEF LoadIsBounded
  <2> QED
    BY <1>0, <2>1, <2>3, <2>4, Bounds DEF LoadIsBounded, CacheIsBounded
<1> QED
  BY Invariance, <1>1, <1>2, <1>3, PTL DEF Spec

-----------------------------------------------------------------------------
(* The gate implements CertifiedAnswers: every step of the gate hands out   *)
(* one proved pair, adds or forgets proofs, finishes an answer, lets time   *)
(* pass, or changes nothing a client could tell.                            *)
AllAnswers == [r \in Requests |-> Answers(r)]

\* Dropping cache entries only forgets proofs.
LEMMA DroppingForgets ==
  ASSUME IInv, \A k \in Keys : cache'[k] = cache[k] \/ cache'[k].kind # "verified"
  PROVE  Proofs' \subseteq Proofs
<1>1. SUFFICES ASSUME NEW k \in Keys, cache'[k].kind = "verified"
               PROVE  cache'[k] = cache[k]
  BY DEF Proofs
<1> QED
  BY <1>1

\* A step that leaves clients and clock alone and adds no proof is Forget.
LEMMA ForgetStep ==
  ASSUME UNCHANGED <<now, AllAnswers>>, Proofs' \subseteq Proofs
  PROVE  Promise!Next
BY DEF Promise!Next, Promise!Forget, AllAnswers

\* What a request has been handed so far changes with its answer only.
LEMMA SameAnswers ==
  ASSUME IInv, NEW r \in Requests, NEW request,
         requests' = [requests EXCEPT ![r] = request],
         Answers(r)' = Answers(r)
  PROVE  AllAnswers' = AllAnswers
<1>1. \A q \in Requests : q # r => requests'[q] = requests[q]
  BY DEF IInv, TypeOK
<1>2. \A q \in Requests : Answers(q)' = Answers(q)
  BY <1>1 DEF Answers
<1> QED
  BY <1>2 DEF AllAnswers

LEMMA SimulationStep ==
  ASSUME IInv, [Next]_vars
  PROVE  Promise!Next \/ UNCHANGED <<now, Proofs, AllAnswers>>
<1>1. CASE UNCHANGED <<cache, requests, now>>
  BY <1>1 DEF Proofs, AllAnswers, Answers
<1>2. ASSUME NEW r \in Requests, NEW h \in Hosts \cup {NoHost}, RequestArrives(r, h)
      PROVE  UNCHANGED <<now, Proofs, AllAnswers>>
  <2>1. Answers(r) = {}
    BY <1>2 DEF RequestArrives, Answers
  <2>2. Answers(r)' = {}
    BY <1>2 DEF RequestArrives, Answers, Gating, IInv, TypeOK
  <2>3. AllAnswers' = AllAnswers
    BY <1>2, <2>1, <2>2, SameAnswers DEF RequestArrives
  <2> QED
    BY <1>2, <2>3 DEF RequestArrives, Proofs
<1>3. ASSUME NEW r \in Requests, NEW a \in Addresses, GatePasses(r, a)
      PROVE  Promise!HandOut(r, KeyOf(r, a))
  <2>1. /\ requests[r] # IdleRequest
        /\ requests[r].plugin \in Strict
        /\ requests[r].host \in Hosts
    BY <1>3 DEF GatePasses, Asks, IdleRequest, IInv, AsksAreStrict
  <2>2. KeyOf(r, a) \in Keys /\ <<KeyOf(r, a), cache[KeyOf(r, a)].until>> \in Proofs
    BY <1>3, <2>1 DEF GatePasses, KeyOf, Keys, Proofs
  <2>3. Promise!Certified(KeyOf(r, a))
    BY <1>3, <2>2 DEF GatePasses, Fresh, Promise!Certified
  <2>4. Answers(r)' = Answers(r) \cup {KeyOf(r, a)}
    <3>1. /\ requests'[r] # IdleRequest
          /\ requests'[r].plugin = requests[r].plugin
          /\ requests'[r].host = requests[r].host
          /\ requests'[r].answer = requests[r].answer \cup {a}
      BY <1>3 DEF GatePasses, Decides, Gating, IdleRequest, IInv, TypeOK
    <3> QED
      BY <2>1, <3>1 DEF Answers, KeyOf
  <2>5. \A q \in Requests : q # r => Answers(q)' = Answers(q)
    BY <1>3 DEF GatePasses, Decides, Answers, IInv, TypeOK
  <2>6. AllAnswers' = [AllAnswers EXCEPT ![r] = @ \cup {KeyOf(r, a)}]
    BY <2>4, <2>5 DEF AllAnswers
  <2> QED
    BY <1>3, <2>3, <2>6 DEF Promise!HandOut, AllAnswers, GatePasses, Proofs
<1>4. ASSUME NEW r \in Requests, NEW a \in Addresses, Asks(r, a), Withhold(r, a)
      PROVE  AllAnswers' = AllAnswers
  <2>1. Answers(r)' = Answers(r)
    BY <1>4 DEF Asks, Withhold, Decides, Gating, IdleRequest, Answers, IInv, TypeOK
  <2> QED
    BY <1>4, <2>1, SameAnswers DEF Withhold, Decides
<1>5. ASSUME NEW r \in Requests, NEW a \in Addresses, GateIsFull(r, a)
      PROVE  Promise!Next
  <2>1. Proofs' \subseteq Proofs
    BY <1>5, DroppingForgets DEF GateIsFull, Retained, Absent, IInv, TypeOK
  <2> QED
    BY <1>4, <1>5, <2>1, ForgetStep DEF GateIsFull, NeedsProbe
<1>6. ASSUME NEW r \in Requests, NEW a \in Addresses, NEW p \in Permits,
             GateSchedules(r, a, p)
      PROVE  Promise!Next
  <2>1. Answers(r)' = Answers(r)
    BY <1>6 DEF GateSchedules, NeedsProbe, Asks, Spawning, IdleRequest, Answers, IInv, TypeOK
  <2>2. AllAnswers' = AllAnswers
    BY <1>6, <2>1, SameAnswers DEF GateSchedules
  <2>3. Proofs' \subseteq Proofs
    BY <1>6, DroppingForgets DEF GateSchedules, Retained, Absent, Pending, IInv, TypeOK
  <2> QED
    BY <1>6, <2>2, <2>3, ForgetStep DEF GateSchedules
<1>7. ASSUME NEW r \in Requests, SpawnProbe(r)
      PROVE  UNCHANGED <<now, Proofs, AllAnswers>>
  <2>1. Answers(r)' = Answers(r)
    BY <1>7 DEF SpawnProbe, Gating, IdleRequest, Answers, IInv, TypeOK
  <2> QED
    BY <1>7, <2>1, SameAnswers DEF SpawnProbe, Proofs
<1>8. ASSUME NEW r \in Requests, RequestReplies(r)
      PROVE  Promise!Finish(r)
  <2>1. Answers(r)' = {}
    BY <1>8 DEF RequestReplies, Answers, IInv, TypeOK
  <2>2. \A q \in Requests : q # r => Answers(q)' = Answers(q)
    BY <1>8 DEF RequestReplies, Answers, IInv, TypeOK
  <2>3. AllAnswers' = [AllAnswers EXCEPT ![r] = {}]
    BY <2>1, <2>2 DEF AllAnswers
  <2> QED
    BY <1>8, <2>3 DEF Promise!Finish, AllAnswers, RequestReplies, Proofs
<1>9. ASSUME NEW p \in Permits, ProbePublishes(p)
      PROVE  Promise!Next
  <2> DEFINE key == probes[p].key
             proof == <<key, probes[p].verdict.until>>
  <2>1. /\ key \in Keys
        /\ probes[p].plugin \in Strict
        /\ probes[p].verdict.until <= now + Ttl[probes[p].plugin]
        /\ \A k \in Keys \ {key} : cache'[k] = cache[k]
        /\ cache'[key] = probes[p].verdict
    BY <1>9 DEF ProbePublishes, IInv, TypeOK, VerdictsAreTimely, InFlightProbes, IdleProbe
  <2>2. UNCHANGED <<now, AllAnswers>>
    BY <1>9 DEF ProbePublishes, AllAnswers, Answers
  <2>3. CASE probes[p].verdict.kind = "verified"
    <3>1. proof \in Proofs' /\ Proofs' \subseteq Proofs \cup {proof}
      BY <2>1, <2>3 DEF Proofs
    <3>2. Promise!Prove(key, proof[2])
      BY <2>1, <2>2, <3>1 DEF Promise!Prove, AllAnswers
    <3> QED
      BY <2>1, <3>1, <3>2 DEF Promise!Next
  <2>4. CASE probes[p].verdict.kind # "verified"
    BY <2>1, <2>2, <2>4, DroppingForgets, ForgetStep
  <2> QED
    BY <2>3, <2>4
<1>10. ASSUME NEW u \in Updaters, ClearsCache(u)
       PROVE  Promise!Next
  <2>1. Proofs' \subseteq Proofs
    BY <1>10, DroppingForgets DEF ClearsCache, Absent
  <2> QED
    BY <1>10, <2>1, ForgetStep DEF ClearsCache, AllAnswers, Answers
<1>11. CASE Tick
  BY <1>11 DEF Tick, Promise!Next, Promise!Pass, Proofs, AllAnswers, Answers
<1>12. ASSUME NEW r \in Requests, Request(r)
       PROVE  Promise!Next \/ UNCHANGED <<now, Proofs, AllAnswers>>
  <2>1. ASSUME NEW a \in Addresses, GatePasses(r, a)
        PROVE  Promise!Next
    <3>1. KeyOf(r, a) \in Keys
      BY <2>1 DEF GatePasses, Asks, KeyOf, Keys, IInv, AsksAreStrict
    <3> QED
      BY <1>3, <2>1, <3>1 DEF Promise!Next
  <2>2. ASSUME NEW a \in Addresses, GateWithholds(r, a)
        PROVE  UNCHANGED <<now, Proofs, AllAnswers>>
    BY <1>4, <2>2 DEF GateWithholds, Proofs
  <2>3. CASE RequestReplies(r)
    BY <1>8, <2>3 DEF Promise!Next
  <2> QED
    BY ONLY <1>2, <1>5, <1>6, <1>7, <1>12, <2>1, <2>2, <2>3, r \in Requests DEF Request
<1>13. ASSUME NEW p \in Permits, Probe(p)
       PROVE  Promise!Next \/ UNCHANGED <<cache, requests, now>>
  BY <1>9, <1>13 DEF Probe, ProbeJudges, ProbeCompares
<1>14. ASSUME NEW u \in Updaters, Update(u)
       PROVE  Promise!Next \/ UNCHANGED <<cache, requests, now>>
  BY <1>10, <1>14 DEF Update, Stores, BumpsEpoch
<1> QED
  BY ONLY [Next]_vars, <1>1, <1>11, <1>12, <1>13, <1>14
     DEF Next, vars, WatcherReloads, OptimizerStarts, OptimizerDiscards, OptimizerUpdates, Locks

\* Strict mode keeps its promise whatever races: the gate refines CertifiedAnswers.
THEOREM GateKeepsPromise == Spec => RewritesAreCertified
<1>1. Init => Promise!Init
  BY DEF Init, Promise!Init, Proofs, Answers, Absent
<1>2. IInv /\ [Next]_vars => [Promise!Next]_<<now, Proofs, AllAnswers>>
  BY SimulationStep
<1> QED
  BY <1>1, <1>2, Invariance, PTL DEF Spec, RewritesAreCertified, Promise!Spec, AllAnswers
=============================================================================
