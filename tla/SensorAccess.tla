----------------------------- MODULE SensorAccess -----------------------------
(***************************************************************************)
(* Who may speak as a sensor: the routes of the central service that issue *)
(* and withdraw credentials, and those a sensor calls (api/app.py,         *)
(* api/sensors.py, sensors/manager.py), over the registry.                 *)
(*                                                                         *)
(* A route that issues or withdraws is a coroutine without an await, so    *)
(* it is one step: the registry's change and its _save, the view of the    *)
(* sensor that goes into the answer, the audit record, the answer.  Each   *)
(* of them can raise, and a later one then does not happen.  A service     *)
(* that dies in the middle is one of these followed by Restart.            *)
(*                                                                         *)
(* Only the heartbeat takes two steps: require_sensor is not a coroutine,  *)
(* so it authenticates in a worker thread, and the route runs later, in    *)
(* the event loop.  The telemetry route authenticates in the event loop.   *)
(*                                                                         *)
(* The view allocates the sensor's runtime, of which there are at most     *)
(* max_sensors, and raises when there is no room for it.                   *)
(***************************************************************************)
EXTENDS SensorRegistry

CONSTANTS
    MaxSensors,       \* max_sensor_count: runtimes in memory
    MaxEnrollments,   \* bound: enrollments issued
    MaxTokens,        \* bound: tokens generated
    MaxSequence,      \* bound: deliveries of a sensor
    MaxTime,          \* bound: the clock
    MaxFaults         \* bound: writes that raise and answers that get lost

ASSUME AccessAssumption ==
    /\ MaxSensors \in Nat \ {0}
    /\ {MaxEnrollments, MaxTokens, MaxSequence, MaxTime, MaxFaults} \subseteq Nat

VARIABLES
    runtimes,         \* RemoteSensorRuntimeStore._runtimes
    inFlight,         \* sensors with a heartbeat that has authenticated
    offered,          \* history: enrollments whose issue was answered
    held,             \* history: <<sensor, token>> whose issue was answered
    revoked,          \* history: sensors whose disabling was answered
    served,           \* history: when the process let a request through
    faultsLeft        \* bound: failures to come

answers == <<offered, held, revoked>>
accessVars == <<registryVars, runtimes, inFlight, answers, served, faultsLeft>>

AccessInit ==
    /\ RegistryInit
    /\ runtimes = {} /\ inFlight = {}
    /\ offered = {} /\ held = {} /\ revoked = {}
    /\ served = <<>>
    /\ faultsLeft = MaxFaults

Fault == faultsLeft > 0 /\ faultsLeft' = faultsLeft - 1

(* Mutant: one runtime more than the maximum.                              *)
HasRoomLate(s) == s \in runtimes \/ Cardinality(runtimes) <= MaxSensors

(* RemoteSensorRuntimeStore._runtime, through snapshot.                    *)
HasRoom(s) == s \in runtimes \/ Cardinality(runtimes) < MaxSensors

View(s) == runtimes' = IF HasRoom(s) THEN runtimes \cup {s} ELSE runtimes

(* The ways a change in the registry goes on: the write raises; it is      *)
(* written but the audit record raises or the answer is lost; or the       *)
(* caller learns of it.                                                    *)
NotSaved == SaveFails /\ Fault
NotAnswered == Save /\ Fault
Answered == Save /\ UNCHANGED faultsLeft

(***************************************************************************)
(* The administrator's and the operator's routes.                          *)
(***************************************************************************)
IssueEnrollment ==
    /\ enrollmentCount < MaxEnrollments
    /\ CreateEnrollment
    /\ \/ (NotSaved \/ NotAnswered) /\ UNCHANGED offered
       \/ Answered /\ offered' = offered \cup {enrollmentCount + 1}
    /\ UNCHANGED <<runtimes, inFlight, held, revoked, served>>

RotateCredential(s) ==
    /\ tokenCount < MaxTokens
    /\ Rotate(s)
    /\ \/ NotSaved /\ UNCHANGED <<runtimes, held>>
       \/ NotAnswered /\ View(s) /\ UNCHANGED held
       \/ HasRoom(s) /\ Answered /\ View(s)
             /\ held' = held \cup {<<s, tokenCount + 1>>}
       \/ ~HasRoom(s) /\ Answered /\ UNCHANGED <<runtimes, held>>
    /\ UNCHANGED <<inFlight, offered, revoked, served>>

DisableSensor(s) ==
    /\ Disable(s)
    /\ \/ NotSaved /\ UNCHANGED <<runtimes, revoked>>
       \/ NotAnswered /\ View(s) /\ UNCHANGED revoked
       \/ HasRoom(s) /\ Answered /\ View(s) /\ revoked' = revoked \cup {s}
       \/ ~HasRoom(s) /\ Answered /\ UNCHANGED <<runtimes, revoked>>
    /\ UNCHANGED <<inFlight, offered, held, served>>

(* list_sensors views the sensors in the order of the registry, which is   *)
(* that of the random IDs once the registry was read from its file; it     *)
(* raises at the first one without room.                                   *)
ListSensors ==
    /\ \E viewed \in SUBSET (DOMAIN sensors \ runtimes) :
          /\ Cardinality(runtimes \cup viewed) <= MaxSensors
          /\ \A s \in DOMAIN sensors \ (runtimes \cup viewed) :
                Cardinality(runtimes \cup viewed) = MaxSensors
          /\ runtimes' = runtimes \cup viewed
    /\ UNCHANGED <<registryVars, inFlight, answers, served, faultsLeft>>

(* The routes that show one sensor (sensor_view and the manager's reads),  *)
(* and the acknowledgment of a repeated batch.                             *)
ViewSensor(s) ==
    /\ View(s)
    /\ UNCHANGED <<registryVars, inFlight, answers, served, faultsLeft>>

(***************************************************************************)
(* The routes that a sensor calls.                                         *)
(***************************************************************************)
RegisterSensor(e) ==
    /\ tokenCount < MaxTokens
    /\ e \in offered
    /\ Register(e)
    /\ \/ (NotSaved \/ NotAnswered) /\ UNCHANGED held
       \/ Answered /\ held' = held \cup {<<Len(origin) + 1, tokenCount + 1>>}
    /\ UNCHANGED <<runtimes, inFlight, offered, revoked, served>>

RegistrationRefused(e) ==
    /\ e \in offered
    /\ RegisterRefused(e)
    /\ NotSaved \/ Answered
    /\ UNCHANGED <<runtimes, inFlight, answers, served>>

(* require_sensor, in a worker thread.                                     *)
AuthenticateHeartbeat(s, t) ==
    /\ <<s, t>> \in held
    /\ Authenticates(s, t)
    /\ inFlight' = inFlight \cup {s}
    /\ UNCHANGED <<registryVars, runtimes, answers, served, faultsLeft>>

ServedSince(s) == IF s \in DOMAIN served THEN served[s] ELSE <<>>

Serve(s) == served' = With(served, s, Append(ServedSince(s), now))

Heartbeat(s) ==
    /\ s \in inFlight
    /\ inFlight' = inFlight \ {s}
    /\ \/ /\ AcceptHeartbeat(s)
          /\ \/ (NotSaved \/ NotAnswered) /\ UNCHANGED runtimes
             \/ Answered /\ View(s)
          /\ Serve(s)
       \/ /\ s \in DOMAIN sensors
          /\ RateExceeded(s)
          /\ UNCHANGED <<runtimes, served, faultsLeft>>
    /\ UNCHANGED answers

(* The next batch: the rate is checked, and the runtime must have taken    *)
(* the batch before the registry accepts it.  (A batch that repeats the    *)
(* last one is acknowledged before that; see ViewSensor.)                  *)
Telemetry(s, t) ==
    /\ <<s, t>> \in held
    /\ Authenticates(s, t)
    /\ sensors[s].sequence < MaxSequence
    /\ HasRoom(s)
    /\ AcceptTelemetry(s)
    /\ NotSaved \/ Answered
    /\ View(s)
    /\ Serve(s)
    /\ UNCHANGED <<inFlight, answers>>

TelemetryRefused(s, t) ==
    /\ <<s, t>> \in held
    /\ Authenticates(s, t)
    /\ RateExceeded(s)
    /\ UNCHANGED <<runtimes, inFlight, answers, served, faultsLeft>>

(***************************************************************************)
(* The service and the clock.                                              *)
(***************************************************************************)
Restart ==
    /\ Fault
    /\ Load
    /\ runtimes' = {} /\ inFlight' = {} /\ served' = <<>>
    /\ UNCHANGED answers

Tick ==
    /\ now < MaxTime
    /\ now' = now + 1
    /\ UNCHANGED <<registryData, requestTimes, registryFile, enrollmentCount,
                   tokenCount, origin, runtimes, inFlight, answers, served,
                   faultsLeft>>

SensorRequest ==
    \/ \E s \in inFlight : Heartbeat(s)
    \/ \E pair \in held :
          \/ AuthenticateHeartbeat(pair[1], pair[2])
          \/ Telemetry(pair[1], pair[2])
          \/ TelemetryRefused(pair[1], pair[2])

AccessNext ==
    \/ IssueEnrollment
    \/ \E e \in offered : RegisterSensor(e) \/ RegistrationRefused(e)
    \/ \E s \in DOMAIN sensors :
          RotateCredential(s) \/ DisableSensor(s) \/ ViewSensor(s)
    \/ ListSensors
    \/ SensorRequest
    \/ Restart
    \/ Tick

AccessSpec == AccessInit /\ [][AccessNext]_accessVars

(***************************************************************************)
(* Properties.                                                             *)
(***************************************************************************)
SensorIds == 1 .. Len(origin)

SensorRecord ==
    [disabled : BOOLEAN, token : 1 .. tokenCount, seen : Nat \cup {Never},
     sequence : Nat]

IsData(data) ==
    /\ DOMAIN data.enrollments \subseteq 1 .. enrollmentCount
    /\ \A e \in DOMAIN data.enrollments : data.enrollments[e] \in Nat
    /\ DOMAIN data.sensors \subseteq SensorIds
    /\ \A s \in DOMAIN data.sensors : data.sensors[s] \in SensorRecord

(* What the registry holds in memory and in its file.                      *)
Copies == {[enrollments |-> enrollments, sensors |-> sensors], registryFile}

RegistryTypeOK ==
    /\ now \in Nat /\ enrollmentCount \in Nat /\ tokenCount \in Nat
    /\ origin \in Seq(1 .. enrollmentCount)
    /\ \A data \in Copies : IsData(data)

RequestsTypeOK ==
    /\ DOMAIN requestTimes \subseteq SensorIds
    /\ DOMAIN served \subseteq SensorIds
    /\ \A s \in DOMAIN requestTimes :
          requestTimes[s] \in Seq(Nat) /\ Len(requestTimes[s]) <= RateLimit
    /\ \A s \in DOMAIN served : served[s] \in Seq(Nat)

AnswersTypeOK ==
    /\ inFlight \subseteq SensorIds
    /\ offered \subseteq 1 .. enrollmentCount
    /\ held \subseteq SensorIds \X (1 .. tokenCount)
    /\ revoked \subseteq SensorIds
    /\ faultsLeft \in Nat

RuntimesBounded ==
    runtimes \subseteq SensorIds /\ Cardinality(runtimes) <= MaxSensors

(* The types, the limit of the request window, and the limit of runtimes.  *)
AccessTypeOK ==
    RegistryTypeOK /\ RequestsTypeOK /\ AnswersTypeOK /\ RuntimesBounded

OneSensorEach(data) ==
    /\ \A r, s \in DOMAIN data.sensors : origin[r] = origin[s] => r = s
    /\ \A s \in DOMAIN data.sensors : origin[s] \notin DOMAIN data.enrollments

KeepsDisabled(data) ==
    \A s \in revoked : s \in DOMAIN data.sensors /\ data.sensors[s].disabled

KeepsUp(data) ==
    \A pair \in held :
        /\ pair[1] \in DOMAIN data.sensors
        /\ data.sensors[pair[1]].token >= pair[2]

(* An enrollment is good for one sensor ("one-time registration" in        *)
(* CREDENTIAL_LIFECYCLE.md): no copy of the registry, whatever writes      *)
(* failed before it was written or read, holds two sensors of one          *)
(* enrollment, or a sensor whose enrollment could be used again.           *)
RedeemedOnce == \A data \in Copies : OneSensorEach(data)

(* Once an operator was told that a sensor is disabled, it is, in memory   *)
(* and on disk, for ever: no rotation, late heartbeat, failed write or     *)
(* restart brings it back ("No automatic re-enable exists").               *)
RevokedForGood == \A data \in Copies : KeepsDisabled(data)

(* Once somebody was given a token, no older token of that sensor is good, *)
(* in memory or on disk, over failed rotations and restarts ("the old      *)
(* credential is immediately invalid").                                    *)
OnlyNewestToken == \A data \in Copies : KeepsUp(data)

(* After the answer to disable, the sensor brings in nothing: a delivery   *)
(* is not accepted, a heartbeat does not authenticate, and the sensor is   *)
(* seen again only by a heartbeat that had authenticated before.  (A       *)
(* restart may forget what was not written.)                               *)
RevokedGoesQuiet ==
    [][\A s \in revoked :
          /\ s \in inFlight' => s \in inFlight
          /\ sensors'[s].sequence <= sensors[s].sequence
          /\ \/ sensors'[s].seen \in
                   {sensors[s].seen, registryFile.sensors[s].seen}
             \/ s \in inFlight /\ s \notin inFlight'
      ]_accessVars

(* Heartbeats and deliveries of a sensor together: within any one minute   *)
(* of a process's life, no more than the limit are let through.            *)
RateBounded ==
    \A s \in DOMAIN served : \A i \in 1 .. Len(served[s]) - RateLimit :
        served[s][i + RateLimit] - served[s][i] > Minute

(* "The response contains the new token once" (CREDENTIAL_LIFECYCLE.md):   *)
(* when nothing fails, the token that a sensor must present was given out. *)
TokenIsDelivered ==
    \A s \in DOMAIN sensors : <<s, sensors[s].token>> \in held

===============================================================================
