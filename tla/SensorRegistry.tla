---------------------------- MODULE SensorRegistry ----------------------------
(***************************************************************************)
(* The central service's registry of remote sensors (sensors/registry.py): *)
(* enrollment, registration, rotation and disabling of credentials, the    *)
(* request window, and the JSON file that every change is written to.      *)
(* Every method holds the registry's lock from its first read to the end   *)
(* of _save, so each is one step.                                          *)
(*                                                                         *)
(* Secrets and sensor IDs are random and never repeat: the n-th of its     *)
(* kind is the number n.  The stored hash of a token stands for the token. *)
(* Of a sensor's record the model keeps what decides something; the        *)
(* figures a heartbeat only reports are left out.  The agent sends one     *)
(* payload under one number (TelemetryDelivery, IssuedOnce), so a          *)
(* delivery is its number.                                                 *)
(***************************************************************************)
EXTENDS Integers, Sequences, FiniteSets, Functions

CONSTANTS
    Lifetime,         \* expires_in_seconds of an enrollment
    RateLimit,        \* rate_limit_per_minute
    Minute,           \* the length of the request window
    Never             \* the value of a time that has not come

ASSUME RegistryAssumption ==
    /\ Lifetime \in Nat \ {0} /\ RateLimit \in Nat \ {0} /\ Minute \in Nat
    /\ Never \notin Nat

VARIABLES
    now,              \* the clock
    enrollments,      \* _data["enrollments"]: when each one expires
    sensors,          \* _data["sensors"]
    requestTimes,     \* _request_times
    registryFile,     \* the file: the _data of the last _save that succeeded
    enrollmentCount,  \* enrollment secrets generated
    tokenCount,       \* runtime tokens generated
    origin            \* history: the enrollment each sensor ID came of

registryData == <<enrollments, sensors>>
registryVars == <<now, registryData, requestTimes, registryFile,
                  enrollmentCount, tokenCount, origin>>

With(f, key, value) ==
    [k \in DOMAIN f \cup {key} |-> IF k = key THEN value ELSE f[k]]

RegistryInit ==
    /\ now = 0
    /\ enrollments = <<>> /\ sensors = <<>>
    /\ requestTimes = <<>>
    /\ registryFile = [enrollments |-> <<>>, sensors |-> <<>>]
    /\ enrollmentCount = 0 /\ tokenCount = 0 /\ origin = <<>>

(* Mutant: the file is written before the change.                          *)
SaveBefore ==
    registryFile' = [enrollments |-> enrollments, sensors |-> sensors]

(* _save: all of _data goes into a temporary file that replaces the file.  *)
Save ==
    registryFile' = [enrollments |-> enrollments', sensors |-> sensors']

(* The write raises: _data has changed, the file has not.                  *)
SaveFails == UNCHANGED registryFile

(***************************************************************************)
(* Credentials.                                                            *)
(***************************************************************************)

(* _purge_enrollments *)
Unexpired ==
    Restrict(enrollments, {e \in DOMAIN enrollments : enrollments[e] > now})

CreateEnrollment ==
    /\ enrollmentCount' = enrollmentCount + 1
    /\ enrollments' = With(Unexpired, enrollmentCount + 1, now + Lifetime)
    /\ UNCHANGED <<now, sensors, requestTimes, tokenCount, origin>>

(* Mutant: the enrollment is looked up and stays.                          *)
StillEnrolled(e) == Unexpired

Consumed(e) == Restrict(Unexpired, DOMAIN Unexpired \ {e})

NewSensor ==
    [disabled |-> FALSE, token |-> tokenCount + 1, seen |-> Never,
     sequence |-> 0]

Register(e) ==
    /\ e \in DOMAIN Unexpired
    /\ enrollments' = Consumed(e)
    /\ sensors' = With(sensors, Len(origin) + 1, NewSensor)
    /\ tokenCount' = tokenCount + 1
    /\ origin' = Append(origin, e)
    /\ UNCHANGED <<now, requestTimes, enrollmentCount>>

RegisterRefused(e) ==
    /\ e \notin DOMAIN Unexpired
    /\ enrollments' = Unexpired
    /\ UNCHANGED <<now, sensors, requestTimes, enrollmentCount, tokenCount,
                   origin>>

IsEnabled(s) == s \in DOMAIN sensors /\ ~sensors[s].disabled

(* Mutant: a new token enables the sensor again.                           *)
RotateAndEnable(s) ==
    /\ s \in DOMAIN sensors
    /\ sensors' = [sensors EXCEPT ![s].token = tokenCount + 1,
                                  ![s].disabled = FALSE]
    /\ tokenCount' = tokenCount + 1
    /\ UNCHANGED <<now, enrollments, requestTimes, enrollmentCount, origin>>

Rotate(s) ==
    /\ IsEnabled(s)
    /\ sensors' = [sensors EXCEPT ![s].token = tokenCount + 1]
    /\ tokenCount' = tokenCount + 1
    /\ UNCHANGED <<now, enrollments, requestTimes, enrollmentCount, origin>>

Disable(s) ==
    /\ s \in DOMAIN sensors
    /\ sensors' = [sensors EXCEPT ![s].disabled = TRUE]
    /\ UNCHANGED <<now, enrollments, requestTimes, enrollmentCount,
                   tokenCount, origin>>

(* Mutant: the state of the sensor is not looked at.                       *)
TokenMatches(s, t) == s \in DOMAIN sensors /\ sensors[s].token = t

Authenticates(s, t) == IsEnabled(s) /\ sensors[s].token = t

(***************************************************************************)
(* Requests of a sensor.                                                   *)
(***************************************************************************)
History(s) == IF s \in DOMAIN requestTimes THEN requestTimes[s] ELSE <<>>

(* Mutant: the cutoff itself is out.                                       *)
AfterCutoff(time) == time > now - Minute

InWindow(time) == time >= now - Minute

(* What _check_rate takes from the head: as far as all is before the       *)
(* cutoff.                                                                 *)
Expired(s) ==
    {i \in 1 .. Len(History(s)) :
        \A j \in 1 .. i : ~InWindow(History(s)[j])}

Recent(s) ==
    SubSeq(History(s), Cardinality(Expired(s)) + 1, Len(History(s)))

WithinRate(s) == Len(Recent(s)) < RateLimit

(* _check_rate *)
TakeSlot(s) ==
    /\ WithinRate(s)
    /\ requestTimes' = With(requestTimes, s, Append(Recent(s), now))

RateExceeded(s) ==
    /\ ~WithinRate(s)
    /\ requestTimes' = With(requestTimes, s, Recent(s))
    /\ UNCHANGED <<now, registryData, registryFile, enrollmentCount,
                   tokenCount, origin>>

AcceptHeartbeat(s) ==
    /\ s \in DOMAIN sensors
    /\ TakeSlot(s)
    /\ sensors' = [sensors EXCEPT ![s].seen = now]
    /\ UNCHANGED <<now, enrollments, enrollmentCount, tokenCount, origin>>

(* accept_telemetry of the next number; check_telemetry has passed it.     *)
AcceptTelemetry(s) ==
    /\ s \in DOMAIN sensors
    /\ TakeSlot(s)
    /\ sensors' = [sensors EXCEPT ![s].seen = now, ![s].sequence = @ + 1]
    /\ UNCHANGED <<now, enrollments, enrollmentCount, tokenCount, origin>>

(***************************************************************************)
(* A restart reads the file; the request window starts empty.              *)
(***************************************************************************)
Load ==
    /\ enrollments' = registryFile.enrollments
    /\ sensors' = registryFile.sensors
    /\ requestTimes' = <<>>
    /\ UNCHANGED <<now, registryFile, enrollmentCount, tokenCount, origin>>

===============================================================================
