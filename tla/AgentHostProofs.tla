---------------------------- MODULE AgentHostProofs ----------------------------
(***************************************************************************)
(* Proofs about AgentHost, for every set of process ids, number of         *)
(* commands, registrations, batches and faults, and size of the buffer,    *)
(* when no command that saves is run beside another process.               *)
(***************************************************************************)
EXTENDS AgentHost, WellFoundedInduction, TLAPS

(* The commands that save nothing and run no agent.                        *)
Quiet == {"stop", "status"}

Writes(p) == Lives(p) /\ command[p] \notin Quiet

PlacesOK ==
    \A p \in Pids :
        /\ command[p] \in Quiet =>
               pc[p] \in {"idle", "load", "load token", "read pid", "request",
                          "wait", "remove pid", "open"}
        /\ command[p] = "init" => pc[p] \in {"idle", "token", "settings"}
        /\ command[p] = "register" =>
               pc[p] \in {"idle", "load", "load token", "enroll", "token",
                          "settings"}
        /\ IsAgent(p) => pc[p] # "enroll"

Identities == Nat \cup {None}
Settings == [id : Identities, seq : Nat]
Configs == [id : Identities, token : Identities, seq : Nat]
Batches == [id : Identities, seq : Nat, run : Nat]
FilesOf(bs) ==
    [batch : bs, place : {"temp", "queue", "quarantine"}, whole : BOOLEAN]

HostTypeOK ==
    /\ configFile \in Settings \cup {None} /\ credential \in Identities
    /\ pidFile \in Pids \cup {None}
    /\ command \in [Pids -> Commands \cup {"stop"}]
    /\ pc = [p \in Pids |-> pc[p]]
    /\ run \in [Pids -> Nat] /\ runs \in Nat /\ identities \in Nat
    /\ config \in [Pids -> Configs]
    /\ target \in [Pids -> Pids \cup {None}]
    /\ batch \in [Pids -> Batches \cup {None}]
    /\ closing \in [Pids -> BOOLEAN]

(* Only one process saves or captures, and beside an agent another lives   *)
(* only if it was started when the agent ran.                              *)
Alone ==
    /\ \A p, q \in Pids : Writes(p) /\ Writes(q) => p = q
    /\ \A p, q \in Pids :
           Lives(p) /\ IsAgent(p) /\ Lives(q) /\ p # q =>
               Running(p) \/ pc[p] = "remove request"

(* Whoever stops an agent that runs has read its pid.                      *)
Named ==
    \A p, q \in Pids :
        IsAgent(p) /\ Running(p) =>
            /\ pidFile = p
            /\ q # p /\ pc[q] \in {"request", "wait"} => target[q] = p
            /\ q # p => pc[q] # "remove pid"

Saving(p) == pc[p] \in {"token", "settings"}
Carrying(p) == pc[p] \in {"submit", "write", "sync", "rename"}

(* What the process that saves has loaded, and what it submits.            *)
NextNumber(p) ==
    IF IsAgent(p) /\ Saving(p)
    THEN /\ batch[p] \in Batches
         /\ batch[p].seq = configFile.seq
         /\ config[p].seq = configFile.seq + 1
    ELSE config[p].seq = configFile.seq

(* The number of the next batch is beyond every batch, in the file and in  *)
(* the process that saves it.                                              *)
Numbered ==
    /\ configFile = None =>
           /\ issued = {}
           /\ \A p \in Pids : Writes(p) => command[p] = "init"
    /\ \A p \in Pids : pc[p] = "load" => configFile # None
    /\ configFile # None =>
           /\ \A b \in issued : b.seq < configFile.seq
           /\ \A p \in Pids :
                  Writes(p) => /\ command[p] # "init"
                               /\ pc[p] # "load" => NextNumber(p)
    /\ issued \subseteq Batches
    /\ \A b, c \in issued : b.seq = c.seq => b = c
    /\ \A p \in Pids : Carrying(p) => batch[p] \in issued /\ IsAgent(p)

ControlInv == HostTypeOK /\ PlacesOK /\ Alone /\ Named /\ Numbered

(* Every file and every record is of a batch that has a number.            *)
FilesOK(bs) == disk \subseteq FilesOf(bs) /\ rejects \subseteq bs

FilesInv == FilesOK(issued)

HostInv == ControlInv /\ FilesInv /\ NothingVanishes
-----------------------------------------------------------------------------
LEMMA ConfigFacts ==
    ASSUME NEW c \in Configs
    PROVE  /\ [id |-> c.id, seq |-> c.seq] \in Settings
           /\ [id |-> c.id, seq |-> c.seq] # None
           /\ c.token \in Identities
BY NoneAssumption DEF Configs, Settings, Identities

(* What a step does to the processes: to one, and to it only when it runs  *)
(* or is started.                                                          *)
Steps(p) ==
    /\ Lives(p)
    /\ pc' = [pc EXCEPT ![p] = pc'[p]]
    /\ command' = command /\ run' = run /\ runs' = runs
    /\ target' = [target EXCEPT ![p] = target'[p]]
    /\ config' = [config EXCEPT ![p] = config'[p]]
    /\ batch' = [batch EXCEPT ![p] = batch'[p]]

Acts(p) ==
    \/ LoadSettings(p) \/ LoadToken(p) \/ SaveToken(p) \/ SaveFile(p)
    \/ Enroll(p)
    \/ ReadPid(p) \/ WriteRequest(p) \/ StopSeen(p) \/ StopTimesOut(p)
    \/ RemovePid(p)
    \/ Open(p) \/ ClearRequest(p) \/ WritePid(p) \/ LeaveLoop(p)
    \/ Signalled(p) \/ Build(p)
    \/ SubmitAcknowledged(p) \/ SubmitRefused(p) \/ SubmitUnanswered(p)
    \/ EnqueueBegins(p) \/ EnqueueRefused(p) \/ EnqueueSyncs(p)
    \/ EnqueueRenames(p)
    \/ FlushAcknowledged(p) \/ FlushUnanswered(p) \/ FlushRefused(p)
    \/ FlushCorrupt(p)
    \/ RemoveOwnPid(p) \/ RemoveRequest(p)
    \/ Killed(p)

LEMMA NextActs ==
    ASSUME Next
    PROVE  \/ \E p \in Pids : (\E c \in Commands : Spawn(p, c)) \/ Acts(p)
           \/ Rot \/ Revoke
BY Zenon DEF Next, Acts

LEMMA OneSteps ==
    ASSUME HostTypeOK, NEW p \in Pids, Acts(p)
    PROVE  Steps(p)
<1> USE DEF Lives
<1>0. /\ pc = [q \in Pids |-> pc[q]]
      /\ target = [q \in Pids |-> target[q]]
      /\ config = [q \in Pids |-> config[q]]
      /\ batch = [q \in Pids |-> batch[q]]
  BY DEF HostTypeOK
<1>1. ASSUME \/ LoadSettings(p) \/ LoadToken(p) \/ Enroll(p) \/ ReadPid(p)
             \/ Build(p)
      PROVE  Steps(p)
  BY <1>0, <1>1 DEF Steps, LoadSettings, LoadToken, Enroll, ReadPid, Build,
     Goto, Exit, AfterStop, ghostVars, procVars
<1>2. ASSUME \/ SaveToken(p) \/ SaveFile(p) \/ WriteRequest(p) \/ StopSeen(p)
             \/ StopTimesOut(p) \/ RemovePid(p) \/ Open(p) \/ ClearRequest(p)
             \/ WritePid(p) \/ LeaveLoop(p) \/ Signalled(p)
      PROVE  Steps(p)
  BY <1>0, <1>2 DEF Steps, SaveToken, SaveFile, WriteRequest, StopSeen,
     StopTimesOut, RemovePid, Open, ClearRequest, WritePid, LeaveLoop,
     Signalled, Goto, Exit, AfterStop, ghostVars, procVars
<1>3. ASSUME \/ SubmitAcknowledged(p) \/ SubmitRefused(p)
             \/ SubmitUnanswered(p) \/ EnqueueBegins(p) \/ EnqueueRefused(p)
             \/ EnqueueSyncs(p) \/ EnqueueRenames(p)
      PROVE  Steps(p)
  BY <1>0, <1>3 DEF Steps, SubmitAcknowledged, SubmitRefused,
     SubmitUnanswered, EnqueueBegins, EnqueueRefused, EnqueueSyncs,
     EnqueueRenames, Goto, Exit, ghostVars, procVars
<1>4. ASSUME \/ FlushAcknowledged(p) \/ FlushUnanswered(p) \/ FlushRefused(p)
             \/ FlushCorrupt(p) \/ RemoveOwnPid(p) \/ RemoveRequest(p)
             \/ Killed(p)
      PROVE  Steps(p)
  BY <1>0, <1>4 DEF Steps, FlushAcknowledged, FlushUnanswered, FlushRefused,
     FlushCorrupt, RemoveOwnPid, RemoveRequest, Killed, Running, Goto, Exit,
     ghostVars, procVars
<1> QED
  BY <1>1, <1>2, <1>3, <1>4 DEF Acts

(* The control of one process: which of its steps reach or leave the       *)
(* places the invariants speak of.                                         *)
LEMMA TypeStep ==
    ASSUME HostTypeOK, PlacesOK, Numbered, Next
    PROVE  HostTypeOK'
<1> USE DEF HostTypeOK
<1>1. ASSUME NEW p \in Pids, NEW c \in Commands, Spawn(p, c)
      PROVE  HostTypeOK'
  <2>1. NewConfig \in Configs
    BY DEF NewConfig, Configs, Identities
  <2>2. pc' = [q \in Pids |-> pc'[q]]
    BY <1>1 DEF Spawn, Goto
  <2>3. /\ run' \in [Pids -> Nat] /\ runs' \in Nat
        /\ config' \in [Pids -> Configs]
        /\ closing' \in [Pids -> BOOLEAN]
    BY <1>1, <2>1 DEF Spawn
  <2>4. /\ command' \in [Pids -> Commands \cup {"stop"}]
        /\ target' \in [Pids -> Pids \cup {None}]
        /\ batch' \in [Pids -> Batches \cup {None}]
    BY <1>1 DEF Spawn
  <2> QED
    BY <1>1, <2>2, <2>3, <2>4 DEF Spawn, fileVars, configVars, centralVars
<1>2. ASSUME NEW p \in Pids, LoadSettings(p)
      PROVE  HostTypeOK'
  <2>1. configFile \in Settings
    BY <1>2 DEF LoadSettings, Numbered
  <2>2. Config(configFile, None) \in Configs
    BY <2>1 DEF Config, Configs, Settings, Identities
  <2>3. pc' = [q \in Pids |-> pc'[q]]
    BY <1>2 DEF LoadSettings, Goto
  <2>4. config' \in [Pids -> Configs]
    BY <1>2, <2>2 DEF LoadSettings
  <2> QED
    BY <1>2, <2>3, <2>4
       DEF LoadSettings, fileVars, configVars, centralVars, ghostVars
<1>3. ASSUME NEW p \in Pids, LoadToken(p)
      PROVE  HostTypeOK'
  <2>1. config' \in [Pids -> Configs]
    BY <1>3 DEF LoadToken, Configs
  <2>2. pc' = [q \in Pids |-> pc'[q]]
    BY <1>3 DEF LoadToken, Goto, First
  <2> QED
    BY <1>3, <2>1, <2>2
       DEF LoadToken, fileVars, configVars, centralVars, ghostVars
<1>4. ASSUME NEW p \in Pids, SaveToken(p) \/ SaveFile(p)
      PROVE  HostTypeOK'
  <2>1. /\ [id |-> config[p].id, seq |-> config[p].seq] \in Settings
        /\ config[p].token \in Identities
    BY ConfigFacts
  <2>2. configFile' \in Settings \cup {None} /\ credential' \in Identities
    BY <1>4, <2>1
       DEF SaveToken, SaveFile, SaveCredential, SaveSettings
  <2>3. pc' = [q \in Pids |-> pc'[q]]
    BY <1>4 DEF SaveToken, SaveFile, Goto
  <2> QED
    BY <1>4, <2>2, <2>3 DEF SaveToken, SaveFile, centralVars, ghostVars
<1>5. ASSUME NEW p \in Pids, Enroll(p)
      PROVE  HostTypeOK'
  <2>1. identities' \in Nat
    BY <1>5 DEF Enroll
  <2>2. config' \in [Pids -> Configs]
    <3>1. WithIdentity(config[p], identities + 1) \in Configs
      <4>1. identities + 1 \in Identities
        BY DEF Identities
      <4>2. config[p] \in Configs
        OBVIOUS
      <4> QED
        BY <4>1, <4>2 DEF WithIdentity, Configs
    <3>2. CASE UNCHANGED config
      BY <3>2
    <3>3. CASE config' = [config EXCEPT ![p] = WithIdentity(@, identities + 1)]
      BY <3>1, <3>3
    <3> QED
      BY <1>5, <3>2, <3>3 DEF Enroll
  <2>3. pc' = [q \in Pids |-> pc'[q]]
    BY <1>5 DEF Enroll, Goto, Exit
  <2> QED
    BY <1>5, <2>1, <2>2, <2>3 DEF Enroll, fileVars, configVars, ghostVars
<1>6. ASSUME NEW p \in Pids,
             \/ ReadPid(p) \/ WriteRequest(p) \/ StopSeen(p)
             \/ StopTimesOut(p) \/ RemovePid(p)
      PROVE  HostTypeOK'
  <2>1. pc' = [q \in Pids |-> pc'[q]]
    BY <1>6 DEF ReadPid, WriteRequest, StopSeen, StopTimesOut, RemovePid,
                Goto, Exit, AfterStop
  <2>2. target' \in [Pids -> Pids \cup {None}] /\ pidFile' \in Pids \cup {None}
    BY <1>6 DEF ReadPid, WriteRequest, StopSeen, StopTimesOut, RemovePid,
                fileVars
  <2> QED
    BY <1>6, <2>1, <2>2
       DEF ReadPid, WriteRequest, StopSeen, StopTimesOut, RemovePid,
           fileVars, configVars, centralVars, ghostVars
<1>7. ASSUME NEW p \in Pids,
             \/ Open(p) \/ ClearRequest(p) \/ WritePid(p) \/ LeaveLoop(p)
             \/ Signalled(p) \/ RemoveOwnPid(p) \/ RemoveRequest(p)
             \/ Killed(p)
      PROVE  HostTypeOK'
  <2>1. pc' = [q \in Pids |-> pc'[q]]
    BY <1>7 DEF Open, ClearRequest, WritePid, LeaveLoop, Signalled,
                RemoveOwnPid, RemoveRequest, Killed, Goto, Exit
  <2>2. closing' \in [Pids -> BOOLEAN]
    BY <1>7 DEF Open, ClearRequest, WritePid, LeaveLoop, Signalled,
                RemoveOwnPid, RemoveRequest, Killed
  <2>3. pidFile' \in Pids \cup {None}
    BY <1>7 DEF Open, ClearRequest, WritePid, LeaveLoop, Signalled,
                RemoveOwnPid, RemoveRequest, Killed, fileVars
  <2> QED
    BY <1>7, <2>1, <2>2, <2>3
       DEF Open, ClearRequest, WritePid, LeaveLoop, Signalled, RemoveOwnPid,
           RemoveRequest, Killed, fileVars, configVars, centralVars, ghostVars
<1>8. ASSUME NEW p \in Pids, Build(p)
      PROVE  HostTypeOK'
  <2> DEFINE b == [id |-> config[p].id, seq |-> config[p].seq, run |-> run[p]]
  <2>1. b \in Batches
    BY DEF Batches, Configs
  <2>2. config' \in [Pids -> Configs]
    BY <1>8 DEF Build, Configs
  <2>3. batch' \in [Pids -> Batches \cup {None}]
    BY <1>8, <2>1 DEF Build
  <2>4. pc' = [q \in Pids |-> pc'[q]]
    BY <1>8 DEF Build, Goto
  <2> QED
    BY <1>8, <2>2, <2>3, <2>4
       DEF Build, fileVars, configVars, centralVars, ghostVars
<1>9. ASSUME NEW p \in Pids,
             \/ SubmitAcknowledged(p) \/ SubmitRefused(p)
             \/ SubmitUnanswered(p) \/ EnqueueBegins(p) \/ EnqueueRefused(p)
             \/ EnqueueSyncs(p) \/ EnqueueRenames(p)
      PROVE  HostTypeOK'
  <2>1. pc' = [q \in Pids |-> pc'[q]]
    BY <1>9 DEF SubmitAcknowledged, SubmitRefused, SubmitUnanswered,
                EnqueueBegins, EnqueueRefused, EnqueueSyncs, EnqueueRenames,
                Goto
  <2> QED
    BY <1>9, <2>1
       DEF SubmitAcknowledged, SubmitRefused, SubmitUnanswered,
           EnqueueBegins, EnqueueRefused, EnqueueSyncs, EnqueueRenames,
           fileVars, configVars, centralVars, ghostVars
<1>10. ASSUME NEW p \in Pids,
              \/ FlushAcknowledged(p) \/ FlushUnanswered(p)
              \/ FlushRefused(p) \/ FlushCorrupt(p)
       PROVE  HostTypeOK'
  BY <1>10
     DEF FlushAcknowledged, FlushUnanswered, FlushRefused, FlushCorrupt,
         fileVars, procVars, configVars, centralVars, ghostVars
<1>11. CASE Rot \/ Revoke
  BY <1>11
     DEF Rot, Revoke, fileVars, procVars, configVars, centralVars, ghostVars
<1> QED
  BY <1>1, <1>2, <1>3, <1>4, <1>5, <1>6, <1>7, <1>8, <1>9, <1>10, <1>11
     DEF Next

-----------------------------------------------------------------------------
(* Which places each command reaches.                                      *)
LEMMA PlacesStep ==
    ASSUME HostTypeOK, PlacesOK, Next
    PROVE  PlacesOK'
<1> DEFINE OK(p) ==
        /\ command'[p] \in Quiet =>
               pc'[p] \in {"idle", "load", "load token", "read pid", "request",
                           "wait", "remove pid", "open"}
        /\ command'[p] = "init" => pc'[p] \in {"idle", "token", "settings"}
        /\ command'[p] = "register" =>
               pc'[p] \in {"idle", "load", "load token", "enroll", "token",
                           "settings"}
        /\ IsAgent(p)' => pc'[p] # "enroll"
<1>1. ASSUME NEW p \in Pids, Steps(p), OK(p)
      PROVE  PlacesOK'
  <2>1. command' = command /\ \A q \in Pids : q # p => pc'[q] = pc[q]
    BY <1>1 DEF Steps, HostTypeOK
  <2> HIDE DEF OK
  <2>2. \A q \in Pids : q # p => OK(q)
    BY <2>1 DEF PlacesOK, OK, IsAgent
  <2>3. \A q \in Pids : OK(q)
    BY <1>1, <2>2
  <2> QED
    BY <2>3 DEF OK, PlacesOK
<1>2. ASSUME NEW p \in Pids, NEW c \in Commands, Spawn(p, c)
      PROVE  PlacesOK'
  <2>1. \A q \in Pids : q # p => pc'[q] = pc[q] /\ command'[q] = command[q]
    BY <1>2 DEF Spawn, Goto, HostTypeOK
  <2>2. /\ command'[p] = c
        /\ pc'[p] = IF c = "init" THEN "token" ELSE "load"
    BY <1>2 DEF Spawn, Goto, HostTypeOK
  <2>3. OK(p)
    BY <2>2 DEF Quiet
  <2> QED
    BY <2>1, <2>3 DEF PlacesOK, IsAgent
<1> HIDE DEF OK
<1>4. ASSUME NEW p \in Pids, Steps(p),
             \/ LoadSettings(p) \/ LoadToken(p) \/ SaveToken(p) \/ SaveFile(p)
             \/ Enroll(p)
      PROVE  PlacesOK'
  <2>1. OK(p)
    BY <1>4 DEF PlacesOK, OK, Quiet, HostTypeOK, Goto, Exit, LoadSettings,
                LoadToken, First, SaveToken, SaveFile, Enroll, IsAgent
  <2> QED
    BY <1>1, <1>4, <2>1
<1>5. ASSUME NEW p \in Pids, Steps(p),
             \/ ReadPid(p) \/ WriteRequest(p) \/ StopSeen(p)
             \/ StopTimesOut(p) \/ RemovePid(p) \/ Open(p)
      PROVE  PlacesOK'
  <2>1. OK(p)
    BY <1>5 DEF PlacesOK, OK, Quiet, HostTypeOK, Goto, Exit, AfterStop,
                ReadPid, WriteRequest, StopSeen, StopTimesOut, RemovePid,
                Open, IsAgent
  <2> QED
    BY <1>1, <1>5, <2>1
<1>6. ASSUME NEW p \in Pids, Steps(p),
             \/ ClearRequest(p) \/ WritePid(p) \/ LeaveLoop(p)
             \/ Signalled(p) \/ Build(p)
             \/ SubmitAcknowledged(p) \/ SubmitRefused(p)
             \/ SubmitUnanswered(p) \/ EnqueueBegins(p)
             \/ EnqueueRefused(p) \/ EnqueueSyncs(p) \/ EnqueueRenames(p)
             \/ FlushAcknowledged(p) \/ FlushUnanswered(p)
             \/ FlushRefused(p) \/ FlushCorrupt(p)
             \/ RemoveOwnPid(p) \/ RemoveRequest(p)
      PROVE  PlacesOK'
  <2>0. /\ pc[p] \in {"clear", "write pid", "loop", "submit", "write",
                      "sync", "rename", "remove request"}
        /\ pc'[p] # "enroll"
    BY <1>6 DEF HostTypeOK, Goto, Exit, procVars,
         ClearRequest, WritePid, LeaveLoop, Signalled, Build,
         SubmitAcknowledged, SubmitRefused, SubmitUnanswered, EnqueueBegins,
         EnqueueRefused, EnqueueSyncs, EnqueueRenames, FlushAcknowledged,
         FlushUnanswered, FlushRefused, FlushCorrupt, RemoveOwnPid,
         RemoveRequest
  <2>1. OK(p)
    BY <1>6, <2>0 DEF PlacesOK, OK, Quiet, Steps
  <2> QED
    BY <1>1, <1>6, <2>1
<1>7. ASSUME NEW p \in Pids, Steps(p), Killed(p)
      PROVE  PlacesOK'
  <2>1. pc'[p] = "idle"
    BY <1>7 DEF Killed, Exit, Goto, HostTypeOK
  <2>2. OK(p)
    BY <2>1 DEF OK
  <2> QED
    BY <1>1, <1>7, <2>2
<1>8. CASE Rot \/ Revoke
  BY <1>8 DEF PlacesOK, IsAgent, Rot, Revoke, procVars
<1>9. ASSUME NEW p \in Pids, Acts(p)
      PROVE  PlacesOK'
  BY <1>4, <1>5, <1>6, <1>7, <1>9, OneSteps DEF Acts
<1> QED
  BY <1>2, <1>8, <1>9, NextActs

-----------------------------------------------------------------------------
(* An agent runs from WritePid on, until it ends or leaves its loop.       *)
LEMMA AgentRuns ==
    ASSUME HostTypeOK, PlacesOK, NEW p \in Pids, Acts(p), IsAgent(p)
    PROVE  /\ Running(p) \/ pc[p] = "remove request" =>
                  pc'[p] = "idle" \/ Running(p)' \/ pc'[p] = "remove request"
           /\ Running(p)' => Running(p) \/ WritePid(p)
<1> USE DEF Running, HostTypeOK, Goto, Exit
<1>1. CASE \/ LoadSettings(p) \/ LoadToken(p) \/ SaveToken(p) \/ SaveFile(p)
           \/ Enroll(p)
  <2>1. pc[p] \in {"load", "load token"} => ~ Running(p)'
    BY <1>1 DEF LoadSettings, LoadToken, First, SaveToken, SaveFile, Enroll
  <2>2. pc[p] \in {"token", "settings"} => Running(p)'
    BY <1>1 DEF LoadSettings, LoadToken, SaveToken, SaveFile, Enroll
  <2>3. pc[p] \in {"load", "load token", "token", "settings", "enroll"}
    BY <1>1 DEF LoadSettings, LoadToken, SaveToken, SaveFile, Enroll
  <2>4. pc[p] # "enroll"
    BY DEF PlacesOK
  <2> QED
    BY <2>1, <2>2, <2>3, <2>4
<1>2. CASE \/ ReadPid(p) \/ WriteRequest(p) \/ StopSeen(p)
           \/ StopTimesOut(p) \/ RemovePid(p) \/ Open(p) \/ ClearRequest(p)
  BY <1>2 DEF ReadPid, WriteRequest, StopSeen, StopTimesOut, RemovePid,
              Open, ClearRequest, AfterStop
<1>3. CASE \/ WritePid(p) \/ LeaveLoop(p) \/ Signalled(p) \/ Build(p)
           \/ RemoveOwnPid(p) \/ RemoveRequest(p) \/ Killed(p)
  BY <1>3 DEF WritePid, LeaveLoop, Signalled, Build, RemoveOwnPid,
              RemoveRequest, Killed
<1>4. CASE \/ SubmitAcknowledged(p) \/ SubmitRefused(p)
           \/ SubmitUnanswered(p) \/ EnqueueBegins(p) \/ EnqueueRefused(p)
           \/ EnqueueSyncs(p) \/ EnqueueRenames(p)
  BY <1>4 DEF SubmitAcknowledged, SubmitRefused, SubmitUnanswered,
              EnqueueBegins, EnqueueRefused, EnqueueSyncs, EnqueueRenames
<1>5. CASE \/ FlushAcknowledged(p) \/ FlushUnanswered(p) \/ FlushRefused(p)
           \/ FlushCorrupt(p)
  BY <1>5 DEF FlushAcknowledged, FlushUnanswered, FlushRefused, FlushCorrupt,
              procVars
<1> QED
  BY <1>1, <1>2, <1>3, <1>4, <1>5 DEF Acts

(* Only a command that saves starts alone; beside an agent that runs, only *)
(* one that does not is started.                                           *)
LEMMA AloneStep ==
    ASSUME HostTypeOK, PlacesOK, Alone, Beside \subseteq Quiet, Next
    PROVE  Alone'
<1>1. ASSUME NEW p \in Pids, NEW c \in Commands, Spawn(p, c)
      PROVE  Alone'
  <2>1. /\ command'[p] = c /\ ~ Lives(p)
        /\ \A q \in Pids : q # p => pc'[q] = pc[q] /\ command'[q] = command[q]
    BY <1>1 DEF Spawn, Goto, HostTypeOK
  <2>2. \A q \in Pids : Lives(q) => c \in Quiet /\ (IsAgent(q) => Running(q))
    BY <1>1 DEF Spawn
  <2>3. \A q \in Pids : q # p => /\ Lives(q)' <=> Lives(q)
                                 /\ Writes(q)' <=> Writes(q)
                                 /\ IsAgent(q)' <=> IsAgent(q)
                                 /\ Running(q)' <=> Running(q)
    BY <2>1 DEF Lives, Writes, IsAgent, Running
  <2>4. c \in Quiet => ~ Writes(p)' /\ ~ IsAgent(p)'
    BY <2>1 DEF Writes, IsAgent, Quiet
  <2>5. \A q, r \in Pids : Writes(q)' /\ Writes(r)' => q = r
    BY <2>2, <2>3, <2>4 DEF Alone, Writes
  <2>6. ASSUME NEW q \in Pids, NEW r \in Pids,
               Lives(q)', IsAgent(q)', Lives(r)', q # r
        PROVE  Running(q)'
    <3>1. CASE q = p
      <4>1. Lives(r)
        BY <2>3, <2>6, <3>1
      <4> QED
        BY <2>2, <2>4, <2>6, <3>1, <4>1
    <3>2. CASE q # p /\ r = p
      BY <2>2, <2>3, <2>6, <3>2
    <3>3. CASE q # p /\ r # p
      BY <2>2, <2>3, <2>6, <3>3
    <3> QED
      BY <3>1, <3>2, <3>3
  <2> QED
    BY <2>5, <2>6, Zenon DEF Alone
<1>2. ASSUME NEW p \in Pids, Acts(p)
      PROVE  Alone'
  <2>1. /\ Lives(p) /\ command' = command
        /\ \A q \in Pids : q # p => pc'[q] = pc[q]
    BY <1>2, OneSteps DEF Steps, HostTypeOK
  <2>2. \A q \in Pids : /\ Lives(q)' => Lives(q)
                        /\ Writes(q)' => Writes(q)
                        /\ IsAgent(q)' <=> IsAgent(q)
                        /\ q # p => (Running(q)' <=> Running(q))
    BY <2>1 DEF Lives, Writes, IsAgent, Running
  <2>3. \A q, r \in Pids : Writes(q)' /\ Writes(r)' => q = r
    BY <2>2 DEF Alone
  <2>4. ASSUME NEW q \in Pids, NEW r \in Pids,
               Lives(q)', IsAgent(q)', Lives(r)', q # r
        PROVE  Running(q)' \/ pc'[q] = "remove request"
    <3>1. Lives(q) /\ IsAgent(q) /\ Lives(r)
      BY <2>2, <2>4
    <3>2. Running(q) \/ pc[q] = "remove request"
      BY <2>4, <3>1 DEF Alone
    <3>3. CASE q = p
      BY <1>2, <2>4, <3>1, <3>2, <3>3, AgentRuns DEF Lives
    <3>4. CASE q # p
      BY <2>1, <2>2, <3>2, <3>4
    <3> QED
      BY <3>3, <3>4
  <2> QED
    BY <2>3, <2>4, Zenon DEF Alone
<1>3. CASE Rot \/ Revoke
  BY <1>3 DEF Rot, Revoke, procVars, Alone, Lives, Writes, IsAgent, Running
<1> QED
  BY <1>1, <1>2, <1>3, NextActs

LEMMA PidFileSteps ==
    ASSUME NEW p \in Pids, Acts(p)
    PROVE  \/ UNCHANGED pidFile
           \/ WritePid(p) \/ RemovePid(p) \/ RemoveOwnPid(p)
BY DEF Acts, LoadSettings, LoadToken, SaveToken, SaveFile, Enroll, ReadPid,
       WriteRequest, StopSeen, StopTimesOut, Open, ClearRequest, LeaveLoop,
       Signalled, Build, SubmitAcknowledged, SubmitRefused,
       SubmitUnanswered, EnqueueBegins, EnqueueRefused, EnqueueSyncs,
       EnqueueRenames, FlushAcknowledged, FlushUnanswered, FlushRefused,
       FlushCorrupt, RemoveRequest, Killed, fileVars

LEMMA StopSteps ==
    ASSUME HostTypeOK, NEW p \in Pids, Acts(p)
    PROVE  \/ pc'[p] \notin {"request", "wait", "remove pid"}
           \/ ReadPid(p) \/ WriteRequest(p) \/ StopSeen(p)
<1> USE DEF HostTypeOK, Goto, Exit
<1>1. CASE \/ LoadSettings(p) \/ LoadToken(p) \/ SaveToken(p) \/ SaveFile(p)
           \/ Enroll(p) \/ StopTimesOut(p) \/ RemovePid(p) \/ Open(p)
           \/ ClearRequest(p) \/ Killed(p)
  BY <1>1 DEF LoadSettings, LoadToken, First, SaveToken, SaveFile, Enroll,
              StopTimesOut, RemovePid, AfterStop, Open, ClearRequest, Killed
<1>2. CASE \/ WritePid(p) \/ LeaveLoop(p) \/ Signalled(p) \/ Build(p)
           \/ RemoveOwnPid(p) \/ RemoveRequest(p)
           \/ FlushAcknowledged(p) \/ FlushUnanswered(p) \/ FlushRefused(p)
           \/ FlushCorrupt(p)
  BY <1>2 DEF WritePid, LeaveLoop, Signalled, Build, RemoveOwnPid,
              RemoveRequest, FlushAcknowledged, FlushUnanswered,
              FlushRefused, FlushCorrupt, procVars
<1>3. CASE \/ SubmitAcknowledged(p) \/ SubmitRefused(p)
           \/ SubmitUnanswered(p) \/ EnqueueBegins(p) \/ EnqueueRefused(p)
           \/ EnqueueSyncs(p) \/ EnqueueRenames(p)
  BY <1>3 DEF SubmitAcknowledged, SubmitRefused, SubmitUnanswered,
              EnqueueBegins, EnqueueRefused, EnqueueSyncs, EnqueueRenames
<1> QED
  BY <1>1, <1>2, <1>3 DEF Acts

(* A process that runs an agent writes.                                    *)
LEMMA AgentsWrite ==
    ASSUME HostTypeOK, PlacesOK, NEW p \in Pids
    PROVE  /\ IsAgent(p) /\ Running(p) => Writes(p)
           /\ pc[p] \in {"write pid", "loop"} => Writes(p) /\ IsAgent(p)
<1>1. command[p] \in {"init", "register", "start", "restart", "stop",
                      "status"}
  BY HostAssumption DEF HostTypeOK
<1> QED
  BY <1>1 DEF PlacesOK, IsAgent, Running, Writes, Lives, Quiet

LEMMA NamedStep ==
    ASSUME HostTypeOK, PlacesOK, Alone, Named, Beside \subseteq Quiet, Next
    PROVE  Named'
<1>1. ASSUME NEW p \in Pids, NEW c \in Commands, Spawn(p, c)
      PROVE  Named'
  <2>1. /\ command'[p] = c /\ pc'[p] = IF c = "init" THEN "token" ELSE "load"
        /\ UNCHANGED pidFile
        /\ \A q \in Pids : q # p => /\ pc'[q] = pc[q]
                                    /\ command'[q] = command[q]
                                    /\ target'[q] = target[q]
    BY <1>1 DEF Spawn, Goto, HostTypeOK, fileVars
  <2>2. ~ (IsAgent(p)' /\ Running(p)')
    BY <2>1 DEF IsAgent, Running
  <2> QED
    BY <2>1, <2>2 DEF Named, IsAgent, Running
<1>2. ASSUME NEW p \in Pids, Acts(p)
      PROVE  Named'
  <2>1. /\ command' = command /\ Lives(p)
        /\ \A q \in Pids : q # p => pc'[q] = pc[q] /\ target'[q] = target[q]
    BY <1>2, OneSteps DEF Steps, HostTypeOK
  <2> SUFFICES ASSUME NEW a \in Pids, IsAgent(a), Running(a)'
               PROVE  /\ pidFile' = a
                      /\ \A q \in Pids :
                             q # a => /\ pc'[q] \in {"request", "wait"} =>
                                            target'[q] = a
                                      /\ pc'[q] # "remove pid"
    BY <2>1, Zenon DEF Named, IsAgent
  <2>2. ASSUME a = p, WritePid(p)
        PROVE  /\ pidFile' = a
               /\ \A q \in Pids :
                      q # a => /\ pc'[q] \in {"request", "wait"} =>
                                     target'[q] = a
                               /\ pc'[q] # "remove pid"
    <3>1. pidFile' = a /\ pc[p] = "write pid"
      BY <2>2 DEF WritePid
    <3>2. \A q \in Pids : q # a => ~ Lives(q)
      BY <2>1, <2>2, <3>1 DEF Alone, Running
    <3> QED
      BY <2>1, <2>2, <3>1, <3>2 DEF Lives
  <2>3. CASE a = p /\ ~ WritePid(p)
    <3>1. Running(a)
      BY <1>2, <2>3, AgentRuns
    <3>2. /\ pidFile = a
          /\ \A q \in Pids : q # a => /\ pc[q] \in {"request", "wait"} =>
                                            target[q] = a
                                      /\ pc[q] # "remove pid"
      BY <3>1 DEF Named
    <3>3. ~ RemovePid(p) /\ ~ RemoveOwnPid(p)
      BY <2>3, <3>1
         DEF Running, RemovePid, RemoveOwnPid, Goto, HostTypeOK
    <3> QED
      BY <1>2, <2>1, <2>3, <3>2, <3>3, PidFileSteps
  <2>4. CASE a # p
    <3>1. Running(a) /\ Lives(a)
      BY <2>1, <2>4 DEF Running, Lives
    <3>2. /\ pidFile = a
          /\ \A q \in Pids : q # a => /\ pc[q] \in {"request", "wait"} =>
                                            target[q] = a
                                      /\ pc[q] # "remove pid"
      BY <3>1 DEF Named
    <3>3. ~ Writes(p)
      BY <2>4, <3>1, AgentsWrite DEF Alone
    <3>4. pidFile' = pidFile
      BY <1>2, <2>4, <3>2, <3>3, PidFileSteps, AgentsWrite
         DEF WritePid, RemovePid, RemoveOwnPid
    <3>5. /\ pc'[p] \in {"request", "wait"} => target'[p] = a
          /\ pc'[p] # "remove pid"
      <4>1. CASE ReadPid(p)
        BY <2>4, <3>1, <3>2, <4>1, HostAssumption
           DEF ReadPid, Goto, AfterStop, HostTypeOK
      <4>2. CASE WriteRequest(p)
        BY <2>4, <3>2, <4>2 DEF WriteRequest, Goto, HostTypeOK
      <4>3. CASE StopSeen(p)
        BY <2>4, <3>1, <3>2, <4>3 DEF StopSeen
      <4> QED
        BY <1>2, <4>1, <4>2, <4>3, StopSteps
    <3> QED
      BY <2>1, <3>2, <3>4, <3>5
  <2> QED
    BY <2>2, <2>3, <2>4
<1>3. CASE Rot \/ Revoke
  BY <1>3 DEF Rot, Revoke, procVars, fileVars, Named, IsAgent, Running
<1> QED
  BY <1>1, <1>2, <1>3, NextActs

-----------------------------------------------------------------------------
(* A step that neither numbers a batch nor loads or saves the settings.    *)
Calm(p) ==
    /\ UNCHANGED <<configFile, issued>>
    /\ config'[p].seq = config[p].seq /\ batch'[p] = batch[p]
    /\ pc[p] # "load" /\ pc'[p] # "load"
    /\ IsAgent(p) /\ Lives(p)' => (Saving(p)' <=> Saving(p))
    /\ Carrying(p)' => Carrying(p)

LEMMA CalmSteps ==
    ASSUME HostTypeOK, PlacesOK, NEW p \in Pids, Acts(p)
    PROVE  Calm(p) \/ LoadSettings(p) \/ Build(p) \/ SaveFile(p)
<1> USE DEF Calm, HostTypeOK, Goto, Exit, Saving, Carrying
<1>1. CASE \/ LoadToken(p) \/ Enroll(p)
  <2>1. config[p] \in Configs
    OBVIOUS
  <2>2. \A c \in Configs : \A x :
            /\ [c EXCEPT !.token = x].seq = c.seq
            /\ WithIdentity(c, x).seq = c.seq
    BY DEF WithIdentity, Configs
  <2>3. UNCHANGED <<configFile, issued, batch>>
    BY <1>1 DEF LoadToken, Enroll, fileVars, configVars, ghostVars
  <2>4. CASE LoadToken(p)
    <3>1. config'[p] = [config[p] EXCEPT !.token = credential]
      BY <2>4 DEF LoadToken
    <3>2. config'[p].seq = config[p].seq
      BY <2>1, <2>2, <3>1
    <3>3. /\ pc[p] = "load token"
          /\ pc'[p] \in {"enroll", "read pid", "idle", "open"}
      BY <2>4 DEF LoadToken, First
    <3> QED
      BY <2>3, <3>2, <3>3
  <2>5. CASE Enroll(p)
    <3>1. \/ config'[p] = config[p]
          \/ config'[p] = WithIdentity(config[p], identities + 1)
      BY <2>5 DEF Enroll
    <3>2. config'[p].seq = config[p].seq
      BY <2>1, <2>2, <3>1
    <3>3. /\ pc[p] = "enroll" /\ ~ IsAgent(p)
          /\ pc'[p] \in {"token", "idle"}
      BY <2>5 DEF Enroll, PlacesOK
    <3> QED
      BY <2>3, <3>2, <3>3
  <2> QED
    BY <1>1, <2>4, <2>5
<1>2. CASE \/ SaveToken(p) \/ ReadPid(p) \/ WriteRequest(p) \/ StopSeen(p)
           \/ StopTimesOut(p) \/ RemovePid(p)
  BY <1>2 DEF SaveToken, SaveCredential, ReadPid, WriteRequest, StopSeen,
              StopTimesOut, RemovePid, AfterStop, fileVars, configVars,
              ghostVars
<1>3. CASE \/ Open(p) \/ ClearRequest(p) \/ WritePid(p) \/ LeaveLoop(p)
           \/ Signalled(p) \/ RemoveOwnPid(p) \/ RemoveRequest(p)
  BY <1>3 DEF Open, ClearRequest, WritePid, LeaveLoop, Signalled,
              RemoveOwnPid, RemoveRequest, fileVars, configVars, ghostVars
<1>4. CASE \/ SubmitAcknowledged(p) \/ SubmitRefused(p)
           \/ SubmitUnanswered(p) \/ EnqueueBegins(p) \/ EnqueueRefused(p)
           \/ EnqueueSyncs(p) \/ EnqueueRenames(p)
  BY <1>4 DEF SubmitAcknowledged, SubmitRefused, SubmitUnanswered,
              EnqueueBegins, EnqueueRefused, EnqueueSyncs, EnqueueRenames,
              fileVars, configVars, ghostVars
<1>5. CASE \/ FlushAcknowledged(p) \/ FlushUnanswered(p) \/ FlushRefused(p)
           \/ FlushCorrupt(p)
  BY <1>5 DEF FlushAcknowledged, FlushUnanswered, FlushRefused, FlushCorrupt,
              procVars, fileVars, configVars, ghostVars
<1>6. CASE Killed(p)
  BY <1>6 DEF Killed, Running, Lives, fileVars, configVars
<1> QED
  BY <1>1, <1>2, <1>3, <1>4, <1>5, <1>6 DEF Acts

(* The next number is saved before its batch is sent, so no later process  *)
(* uses it again.                                                          *)
LEMMA NumberedStep ==
    ASSUME HostTypeOK, PlacesOK, Alone, Numbered, Beside \subseteq Quiet, Next
    PROVE  Numbered'
<1> USE NoneAssumption
<1>1. ASSUME NEW p \in Pids, NEW c \in Commands, Spawn(p, c)
      PROVE  Numbered'
  <2>1. /\ command'[p] = c /\ pc'[p] = IF c = "init" THEN "token" ELSE "load"
        /\ UNCHANGED <<configFile, issued>>
        /\ c = "init" <=> configFile = None
        /\ \A q \in Pids : q # p => /\ pc'[q] = pc[q]
                                    /\ command'[q] = command[q]
                                    /\ batch'[q] = batch[q]
                                    /\ config'[q] = config[q]
    BY <1>1 DEF Spawn, Goto, HostTypeOK, fileVars, configVars
  <2>2. ~ Carrying(p)' /\ (pc'[p] = "load" => configFile # None)
    BY <2>1 DEF Carrying
  <2>3. \A q \in Pids : q # p => /\ Carrying(q)' <=> Carrying(q)
                                 /\ IsAgent(q)' <=> IsAgent(q)
                                 /\ Writes(q)' <=> Writes(q)
                                 /\ NextNumber(q)' <=> NextNumber(q)
    BY <2>1 DEF Carrying, IsAgent, Writes, Lives, NextNumber, Saving
  <2>4. configFile = None => \A q \in Pids : Writes(q)' => command'[q] = "init"
    BY <2>1, <2>3 DEF Numbered
  <2>5. ASSUME configFile # None, NEW q \in Pids, Writes(q)'
        PROVE  command'[q] # "init" /\ (pc'[q] # "load" => NextNumber(q)')
    BY <2>1, <2>3, <2>5 DEF Numbered
  <2>6. \A q \in Pids : Carrying(q)' => batch'[q] \in issued /\ IsAgent(q)'
    BY <2>1, <2>2, <2>3 DEF Numbered
  <2>7. \A q \in Pids : pc'[q] = "load" => configFile # None
    BY <2>1, <2>2 DEF Numbered
  <2> QED
    BY <2>1, <2>4, <2>5, <2>6, <2>7 DEF Numbered
<1>2. ASSUME NEW p \in Pids, Acts(p)
      PROVE  /\ command' = command /\ Lives(p)
             /\ \A q \in Pids : q # p => /\ pc'[q] = pc[q]
                                         /\ batch'[q] = batch[q]
                                         /\ config'[q] = config[q]
  BY <1>2, OneSteps DEF Steps, HostTypeOK
<1>3. ASSUME NEW p \in Pids, Acts(p), Calm(p)
      PROVE  Numbered'
  <2>1. \A q \in Pids : /\ Carrying(q)' => Carrying(q) /\ batch'[q] = batch[q]
                        /\ IsAgent(q)' <=> IsAgent(q)
                        /\ Writes(q)' => Writes(q)
                        /\ pc'[q] = "load" <=> pc[q] = "load"
                        /\ q # p => (NextNumber(q)' <=> NextNumber(q))
    BY <1>2, <1>3
       DEF Calm, Carrying, IsAgent, Writes, Lives, NextNumber, Saving
  <2>2. Writes(p)' => (NextNumber(p)' <=> NextNumber(p))
    BY <1>2, <1>3 DEF Calm, NextNumber, Writes, Saving, IsAgent
  <2>3. UNCHANGED <<configFile, issued, command>>
    BY <1>2, <1>3 DEF Calm
  <2>4. ASSUME configFile # None, NEW q \in Pids, Writes(q)'
        PROVE  command'[q] # "init" /\ (pc'[q] # "load" => NextNumber(q)')
    BY <2>1, <2>2, <2>3, <2>4 DEF Numbered
  <2> QED
    BY <2>1, <2>3, <2>4 DEF Numbered
<1>4. ASSUME NEW p \in Pids, Acts(p), LoadSettings(p)
      PROVE  Numbered'
  <2>1. /\ UNCHANGED <<configFile, issued, command, batch>>
        /\ pc[p] = "load" /\ pc'[p] = "load token"
        /\ config'[p].seq = configFile.seq
    BY <1>4 DEF LoadSettings, Config, Goto, HostTypeOK, fileVars, configVars,
                ghostVars
  <2>2. \A q \in Pids : /\ Carrying(q)' => Carrying(q) /\ batch'[q] = batch[q]
                        /\ IsAgent(q)' <=> IsAgent(q)
                        /\ Writes(q)' <=> Writes(q)
                        /\ pc'[q] = "load" => pc[q] = "load"
                        /\ q # p => (NextNumber(q)' <=> NextNumber(q))
                        /\ q # p => pc'[q] = pc[q]
    BY <1>2, <1>4, <2>1
       DEF Carrying, IsAgent, Writes, Lives, NextNumber, Saving
  <2>3. NextNumber(p)'
    BY <2>1 DEF NextNumber, Saving
  <2>4. ASSUME configFile # None, NEW q \in Pids, Writes(q)'
        PROVE  command'[q] # "init" /\ (pc'[q] # "load" => NextNumber(q)')
    BY <2>1, <2>2, <2>3, <2>4 DEF Numbered
  <2> QED
    BY <2>1, <2>2, <2>4 DEF Numbered
<1>5. ASSUME NEW p \in Pids, Acts(p), Build(p)
      PROVE  Numbered'
  <2> DEFINE b == [id |-> config[p].id, seq |-> config[p].seq, run |-> run[p]]
  <2>1. /\ UNCHANGED <<configFile, issued, command>>
        /\ pc[p] = "loop" /\ pc'[p] = "token"
        /\ config'[p].seq = b.seq + 1 /\ batch'[p] = b
    <3>1. config[p] \in Configs
      BY DEF HostTypeOK
    <3> QED
      BY <1>5, <3>1
         DEF Build, Goto, HostTypeOK, Configs, fileVars, configVars, ghostVars
  <2>2. Writes(p) /\ IsAgent(p)
    BY <2>1, AgentsWrite
  <2>3. b \in Batches
    BY DEF HostTypeOK, Configs, Batches
  <2>4. configFile # None
    BY <2>2 DEF Numbered, IsAgent
  <2>5. b.seq = configFile.seq
    BY <2>1, <2>2, <2>4 DEF Numbered, NextNumber, Saving
  <2> HIDE DEF b
  <2>6. NextNumber(p)'
    BY <2>1, <2>2, <2>3, <2>5 DEF NextNumber, Saving, IsAgent
  <2>7. \A q \in Pids : /\ Carrying(q)' => Carrying(q) /\ batch'[q] = batch[q]
                        /\ IsAgent(q)' <=> IsAgent(q)
                        /\ Writes(q)' => Writes(q)
                        /\ pc'[q] = "load" <=> pc[q] = "load"
                        /\ q # p => (NextNumber(q)' <=> NextNumber(q))
    BY <1>2, <1>5, <2>1
       DEF Carrying, IsAgent, Writes, Lives, NextNumber, Saving
  <2>8. ASSUME NEW q \in Pids, Writes(q)'
        PROVE  command'[q] # "init" /\ (pc'[q] # "load" => NextNumber(q)')
    BY <2>1, <2>4, <2>6, <2>7, <2>8 DEF Numbered
  <2> QED
    BY <2>1, <2>4, <2>7, <2>8 DEF Numbered
<1>6. ASSUME NEW p \in Pids, Acts(p), SaveFile(p)
      PROVE  Numbered'
  <2>1. /\ UNCHANGED <<command, config, batch>>
        /\ pc[p] = "settings"
        /\ pc'[p] = IF IsAgent(p) THEN "submit" ELSE "idle"
        /\ issued' = issued \cup {b \in {batch[p]} : IsAgent(p)}
        /\ configFile' = [id |-> config[p].id, seq |-> config[p].seq]
    BY <1>6 DEF SaveFile, SaveSettings, Goto, HostTypeOK
  <2>2. /\ configFile' # None /\ configFile'.seq = config[p].seq
        /\ config[p].seq \in Nat
    <3>1. config[p] \in Configs
      BY DEF HostTypeOK
    <3> QED
      BY <2>1, <3>1, ConfigFacts DEF Configs
  <2>3. Writes(p)
    BY <2>1 DEF PlacesOK, Writes, Lives, Quiet
  <2>4. \A q \in Pids : q # p => ~ Writes(q)' /\ ~ Writes(q)
    BY <1>2, <1>6, <2>3 DEF Alone, Writes, Lives
  <2>5. \A q \in Pids : q # p => /\ Carrying(q)' <=> Carrying(q)
                                 /\ IsAgent(q)' <=> IsAgent(q)
    BY <1>2, <1>6 DEF Carrying, IsAgent
  <2>6. CASE IsAgent(p)
    <3>1. configFile # None
      BY <2>3, <2>6 DEF Numbered, IsAgent
    <3>2. /\ batch[p] \in Batches /\ batch[p].seq = configFile.seq
          /\ config[p].seq = configFile.seq + 1
      BY <2>1, <2>3, <2>6, <3>1 DEF Numbered, NextNumber, Saving
    <3>3. issued' = issued \cup {batch[p]}
      BY <2>1, <2>6
    <3>4. configFile.seq \in Nat /\ \A b \in issued : b.seq \in Nat
      BY <3>1 DEF HostTypeOK, Settings, Numbered, Batches
    <3>5. \A b \in issued : b.seq < configFile.seq
      BY <3>1 DEF Numbered
    <3>6. \A b \in issued' : b.seq < configFile'.seq
      BY <2>2, <3>2, <3>3, <3>4, <3>5
    <3>7. \A b, c \in issued' : b.seq = c.seq => b = c
      <4>1. \A b \in issued : b.seq # batch[p].seq
        BY <3>2, <3>4, <3>5
      <4>2. \A b, c \in issued : b.seq = c.seq => b = c
        BY DEF Numbered
      <4> QED
        BY <3>3, <4>1, <4>2
    <3>8. NextNumber(p)'
      BY <2>1, <2>2, <2>6 DEF NextNumber, Saving, IsAgent
    <3>9. \A q \in Pids : Carrying(q)' => batch'[q] \in issued' /\ IsAgent(q)'
      BY <2>1, <2>5, <2>6, <3>3 DEF Numbered, IsAgent
    <3>10. issued' \subseteq Batches
      BY <3>2, <3>3 DEF Numbered
    <3>11. \A q \in Pids : Writes(q)' => /\ command'[q] # "init"
                                         /\ NextNumber(q)'
      BY <2>1, <2>4, <2>6, <3>8 DEF IsAgent
    <3> QED
      BY <2>2, <3>6, <3>7, <3>9, <3>10, <3>11 DEF Numbered
  <2>7. CASE ~ IsAgent(p)
    <3>1. issued' = issued /\ pc'[p] = "idle"
      BY <2>1, <2>7
    <3>2. \A q \in Pids : ~ Writes(q)'
      BY <2>4, <3>1 DEF Writes, Lives
    <3>3. configFile # None => config[p].seq = configFile.seq
      BY <2>1, <2>3, <2>7 DEF Numbered, NextNumber
    <3>4. \A b \in issued : b.seq < configFile'.seq
      BY <2>2, <3>3 DEF Numbered
    <3>5. \A q \in Pids : Carrying(q)' => batch'[q] \in issued /\ IsAgent(q)'
      BY <2>1, <2>5, <3>1 DEF Numbered, Carrying
    <3> QED
      BY <2>2, <3>1, <3>2, <3>4, <3>5 DEF Numbered
  <2> QED
    BY <2>6, <2>7
<1>7. CASE Rot \/ Revoke
  BY <1>7 DEF Rot, Revoke, procVars, fileVars, configVars, bufferVars,
              Numbered, NextNumber, Saving, Carrying, IsAgent, Writes, Lives
<1> QED
  BY <1>1, <1>3, <1>4, <1>5, <1>6, <1>7, NextActs, CalmSteps

-----------------------------------------------------------------------------
(* What the operations of the buffer do to the files of batches bs, no two *)
(* of them with one number: a batch on the disk stays there, or is evicted *)
(* or recorded as rejected.                                                *)
Below == OpToRel(<, Nat)

LEMMA LeastNumber ==
    ASSUME NEW T \in SUBSET Nat, T # {}
    PROVE  \E x \in T : \A y \in T : x <= y
<1>1. IsWellFoundedOn(Below, Nat) /\ T \subseteq Nat
  BY NatLessThanWellFounded, Zenon DEF Below
<1>2. PICK x \in T : \A y \in T : ~ (<<y, x>> \in Below)
  BY <1>1, WFMin, Zenon
<1>3. \A y \in T : ~ (y < x)
  BY <1>1, <1>2 DEF Below, OpToRel
<1> QED
  BY <1>3

OnDisk(b) == \E f \in disk : f.batch = b
Recorded(b) == b \in evicted \cup rejects \/ OnDisk(b)

Unique(bs) == bs \subseteq Batches /\ \A b, c \in bs : b.seq = c.seq => b = c

LEMMA OldestFacts ==
    ASSUME NEW bs, FilesOK(bs), Unique(bs), Queue # {}
    PROVE  Oldest \in Queue /\ Oldest.batch \in bs
<1> DEFINE T == {f.batch.seq : f \in Queue}
<1>1. \A f \in Queue : f.batch \in bs /\ f.batch.seq \in Nat
  BY DEF Queue, FilesOK, FilesOf, Unique, Batches
<1>2. T \in SUBSET Nat /\ T # {}
  BY <1>1
<1>3. PICK n \in T : \A m \in T : n <= m
  BY <1>2, LeastNumber
<1>4. \E f \in Queue : \A g \in Queue : f.batch.seq <= g.batch.seq
  BY <1>3
<1>5. Oldest \in Queue
  BY <1>4, Zenon DEF Oldest
<1> QED
  BY <1>1, <1>5

LEMMA OpenKeeps ==
    ASSUME NEW bs, FilesOK(bs), QuarantinePartial
    PROVE  FilesOK(bs)' /\ \A b \in bs : Recorded(b) => Recorded(b)'
<1> DEFINE Moved(f) == IF f.place = "temp"
                       THEN [f EXCEPT !.place = "quarantine"] ELSE f
<1>1. \A f \in disk : Moved(f) \in FilesOf(bs) /\ Moved(f).batch = f.batch
  BY DEF FilesOK, FilesOf
<1>2. disk' = {Moved(f) : f \in disk} /\ UNCHANGED <<evicted, rejects>>
  BY DEF QuarantinePartial
<1> HIDE DEF Moved
<1>3. FilesOK(bs)'
  BY <1>1, <1>2 DEF FilesOK
<1>4. \A f \in disk : \E g \in disk' : g.batch = f.batch
  BY <1>1, <1>2
<1> QED
  BY <1>2, <1>3, <1>4 DEF Recorded, OnDisk

LEMMA BeginKeeps ==
    ASSUME NEW bs, FilesOK(bs), NEW b \in bs, BeginWrite(b)
    PROVE  /\ FilesOK(bs)' /\ Recorded(b)'
           /\ \A c \in bs : Recorded(c) => Recorded(c)'
<1>1. File(b, "temp", FALSE) \in FilesOf(bs) /\ File(b, "temp", FALSE).batch = b
  BY DEF File, FilesOf
<1>2. /\ disk' = (disk \ Surplus) \cup {File(b, "temp", FALSE)}
      /\ evicted' = evicted \cup {f.batch : f \in Surplus}
      /\ rejects' = rejects
  BY DEF BeginWrite
<1>3. FilesOK(bs)'
  BY <1>1, <1>2 DEF FilesOK
<1>4. OnDisk(b)'
  BY <1>1, <1>2 DEF OnDisk
<1>5. \A c : OnDisk(c) => OnDisk(c)' \/ c \in evicted'
  BY <1>2 DEF OnDisk
<1> QED
  BY <1>2, <1>3, <1>4, <1>5 DEF Recorded

LEMMA FinishKeeps ==
    ASSUME NEW bs, FilesOK(bs), NEW c, FinishWrite(c)
    PROVE  FilesOK(bs)' /\ \A b \in bs : Recorded(b) => Recorded(b)'
<1> DEFINE Moved(f) == IF f.batch = c THEN [f EXCEPT !.whole = TRUE] ELSE f
<1>1. \A f \in disk : Moved(f) \in FilesOf(bs) /\ Moved(f).batch = f.batch
  BY DEF FilesOK, FilesOf
<1>2. disk' = {Moved(f) : f \in disk} /\ UNCHANGED <<evicted, rejects>>
  BY DEF FinishWrite
<1> HIDE DEF Moved
<1>3. FilesOK(bs)'
  BY <1>1, <1>2 DEF FilesOK
<1>4. \A f \in disk : \E g \in disk' : g.batch = f.batch
  BY <1>1, <1>2
<1> QED
  BY <1>2, <1>3, <1>4 DEF Recorded, OnDisk

(* The renamed file takes the place of none but its own batch's.           *)
LEMMA RenameKeeps ==
    ASSUME NEW bs, FilesOK(bs), Unique(bs), NEW c \in bs, Rename(c)
    PROVE  FilesOK(bs)' /\ \A b \in bs : Recorded(b) => Recorded(b)'
<1> DEFINE Moved(f) == IF f.batch = c THEN [f EXCEPT !.place = "queue"] ELSE f
           Left == {g \in disk : ~ (g.place = "queue" /\ g.batch.seq = c.seq)}
<1>1. \A f \in disk : Moved(f) \in FilesOf(bs) /\ Moved(f).batch = f.batch
  BY DEF FilesOK, FilesOf
<1>2. disk' = {Moved(f) : f \in Left} /\ UNCHANGED <<evicted, rejects>>
  BY DEF Rename
<1>3. PICK t \in disk : t.batch = c /\ t.place = "temp"
  BY DEF Rename
<1>4. t \in Left /\ Left \subseteq disk
  BY <1>3
<1>5. \A f \in disk \ Left : f.batch = c
  BY DEF FilesOK, FilesOf, Unique
<1> HIDE DEF Moved, Left
<1>6. FilesOK(bs)'
  BY <1>1, <1>2, <1>4 DEF FilesOK
<1>7. \A f \in Left : \E g \in disk' : g.batch = f.batch
  BY <1>1, <1>2, <1>4
<1>8. \A f \in disk : \E g \in disk' : g.batch = f.batch
  BY <1>3, <1>4, <1>5, <1>7
<1> QED
  BY <1>2, <1>6, <1>8 DEF Recorded, OnDisk

LEMMA CorruptKeeps ==
    ASSUME NEW bs, FilesOK(bs), Unique(bs), QuarantineCorrupt
    PROVE  FilesOK(bs)' /\ \A b \in bs : Recorded(b) => Recorded(b)'
<1> DEFINE moved == File(Oldest.batch, "quarantine", FALSE)
<1>1. Oldest.batch \in bs
  BY OldestFacts DEF QuarantineCorrupt
<1>2. moved \in FilesOf(bs) /\ moved.batch = Oldest.batch
  BY <1>1 DEF File, FilesOf
<1>3. /\ disk' = (disk \ {Oldest}) \cup {moved}
      /\ UNCHANGED <<evicted, rejects>>
  BY DEF QuarantineCorrupt
<1> HIDE DEF moved
<1>4. FilesOK(bs)'
  BY <1>2, <1>3 DEF FilesOK
<1>5. \A f \in disk : \E g \in disk' : g.batch = f.batch
  BY <1>2, <1>3
<1> QED
  BY <1>3, <1>4, <1>5 DEF Recorded, OnDisk

LEMMA RotKeeps ==
    ASSUME NEW bs, FilesOK(bs), FileRots
    PROVE  FilesOK(bs)' /\ \A b \in bs : Recorded(b) => Recorded(b)'
<1>1. PICK f \in Queue : disk' = (disk \ {f}) \cup {[f EXCEPT !.whole = FALSE]}
  BY DEF FileRots
<1>2. /\ [f EXCEPT !.whole = FALSE] \in FilesOf(bs)
      /\ [f EXCEPT !.whole = FALSE].batch = f.batch
  BY DEF FilesOK, FilesOf, Queue
<1>3. UNCHANGED <<evicted, rejects>>
  BY DEF FileRots
<1>4. FilesOK(bs)'
  BY <1>1, <1>2, <1>3 DEF FilesOK
<1>5. \A g \in disk : \E h \in disk' : h.batch = g.batch
  BY <1>1, <1>2
<1> QED
  BY <1>3, <1>4, <1>5 DEF Recorded, OnDisk

(* pop removes the file of the batch, and of no other.                     *)
LEMMA PopKeeps ==
    ASSUME NEW bs, FilesOK(bs), Unique(bs), NEW c \in bs, Pop(c)
    PROVE  FilesOK(bs)' /\ \A b \in bs : Recorded(b) => Recorded(b)' \/ b = c
<1>1. /\ disk' = {f \in disk : ~ (f.place = "queue" /\ f.batch.seq = c.seq)}
      /\ UNCHANGED <<evicted, rejects>>
  BY DEF Pop
<1>2. \A f \in disk : f \in disk' \/ f.batch = c
  BY <1>1 DEF FilesOK, FilesOf, Unique
<1>3. FilesOK(bs)'
  BY <1>1 DEF FilesOK
<1> QED
  BY <1>1, <1>2, <1>3 DEF Recorded, OnDisk

LEMMA RejectKeeps ==
    ASSUME NEW bs, FilesOK(bs), Unique(bs), NEW c \in bs, NEW queued,
           Reject(c, queued)
    PROVE  /\ FilesOK(bs)' /\ Recorded(c)'
           /\ \A b \in bs : Recorded(b) => Recorded(b)'
<1>1. /\ rejects' = {r \in rejects : r.seq # c.seq} \cup {c}
      /\ disk' = {f \in disk : ~ (queued /\ f.place = "queue"
                                  /\ f.batch.seq = c.seq)}
      /\ evicted' = evicted
  BY DEF Reject
<1>2. \A f \in disk : f \in disk' \/ f.batch = c
  BY <1>1 DEF FilesOK, FilesOf, Unique
<1>3. \A r \in rejects : r \in rejects'
  BY <1>1 DEF FilesOK, Unique
<1>4. FilesOK(bs)'
  BY <1>1 DEF FilesOK
<1>5. c \in rejects'
  BY <1>1
<1> QED
  BY <1>1, <1>2, <1>3, <1>4, <1>5 DEF Recorded, OnDisk

-----------------------------------------------------------------------------
(* The states of no batch leave the disk unrecorded in a step of the host. *)
LEMMA DiskSteps ==
    ASSUME NEW bs, bs = issued, FilesOK(bs), Unique(bs), HostTypeOK, Numbered,
           NEW p \in Pids, Acts(p)
    PROVE  /\ FilesOK(bs)'
           /\ \A b \in bs : Recorded(b) => Recorded(b)' \/ b \in stored'
<1>1. Carrying(p) => batch[p] \in bs
  BY DEF Numbered
<1>2. CASE UNCHANGED bufferVars
  BY <1>2 DEF FilesOK, Recorded, OnDisk, bufferVars
<1>3. CASE Open(p)
  BY <1>3, OpenKeeps DEF Open
<1>4. CASE SubmitRefused(p)
  BY <1>1, <1>4, RejectKeeps DEF SubmitRefused, Carrying
<1>5. CASE EnqueueBegins(p)
  <2>1. CASE UNCHANGED bufferVars
    BY <1>2, <2>1
  <2>2. CASE BeginWrite(batch[p])
    BY <1>1, <1>5, <2>2, BeginKeeps DEF EnqueueBegins, Carrying
  <2> QED
    BY <1>5, <2>1, <2>2 DEF EnqueueBegins
<1>6. CASE EnqueueSyncs(p)
  BY <1>6, FinishKeeps DEF EnqueueSyncs
<1>7. CASE EnqueueRenames(p)
  <2>1. CASE UNCHANGED bufferVars
    BY <1>2, <2>1
  <2>2. CASE Rename(batch[p])
    BY <1>1, <1>7, <2>2, RenameKeeps DEF EnqueueRenames, Carrying
  <2> QED
    BY <1>7, <2>1, <2>2 DEF EnqueueRenames
<1>8. CASE FlushAcknowledged(p)
  <2>1. PICK c \in bs : Pop(c) /\ stored' = stored \cup {c}
    BY <1>8 DEF FlushAcknowledged
  <2> QED
    BY <2>1, PopKeeps
<1>9. CASE FlushRefused(p)
  <2>1. PICK c \in bs : Reject(c, TRUE)
    BY <1>9 DEF FlushRefused
  <2> QED
    BY <2>1, RejectKeeps
<1>10. CASE FlushCorrupt(p)
  BY <1>10, CorruptKeeps DEF FlushCorrupt
<1>11. CASE \/ LoadSettings(p) \/ LoadToken(p) \/ SaveToken(p) \/ SaveFile(p)
            \/ Enroll(p) \/ ReadPid(p) \/ WriteRequest(p) \/ StopSeen(p)
            \/ StopTimesOut(p) \/ RemovePid(p) \/ ClearRequest(p)
            \/ WritePid(p) \/ LeaveLoop(p) \/ Signalled(p) \/ Build(p)
            \/ SubmitAcknowledged(p) \/ SubmitUnanswered(p)
            \/ EnqueueRefused(p) \/ FlushUnanswered(p) \/ RemoveOwnPid(p)
            \/ RemoveRequest(p) \/ Killed(p)
  BY <1>2, <1>11
     DEF LoadSettings, LoadToken, SaveToken, SaveFile, Enroll, ReadPid,
         WriteRequest, StopSeen, StopTimesOut, RemovePid, ClearRequest,
         WritePid, LeaveLoop, Signalled, Build, SubmitAcknowledged,
         SubmitUnanswered, EnqueueRefused, FlushUnanswered, RemoveOwnPid,
         RemoveRequest, Killed, fileVars
<1> QED
  BY <1>3, <1>4, <1>5, <1>6, <1>7, <1>8, <1>9, <1>10, <1>11 DEF Acts

(* A batch that is on its way stays so, or gets to one of its ends.        *)
LEMMA SubmitSteps ==
    ASSUME NEW bs, bs = issued, FilesOK(bs), Unique(bs), HostTypeOK, Numbered,
           NEW p \in Pids, Acts(p), Submitting(p), NEW b, b = batch[p]
    PROVE  \/ Submitting(p)' /\ batch'[p] = b
           \/ Recorded(b)'
           \/ b \in stored' \cup returned' \cup lost'
<1>1. b \in bs
  BY DEF Numbered, Carrying, Submitting
<1>2. pc[p] \in {"submit", "write"}
  BY DEF Submitting
<1>3. \/ SubmitAcknowledged(p) \/ SubmitRefused(p) \/ SubmitUnanswered(p)
      \/ EnqueueBegins(p) \/ EnqueueRefused(p) \/ Killed(p)
  BY <1>2 DEF Acts, LoadSettings, LoadToken, SaveToken, SaveFile, Enroll,
       ReadPid, WriteRequest, StopSeen, StopTimesOut, RemovePid, Open,
       ClearRequest, WritePid, LeaveLoop, Signalled, Build, EnqueueSyncs,
       EnqueueRenames, FlushAcknowledged, FlushUnanswered, FlushRefused,
       FlushCorrupt, RemoveOwnPid, RemoveRequest
<1>4. CASE SubmitAcknowledged(p)
  BY <1>4 DEF SubmitAcknowledged
<1>5. CASE SubmitRefused(p)
  BY <1>1, <1>5, RejectKeeps DEF SubmitRefused
<1>6. CASE SubmitUnanswered(p)
  BY <1>6 DEF SubmitUnanswered, Goto, Submitting, HostTypeOK
<1>7. CASE EnqueueBegins(p)
  <2>1. CASE Holds(batch[p].seq)
    <3>1. PICK f \in disk : f.batch.seq = batch[p].seq
      BY <2>1 DEF Holds, Queue
    <3>2. f.batch = b
      BY <1>1, <3>1 DEF FilesOK, FilesOf, Unique
    <3>3. disk' = disk
      BY <1>7, <2>1 DEF EnqueueBegins, bufferVars
    <3> QED
      BY <3>1, <3>2, <3>3 DEF Recorded, OnDisk
  <2>2. CASE ~ Holds(batch[p].seq)
    BY <1>1, <1>7, <2>2, BeginKeeps DEF EnqueueBegins
  <2> QED
    BY <2>1, <2>2
<1>8. CASE EnqueueRefused(p)
  BY <1>8 DEF EnqueueRefused
<1>9. CASE Killed(p)
  BY <1>2, <1>9 DEF Killed
<1> QED
  BY <1>3, <1>4, <1>5, <1>6, <1>7, <1>8, <1>9

LEMMA GhostsGrow ==
    ASSUME HostTypeOK, NEW p \in Pids, Acts(p)
    PROVE  /\ stored \subseteq stored' /\ returned \subseteq returned'
           /\ lost \subseteq lost' /\ issued \subseteq issued'
           /\ \A b \in issued' :
                  b \in issued \/ (Submitting(p)' /\ batch'[p] = b)
<1>1. CASE SaveFile(p)
  BY <1>1 DEF SaveFile, Goto, Submitting, HostTypeOK, centralVars
<1>2. CASE \/ LoadSettings(p) \/ LoadToken(p) \/ SaveToken(p) \/ Enroll(p)
           \/ ReadPid(p) \/ WriteRequest(p) \/ StopSeen(p)
           \/ StopTimesOut(p) \/ RemovePid(p) \/ Open(p) \/ ClearRequest(p)
           \/ WritePid(p) \/ LeaveLoop(p) \/ Signalled(p) \/ Build(p)
  BY <1>2 DEF LoadSettings, LoadToken, SaveToken, Enroll, ReadPid,
       WriteRequest, StopSeen, StopTimesOut, RemovePid, Open, ClearRequest,
       WritePid, LeaveLoop, Signalled, Build, centralVars, ghostVars
<1>3. CASE \/ SubmitAcknowledged(p) \/ SubmitRefused(p)
           \/ SubmitUnanswered(p) \/ EnqueueBegins(p) \/ EnqueueRefused(p)
           \/ EnqueueSyncs(p) \/ EnqueueRenames(p)
  BY <1>3 DEF SubmitAcknowledged, SubmitRefused, SubmitUnanswered,
       EnqueueBegins, EnqueueRefused, EnqueueSyncs, EnqueueRenames,
       centralVars, ghostVars
<1>4. CASE \/ FlushAcknowledged(p) \/ FlushUnanswered(p) \/ FlushRefused(p)
           \/ FlushCorrupt(p) \/ RemoveOwnPid(p) \/ RemoveRequest(p)
           \/ Killed(p)
  BY <1>4 DEF FlushAcknowledged, FlushUnanswered, FlushRefused,
       FlushCorrupt, RemoveOwnPid, RemoveRequest, Killed, centralVars,
       ghostVars
<1> QED
  BY <1>1, <1>2, <1>3, <1>4 DEF Acts

LEMMA BatchesKept ==
    ASSUME ControlInv, FilesInv, NothingVanishes, Next
    PROVE  FilesInv' /\ NothingVanishes'
<1>1. PICK bs : bs = issued
  OBVIOUS
<1>2. FilesOK(bs) /\ Unique(bs) /\ HostTypeOK /\ Numbered
  BY <1>1 DEF ControlInv, FilesInv, Unique, Numbered
<1> DEFINE Told(b) == \/ Recorded(b) \/ b \in stored \cup returned \cup lost
                      \/ \E q \in Pids : Submitting(q) /\ batch[q] = b
<1>3. \A b \in bs : Told(b)
  BY <1>1 DEF NothingVanishes, Recorded, OnDisk
<1>4. ASSUME issued \subseteq issued', FilesOK(bs)',
             \A b \in issued' : Told(b)'
      PROVE  FilesInv' /\ NothingVanishes'
  <2>1. FilesInv'
    BY <1>1, <1>4 DEF FilesInv, FilesOK, FilesOf
  <2>2. NothingVanishes'
    BY <1>4 DEF NothingVanishes, Recorded, OnDisk
  <2> QED
    BY <2>1, <2>2
<1>5. ASSUME NEW p \in Pids, Acts(p)
      PROVE  FilesInv' /\ NothingVanishes'
  <2>1. /\ FilesOK(bs)'
        /\ \A b \in bs : Recorded(b) => Recorded(b)' \/ b \in stored'
    BY <1>1, <1>2, <1>5, DiskSteps
  <2>2. \A q \in Pids : q # p => /\ Submitting(q)' <=> Submitting(q)
                                 /\ batch'[q] = batch[q]
    BY <1>2, <1>5, OneSteps DEF Steps, HostTypeOK, Submitting
  <2>3. ASSUME NEW b \in bs
        PROVE  Told(b)'
    <3>1. CASE Recorded(b)
      BY <2>1, <2>3, <3>1
    <3>2. CASE b \in stored \cup returned \cup lost
      BY <1>2, <1>5, <3>2, GhostsGrow
    <3>3. ASSUME NEW q \in Pids, Submitting(q), batch[q] = b
          PROVE  Told(b)'
      <4>1. CASE q = p
        BY <1>1, <1>2, <1>5, <3>3, <4>1, SubmitSteps
      <4>2. CASE q # p
        BY <2>2, <3>3, <4>2
      <4> QED
        BY <4>1, <4>2
    <3> QED
      BY <1>3, <3>1, <3>2, <3>3
  <2>4. /\ issued \subseteq issued'
        /\ \A b \in issued' : b \in bs \/ (Submitting(p)' /\ batch'[p] = b)
    BY <1>1, <1>2, <1>5, GhostsGrow
  <2>5. \A b \in issued' : Told(b)'
    BY <2>3, <2>4
  <2> QED
    BY <1>4, <2>1, <2>4, <2>5
<1>6. ASSUME NEW p \in Pids, NEW c \in Commands, Spawn(p, c)
      PROVE  FilesInv' /\ NothingVanishes'
  <2>1. UNCHANGED <<issued, disk, evicted, rejects, stored, returned, lost>>
    BY <1>6 DEF Spawn, fileVars, bufferVars, centralVars
  <2>2. \A q \in Pids : Submitting(q) =>
            Submitting(q)' /\ batch'[q] = batch[q]
    BY <1>2, <1>6 DEF Spawn, Goto, HostTypeOK, Submitting, Lives
  <2>3. \A b \in issued' : Told(b)'
    BY <1>1, <1>3, <2>1, <2>2 DEF Recorded, OnDisk
  <2>4. FilesOK(bs)'
    BY <1>2, <2>1 DEF FilesOK
  <2> QED
    BY <1>4, <2>1, <2>3, <2>4
<1>7. CASE Rot \/ Revoke
  <2>1. UNCHANGED <<issued, stored, returned, lost, procVars>>
    BY <1>7 DEF Rot, Revoke, procVars, centralVars
  <2>2. FilesOK(bs)' /\ \A b \in bs : Recorded(b) => Recorded(b)'
    <3>1. CASE Rot
      BY <1>2, <3>1, RotKeeps DEF Rot
    <3>2. CASE Revoke
      BY <1>2, <3>2
         DEF Revoke, fileVars, bufferVars, FilesOK, Recorded, OnDisk
    <3> QED
      BY <1>7, <3>1, <3>2
  <2>3. \A q \in Pids : /\ Submitting(q)' <=> Submitting(q)
                        /\ batch'[q] = batch[q]
    BY <2>1 DEF procVars, Submitting
  <2>4. \A b \in issued' : Told(b)'
    BY <1>1, <1>3, <2>1, <2>2, <2>3
  <2> QED
    BY <1>4, <2>1, <2>2, <2>4
<1> QED
  BY <1>5, <1>6, <1>7, NextActs

LEMMA HostStarts == Init => HostInv
<1> SUFFICES ASSUME Init
             PROVE  HostInv
  OBVIOUS
<1> USE DEF Init
<1>1. HostTypeOK
  <2>1. NewConfig \in Configs
    BY DEF NewConfig, Configs, Identities
  <2>2. [id |-> 1, seq |-> 1] \in Settings
    BY DEF Settings, Identities
  <2> QED
    BY <2>1, <2>2 DEF HostTypeOK, Identities
<1>2. \A p \in Pids : ~ Lives(p) /\ ~ Running(p) /\ ~ Carrying(p)
  BY DEF Lives, Running, Carrying
<1>3. PlacesOK /\ Alone /\ Named /\ Numbered
  BY <1>2 DEF PlacesOK, IsAgent, Alone, Named, Numbered, Writes
<1>4. FilesInv /\ NothingVanishes
  BY DEF FilesInv, FilesOK, BufferInit, NothingVanishes
<1> QED
  BY <1>1, <1>3, <1>4 DEF HostInv, ControlInv

LEMMA HostStep ==
    ASSUME Beside \subseteq Quiet, HostInv, [Next]_vars
    PROVE  HostInv'
<1>1. ASSUME Next
      PROVE  HostInv'
  BY <1>1, TypeStep, PlacesStep, AloneStep, NamedStep, NumberedStep,
     BatchesKept, Zenon
     DEF HostInv, ControlInv
<1>2. CASE UNCHANGED vars
  <2>1. /\ UNCHANGED <<configFile, credential, pidFile, pc, command, run, config>>
        /\ UNCHANGED <<target, batch, closing, runs, identities, issued>>
        /\ UNCHANGED <<disk, evicted, rejects, stored, returned, lost>>
    BY <1>2 DEF vars, fileVars, procVars, centralVars, ghostVars, configVars,
                bufferVars
  <2>2. HostTypeOK' /\ PlacesOK'
    BY <2>1 DEF HostInv, ControlInv, HostTypeOK, PlacesOK, IsAgent
  <2>3. Alone' /\ Named'
    BY <2>1 DEF HostInv, ControlInv, Alone, Named, Writes, Lives, IsAgent,
                Running
  <2>4. Numbered'
    BY <2>1 DEF HostInv, ControlInv, Numbered, NextNumber, Saving, Carrying,
                Writes, Lives, IsAgent
  <2>5. FilesInv' /\ NothingVanishes'
    BY <2>1 DEF HostInv, FilesInv, FilesOK, NothingVanishes, Submitting
  <2> QED
    BY <2>2, <2>3, <2>4, <2>5 DEF HostInv, ControlInv
<1> QED
  BY <1>1, <1>2

LEMMA HostHolds == Beside \subseteq Quiet => (HostSpec => []HostInv)
<1> SUFFICES ASSUME Beside \subseteq Quiet
             PROVE  HostSpec => []HostInv
  OBVIOUS
<1>1. HostInv /\ [Next]_vars => HostInv'
  BY HostStep
<1> QED
  BY <1>1, HostStarts, PTL DEF HostSpec

(* No number is given to two batches, whatever is started, stopped and     *)
(* killed: the number after a batch is on the disk before the batch is     *)
(* sent (client.py:177, _persist_next_sequence).                           *)
THEOREM BatchesNumberedOnce ==
    Beside \subseteq Quiet => (HostSpec => []NumberedOnce)
<1>1. HostInv => NumberedOnce
  BY DEF HostInv, ControlInv, Numbered, NumberedOnce
<1> QED
  BY <1>1, HostHolds, PTL

(* Between the agent, the disk and the commands beside it no batch         *)
(* vanishes without a trace (buffer.py, enqueue and the quarantine).       *)
THEOREM BatchesNeverVanish ==
    Beside \subseteq Quiet => (HostSpec => []NothingVanishes)
<1>1. HostInv => NothingVanishes
  BY DEF HostInv
<1> QED
  BY <1>1, HostHolds, PTL

(* An agent that runs can be stopped: the pid file names it (client.py,    *)
(* stop_pid).                                                              *)
THEOREM AgentIsReachable ==
    Beside \subseteq Quiet => (HostSpec => []ReachableAgent)
<1>1. HostInv => ReachableAgent
  BY DEF HostInv, ControlInv, Named, ReachableAgent
<1> QED
  BY <1>1, HostHolds, PTL

==============================================================================
