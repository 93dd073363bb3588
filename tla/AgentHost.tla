------------------------------ MODULE AgentHost ------------------------------
(***************************************************************************)
(* The host of a remote sensor: the commands of sentinel-agent             *)
(* (agent/cli.py) as processes that share a configuration, a disk buffer,  *)
(* a pid file and a stop request (agent/client.py).                        *)
(*                                                                         *)
(* A process is at pc[p]; every step reads or writes one file, since the   *)
(* processes are not synchronised otherwise.  What an agent captures, and  *)
(* when, is left open: it has a batch to submit whenever it may build one. *)
(* The central service is what the host sees of it: it takes a batch of    *)
(* the caller's identity with a new highest number, knows the last one     *)
(* again, refuses any other, or cannot be reached.                         *)
(***************************************************************************)
EXTENDS ConfigStore, DiskBuffer

CONSTANTS
    Pids,             \* process ids; one is used again after its process
    Commands,         \* the commands this instance runs
    Beside,           \* those the operator runs while other processes live
    MaxCommands,      \* bound: how many commands are run
    MaxSequence,      \* bound: the last sequence number
    MaxIdentities,    \* bound: how many registrations succeed
    MaxFaults         \* bound: killed agents, damaged files, revocations

ASSUME HostAssumption ==
    /\ Commands \subseteq {"init", "register", "start", "restart", "stop",
                           "status"}
    /\ Beside \subseteq Commands
    /\ None \notin Pids
    /\ {MaxCommands, MaxSequence, MaxIdentities, MaxFaults} \subseteq Nat

VARIABLES
    pidFile,          \* agent.pid
    stopFile,         \* agent.pid.stop
    pc,               \* what each process does next; "idle": no process
    command,          \* its command
    run,              \* its number among the commands run so far
    config,           \* the configuration it has loaded
    target,           \* stop_pid: the pid it read
    batch,            \* the batch an agent submits
    closing,          \* the agent has left its loop
    runs,             \* how many commands have been run
    identities,       \* how many registrations the central service granted
    revoked,          \* those it disabled, or rotated the credential of
    stored,           \* the batches it stored
    issued,           \* the batches that got a number
    returned,         \* those whose states the full buffer sent back
    lost,             \* those that were only in memory when it was lost
    faultsLeft

fileVars == <<configVars, bufferVars, pidFile, stopFile>>
procVars == <<pc, command, run, config, target, batch, closing>>
centralVars == <<identities, revoked, stored>>
ghostVars == <<runs, issued, returned, lost, faultsLeft>>
vars == <<fileVars, procVars, centralVars, ghostVars>>

Lives(p) == pc[p] # "idle"
IsAgent(p) == command[p] \in {"start", "restart"}
Running(p) == pc[p] \in {"loop", "token", "settings", "submit", "write",
                         "sync", "rename"}

Init ==
    /\ \/ configFile = None /\ credential = None /\ identities = 0
       \/ configFile = [id |-> 1, seq |-> 1] /\ credential = 1
          /\ identities = 1
    /\ BufferInit
    /\ pidFile = None /\ stopFile = None
    /\ pc = [p \in Pids |-> "idle"]
    /\ command = [p \in Pids |-> "stop"]
    /\ run = [p \in Pids |-> 0]
    /\ config = [p \in Pids |-> NewConfig]
    /\ target = [p \in Pids |-> None]
    /\ batch = [p \in Pids |-> None]
    /\ closing = [p \in Pids |-> FALSE]
    /\ runs = 0
    /\ revoked = {} /\ stored = {} /\ issued = {} /\ returned = {} /\ lost = {}
    /\ faultsLeft = MaxFaults

Goto(p, place) == pc' = [pc EXCEPT ![p] = place]

(* The process ends, and with it what it has in memory.                    *)
Exit(p) == Goto(p, "idle")
-----------------------------------------------------------------------------
(***************************************************************************)
(* A command begins.                                                       *)
(***************************************************************************)

(* An operator, or the service manager, runs a command: beside other       *)
(* processes only if c is in Beside and the agents among them have         *)
(* started.  init is for a host that has no configuration.                 *)
Spawn(p, c) ==
    /\ ~ Lives(p) /\ runs < MaxCommands
    /\ \A q \in Pids :
          Lives(q) => c \in Beside /\ (IsAgent(q) => Running(q))
    /\ c = "init" <=> configFile = None
    /\ runs' = runs + 1
    /\ Goto(p, IF c = "init" THEN "token" ELSE "load")
    /\ command' = [command EXCEPT ![p] = c]
    /\ run' = [run EXCEPT ![p] = runs + 1]
    /\ config' = [config EXCEPT ![p] = NewConfig]
    /\ target' = [target EXCEPT ![p] = None]
    /\ batch' = [batch EXCEPT ![p] = None]
    /\ closing' = [closing EXCEPT ![p] = FALSE]
    /\ UNCHANGED <<fileVars, centralVars, issued, returned, lost,
                   faultsLeft>>

(* AgentConfig.load reads the settings...                                  *)
LoadSettings(p) ==
    /\ pc[p] = "load"
    /\ config' = [config EXCEPT ![p] = Config(configFile, None)]
    /\ Goto(p, "load token")
    /\ UNCHANGED <<fileVars, command, run, target, batch, closing,
                   centralVars, ghostVars>>

(* What a command does after _load; start and restart need an identity,    *)
(* and status opens the buffer only of a registered sensor.                *)
First(c, loaded) ==
    CASE c = "register" -> "enroll"
      [] c = "stop" -> "read pid"
      [] c = "restart" -> IF HasIdentity(loaded) THEN "read pid" ELSE "idle"
      [] OTHER -> IF HasIdentity(loaded) THEN "open" ELSE "idle"

(* ... and the token.                                                      *)
LoadToken(p) ==
    /\ pc[p] = "load token"
    /\ config' = [config EXCEPT ![p].token = credential]
    /\ Goto(p, First(command[p], config'[p]))
    /\ UNCHANGED <<fileVars, command, run, target, batch, closing,
                   centralVars, ghostVars>>

(* save, for every command that saves.                                     *)
SaveToken(p) ==
    /\ pc[p] = "token"
    /\ SaveCredential(config[p])
    /\ Goto(p, "settings")
    /\ UNCHANGED <<bufferVars, pidFile, stopFile, command, run, config,
                   target, batch, closing, centralVars, ghostVars>>

SaveFile(p) ==
    /\ pc[p] = "settings"
    /\ SaveSettings(config[p])
    /\ Goto(p, IF IsAgent(p) THEN "submit" ELSE "idle")
    /\ issued' = issued \cup {b \in {batch[p]} : IsAgent(p)}
    /\ UNCHANGED <<bufferVars, pidFile, stopFile, command, run, config,
                   target, batch, closing, centralVars, runs, returned, lost,
                   faultsLeft>>

(* register: the central service grants the next identity, or the command  *)
(* fails.                                                                  *)
Enroll(p) ==
    /\ pc[p] = "enroll"
    /\ \/ /\ identities < MaxIdentities
          /\ identities' = identities + 1
          /\ config' = [config EXCEPT ![p] = WithIdentity(@, identities + 1)]
          /\ Goto(p, "token")
       \/ Exit(p) /\ UNCHANGED <<config, identities>>
    /\ UNCHANGED <<fileVars, command, run, target, batch, closing, revoked,
                   stored, ghostVars>>
-----------------------------------------------------------------------------
(***************************************************************************)
(* stop and restart: stop_pid.                                             *)
(***************************************************************************)

(* What follows stop_pid: the stop command ends, restart runs an agent     *)
(* with the configuration it has loaded before.                            *)
AfterStop(p) == Goto(p, IF command[p] = "restart" THEN "open" ELSE "idle")

(* The pid file is missing, or names a process.                            *)
ReadPid(p) ==
    /\ pc[p] = "read pid"
    /\ target' = [target EXCEPT ![p] = pidFile]
    /\ IF pidFile = None THEN AfterStop(p)
       ELSE Goto(p, IF Lives(pidFile) THEN "request" ELSE "remove pid")
    /\ UNCHANGED <<fileVars, command, run, config, batch, closing,
                   centralVars, ghostVars>>

(* _write_stop_request.                                                    *)
WriteRequest(p) ==
    /\ pc[p] = "request"
    /\ stopFile' = target[p]
    /\ Goto(p, "wait")
    /\ UNCHANGED <<configVars, bufferVars, pidFile, command, run, config,
                   target, batch, closing, centralVars, ghostVars>>

(* Mutant: the command waits for the request to be taken away.             *)
StopSeenEarly(p) ==
    /\ pc[p] = "wait"
    /\ stopFile' = None
    /\ Goto(p, "remove pid")
    /\ UNCHANGED <<configVars, bufferVars, pidFile, command, run, config,
                   target, batch, closing, centralVars, ghostVars>>

(* The process of that pid has gone; the request is withdrawn.             *)
StopSeen(p) ==
    /\ pc[p] = "wait" /\ ~ Lives(target[p])
    /\ stopFile' = None
    /\ Goto(p, "remove pid")
    /\ UNCHANGED <<configVars, bufferVars, pidFile, command, run, config,
                   target, batch, closing, centralVars, ghostVars>>

(* The deadline has passed: RuntimeError, which ends the command.          *)
StopTimesOut(p) ==
    /\ pc[p] = "wait" /\ Lives(target[p])
    /\ stopFile' = None
    /\ Exit(p)
    /\ UNCHANGED <<configVars, bufferVars, pidFile, command, run, config,
                   target, batch, closing, centralVars, ghostVars>>

(* The pid file is removed, whatever it says by now.                       *)
RemovePid(p) ==
    /\ pc[p] = "remove pid"
    /\ pidFile' = None
    /\ AfterStop(p)
    /\ UNCHANGED <<configVars, bufferVars, stopFile, command, run, config,
                   target, batch, closing, centralVars, ghostVars>>
-----------------------------------------------------------------------------
(***************************************************************************)
(* start, and what restart goes on with: SensorAgent and its run.          *)
(***************************************************************************)

(* SensorAgent.__init__ opens the buffer; status does no more.             *)
Open(p) ==
    /\ pc[p] = "open"
    /\ QuarantinePartial
    /\ Goto(p, IF IsAgent(p) THEN "clear" ELSE "idle")
    /\ UNCHANGED <<configVars, pidFile, stopFile, command, run, config,
                   target, batch, closing, centralVars, ghostVars>>

(* run removes an old stop request, or fails in validate_startup.          *)
ClearRequest(p) ==
    /\ pc[p] = "clear"
    /\ \/ stopFile' = None /\ Goto(p, "write pid")
       \/ Exit(p) /\ UNCHANGED stopFile
    /\ UNCHANGED <<configVars, bufferVars, pidFile, command, run, config,
                   target, batch, closing, centralVars, ghostVars>>

WritePid(p) ==
    /\ pc[p] = "write pid"
    /\ pidFile' = p
    /\ Goto(p, "loop")
    /\ UNCHANGED <<configVars, bufferVars, stopFile, command, run, config,
                   target, batch, closing, centralVars, ghostVars>>

(* The loop finds a stop request with its own pid.  What run's finally     *)
(* drains and flushes is built and flushed by the actions of the loop.     *)
LeaveLoop(p) ==
    /\ pc[p] = "loop" /\ ~ closing[p]
    /\ stopFile = p
    /\ closing' = [closing EXCEPT ![p] = TRUE]
    /\ UNCHANGED <<fileVars, pc, command, run, config, target, batch,
                   centralVars, ghostVars>>

(* request_shutdown, when the process gets a signal.                       *)
Signalled(p) ==
    /\ pc[p] = "loop" /\ ~ closing[p]
    /\ closing' = [closing EXCEPT ![p] = TRUE]
    /\ UNCHANGED <<fileVars, pc, command, run, config, target, batch,
                   centralVars, ghostVars>>

(* TelemetryBatcher.build, in the loop or in the last drain: the batch has *)
(* the next number, and _persist_next_sequence saves the one after it.     *)
Build(p) ==
    LET b == [id |-> config[p].id, seq |-> config[p].seq, run |-> run[p]]
    IN  /\ pc[p] = "loop" /\ b.seq <= MaxSequence
        /\ batch' = [batch EXCEPT ![p] = b]
        /\ config' = [config EXCEPT ![p].seq = b.seq + 1]
        /\ Goto(p, "token")
        /\ UNCHANGED <<fileVars, command, run, target, closing, centralVars,
                       ghostVars>>

LastStored(id) ==
    LET ns == {b.seq : b \in {s \in stored : s.id = id}}
    IN  IF ns = {} THEN 0 ELSE CHOOSE n \in ns : \A m \in ns : m <= n

Authenticates(p, b) == config[p].token = b.id /\ b.id \notin revoked
Accepts(p, b) == Authenticates(p, b) /\ b.seq > LastStored(b.id)
KnowsAgain(p, b) ==
    Authenticates(p, b) /\ b \in stored /\ b.seq = LastStored(b.id)

(* submit_states: the batch is answered at once if no batch is queued.     *)
SubmitAcknowledged(p) ==
    /\ pc[p] = "submit" /\ Queue = {}
    /\ Accepts(p, batch[p])
    /\ stored' = stored \cup {batch[p]}
    /\ Goto(p, "loop")
    /\ UNCHANGED <<fileVars, command, run, config, target, batch, closing,
                   identities, revoked, ghostVars>>

SubmitRefused(p) ==
    /\ pc[p] = "submit" /\ Queue = {}
    /\ ~ Accepts(p, batch[p])
    /\ Reject(batch[p], FALSE)
    /\ Goto(p, "loop")
    /\ UNCHANGED <<configVars, pidFile, stopFile, command, run, config,
                   target, batch, closing, centralVars, ghostVars>>

(* Batches are queued, or no answer came, whether the service stored the   *)
(* batch or not.                                                           *)
SubmitUnanswered(p) ==
    /\ pc[p] = "submit"
    /\ \/ UNCHANGED stored
       \/ /\ Queue = {} /\ Accepts(p, batch[p])
          /\ stored' = stored \cup {batch[p]}
    /\ Goto(p, "write")
    /\ UNCHANGED <<fileVars, command, run, config, target, batch, closing,
                   identities, revoked, ghostVars>>

(* enqueue: a file of that number is taken for the batch.                  *)
EnqueueBegins(p) ==
    /\ pc[p] = "write"
    /\ IF Holds(batch[p].seq)
       THEN Goto(p, "loop") /\ UNCHANGED bufferVars
       ELSE Goto(p, "sync") /\ BeginWrite(batch[p])
    /\ UNCHANGED <<configVars, pidFile, stopFile, command, run, config,
                   target, batch, closing, centralVars, ghostVars>>

(* The states go back to the queue in memory, without the number.          *)
EnqueueRefused(p) ==
    /\ pc[p] = "write"
    /\ BufferFull(batch[p])
    /\ returned' = returned \cup {batch[p]}
    /\ Goto(p, "loop")
    /\ UNCHANGED <<fileVars, command, run, config, target, batch, closing,
                   centralVars, runs, issued, lost, faultsLeft>>

EnqueueSyncs(p) ==
    /\ pc[p] = "sync"
    /\ FinishWrite(batch[p])
    /\ Goto(p, "rename")
    /\ UNCHANGED <<configVars, pidFile, stopFile, command, run, config,
                   target, batch, closing, centralVars, ghostVars>>

(* The rename succeeds, or fails for a file that was taken away.           *)
EnqueueRenames(p) ==
    /\ pc[p] = "rename"
    /\ \/ Rename(batch[p])
       \/ RenameFails(batch[p]) /\ UNCHANGED bufferVars
    /\ Goto(p, "loop")
    /\ UNCHANGED <<configVars, pidFile, stopFile, command, run, config,
                   target, batch, closing, centralVars, ghostVars>>

(* flush_buffer, one batch: acknowledged, refused for good, or stored      *)
(* without an answer; it stays when the service cannot be reached.         *)
FlushAcknowledged(p) ==
    /\ pc[p] = "loop"
    /\ \E b \in issued :
          /\ Peeks(b) /\ (Accepts(p, b) \/ KnowsAgain(p, b))
          /\ stored' = stored \cup {b}
          /\ Pop(b)
    /\ UNCHANGED <<configVars, pidFile, stopFile, procVars, identities,
                   revoked, ghostVars>>

FlushUnanswered(p) ==
    /\ pc[p] = "loop"
    /\ \E b \in issued :
          /\ Peeks(b) /\ Accepts(p, b)
          /\ stored' = stored \cup {b}
    /\ UNCHANGED <<fileVars, procVars, identities, revoked, ghostVars>>

FlushRefused(p) ==
    /\ pc[p] = "loop"
    /\ \E b \in issued :
          /\ Peeks(b) /\ ~ Accepts(p, b) /\ ~ KnowsAgain(p, b)
          /\ Reject(b, TRUE)
    /\ UNCHANGED <<configVars, pidFile, stopFile, procVars, centralVars,
                   ghostVars>>

FlushCorrupt(p) ==
    /\ pc[p] = "loop"
    /\ QuarantineCorrupt
    /\ UNCHANGED <<configVars, pidFile, stopFile, procVars, centralVars,
                   ghostVars>>

(* run's finally: both rendezvous files are removed, whoever wrote them.   *)
RemoveOwnPid(p) ==
    /\ pc[p] = "loop" /\ closing[p]
    /\ pidFile' = None
    /\ Goto(p, "remove request")
    /\ UNCHANGED <<configVars, bufferVars, stopFile, command, run, config,
                   target, batch, closing, centralVars, ghostVars>>

RemoveRequest(p) ==
    /\ pc[p] = "remove request"
    /\ stopFile' = None
    /\ Exit(p)
    /\ UNCHANGED <<configVars, bufferVars, pidFile, command, run, config,
                   target, batch, closing, centralVars, ghostVars>>
-----------------------------------------------------------------------------
(***************************************************************************)
(* Faults, and the specification.                                          *)
(***************************************************************************)

Fault == faultsLeft > 0 /\ faultsLeft' = faultsLeft - 1

(* An agent is killed: a batch that is in no file yet is lost.             *)
Killed(p) ==
    /\ IsAgent(p) /\ Running(p)
    /\ Fault
    /\ lost' = lost \cup {b \in {batch[p]} : pc[p] \in {"submit", "write"}}
    /\ Exit(p)
    /\ UNCHANGED <<fileVars, command, run, config, target, batch, closing,
                   centralVars, runs, issued, returned>>

Rot ==
    /\ Fault
    /\ FileRots
    /\ UNCHANGED <<configVars, pidFile, stopFile, procVars, centralVars,
                   runs, issued, returned, lost>>

(* At the central service a sensor is disabled or gets a new credential,   *)
(* which nobody has entered here.                                          *)
Revoke ==
    /\ Fault
    /\ \E id \in (1 .. identities) \ revoked : revoked' = revoked \cup {id}
    /\ UNCHANGED <<fileVars, procVars, identities, stored, runs, issued,
                   returned, lost>>

Next ==
    \/ \E p \in Pids :
          \/ \E c \in Commands : Spawn(p, c)
          \/ LoadSettings(p) \/ LoadToken(p) \/ SaveToken(p) \/ SaveFile(p)
          \/ Enroll(p)
          \/ ReadPid(p) \/ WriteRequest(p) \/ StopSeen(p) \/ StopTimesOut(p)
          \/ RemovePid(p)
          \/ Open(p) \/ ClearRequest(p) \/ WritePid(p) \/ LeaveLoop(p)
          \/ Signalled(p) \/ Build(p)
          \/ SubmitAcknowledged(p) \/ SubmitRefused(p) \/ SubmitUnanswered(p)
          \/ EnqueueBegins(p) \/ EnqueueRefused(p) \/ EnqueueSyncs(p)
          \/ EnqueueRenames(p)
          \/ FlushAcknowledged(p) \/ FlushUnanswered(p) \/ FlushRefused(p)
          \/ FlushCorrupt(p)
          \/ RemoveOwnPid(p) \/ RemoveRequest(p)
          \/ Killed(p)
    \/ Rot \/ Revoke

HostSpec == Init /\ [][Next]_vars
-----------------------------------------------------------------------------
(***************************************************************************)
(* Properties.                                                             *)
(***************************************************************************)

(* An agent numbers its batches once: no two batches of one sensor carry   *)
(* the same number, whatever commands, kills and restarts lie between them *)
(* (client.py:177, cli.py:158).                                            *)
NumberedOnce ==
    \A b, c \in issued : b.id = c.id /\ b.seq = c.seq => b = c

Submitting(p) == pc[p] \in {"submit", "write"}

(* A batch that has a number is stored, on the disk, on its way, counted   *)
(* as evicted, recorded as rejected, sent back, or was in the memory of an *)
(* agent that was killed: it never vanishes between the agent, the disk    *)
(* and the commands beside it (buffer.py:100, buffer.py:130).              *)
NothingVanishes ==
    \A b \in issued :
        \/ b \in stored \cup evicted \cup rejects \cup returned \cup lost
        \/ \E f \in disk : f.batch = b
        \/ \E p \in Pids : Submitting(p) /\ batch[p] = b

(* stop finds the agent: as long as an agent runs, the pid file names it,  *)
(* whatever commands removed or rewrote the file before (client.py:605).   *)
ReachableAgent ==
    \A p \in Pids : IsAgent(p) /\ Running(p) => pidFile = p
==============================================================================
