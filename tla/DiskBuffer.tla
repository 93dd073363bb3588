----------------------------- MODULE DiskBuffer -----------------------------
(***************************************************************************)
(* The directory of the agent's disk buffer (agent/buffer.py) as several   *)
(* processes of one host see it: each of them may hold a DiskTelemetry-    *)
(* Buffer of its own on it, and the lock of that object keeps out only the *)
(* threads of its process.                                                 *)
(*                                                                         *)
(* A file keeps its content when it is renamed, and a process that writes  *)
(* it goes on writing it wherever it is: "temp" is the name .batch-*,      *)
(* "queue" the name batch-<sequence>.json, "quarantine" the directory of   *)
(* that name.                                                              *)
(*                                                                         *)
(* The buffer is limited by the number of batches here; its limit in bytes *)
(* (buffer.py:146) is in TelemetryDelivery.                                *)
(***************************************************************************)
EXTENDS Integers, FiniteSets

CONSTANTS
    MaxBatches,       \* config.max_buffer_batches
    OverflowPolicies  \* config.buffer_overflow_policy, of one start or another

ASSUME BufferAssumption ==
    /\ MaxBatches \in Nat \ {0}
    /\ OverflowPolicies \subseteq {"DROP_OLDEST", "REJECT_NEW"}

VARIABLES
    disk,             \* the files: [batch, place, whole]
    evicted,          \* batches counted in _dropped_batches
    rejects           \* batches with a record under rejected/

bufferVars == <<disk, evicted, rejects>>

File(b, place, whole) == [batch |-> b, place |-> place, whole |-> whole]

BufferInit == disk = {} /\ evicted = {} /\ rejects = {}

(* _files: the queue in file name order, here by its sequence numbers.     *)
Queue == {f \in disk : f.place = "queue"}

Holds(seq) == \E f \in Queue : f.batch.seq = seq

Oldest == CHOOSE f \in Queue : \A g \in Queue : f.batch.seq <= g.batch.seq

(* Mutant: partial files are deleted.                                      *)
DeletePartial ==
    /\ disk' = {f \in disk : f.place # "temp"}
    /\ UNCHANGED <<evicted, rejects>>

(* _quarantine_partial_files, when a process opens the buffer: every       *)
(* temporary file goes to the quarantine, whoever is writing it.           *)
QuarantinePartial ==
    /\ disk' = {IF f.place = "temp" THEN [f EXCEPT !.place = "quarantine"]
                ELSE f : f \in disk}
    /\ UNCHANGED <<evicted, rejects>>

(* What _evict_oldest removes until one more batch fits.                   *)
Surplus ==
    {f \in Queue :
        Cardinality({g \in Queue : g.batch.seq >= f.batch.seq}) >= MaxBatches}

(* enqueue opens the temporary file, once there is room for it.            *)
BeginWrite(b) ==
    /\ ~ Holds(b.seq)
    /\ Surplus = {} \/ "DROP_OLDEST" \in OverflowPolicies
    /\ disk' = (disk \ Surplus) \cup {File(b, "temp", FALSE)}
    /\ evicted' = evicted \cup {f.batch : f \in Surplus}
    /\ UNCHANGED rejects

(* enqueue raises BufferFullError.                                         *)
BufferFull(b) ==
    /\ ~ Holds(b.seq)
    /\ Surplus # {} /\ "REJECT_NEW" \in OverflowPolicies

(* enqueue writes, flushes and syncs the file.                             *)
FinishWrite(b) ==
    /\ disk' = {IF f.batch = b THEN [f EXCEPT !.whole = TRUE] ELSE f :
                   f \in disk}
    /\ UNCHANGED <<evicted, rejects>>

(* enqueue's replace: the file takes the place of one of its name, or is   *)
(* not there any more.                                                     *)
Rename(b) ==
    /\ \E f \in disk : f.batch = b /\ f.place = "temp"
    /\ disk' = {IF f.batch = b THEN [f EXCEPT !.place = "queue"] ELSE f :
                   f \in {g \in disk : ~ (g.place = "queue"
                                          /\ g.batch.seq = b.seq)}}
    /\ UNCHANGED <<evicted, rejects>>

RenameFails(b) == ~ \E f \in disk : f.batch = b /\ f.place = "temp"

(* peek: the oldest file, if it can be decoded; if not, it goes to the     *)
(* quarantine and the next one is tried.                                   *)
Peeks(b) == Queue # {} /\ Oldest.whole /\ b = Oldest.batch

QuarantineCorrupt ==
    /\ Queue # {} /\ ~ Oldest.whole
    /\ disk' = (disk \ {Oldest})
                  \cup {File(Oldest.batch, "quarantine", FALSE)}
    /\ UNCHANGED <<evicted, rejects>>

(* The medium damages a file that was written.                             *)
FileRots ==
    /\ \E f \in Queue :
          /\ f.whole
          /\ disk' = (disk \ {f}) \cup {[f EXCEPT !.whole = FALSE]}
    /\ UNCHANGED <<evicted, rejects>>

(* pop, of an acknowledged batch.                                          *)
Pop(b) ==
    /\ disk' = {f \in disk : ~ (f.place = "queue" /\ f.batch.seq = b.seq)}
    /\ UNCHANGED <<evicted, rejects>>

(* reject, whose record takes the place of one of the same number, and     *)
(* pop if the batch was queued.                                            *)
Reject(b, queued) ==
    /\ rejects' = {r \in rejects : r.seq # b.seq} \cup {b}
    /\ disk' = {f \in disk : ~ (queued /\ f.place = "queue"
                                /\ f.batch.seq = b.seq)}
    /\ UNCHANGED evicted
==============================================================================
