----------------------------- MODULE LiveCapture -----------------------------
(***************************************************************************)
(* The central service's live capture: the adapter (telemetry/live.py),    *)
(* its sniffer threads, the live store, and the event loop that starts and *)
(* stops the capture (api/app.py; both handlers are coroutines without an  *)
(* await, so one runs at a time).                                          *)
(*                                                                         *)
(* The adapter's lock is only ever held across a step by stop(), which     *)
(* waits for the sniffer thread to end while holding it.  The sniffer is   *)
(* scapy's AsyncSniffer: a thread that calls _on_packet for every packet,  *)
(* and whose stop() asks the thread to end and joins it.                   *)
(***************************************************************************)
EXTENDS LiveStore, FiniteSets

CONSTANTS
    Sniffers,         \* sniffer threads, one for each start that succeeds
    MaxSessions,      \* bound: how often the capture is started
    MaxCompleted      \* bound: flows that one packet completes

ASSUME CaptureAssumption ==
    /\ MaxSessions \in Nat /\ MaxCompleted \in Nat
    /\ None \notin Sniffers

VARIABLES
    clock,            \* the slot of the packets on the wire
    adapterState,     \* _state
    handle,           \* _sniffer
    joining,          \* the sniffer stop() waits for, holding the lock
    thread,           \* what each sniffer thread is doing
    packet,           \* the slot of the packet it is at
    work,             \* the sequences it still has to send to the inference,
                      \* all of them formed in one session
    asked,            \* the sniffers that were asked to end
    orphans           \* history: sniffers whose stop() raised

snifferVars == <<thread, packet, work>>
adapterVars == <<clock, adapterState, handle, joining, asked, orphans>>
liveVars == <<storeVars, snifferVars, adapterVars>>

LiveInit ==
    /\ StoreInit
    /\ clock = 0 /\ adapterState = "stopped"
    /\ handle = None /\ joining = None
    /\ thread = [s \in Sniffers |-> "unborn"]
    /\ packet = [s \in Sniffers |-> 0]
    /\ work = [s \in Sniffers |-> [session |-> 0, slots |-> <<>>]]
    /\ asked = {} /\ orphans = {}

Tick ==
    /\ clock < MaxSlot
    /\ clock' = clock + 1
    /\ UNCHANGED <<storeVars, snifferVars, adapterState, handle, joining,
                   asked, orphans>>

(***************************************************************************)
(* A sniffer thread.                                                       *)
(***************************************************************************)
LockFree == joining = None

Goes(s, from, to) ==
    /\ thread[s] = from
    /\ thread' = [thread EXCEPT ![s] = to]
    /\ UNCHANGED adapterVars

(* The thread has opened its socket, and can be asked to end from here on. *)
Opens(s) ==
    /\ Goes(s, "starting", "capturing")
    /\ UNCHANGED <<storeVars, packet, work>>

Dispatch(s) ==
    /\ s \notin asked
    /\ Goes(s, "capturing", "counting")
    /\ packet' = [packet EXCEPT ![s] = clock]
    /\ UNCHANGED <<storeVars, work>>

(* The first lock of _on_packet: a parse error is counted and that is all, *)
(* an event is counted and goes on to the store.                           *)
CountPacket(s) ==
    /\ LockFree
    /\ Goes(s, "counting", "delivering") \/ Goes(s, "counting", "capturing")
    /\ UNCHANGED <<storeVars, packet, work>>

(* Flows that the packet may complete: each began with an earlier packet   *)
(* of this session, or with this one.                                      *)
Completable(s) ==
    LET since == IF firstEvent = None THEN packet[s] ELSE firstEvent
    IN  UNION {[1 .. n -> since .. packet[s]] : n \in 0 .. MaxCompleted}

(* ingest_event, while it holds the lock of the store. *)
Ingest(s, completed) ==
    LET sequences == Sequences(completed)
    IN  /\ Goes(s, "delivering",
                IF sequences = <<>> THEN "capturing" ELSE "inferring")
        /\ Accept(packet[s], completed)
        /\ IF sequences = <<>> THEN UNCHANGED work
           ELSE work' = [work EXCEPT ![s] =
                            [session |-> session, slots |-> sequences]]
        /\ UNCHANGED packet

Reject(s) ==
    /\ Goes(s, "delivering", "dropping")
    /\ Refuse(packet[s])
    /\ UNCHANGED <<packet, work>>

(* The lock that counts the drop. *)
CountDrop(s) ==
    /\ LockFree
    /\ Goes(s, "dropping", "capturing")
    /\ UNCHANGED <<storeVars, packet, work>>

(* The inference of the next sequence ends, with an answer or an error. *)
Infer(s) ==
    /\ Goes(s, "inferring",
            IF Len(work[s].slots) = 1 THEN "capturing" ELSE "inferring")
    /\ \/ StoreForecast([session |-> work[s].session,
                         slot    |-> Head(work[s].slots)])
       \/ UNCHANGED storeVars
    /\ work' = [work EXCEPT ![s].slots = Tail(@)]
    /\ UNCHANGED packet

EndAsAsked(s) ==
    /\ s \in asked
    /\ Goes(s, "capturing", "ended")
    /\ UNCHANGED <<storeVars, packet, work>>

(* The capture fails in the thread (the socket cannot be opened, or the    *)
(* interface goes down): it ends, and nobody is told.                      *)
Die(s) ==
    /\ Goes(s, "starting", "ended") \/ Goes(s, "capturing", "ended")
    /\ UNCHANGED <<storeVars, packet, work>>

(***************************************************************************)
(* The event loop.  It does nothing else while it is in stop().            *)
(***************************************************************************)

(* Mutant: a second start is not recognised.                               *)
AlwaysStarts == LockFree

MayStart == LockFree /\ adapterState # "running"

(* start_telemetry: the new session first, then adapter.start.  (When the  *)
(* capture runs already, nothing happens.)                                 *)
Start(s) ==
    /\ MayStart /\ session < MaxSessions
    /\ thread[s] = "unborn"
    /\ StartSession
    /\ thread' = [thread EXCEPT ![s] = "starting"]
    /\ handle' = s
    /\ adapterState' = "running"
    /\ UNCHANGED <<clock, joining, packet, work, asked, orphans>>

(* adapter.start raises: no permission, another error of the backend, or   *)
(* an interface that is not there, which leaves the state as it was.       *)
StartFails ==
    /\ MayStart /\ session < MaxSessions
    /\ StartSession
    /\ adapterState' \in {adapterState, "error"}
    /\ UNCHANGED <<snifferVars, clock, handle, joining, asked, orphans>>

(* stop with no sniffer. *)
StopNothing ==
    /\ LockFree /\ handle = None
    /\ adapterState' = "stopped"
    /\ UNCHANGED <<storeVars, snifferVars, clock, handle, joining, asked,
                   orphans>>

(* stop, up to the join in sniffer.stop(). *)
StopAndJoin ==
    /\ LockFree /\ handle # None
    /\ thread[handle] \notin {"starting", "ended"}
    /\ joining' = handle /\ handle' = None
    /\ asked' = asked \cup {handle}
    /\ UNCHANGED <<storeVars, snifferVars, clock, adapterState, orphans>>

(* sniffer.stop() raises: the thread has died, or is too young to be asked *)
(* and goes on.  Its handle is gone already.                               *)
StopFails ==
    /\ LockFree /\ handle # None
    /\ thread[handle] \in {"starting", "ended"}
    /\ handle' = None
    /\ orphans' = orphans \cup {handle}
    /\ adapterState' = "error"
    /\ UNCHANGED <<storeVars, snifferVars, clock, joining, asked>>

(* Mutant: stop asks and does not wait.                                    *)
JoinsAtOnce == joining # None

JoinEnds == joining # None /\ thread[joining] = "ended"

Stopped ==
    /\ JoinEnds
    /\ joining' = None
    /\ adapterState' = "stopped"
    /\ UNCHANGED <<storeVars, snifferVars, clock, handle, asked, orphans>>

SnifferStep(s) ==
    \/ Opens(s) \/ CountPacket(s)
    \/ \E completed \in Completable(s) : Ingest(s, completed)
    \/ Reject(s) \/ CountDrop(s)
    \/ Infer(s)
    \/ EndAsAsked(s)

LiveNext ==
    \/ Tick
    \/ \E s \in Sniffers :
           Dispatch(s) \/ SnifferStep(s) \/ Die(s) \/ Start(s)
    \/ StartFails \/ StopNothing \/ StopAndJoin \/ StopFails \/ Stopped

LiveSpec == LiveInit /\ [][LiveNext]_liveVars

(* A thread that can go on does, and so does the event loop when its join  *)
(* returns.  Packets, starts and stops come when they come.                *)
LiveFairness ==
    /\ \A s \in Sniffers : WF_liveVars(SnifferStep(s))
    /\ WF_liveVars(Stopped)

FairLiveSpec == LiveSpec /\ LiveFairness
-----------------------------------------------------------------------------
(* Mutant: a forecast is ready whatever the capture does.                  *)
OfferedRegardless ==
    [status   |-> IF lastForecast = None THEN "WAITING_FOR_LIVE_HISTORY"
                  ELSE "READY",
     session  |-> session,
     forecast |-> lastForecast]

(* live_status, another handler of the event loop: what GET /live says of  *)
(* the forecast, with the state of the adapter and the current session.    *)
Offered ==
    [status   |-> IF lastForecast = None THEN "WAITING_FOR_LIVE_HISTORY"
                  ELSE IF adapterState = "running" THEN "READY"
                  ELSE "STALE_NOT_LIVE",
     session  |-> session,
     forecast |-> lastForecast]
-----------------------------------------------------------------------------
LiveTypeOK ==
    /\ StoreTypeOK
    /\ clock \in Slots
    /\ adapterState \in {"stopped", "running", "error"}
    /\ handle \in Sniffers \cup {None} /\ joining \in Sniffers \cup {None}
    /\ thread \in [Sniffers -> {"unborn", "starting", "capturing", "counting",
                                "delivering", "dropping", "inferring", "ended"}]
    /\ packet \in [Sniffers -> Slots]
    /\ work \in [Sniffers -> [session : Nat, slots : Seq(Slots)]]
    /\ asked \subseteq Sniffers /\ orphans \subseteq Sniffers

(* "Histories cannot cross live capture sessions", and the old forecast "is *)
(* never returned as the current forecast" (LIVE_RUNTIME_DATAFLOW.md,      *)
(* FRONTEND_RUNTIME_STATE_MODEL.md).  The inference runs outside the lock  *)
(* and its answer names no session: only the join in stop() keeps an       *)
(* answer from coming after the next session has begun.  So it holds while *)
(* no stop() has failed.                                                   *)
SessionsStayApart ==
    orphans = {} =>
        /\ lastForecast # None => lastForecast.session = session
        /\ staleForecast # None =>
               staleForecast.session = staleSession /\ staleSession < session

(* The sequences still to be sent to the inference: in order of time, none *)
(* ending after the latest state, all after the one forecast last.         *)
Follows(slots, after, last) ==
    \A i \in 1 .. Len(slots) :
        /\ last # None /\ slots[i] <= last
        /\ after # None => after < slots[i]
        /\ \A j \in 1 .. i - 1 : slots[j] < slots[i]

LastForecastSlot == IF lastForecast = None THEN None ELSE lastForecast.slot

(* Forecasts are made in the order of the history, each once, although the *)
(* lock is released between a refresh and its inferences: what is still to *)
(* be inferred comes after the forecast on offer and not after the history *)
(* on display.  So no answer is thrown away as late (IsCurrent) while no   *)
(* stop() has failed.                                                      *)
ForecastFollowsHistory ==
    orphans = {} =>
        /\ lastForecast # None =>
               latestState # None /\ lastForecast.slot <= latestState
        /\ \A s \in Sniffers : thread[s] = "inferring" =>
               Follows(work[s].slots, LastForecastSlot, latestState)

(* "histories cannot cross live capture sessions"                          *)
(* (LIVE_RUNTIME_DATAFLOW.md:41-43): the forecast on offer was made of     *)
(* states of the current session, also after a stop() that failed.         *)
HistoriesStayInSession ==
    lastForecast # None => lastForecast.session = session

(* Where GET /live offers a forecast as ready (never inside stop(), which  *)
(* holds the event loop), the adapter holds a sniffer that it can stop,    *)
(* and, while no stop() has failed, the forecast is of the session whose   *)
(* id the answer carries: "a current forecast exists for a running live    *)
(* session" (FRONTEND_RUNTIME_STATE_MODEL.md:23).                          *)
ReadyIsLive ==
    joining = None /\ Offered.status = "READY" =>
        /\ handle # None
        /\ orphans = {} => Offered.forecast.session = Offered.session

(* One capture at a time: every thread that still runs is the one the      *)
(* adapter can stop, or is being stopped, or its stop() has failed.        *)
OneSniffer ==
    \A s \in Sniffers :
        thread[s] \notin {"unborn", "ended"} =>
            s = handle \/ s = joining \/ s \in orphans

(* stop() returns ("The foreground process handles SIGTERM and SIGINT,     *)
(* stops capture, ...", AGENT_INSTALLATION.md).                            *)
StopReturns == joining # None ~> joining = None
==============================================================================
