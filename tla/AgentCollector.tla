--------------------------- MODULE AgentCollector ---------------------------
(***************************************************************************)
(* The collector of the remote agent (agent/collector.py): it keeps the    *)
(* flows of each ten-second window that completed, and when a flow         *)
(* completes in a later window it emits one state for every window before  *)
(* that one, empty windows included, through the callback on_state.        *)
(*                                                                         *)
(* A window is its slot.  Flow completions carry packet capture times,     *)
(* which do not go back.  What on_state does with a state is left to the   *)
(* module that composes the collector with the agent's queue: EmitState is *)
(* an emission it accepts, EmissionRefused one it answers with False.      *)
(***************************************************************************)
EXTENDS StateBuffer

CONSTANTS
    RestartGap        \* slots between an agent's last flow and its successor's first

ASSUME CollectorAssumption == RestartGap \in Nat

VARIABLES
    clock,            \* the newest window a flow has completed in
    windows,          \* _windows: the windows whose flows are retained
    emitting,         \* the slots the running _emit_due or flush still emits
    lastWindow,       \* _last_window; before the first emission, the slot
                      \* before the first one the agent can see
    fresh,            \* _last_window is None
    stopping          \* the agent has left its loop: flush was called

collectorVars == <<clock, windows, emitting, lastWindow, fresh, stopping>>

CollectorInit ==
    /\ clock = 1
    /\ windows = {} /\ emitting = {}
    /\ lastWindow = 0 /\ fresh = TRUE
    /\ stopping = FALSE

(* Mutant: windows without flows are left out.                             *)
FilledOnlyBusy(ws) == ws

(* _complete_state_index: of each day, every window from its first to its  *)
(* last.                                                                   *)
Filled(ws) ==
    UNION {p[1] .. p[2] : p \in {q \in ws \X ws : DayOf(q[1]) = DayOf(q[2])}}

(* Mutant: the window that is still open is emitted, too.                  *)
DueWithOpen(ws, slot) == {s \in Filled(ws) : s <= slot}

(* The states _emit_due emits: those before the window of the completion.  *)
Due(ws, slot) == {s \in Filled(ws) : s < slot}

(* ingest_event, when flows complete in the window slot: _accept_flows     *)
(* retains them and _emit_due starts on every state before it.             *)
AcceptFlows(slot) ==
    /\ ~ stopping /\ emitting = {}
    /\ clock' = slot
    /\ windows' = windows \cup {slot}
    /\ emitting' = Due(windows', slot)
    /\ UNCHANGED <<lastWindow, fresh, stopping>>

(* What the collector may expect of the packet times: they do not go back, *)
(* and those of a new process come after its predecessor's.                *)
CompleteFlow(slot) ==
    /\ slot >= clock /\ slot > lastWindow
    /\ AcceptFlows(slot)

(* _emit_state, on_state accepts.  After the last one _emit_due drops the  *)
(* windows before the newest, and flush drops them all.                    *)
EmitState(slot) ==
    /\ slot \in emitting
    /\ \A s \in emitting : slot <= s
    /\ lastWindow' = slot /\ fresh' = FALSE
    /\ emitting' = emitting \ {slot}
    /\ windows' = IF emitting' = {}
                  THEN {w \in windows : ~ stopping /\ w >= clock}
                  ELSE windows
    /\ UNCHANGED <<clock, stopping>>

(* Mutant: the windows before the newest are dropped all the same.         *)
RefusedAndForgotten ==
    /\ emitting # {}
    /\ emitting' = {}
    /\ windows' = {w \in windows : w >= clock}
    /\ UNCHANGED <<clock, lastWindow, fresh, stopping>>

(* _emit_state, on_state answers False: the exception leaves _emit_due (or *)
(* flush) before any window is dropped.                                    *)
EmissionRefused ==
    /\ emitting # {}
    /\ emitting' = {}
    /\ UNCHANGED <<clock, windows, lastWindow, fresh, stopping>>

(* flush: the flows that are still active end at their last packets, in    *)
(* the windows active, and all that is retained is emitted, apart from     *)
(* what was emitted before.                                                *)
Flush(active) ==
    /\ ~ stopping /\ emitting = {}
    /\ stopping' = TRUE
    /\ windows' = windows \cup active
    /\ clock' \in active \cup {clock}
    /\ \A slot \in active \cup {clock} : slot <= clock'
    /\ emitting' = {s \in Filled(windows') : s > lastWindow}
    /\ UNCHANGED <<lastWindow, fresh>>

(* A new process has seen no packet from before it was started. *)
BeginFlush(active) ==
    /\ fresh => \A slot \in active : slot > lastWindow
    /\ Flush(active)

(* The windows in which flows are active at a stop: flows are kept for     *)
(* several windows after their last packet.                                *)
ActiveWindows == SUBSET (1 .. MaxSlot)

(* Before the first emission of a new process. *)
NothingEmitted == clock + RestartGap - 1

(* A new agent process, with a new collector. *)
NewCollector ==
    /\ windows' = {} /\ emitting' = {}
    /\ lastWindow' = NothingEmitted /\ fresh' = TRUE
    /\ stopping' = FALSE
    /\ UNCHANGED clock

(* The collector with a queue that never fills, and with one that may.     *)
PromptNext ==
    \/ \E slot \in 1 .. MaxSlot : CompleteFlow(slot)
    \/ \E slot \in emitting : EmitState(slot)
    \/ \E active \in ActiveWindows : BeginFlush(active)
    \/ NewCollector

CollectorNext == PromptNext \/ EmissionRefused

PromptSpec == CollectorInit /\ [][PromptNext]_collectorVars
CollectorSpec == CollectorInit /\ [][CollectorNext]_collectorVars
-----------------------------------------------------------------------------
CollectorTypeOK ==
    /\ clock \in Slots \ {0}
    /\ windows \subseteq Slots /\ emitting \subseteq Slots
    /\ lastWindow \in Slots
    /\ fresh \in BOOLEAN /\ stopping \in BOOLEAN

(* One agent run emits every window of a day, from its first one on, once  *)
(* and in order, through late completions, silent windows and midnight     *)
(* ("cannot reopen an already-emitted historical window",                  *)
(* agent/collector.py).  One exception is the code's: a flush may find     *)
(* flows whose last packet came before midnight, and emits their windows   *)
(* without filling in those between them and the last emitted one.         *)
EmitsConsecutively ==
    [][lastWindow' # lastWindow /\ ~ fresh' =>
          \/ lastWindow' = lastWindow + 1
          \/ /\ lastWindow' > lastWindow
             /\ \/ fresh
                \/ DayOf(lastWindow') # DayOf(lastWindow)
                \/ stopping /\ DayOf(lastWindow') # DayOf(clock)]_collectorVars

(* A refused emission leaves no window out: what comes next begins again   *)
(* with the oldest window that is retained, and the windows already        *)
(* emitted among them come twice.  The exceptions are those above.         *)
LeavesNoGap ==
    [][lastWindow' > lastWindow + 1 /\ ~ fresh' =>
          \/ fresh
          \/ DayOf(lastWindow') # DayOf(lastWindow)
          \/ stopping /\ DayOf(lastWindow') # DayOf(clock)]_collectorVars

(* The next state to emit is always newer than the last one.               *)
NeverReopens == \A slot \in emitting : slot > lastWindow
=============================================================================
