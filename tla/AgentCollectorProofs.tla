------------------------- MODULE AgentCollectorProofs -------------------------
(***************************************************************************)
(* Proofs about AgentCollector, for every length of day and restart gap,   *)
(* and about the flow table and the capture thread that feed it            *)
(* (AgentPipeline), for any flows, timeouts, table size and length of a    *)
(* window: flows do not outlive their timeouts, the table's counts add up, *)
(* and the packets give the collector the completions that it assumes.     *)
(***************************************************************************)
EXTENDS AgentPipeline, StateBufferProofs, FiniteSetTheorems

LEMMA FilledFacts ==
    ASSUME NEW ws \in SUBSET Slots
    PROVE  /\ Filled(ws) \subseteq Slots
           /\ \A s \in Filled(ws) :
                  \E a, b \in ws : /\ DayOf(a) = DayOf(b) /\ s \in a .. b
                                   /\ DayOf(s) = DayOf(a)
           /\ \A a, b \in ws :
                  DayOf(a) = DayOf(b) => a .. b \subseteq Filled(ws)
<1>1. \A s \in Filled(ws) :
          \E a, b \in ws : DayOf(a) = DayOf(b) /\ s \in a .. b
  BY DEF Filled
<1>2. \A a, b \in ws : DayOf(a) = DayOf(b) => a .. b \subseteq Filled(ws)
  <2> TAKE a, b \in ws
  <2> HAVE DayOf(a) = DayOf(b)
  <2>1. <<a, b>> \in {q \in ws \X ws : DayOf(q[1]) = DayOf(q[2])}
    OBVIOUS
  <2> QED
    BY <2>1 DEF Filled
<1> QED
  BY <1>1, <1>2, SameDay

(* Every step keeps the types, also a refused emission.                    *)
LEMMA CollectorTypeStep ==
    ASSUME CollectorTypeOK, [CollectorNext]_collectorVars
    PROVE  CollectorTypeOK'
<1> USE DEF CollectorTypeOK
<1>1. ASSUME NEW slot \in 1 .. MaxSlot, CompleteFlow(slot)
      PROVE  CollectorTypeOK'
  <2>1. slot \in Slots \ {0}
    BY BufferAssumption DEF Slots
  <2>2. windows' \in SUBSET Slots
    BY <1>1, <2>1 DEF CompleteFlow, AcceptFlows, Due
  <2> QED
    BY <1>1, <2>1, <2>2, FilledFacts DEF CompleteFlow, AcceptFlows, Due
<1>2. ASSUME NEW slot \in emitting, EmitState(slot)
      PROVE  CollectorTypeOK'
  BY <1>2 DEF EmitState
<1>3. ASSUME NEW active \in ActiveWindows, BeginFlush(active)
      PROVE  CollectorTypeOK'
  <2>1. active \subseteq Slots \ {0}
    BY BufferAssumption DEF ActiveWindows, Slots
  <2>2. windows' \in SUBSET Slots
    BY <1>3, <2>1 DEF BeginFlush, Flush
  <2>3. emitting' \subseteq Slots
    BY <1>3, <2>2, FilledFacts DEF BeginFlush, Flush
  <2> QED
    BY <1>3, <2>1, <2>2, <2>3, Zenon DEF BeginFlush, Flush
<1>4. CASE NewCollector
  <2>1. fresh' \in BOOLEAN /\ stopping' \in BOOLEAN
    BY <1>4, Zenon DEF NewCollector, NothingEmitted
  <2>2. lastWindow' \in Slots /\ clock' \in Slots \ {0}
    BY <1>4, CollectorAssumption DEF NewCollector, NothingEmitted, Slots
  <2> QED
    BY <1>4, <2>1, <2>2 DEF NewCollector, NothingEmitted
<1>5. CASE EmissionRefused
  BY <1>5 DEF EmissionRefused
<1>6. CASE UNCHANGED collectorVars
  BY <1>6 DEF collectorVars
<1> QED
  BY <1>1, <1>2, <1>3, <1>4, <1>5, <1>6 DEF CollectorNext, PromptNext

LEMMA CollectorTypeInit == CollectorInit => CollectorTypeOK
<1> SUFFICES ASSUME CollectorInit PROVE CollectorTypeOK
  OBVIOUS
<1>1. fresh \in BOOLEAN /\ stopping \in BOOLEAN
  BY Zenon DEF CollectorInit
<1> QED
  BY <1>1 DEF CollectorInit, CollectorTypeOK, Slots

(* Types, whatever the queue refuses. *)
THEOREM CollectorTypeCorrect == CollectorSpec => []CollectorTypeOK
BY CollectorTypeInit, CollectorTypeStep, PTL DEF CollectorSpec
-----------------------------------------------------------------------------
(***************************************************************************)
(* A queue that never fills: the order of emission.                        *)
(***************************************************************************)

(* The window to emit after lastWindow, if it is slot. *)
MayFollow(slot) ==
    \/ fresh
    \/ slot = lastWindow + 1
    \/ DayOf(slot) # DayOf(lastWindow)
    \/ stopping /\ DayOf(slot) # DayOf(clock)

(* Between emissions only the newest window is retained, and it may        *)
(* follow; before any flow the run has emitted nothing.                    *)
IdleOK ==
    ~ stopping /\ emitting = {} =>
        /\ windows \subseteq {clock}
        /\ windows = {} => fresh
        /\ windows # {} => lastWindow < clock /\ MayFollow(clock)

(* What is being emitted is newer than what was, up to the newest window,  *)
(* and falls into days: each slot follows another, or begins its day.      *)
EmittingOK ==
    /\ \A s \in emitting : lastWindow < s /\ s <= clock
    /\ \A s \in emitting :
           \/ s - 1 \in emitting
           \/ /\ \A t \in emitting : t < s => DayOf(t) # DayOf(s)
              /\ MayFollow(s)
    /\ ~ stopping /\ emitting # {} =>
           /\ clock \in windows /\ \A w \in windows : w <= clock
           /\ \A s \in emitting : s < clock
           /\ clock - 1 \in emitting
                \/ \A s \in emitting : DayOf(s) # DayOf(clock)

PromptInv == CollectorTypeOK /\ IdleOK /\ EmittingOK

LEMMA CompleteFlowStep ==
    ASSUME PromptInv, NEW slot \in 1 .. MaxSlot, CompleteFlow(slot)
    PROVE  IdleOK' /\ EmittingOK'
<1>1. slot \in Slots /\ clock \in Slots /\ lastWindow \in Slots
      /\ slot >= clock /\ slot > lastWindow
  BY BufferAssumption DEF CompleteFlow, AcceptFlows, Due, PromptInv, CollectorTypeOK, Slots
<1>2. windows \subseteq {clock} /\ (windows = {} => fresh)
      /\ (windows # {} => lastWindow < clock /\ MayFollow(clock))
      /\ ~ stopping
  BY DEF PromptInv, IdleOK, CompleteFlow, AcceptFlows, Due
<1>3. clock' = slot /\ UNCHANGED <<lastWindow, fresh, stopping>>
      /\ windows' = windows \cup {slot} /\ windows' \in SUBSET Slots
      /\ emitting' = {s \in Filled(windows') : s < slot}
  BY <1>1 DEF CompleteFlow, AcceptFlows, Due, PromptInv, CollectorTypeOK
<1>4. \A s \in emitting' :
          /\ s \in Slots /\ s < slot
          /\ \E a, b \in windows' : DayOf(a) = DayOf(b) /\ s \in a .. b
  <2>1. \A s \in Filled(windows') :
            s \in Slots
            /\ \E a, b \in windows' : DayOf(a) = DayOf(b) /\ s \in a .. b
    BY <1>3, FilledFacts
  <2> QED
    BY <1>3, <2>1
<1>5. CASE windows = {} \/ slot = clock
  <2>1. windows' = {slot}
    BY <1>2, <1>3, <1>5
  <2>2. emitting' = {}
    <3> SUFFICES ASSUME NEW s \in emitting'
                 PROVE  FALSE
      OBVIOUS
    <3>1. s \in slot .. slot /\ s < slot
      BY <1>4, <2>1
    <3> QED
      BY <1>1, <3>1 DEF Slots
  <2>3. fresh' \/ windows # {}
    BY <1>2, <1>3, <1>5, Zenon
  <2>4. windows # {} => slot = clock /\ MayFollow(clock)
    BY <1>2, <1>5
  <2>5. fresh' \/ slot = lastWindow + 1 \/ DayOf(slot) # DayOf(lastWindow)
    BY <1>2, <1>3, <2>3, <2>4, Zenon DEF MayFollow
  <2> QED
    BY <1>1, <1>3, <2>1, <2>2, <2>5 DEF IdleOK, EmittingOK, MayFollow
<1>6. CASE windows = {clock} /\ clock < slot
  <2>1. windows' = {clock, slot}
    BY <1>3, <1>6
  <2>2. \A s \in emitting' : s = clock => MayFollow(s)'
    BY <1>2, <1>3, <1>6, Zenon DEF MayFollow
  <2>3. \A s \in emitting' : s \in Slots /\ s < slot /\ clock <= s
    <3> SUFFICES ASSUME NEW s \in emitting'
                 PROVE  s \in Slots /\ s < slot /\ clock <= s
      OBVIOUS
    <3>1. PICK a, b \in {clock, slot} : s \in a .. b
      BY <1>4, <2>1
    <3> QED
      BY <1>1, <1>4, <3>1 DEF Slots
  <2>4. clock \in emitting'
    <3>1. clock .. clock \subseteq Filled(windows')
      BY <1>3, <2>1, FilledFacts
    <3>2. clock \in clock .. clock
      BY <1>1 DEF Slots
    <3> QED
      BY <1>3, <1>6, <3>1, <3>2
  <2>5. \A s \in emitting' : lastWindow' < s /\ s <= clock'
    BY <1>1, <1>2, <1>3, <1>6, <2>3 DEF Slots
  <2>6. CASE DayOf(clock) = DayOf(slot)
    <3>1. clock .. slot \subseteq Filled(windows')
      BY <1>3, <2>1, <2>6, FilledFacts
    <3>2. ASSUME NEW s \in clock .. slot - 1
          PROVE  s \in emitting'
      <4>1. s \in clock .. slot /\ s < slot
        BY <1>1 DEF Slots
      <4> QED
        BY <1>3, <3>1, <4>1
    <3>3. \A s \in emitting' : s = clock \/ s - 1 \in emitting'
      <4> SUFFICES ASSUME NEW s \in emitting', s # clock
                   PROVE  s - 1 \in clock .. slot - 1
        BY <3>2
      <4> QED
        BY <1>1, <2>3 DEF Slots
    <3>4. \A t \in emitting' : ~ (t < clock)
      BY <1>1, <2>3 DEF Slots
    <3>5. clock' - 1 \in emitting'
      <4>1. slot - 1 \in clock .. slot - 1
        BY <1>1, <1>6 DEF Slots
      <4> QED
        BY <1>3, <3>2, <4>1
    <3>6. clock' \in windows' /\ \A w \in windows' : w <= clock'
      BY <1>1, <1>3, <1>6, <2>1 DEF Slots
    <3>7. \A s \in emitting' :
              \/ s - 1 \in emitting'
              \/ /\ \A t \in emitting' : t < s => DayOf(t) # DayOf(s)
                 /\ MayFollow(s)'
      BY <2>2, <3>3, <3>4
    <3>8. \A s \in emitting' : s < clock'
      BY <1>3, <2>3
    <3> QED
      BY <2>4, <2>5, <3>5, <3>6, <3>7, <3>8 DEF IdleOK, EmittingOK
  <2>7. CASE DayOf(clock) # DayOf(slot)
    <3>1. \A s \in emitting' : s = clock
      <4> SUFFICES ASSUME NEW s \in emitting'
                   PROVE  s = clock
        OBVIOUS
      <4>1. PICK a, b \in {clock, slot} : DayOf(a) = DayOf(b) /\ s \in a .. b
        BY <1>4, <2>1
      <4>2. a = b
        BY <2>7, <4>1
      <4> QED
        BY <1>1, <1>4, <4>1, <4>2 DEF Slots
    <3>2. \A s, t \in emitting' : ~ (t < s)
      BY <1>1, <3>1 DEF Slots
    <3>3. clock' \in windows' /\ \A w \in windows' : w <= clock'
      BY <1>1, <1>3, <1>6, <2>1 DEF Slots
    <3>4. \A s \in emitting' : s < clock' /\ DayOf(s) # DayOf(clock')
      BY <1>3, <2>3, <2>7, <3>1
    <3>5. \A s \in emitting' : MayFollow(s)'
      BY <2>2, <3>1
    <3> QED
      BY <2>4, <2>5, <3>2, <3>3, <3>4, <3>5 DEF IdleOK, EmittingOK
  <2> QED
    BY <2>6, <2>7
<1>7. windows = {} \/ windows = {clock}
  BY <1>2
<1>8. slot = clock \/ clock < slot
  BY <1>1 DEF Slots
<1> QED
  BY <1>5, <1>6, <1>7, <1>8

LEMMA EmitStateStep ==
    ASSUME PromptInv, NEW slot \in emitting, EmitState(slot)
    PROVE  IdleOK' /\ EmittingOK'
<1>1. /\ emitting \subseteq Slots /\ slot \in Slots /\ clock \in Slots
      /\ lastWindow \in Slots /\ windows \subseteq Slots
      /\ \A s \in emitting : slot <= s
      /\ lastWindow' = slot /\ emitting' = emitting \ {slot}
      /\ ~ fresh' /\ UNCHANGED <<clock, stopping>>
  BY DEF PromptInv, CollectorTypeOK, EmitState
<1>2. \A s \in emitting' : lastWindow' < s /\ s <= clock'
  BY <1>1 DEF PromptInv, EmittingOK, Slots
<1>3. ASSUME NEW s \in emitting'
      PROVE  \/ s - 1 \in emitting'
             \/ /\ \A t \in emitting' : t < s => DayOf(t) # DayOf(s)
                /\ MayFollow(s)'
  <2>1. s \in emitting /\ slot < s
    BY <1>1, <1>3 DEF Slots
  <2>2. CASE s - 1 \in emitting
    <3>1. s - 1 = slot => MayFollow(s)'
      BY <1>1, <2>1 DEF MayFollow, Slots
    <3>2. s - 1 = slot => \A t \in emitting' : ~ (t < s)
      BY <1>1, <2>1 DEF Slots
    <3> QED
      BY <1>1, <2>2, <3>1, <3>2
  <2>3. CASE \A t \in emitting : t < s => DayOf(t) # DayOf(s)
    <3>1. DayOf(slot) # DayOf(s)
      BY <2>1, <2>3
    <3> QED
      BY <1>1, <2>3, <3>1 DEF MayFollow
  <2> QED
    BY <2>1, <2>2, <2>3 DEF PromptInv, EmittingOK
<1>4. ASSUME ~ stopping
      PROVE  /\ clock \in windows'
             /\ \A w \in windows' : w <= clock
             /\ emitting' = {} => windows' = {clock}
             /\ \A s \in emitting' : s < clock
  <2>1. clock \in windows /\ \A w \in windows : w <= clock
    BY <1>4 DEF PromptInv, EmittingOK
  <2>2. \A s \in emitting' : s < clock
    BY <1>1, <1>4 DEF PromptInv, EmittingOK
  <2>3. windows' = IF emitting' = {} THEN {w \in windows : w >= clock}
                                     ELSE windows
    BY <1>4 DEF EmitState
  <2>4. \A w \in windows : w >= clock => w = clock
    BY <1>1, <2>1 DEF Slots
  <2>5. clock >= clock
    BY <1>1 DEF Slots
  <2> QED
    BY <2>1, <2>2, <2>3, <2>4, <2>5
<1>5. ASSUME ~ stopping
      PROVE  \/ clock - 1 \in emitting' \/ slot = clock - 1
             \/ /\ \A s \in emitting' : DayOf(s) # DayOf(clock)
                /\ DayOf(slot) # DayOf(clock)
  BY <1>1, <1>5 DEF PromptInv, EmittingOK
<1>6. ~ stopping => slot < clock
  BY DEF PromptInv, EmittingOK
<1>7. EmittingOK'
  <2>1. ASSUME ~ stopping, emitting' # {}
        PROVE  \/ clock - 1 \in emitting'
               \/ \A s \in emitting' : DayOf(s) # DayOf(clock)
    BY <1>1, <1>2, <1>4, <1>5, <2>1 DEF Slots
  <2> QED
    BY <1>1, <1>2, <1>3, <1>4, <2>1 DEF EmittingOK
<1>8. IdleOK'
  <2> SUFFICES ASSUME ~ stopping, emitting' = {}
               PROVE  /\ windows' = {clock}
                      /\ slot < clock
                      /\ slot = clock - 1 \/ DayOf(slot) # DayOf(clock)
    BY <1>1 DEF IdleOK, MayFollow, Slots
  <2> QED
    BY <1>4, <1>5, <1>6
<1> QED
  BY <1>7, <1>8

LEMMA BeginFlushStep ==
    ASSUME PromptInv, NEW active \in ActiveWindows, BeginFlush(active)
    PROVE  IdleOK' /\ EmittingOK'
<1>0. active \subseteq Slots
  BY BufferAssumption DEF ActiveWindows, Slots
<1>1. /\ clock \in Slots /\ lastWindow \in Slots
      /\ stopping' /\ UNCHANGED <<lastWindow, fresh>>
      /\ clock' \in Slots /\ clock <= clock'
      /\ windows' = windows \cup active /\ windows' \in SUBSET Slots
      /\ emitting' = {s \in Filled(windows') : s > lastWindow}
  <2>1. clock \in Slots /\ lastWindow \in Slots /\ windows \subseteq Slots
    BY DEF PromptInv, CollectorTypeOK
  <2>2. clock' \in Slots /\ clock <= clock'
    BY <1>0, <2>1 DEF BeginFlush, Flush
  <2>3. stopping' /\ UNCHANGED <<lastWindow, fresh>>
    BY Zenon DEF BeginFlush, Flush
  <2> QED
    BY <1>0, <2>1, <2>2, <2>3 DEF BeginFlush, Flush
<1>2. windows \subseteq {clock} /\ (windows = {} => fresh)
      /\ (windows # {} => lastWindow < clock /\ MayFollow(clock))
      /\ ~ stopping
  BY DEF PromptInv, IdleOK, BeginFlush, Flush
<1>3. \A w \in windows' : w <= clock'
  BY <1>1, <1>2 DEF BeginFlush, Flush
<1>4. \A s \in emitting' : s \in Slots /\ lastWindow < s /\ s <= clock'
  <2> SUFFICES ASSUME NEW s \in emitting'
               PROVE  s \in Slots /\ lastWindow < s /\ s <= clock'
    OBVIOUS
  <2>1. PICK a, b \in windows' : s \in a .. b
    BY <1>1, FilledFacts
  <2>2. a \in Slots /\ b \in Slots /\ b <= clock'
    BY <1>1, <1>3
  <2> QED
    BY <1>1, <2>1, <2>2 DEF Slots
<1>5. ASSUME NEW s \in emitting', s - 1 \notin emitting', s # lastWindow + 1
      PROVE  /\ \A t \in emitting' : t < s => DayOf(t) # DayOf(s)
             /\ MayFollow(s)'
  <2>1. s \in Slots /\ s - 1 > lastWindow
    <3>1. s \in Slots /\ lastWindow < s
      BY <1>4
    <3> QED
      BY <1>1, <1>5, <3>1 DEF Slots
  <2>2. s - 1 \notin Filled(windows')
    BY <1>1, <1>5, <2>1
  <2>3. ASSUME NEW w \in windows', w < s, DayOf(w) = DayOf(s)
        PROVE  FALSE
    <3>1. PICK a, b \in windows' :
              DayOf(a) = DayOf(b) /\ s \in a .. b /\ DayOf(s) = DayOf(a)
      BY <1>1, FilledFacts
    <3>2. w .. b \subseteq Filled(windows')
      BY <1>1, <2>3, <3>1, FilledFacts
    <3>3. s - 1 \in w .. b
      BY <1>1, <2>1, <2>3, <3>1 DEF Slots
    <3> QED
      BY <2>2, <3>2, <3>3
  <2>4. ASSUME NEW t \in emitting', t < s, DayOf(t) = DayOf(s)
        PROVE  FALSE
    <3>1. PICK a, b \in windows' : t \in a .. b /\ DayOf(t) = DayOf(a)
      BY <1>1, FilledFacts
    <3>2. a \in Slots /\ a < s
      BY <1>1, <1>4, <2>1, <2>4, <3>1 DEF Slots
    <3> QED
      BY <2>3, <2>4, <3>1, <3>2
  <2>5. ASSUME ~ fresh, DayOf(s) = DayOf(lastWindow), DayOf(s) = DayOf(clock')
        PROVE  FALSE
    <3>1. clock \in windows' /\ lastWindow < clock /\ MayFollow(clock)
      BY <1>1, <1>2, <2>5
    <3>2. DayOf(clock) = DayOf(s)
      <4>1. DayOf(lastWindow) <= DayOf(clock) /\ DayOf(clock) <= DayOf(clock')
        BY <1>1, <3>1, DayMonotone DEF Slots
      <4> QED
        BY <1>1, <2>5, <4>1, DayType
    <3>3. clock = lastWindow + 1
      BY <1>2, <2>5, <3>1, <3>2 DEF MayFollow
    <3>4. clock < s
      BY <1>1, <2>1, <3>3 DEF Slots
    <3> QED
      BY <2>3, <3>1, <3>2, <3>4
  <2>6. MayFollow(s)'
    BY <1>1, <2>5, Zenon DEF MayFollow
  <2> QED
    BY <2>4, <2>6
<1>6. ASSUME NEW s \in emitting', s = lastWindow + 1
      PROVE  /\ \A t \in emitting' : t < s => DayOf(t) # DayOf(s)
             /\ MayFollow(s)'
  BY <1>1, <1>4, <1>6 DEF MayFollow, Slots
<1>7. \A s \in emitting' :
          \/ s - 1 \in emitting'
          \/ /\ \A t \in emitting' : t < s => DayOf(t) # DayOf(s)
             /\ MayFollow(s)'
  BY <1>5, <1>6
<1> QED
  BY <1>1, <1>4, <1>7 DEF IdleOK, EmittingOK

LEMMA PromptStep ==
    ASSUME PromptInv, [PromptNext]_collectorVars
    PROVE  PromptInv'
<1>1. CollectorTypeOK'
  BY CollectorTypeStep DEF PromptInv, CollectorNext
<1>2. CASE NewCollector
  <2>1. windows' = {} /\ emitting' = {}
    BY <1>2 DEF NewCollector, NothingEmitted
  <2>2. fresh'
    BY <1>2, Zenon DEF NewCollector, NothingEmitted
  <2> QED
    BY <1>1, <2>1, <2>2 DEF PromptInv, IdleOK, EmittingOK
<1>3. CASE UNCHANGED collectorVars
  BY <1>3 DEF collectorVars, PromptInv, CollectorTypeOK, IdleOK, EmittingOK,
              MayFollow
<1>4. IdleOK' /\ EmittingOK'
  BY <1>2, <1>3, CompleteFlowStep, EmitStateStep, BeginFlushStep
     DEF PromptNext, PromptInv
<1> QED
  BY <1>1, <1>4 DEF PromptInv

LEMMA PromptInit == CollectorInit => PromptInv
BY CollectorTypeInit DEF CollectorInit, PromptInv, IdleOK, EmittingOK

LEMMA PromptInvariant == PromptSpec => []PromptInv
BY PromptInit, PromptStep, PTL DEF PromptSpec

(* While the queue has room no state is emitted that is not newer than     *)
(* every state before it.                                                  *)
THEOREM PromptNeverReopens == PromptSpec => []NeverReopens
<1>1. PromptInv => NeverReopens
  BY DEF PromptInv, EmittingOK, NeverReopens, CollectorTypeOK, Slots
<1> QED
  BY <1>1, PromptInvariant, PTL

(* While the queue has room an agent run emits every window of a day once, *)
(* in order and without a gap, except in the flush just after midnight.    *)
THEOREM PromptEmitsConsecutively == PromptSpec => EmitsConsecutively
<1> DEFINE Consecutive ==
        lastWindow' # lastWindow /\ ~ fresh' =>
          \/ lastWindow' = lastWindow + 1
          \/ /\ lastWindow' > lastWindow
             /\ \/ fresh
                \/ DayOf(lastWindow') # DayOf(lastWindow)
                \/ stopping /\ DayOf(lastWindow') # DayOf(clock)
<1>1. PromptInv /\ [PromptNext]_collectorVars => [Consecutive]_collectorVars
  <2> SUFFICES ASSUME PromptInv, PromptNext
               PROVE  Consecutive
    OBVIOUS
  <2>1. ASSUME NEW slot \in emitting, EmitState(slot)
        PROVE  Consecutive
    <3>1. lastWindow < slot /\ slot - 1 \notin emitting
      BY <2>1 DEF EmitState, PromptInv, EmittingOK, CollectorTypeOK, Slots
    <3>2. MayFollow(slot)
      BY <3>1 DEF PromptInv, EmittingOK
    <3>3. lastWindow' = slot /\ lastWindow \in Slots /\ slot \in Slots
      BY <2>1 DEF EmitState, PromptInv, CollectorTypeOK
    <3> QED
      BY <3>1, <3>2, <3>3 DEF MayFollow, Slots
  <2>2. ASSUME ~ \E slot \in emitting : EmitState(slot)
        PROVE  lastWindow' = lastWindow \/ fresh'
    BY <2>2
       DEF PromptNext, CompleteFlow, AcceptFlows, Due, BeginFlush, Flush, NewCollector,
           NothingEmitted
  <2> QED
    BY <2>1, <2>2
<1> QED
  BY <1>1, PromptInvariant, PTL DEF PromptSpec, EmitsConsecutively

-----------------------------------------------------------------------------
(***************************************************************************)
(* A queue that may refuse an emission halfway: windows come again, and    *)
(* none is left out.                                                       *)
(***************************************************************************)

(* The window to emit after lastWindow, if it is slot: a repeated one, or  *)
(* one that may follow.                                                    *)
MayCome(slot) == slot <= lastWindow + 1 \/ MayFollow(slot)

(* The retained windows reach back to the one after the last emission, or  *)
(* are all of another day.                                                 *)
Anchored ==
    \/ fresh
    \/ \E w \in windows : DayOf(w) = DayOf(lastWindow) /\ w <= lastWindow + 1
    \/ \A w \in windows : DayOf(w) # DayOf(lastWindow)

RetainedOK ==
    ~ stopping =>
        /\ \A w \in windows : w <= clock
        /\ windows # {} \/ ~ fresh => clock \in windows
        /\ ~ fresh => lastWindow < clock
        /\ Anchored

(* EmittingOK without its first part: what is emitted may be old.          *)
AgainOK ==
    /\ \A s \in emitting :
           \/ s - 1 \in emitting
           \/ /\ \A t \in emitting : t < s => DayOf(t) # DayOf(s)
              /\ MayCome(s)
    /\ ~ stopping => \A s \in emitting : s < clock /\ s \in Filled(windows)
    /\ ~ stopping /\ emitting # {} =>
           \/ clock - 1 \in emitting
           \/ \A s \in emitting : DayOf(s) # DayOf(clock)

GapInv == CollectorTypeOK /\ RetainedOK /\ AgainOK

(* Where the filled windows begin, no window of the day is earlier, and    *)
(* the place itself is a window.                                           *)
LEMMA BeginOfRun ==
    ASSUME NEW ws \in SUBSET Slots, NEW s \in Filled(ws), s - 1 \notin Filled(ws)
    PROVE  /\ s \in ws
           /\ \A w \in ws : DayOf(w) = DayOf(s) => s <= w
<1>1. s \in Slots
  BY FilledFacts
<1>2. PICK a, b \in ws : DayOf(a) = DayOf(b) /\ s \in a .. b
                         /\ DayOf(s) = DayOf(a)
  BY FilledFacts
<1>3. ASSUME NEW w \in ws, w < s, DayOf(w) = DayOf(s)
      PROVE  FALSE
  <2>1. w .. b \subseteq Filled(ws)
    BY <1>2, <1>3, FilledFacts
  <2>2. s - 1 \in w .. b
    BY <1>1, <1>2, <1>3 DEF Slots
  <2> QED
    BY <2>1, <2>2
<1>4. a = s
  <2>1. ~ (a < s)
    BY <1>2, <1>3
  <2> QED
    BY <1>1, <1>2, <2>1 DEF Slots
<1>5. \A w \in ws : DayOf(w) = DayOf(s) => s <= w
  BY <1>1, <1>3 DEF Slots
<1> QED
  BY <1>2, <1>4, <1>5

LEMMA CompleteFlowAgain ==
    ASSUME GapInv, NEW slot \in 1 .. MaxSlot, CompleteFlow(slot)
    PROVE  RetainedOK' /\ AgainOK'
<1>1. /\ slot \in Slots /\ clock \in Slots /\ lastWindow \in Slots
      /\ slot >= clock /\ slot > lastWindow /\ ~ stopping
      /\ windows \subseteq Slots
  BY BufferAssumption
     DEF CompleteFlow, AcceptFlows, GapInv, CollectorTypeOK, Slots
<1>2. /\ clock' = slot /\ UNCHANGED <<lastWindow, fresh, stopping>>
      /\ windows' = windows \cup {slot} /\ windows' \in SUBSET Slots
      /\ emitting' = {s \in Filled(windows') : s < slot}
  BY <1>1 DEF CompleteFlow, AcceptFlows, Due
<1>3. /\ \A w \in windows : w <= clock
      /\ ~ fresh => clock \in windows /\ lastWindow < clock
      /\ Anchored
  BY <1>1 DEF GapInv, RetainedOK
<1>4. Anchored'
  <2>1. ASSUME ~ fresh, \A w \in windows : DayOf(w) # DayOf(lastWindow)
        PROVE  DayOf(slot) # DayOf(lastWindow)
    <3>1. clock \in windows /\ lastWindow < clock
      BY <1>3, <2>1
    <3>2. DayOf(lastWindow) <= DayOf(clock) /\ DayOf(clock) <= DayOf(slot)
      BY <1>1, <3>1, DayMonotone DEF Slots
    <3>3. DayOf(clock) # DayOf(lastWindow)
      BY <2>1, <3>1
    <3> QED
      BY <1>1, <3>2, <3>3, DayType
  <2> QED
    BY <1>2, <1>3, <2>1 DEF Anchored
<1>5. RetainedOK'
  <2>1. \A w \in windows' : w <= slot
    BY <1>1, <1>2, <1>3 DEF Slots
  <2>2. slot \in windows' /\ lastWindow' < slot
    BY <1>1, <1>2
  <2> QED
    BY <1>2, <1>4, <2>1, <2>2 DEF RetainedOK
<1>6. ASSUME NEW s \in emitting', s - 1 \notin emitting'
      PROVE  /\ \A t \in emitting' : t < s => DayOf(t) # DayOf(s)
             /\ MayCome(s)'
  <2>1. s \in Filled(windows') /\ s < slot /\ s \in Slots
    BY <1>2, FilledFacts
  <2>2. s - 1 \notin Filled(windows')
    BY <1>1, <1>2, <1>6, <2>1 DEF Slots
  <2>3. s \in windows' /\ \A w \in windows' : DayOf(w) = DayOf(s) => s <= w
    BY <1>2, <2>1, <2>2, BeginOfRun
  <2>4. ASSUME NEW t \in emitting', t < s, DayOf(t) = DayOf(s)
        PROVE  FALSE
    <3>1. t \in Filled(windows')
      BY <1>2
    <3>2. PICK a, b \in windows' : t \in a .. b /\ DayOf(t) = DayOf(a)
      BY <1>2, <3>1, FilledFacts
    <3>3. a \in Slots /\ a < s
      BY <1>2, <2>1, <2>4, <3>2 DEF Slots
    <3>4. s <= a
      BY <2>3, <2>4, <3>2
    <3> QED
      BY <2>1, <3>3, <3>4 DEF Slots
  <2>5. ASSUME ~ fresh', DayOf(s) = DayOf(lastWindow')
        PROVE  s <= lastWindow' + 1
    <3>1. PICK w \in windows' : DayOf(w) = DayOf(lastWindow')
                                /\ w <= lastWindow' + 1
      BY <1>4, <2>3, <2>5 DEF Anchored
    <3>2. s <= w
      BY <2>3, <2>5, <3>1
    <3> QED
      BY <1>1, <1>2, <2>1, <3>1, <3>2 DEF Slots
  <2>6. MayCome(s)'
    BY <2>5 DEF MayCome, MayFollow
  <2> QED
    BY <2>4, <2>6
<1>7. ASSUME NEW s \in emitting', DayOf(s) = DayOf(slot)
      PROVE  slot - 1 \in emitting'
  <2>1. s \in Filled(windows') /\ s < slot /\ s \in Slots
    BY <1>2, FilledFacts
  <2>2. PICK a, b \in windows' : s \in a .. b /\ DayOf(s) = DayOf(a)
    BY <1>2, <2>1, FilledFacts
  <2>3. a .. slot \subseteq Filled(windows')
    BY <1>2, <1>7, <2>2, FilledFacts
  <2>4. slot - 1 \in a .. slot
    BY <1>1, <1>2, <2>1, <2>2 DEF Slots
  <2>5. slot - 1 \in Filled(windows') /\ slot - 1 < slot
    BY <1>1, <2>3, <2>4 DEF Slots
  <2> QED
    BY <1>2, <2>5
<1>8. AgainOK'
  <2>1. \A s \in emitting' : s < clock' /\ s \in Filled(windows')
    BY <1>2
  <2>2. clock' - 1 \in emitting' \/ \A s \in emitting' : DayOf(s) # DayOf(clock')
    BY <1>2, <1>7
  <2> QED
    BY <1>6, <2>1, <2>2 DEF AgainOK
<1> QED
  BY <1>5, <1>8

LEMMA EmitStateAgain ==
    ASSUME GapInv, NEW slot \in emitting, EmitState(slot)
    PROVE  RetainedOK' /\ AgainOK'
<1>1. /\ emitting \subseteq Slots /\ slot \in Slots /\ clock \in Slots
      /\ windows \in SUBSET Slots
      /\ \A s \in emitting : slot <= s
      /\ lastWindow' = slot /\ emitting' = emitting \ {slot}
      /\ ~ fresh' /\ UNCHANGED <<clock, stopping>>
  BY DEF GapInv, CollectorTypeOK, EmitState
<1>2. ASSUME NEW s \in emitting'
      PROVE  \/ s - 1 \in emitting'
             \/ /\ \A t \in emitting' : t < s => DayOf(t) # DayOf(s)
                /\ MayCome(s)'
  <2>1. s \in emitting /\ slot < s
    BY <1>1, <1>2 DEF Slots
  <2>2. CASE s - 1 \in emitting
    <3>1. s - 1 = slot => MayCome(s)'
      BY <1>1, <2>1 DEF MayCome, MayFollow, Slots
    <3>2. s - 1 = slot => \A t \in emitting' : ~ (t < s)
      BY <1>1, <2>1 DEF Slots
    <3> QED
      BY <1>1, <2>2, <3>1, <3>2
  <2>3. CASE \A t \in emitting : t < s => DayOf(t) # DayOf(s)
    <3>1. DayOf(slot) # DayOf(s)
      BY <2>1, <2>3
    <3> QED
      BY <1>1, <2>3, <3>1 DEF MayCome, MayFollow
  <2> QED
    BY <2>1, <2>2, <2>3 DEF GapInv, AgainOK
<1>3. ASSUME ~ stopping
      PROVE  /\ clock \in windows /\ \A w \in windows : w <= clock
             /\ slot < clock /\ slot \in Filled(windows)
             /\ \A s \in emitting : s < clock /\ s \in Filled(windows)
             /\ \/ clock - 1 \in emitting
                \/ \A s \in emitting : DayOf(s) # DayOf(clock)
             /\ windows' = IF emitting' = {} THEN {w \in windows : w >= clock}
                                             ELSE windows
  <2>1. \A s \in emitting : s < clock /\ s \in Filled(windows)
    BY <1>3 DEF GapInv, AgainOK
  <2>2. windows # {}
    BY <1>1, <2>1, FilledFacts
  <2>3. clock \in windows /\ \A w \in windows : w <= clock
    BY <1>3, <2>2 DEF GapInv, RetainedOK
  <2>4. windows' = IF emitting' = {} THEN {w \in windows : w >= clock}
                                     ELSE windows
    BY <1>3 DEF EmitState
  <2> QED
    BY <1>3, <2>1, <2>3, <2>4 DEF GapInv, AgainOK
<1>4. ASSUME ~ stopping, emitting' = {}
      PROVE  /\ windows' = {clock}
             /\ slot = clock - 1 \/ DayOf(slot) # DayOf(clock)
  <2>1. \A w \in windows : w >= clock => w = clock
    BY <1>1, <1>3, <1>4 DEF Slots
  <2>2. windows' = {clock}
    BY <1>1, <1>3, <1>4, <2>1 DEF Slots
  <2> QED
    BY <1>1, <1>3, <1>4, <2>2
<1>5. ASSUME ~ stopping
      PROVE  Anchored'
  <2>1. CASE emitting' = {}
    BY <1>1, <1>4, <1>5, <2>1 DEF Anchored, Slots
  <2>2. CASE emitting' # {}
    <3>1. PICK a \in windows : DayOf(slot) = DayOf(a) /\ a <= slot
      BY <1>1, <1>3, <1>5, FilledFacts DEF Slots
    <3>2. a <= slot + 1
      BY <1>1, <3>1 DEF Slots
    <3> QED
      BY <1>1, <1>3, <1>5, <2>2, <3>1, <3>2 DEF Anchored
  <2> QED
    BY <2>1, <2>2
<1>6. RetainedOK'
  <2> SUFFICES ASSUME ~ stopping
               PROVE  /\ \A w \in windows' : w <= clock
                      /\ clock \in windows' /\ slot < clock
                      /\ Anchored'
    BY <1>1 DEF RetainedOK
  <2>1. clock <= clock
    BY <1>1 DEF Slots
  <2> QED
    BY <1>3, <1>4, <1>5, <2>1
<1>7. ASSUME ~ stopping, emitting' # {}
      PROVE  \/ clock - 1 \in emitting'
             \/ \A s \in emitting' : DayOf(s) # DayOf(clock)
  <2>1. slot # clock - 1
    <3>1. PICK s \in emitting' : TRUE
      BY <1>7
    <3>2. slot < s /\ s < clock
      BY <1>1, <1>3, <1>7, <3>1 DEF Slots
    <3> QED
      BY <1>1, <3>1, <3>2 DEF Slots
  <2> QED
    BY <1>1, <1>3, <1>7, <2>1
<1>8. AgainOK'
  <2>1. ~ stopping' => \A s \in emitting' : s < clock' /\ s \in Filled(windows')
    BY <1>1, <1>3
  <2> QED
    BY <1>1, <1>2, <1>7, <2>1 DEF AgainOK
<1> QED
  BY <1>6, <1>8

LEMMA BeginFlushAgain ==
    ASSUME GapInv, NEW active \in ActiveWindows, BeginFlush(active)
    PROVE  RetainedOK' /\ AgainOK'
<1>0. active \subseteq Slots
  BY BufferAssumption DEF ActiveWindows, Slots
<1>1. /\ clock \in Slots /\ lastWindow \in Slots /\ ~ stopping
      /\ stopping' /\ UNCHANGED <<lastWindow, fresh>>
      /\ clock' \in Slots /\ clock <= clock'
      /\ windows' = windows \cup active /\ windows' \in SUBSET Slots
      /\ emitting' = {s \in Filled(windows') : s > lastWindow}
  <2>1. clock \in Slots /\ lastWindow \in Slots /\ windows \subseteq Slots
    BY DEF GapInv, CollectorTypeOK
  <2>2. clock' \in Slots /\ clock <= clock'
    BY <1>0, <2>1 DEF BeginFlush, Flush
  <2>3. ~ stopping /\ stopping' /\ UNCHANGED <<lastWindow, fresh>>
    BY Zenon DEF BeginFlush, Flush
  <2> QED
    BY <1>0, <2>1, <2>2, <2>3 DEF BeginFlush, Flush
<1>2. /\ ~ fresh => clock \in windows /\ lastWindow < clock
      /\ Anchored
  BY <1>1 DEF GapInv, RetainedOK
<1>3. ASSUME NEW s \in emitting', s - 1 \notin emitting'
      PROVE  /\ \A t \in emitting' : t < s => DayOf(t) # DayOf(s)
             /\ MayCome(s)'
  <2>1. s \in Filled(windows') /\ s > lastWindow /\ s \in Slots
    BY <1>1, FilledFacts
  <2>2. CASE s = lastWindow + 1
    <3>1. \A t \in emitting' : ~ (t < s)
      <4> SUFFICES ASSUME NEW t \in emitting'
                   PROVE  ~ (t < s)
        OBVIOUS
      <4>1. t \in Slots /\ t > lastWindow
        BY <1>1, FilledFacts
      <4> QED
        BY <1>1, <2>2, <4>1 DEF Slots
    <3> QED
      BY <1>1, <2>1, <2>2, <3>1 DEF MayCome, Slots
  <2>3. CASE s # lastWindow + 1
    <3>1. s - 1 \notin Filled(windows') /\ s > lastWindow + 1
      BY <1>1, <1>3, <2>1, <2>3 DEF Slots
    <3>2. s \in windows' /\ \A w \in windows' : DayOf(w) = DayOf(s) => s <= w
      BY <1>1, <2>1, <3>1, BeginOfRun
    <3>3. ASSUME NEW t \in emitting', t < s, DayOf(t) = DayOf(s)
          PROVE  FALSE
      <4>1. t \in Filled(windows')
        BY <1>1
      <4>2. PICK a, b \in windows' : t \in a .. b /\ DayOf(t) = DayOf(a)
        BY <1>1, <4>1, FilledFacts
      <4>3. a \in Slots /\ a < s
        BY <1>1, <2>1, <3>3, <4>2 DEF Slots
      <4>4. s <= a
        BY <3>2, <3>3, <4>2
      <4> QED
        BY <2>1, <4>3, <4>4 DEF Slots
    <3>4. ASSUME ~ fresh, DayOf(s) = DayOf(lastWindow), DayOf(s) = DayOf(clock')
          PROVE  FALSE
      <4>1. clock \in windows /\ lastWindow < clock
        BY <1>2, <3>4
      <4>2. DayOf(clock) = DayOf(lastWindow)
        <5>1. DayOf(lastWindow) <= DayOf(clock) /\ DayOf(clock) <= DayOf(clock')
          BY <1>1, <4>1, DayMonotone DEF Slots
        <5> QED
          BY <1>1, <3>4, <5>1, DayType
      <4>3. PICK w \in windows : DayOf(w) = DayOf(lastWindow)
                                 /\ w <= lastWindow + 1
        BY <1>2, <3>4, <4>1, <4>2 DEF Anchored
      <4>4. s <= w /\ w \in Slots
        BY <1>1, <3>2, <3>4, <4>3
      <4> QED
        BY <1>1, <2>1, <3>1, <4>3, <4>4 DEF Slots
    <3>5. MayCome(s)'
      BY <1>1, <3>4, Zenon DEF MayCome, MayFollow
    <3> QED
      BY <3>3, <3>5
  <2> QED
    BY <2>2, <2>3
<1> QED
  BY <1>1, <1>3 DEF RetainedOK, AgainOK

LEMMA GapStep ==
    ASSUME GapInv, [CollectorNext]_collectorVars
    PROVE  GapInv'
<1>1. CollectorTypeOK'
  BY CollectorTypeStep DEF GapInv
<1>2. CASE NewCollector
  <2>1. windows' = {} /\ emitting' = {}
    BY <1>2 DEF NewCollector
  <2>2. fresh'
    BY <1>2, Zenon DEF NewCollector
  <2> QED
    BY <1>1, <2>1, <2>2 DEF GapInv, RetainedOK, AgainOK, Anchored
<1>3. CASE EmissionRefused
  <2>1. emitting' = {} /\ UNCHANGED <<clock, windows, lastWindow, fresh, stopping>>
    BY <1>3 DEF EmissionRefused
  <2>2. RetainedOK'
    BY <2>1 DEF GapInv, RetainedOK, Anchored
  <2> QED
    BY <1>1, <2>1, <2>2 DEF GapInv, AgainOK
<1>4. CASE UNCHANGED collectorVars
  BY <1>4 DEF collectorVars, GapInv, CollectorTypeOK, RetainedOK, AgainOK,
              Anchored, MayCome, MayFollow, Filled
<1>5. RetainedOK' /\ AgainOK'
  BY <1>2, <1>3, <1>4, CompleteFlowAgain, EmitStateAgain, BeginFlushAgain
     DEF CollectorNext, PromptNext, GapInv
<1> QED
  BY <1>1, <1>5 DEF GapInv

LEMMA GapInit == CollectorInit => GapInv
BY CollectorTypeInit
   DEF CollectorInit, GapInv, RetainedOK, AgainOK, Anchored

(* However often the callback refuses a state, the collector leaves no     *)
(* window of a day out: collector.py drops the retained windows only after *)
(* the last state of an emission was accepted.                             *)
THEOREM CollectorLeavesNoGap == CollectorSpec => LeavesNoGap
<1> DEFINE NoGap ==
        lastWindow' > lastWindow + 1 /\ ~ fresh' =>
          \/ fresh
          \/ DayOf(lastWindow') # DayOf(lastWindow)
          \/ stopping /\ DayOf(lastWindow') # DayOf(clock)
<1>1. GapInv /\ [CollectorNext]_collectorVars => [NoGap]_collectorVars
  <2> SUFFICES ASSUME GapInv, CollectorNext
               PROVE  NoGap
    OBVIOUS
  <2>1. ASSUME NEW slot \in emitting, EmitState(slot)
        PROVE  NoGap
    <3>1. slot - 1 \notin emitting
      BY <2>1 DEF EmitState, GapInv, CollectorTypeOK, Slots
    <3>2. MayCome(slot)
      BY <3>1 DEF GapInv, AgainOK
    <3>3. lastWindow' = slot /\ lastWindow \in Slots /\ slot \in Slots
      BY <2>1 DEF EmitState, GapInv, CollectorTypeOK
    <3> QED
      BY <3>2, <3>3 DEF MayCome, MayFollow, Slots
  <2>2. ASSUME ~ \E slot \in emitting : EmitState(slot)
        PROVE  lastWindow' = lastWindow \/ fresh'
    BY <2>2
       DEF CollectorNext, PromptNext, CompleteFlow, AcceptFlows, Due, BeginFlush,
           Flush, NewCollector, NothingEmitted, EmissionRefused
  <2>3. lastWindow \in Slots
    BY DEF GapInv, CollectorTypeOK
  <2> QED
    BY <2>1, <2>2, <2>3 DEF Slots
<1>2. CollectorSpec => []GapInv
  BY GapInit, GapStep, PTL DEF CollectorSpec
<1> QED
  BY <1>1, <1>2, PTL DEF CollectorSpec, LeavesNoGap

-----------------------------------------------------------------------------
(* The flow table and the capture thread. *)

(* Each flow that a packet leaves in the table is as it was, or is the     *)
(* flow of the packet.                                                     *)
LEMMA FeedFacts ==
    ASSUME NEW key \in FlowKeys, NEW time, NEW ends \in BOOLEAN,
           Feed(key, time, ends)
    PROVE  /\ Tracked' = IF ends THEN (Tracked \ Overdue(time)) \ {key}
                         ELSE (Tracked \ Overdue(time)) \cup {key}
           /\ \A k \in Tracked' :
                  \/ /\ k \in Tracked \ Overdue(time)
                     /\ flows'[k] = flows[k]
                  \/ k = key /\ flows'[k] = Extended(key, time)
<1> DEFINE left == Tracked \ Overdue(time)
           after == left \cup {key}
           table == [k \in after |->
                        IF k = key THEN Extended(key, time) ELSE flows[k]]
<1>1. flows' = IF ends THEN [k \in after \ {key} |-> flows[k]] ELSE table
  BY DEF Feed
<1>2. CASE ends
  <2>1. flows' = [k \in after \ {key} |-> flows[k]]
    BY <1>1, <1>2
  <2> QED
    BY <1>2, <2>1 DEF Tracked
<1>3. CASE ~ ends
  <2>1. flows' = table
    BY <1>1, <1>3
  <2> QED
    BY <1>3, <2>1 DEF Tracked
<1> QED
  BY <1>2, <1>3

FlowInv ==
    /\ Tracked \subseteq FlowKeys
    /\ \A key \in Tracked : flows[key] \in Flows
    /\ lastEvent \in Nat
    /\ NoFlowOverdue

LEMMA FlowStep ==
    ASSUME FlowInv, [FlowNext]_flowVars
    PROVE  FlowInv'
<1>0. /\ Tracked \subseteq FlowKeys /\ lastEvent \in Nat
      /\ \A key \in Tracked :
             /\ flows[key] \in Flows
             /\ flows[key].first \in Nat /\ flows[key].last \in Nat
             /\ flows[key].first <= flows[key].last
             /\ flows[key].last <= lastEvent
             /\ lastEvent - flows[key].last < IdleTimeout
             /\ lastEvent - flows[key].first < ActiveTimeout
  BY DEF FlowInv, NoFlowOverdue, Flows
<1>1. ASSUME NEW time \in 0 .. MaxTime, time >= lastEvent,
             NEW k \in Tracked \ Overdue(time)
      PROVE  /\ flows[k].last <= time
             /\ time - flows[k].last < IdleTimeout
             /\ time - flows[k].first < ActiveTimeout
  <2>1. ~ TimedOut(flows[k], time)
    BY DEF Overdue
  <2> QED
    BY <1>0, <1>1, <2>1, FlowAssumption DEF TimedOut
<1>2. ASSUME NEW key \in FlowKeys, NEW time \in 0 .. MaxTime,
             NEW ends \in BOOLEAN, Feed(key, time, ends)
      PROVE  FlowInv'
  <2>1. time >= lastEvent /\ lastEvent' = time /\ time \in Nat
    BY <1>2, FlowAssumption DEF Feed
  <2>2. /\ Tracked' \subseteq FlowKeys
        /\ \A k \in Tracked' :
               \/ /\ k \in Tracked \ Overdue(time)
                  /\ flows'[k] = flows[k]
               \/ k = key /\ flows'[k] = Extended(key, time)
    BY <1>0, <1>2, FeedFacts
  <2>3. ASSUME NEW flow, flow = Extended(key, time)
        PROVE  /\ flow \in Flows /\ flow.first <= flow.last /\ flow.last = time
               /\ time - flow.first < ActiveTimeout
    <3>1. CASE key \in Tracked \ Overdue(time)
      <4>1. flow = [first |-> flows[key].first, last |-> time]
        BY <2>3, <3>1 DEF Extended
      <4> QED
        BY <1>0, <1>1, <2>1, <3>1, <4>1 DEF Flows
    <3>2. CASE key \notin Tracked \ Overdue(time)
      <4>1. flow = [first |-> time, last |-> time]
        BY <2>3, <3>2 DEF Extended
      <4> QED
        BY <2>1, <4>1, FlowAssumption DEF Flows
    <3> QED
      BY <3>1, <3>2
  <2>4. ASSUME NEW k \in Tracked'
        PROVE  /\ flows'[k] \in Flows
               /\ flows'[k].first <= flows'[k].last
               /\ flows'[k].last <= time
               /\ time - flows'[k].last < IdleTimeout
               /\ time - flows'[k].first < ActiveTimeout
    <3>1. CASE k \in Tracked \ Overdue(time) /\ flows'[k] = flows[k]
      BY <1>0, <1>1, <2>1, <3>1
    <3>2. CASE flows'[k] = Extended(key, time)
      BY <2>1, <2>3, <3>2, FlowAssumption
    <3> QED
      BY <2>2, <3>1, <3>2
  <2> QED
    BY <2>1, <2>2, <2>4 DEF FlowInv, NoFlowOverdue
<1>3. ASSUME NEW key \in FlowKeys, NEW time \in 0 .. MaxTime,
             FeedOverflows(key, time)
      PROVE  FlowInv'
  <2>1. time >= lastEvent /\ lastEvent' = time /\ time \in Nat
    BY <1>3, FlowAssumption DEF FeedOverflows
  <2>2. Tracked' = Tracked \ Overdue(time)
        /\ \A k \in Tracked' : flows'[k] = flows[k]
    BY <1>3 DEF FeedOverflows, Only, Tracked
  <2> QED
    BY <1>0, <1>1, <2>1, <2>2 DEF FlowInv, NoFlowOverdue
<1>4. CASE FlushFlows \/ NewFlowTable
  BY <1>0, <1>4 DEF FlushFlows, NewFlowTable, FlowInv, NoFlowOverdue, Tracked
<1>5. CASE UNCHANGED flowVars
  BY <1>5 DEF flowVars, FlowInv, NoFlowOverdue, Tracked
<1> QED
  BY <1>2, <1>3, <1>4, <1>5 DEF FlowNext

LEMMA FlowInitially == FlowInit => FlowInv
BY DEF FlowInit, FlowInv, NoFlowOverdue, Tracked

LEMMA FlowInvariant == FlowSpec => []FlowInv
BY FlowInitially, FlowStep, PTL DEF FlowSpec

(* The counts. *)
LEMMA CountStep ==
    ASSUME FlowInv, FlowTypeOK, StatusAddsUp, [FlowNext]_flowVars
    PROVE  FlowTypeOK' /\ StatusAddsUp'
<1>0. /\ Tracked \subseteq FlowKeys /\ IsFiniteSet(Tracked)
      /\ Cardinality(Tracked) \in Nat /\ Cardinality(Tracked) <= MaxTracked
      /\ createdCount \in Nat /\ closedCount \in Nat /\ returnedCount \in Nat
      /\ createdCount = Cardinality(Tracked) + closedCount
      /\ MaxTracked \in Nat
  <2>1. Tracked \subseteq FlowKeys /\ IsFiniteSet(Tracked)
    BY FlowAssumption, FS_Subset DEF FlowInv
  <2> QED
    BY <2>1, FS_CardinalityType, FlowAssumption DEF FlowTypeOK, StatusAddsUp
<1>1. FlowInv'
  BY FlowStep
<1>2. ASSUME NEW time
      PROVE  /\ IsFiniteSet(Tracked \ Overdue(time))
             /\ Cardinality(Overdue(time)) \in Nat
             /\ Cardinality(Tracked \ Overdue(time)) \in Nat
             /\ Cardinality(Tracked \ Overdue(time)) =
                    Cardinality(Tracked) - Cardinality(Overdue(time))
  <2>1. Overdue(time) \subseteq Tracked
    BY DEF Overdue
  <2>2. Tracked \cap Overdue(time) = Overdue(time)
    BY <2>1
  <2>3. IsFiniteSet(Overdue(time)) /\ IsFiniteSet(Tracked \ Overdue(time))
    BY <1>0, <2>1, FS_Subset
  <2>4. Cardinality(Tracked \ Overdue(time)) =
            Cardinality(Tracked) - Cardinality(Tracked \cap Overdue(time))
    BY <1>0, FS_Difference
  <2> QED
    BY <2>2, <2>3, <2>4, FS_CardinalityType
<1>3. ASSUME NEW key \in FlowKeys, NEW time \in 0 .. MaxTime,
             NEW ends \in BOOLEAN, Feed(key, time, ends)
      PROVE  FlowTypeOK' /\ StatusAddsUp'
  <2> DEFINE left == Tracked \ Overdue(time)
             c == Cardinality(left)
             o == Cardinality(Overdue(time))
  <2>1. /\ IsFiniteSet(left) /\ c \in Nat /\ o \in Nat
        /\ c = Cardinality(Tracked) - o
    BY <1>2
  <2>2. Tracked' = IF ends THEN left \ {key} ELSE left \cup {key}
    BY <1>3, FeedFacts
  <2>3. /\ createdCount' = createdCount + IF key \in left THEN 0 ELSE 1
        /\ closedCount' = closedCount + o + IF ends THEN 1 ELSE 0
        /\ returnedCount' = returnedCount + (closedCount' - closedCount)
        /\ key \in left \/ c < MaxTracked
    BY <1>3 DEF Feed, CountClosed, Fits
  <2>4. /\ Cardinality(left \cup {key}) = IF key \in left THEN c ELSE c + 1
        /\ Cardinality(left \ {key}) = IF key \in left THEN c - 1 ELSE c
    BY <2>1, FS_AddElement, FS_RemoveElement
  <2> HIDE DEF left, c, o
  <2>5. /\ Cardinality(Tracked') = IF ends
                                   THEN IF key \in left THEN c - 1 ELSE c
                                   ELSE IF key \in left THEN c ELSE c + 1
    BY <2>2, <2>4
  <2>6. c <= MaxTracked
    BY <1>0, <2>1
  <2>7. /\ createdCount' \in Nat /\ closedCount' \in Nat
        /\ returnedCount' \in Nat
        /\ Cardinality(Tracked') <= MaxTracked
        /\ createdCount' = Cardinality(Tracked') + closedCount'
    <3>1. CASE ends
      BY <1>0, <2>1, <2>3, <2>5, <2>6, <3>1
    <3>2. CASE ~ ends
      BY <1>0, <2>1, <2>3, <2>5, <2>6, <3>2
    <3> QED
      BY <3>1, <3>2
  <2> QED
    BY <1>1, <2>7 DEF FlowInv, FlowTypeOK, StatusAddsUp
<1>4. ASSUME NEW key \in FlowKeys, NEW time \in 0 .. MaxTime,
             FeedOverflows(key, time)
      PROVE  FlowTypeOK' /\ StatusAddsUp'
  <2>1. Tracked' = Tracked \ Overdue(time)
    BY <1>4 DEF FeedOverflows, Only, Tracked
  <2>2. /\ createdCount' = createdCount /\ returnedCount' = returnedCount
        /\ closedCount' = closedCount + Cardinality(Overdue(time))
    BY <1>4 DEF FeedOverflows
  <2>3. /\ Cardinality(Tracked') = Cardinality(Tracked)
                                       - Cardinality(Overdue(time))
        /\ Cardinality(Tracked') \in Nat
        /\ Cardinality(Overdue(time)) \in Nat
    BY <1>2, <2>1
  <2> QED
    BY <1>0, <1>1, <2>2, <2>3 DEF FlowInv, FlowTypeOK, StatusAddsUp
<1>5. CASE FlushFlows \/ NewFlowTable
  <2>1. Tracked' = {}
    BY <1>5 DEF FlushFlows, NewFlowTable, Tracked
  <2>2. Cardinality(Tracked') = 0
    BY <2>1, FS_EmptySet
  <2>3. /\ createdCount' \in Nat /\ closedCount' \in Nat
        /\ returnedCount' \in Nat
        /\ createdCount' = closedCount'
    BY <1>0, <1>5 DEF FlushFlows, NewFlowTable
  <2> QED
    BY <1>0, <1>1, <2>2, <2>3 DEF FlowInv, FlowTypeOK, StatusAddsUp
<1>6. CASE UNCHANGED flowVars
  <2>1. Tracked' = Tracked
    BY <1>6 DEF flowVars, Tracked
  <2> QED
    BY <1>0, <1>1, <1>6, <2>1 DEF flowVars, FlowInv, FlowTypeOK, StatusAddsUp
<1> QED
  BY <1>3, <1>4, <1>5, <1>6 DEF FlowNext

LEMMA CountInvariant == FlowSpec => [](FlowTypeOK /\ StatusAddsUp)
<1>1. FlowInit => FlowTypeOK /\ StatusAddsUp
  <2> SUFFICES ASSUME FlowInit
               PROVE  FlowTypeOK /\ StatusAddsUp
    OBVIOUS
  <2>1. Tracked = {} /\ Cardinality(Tracked) = 0
    BY FS_EmptySet DEF FlowInit, Tracked
  <2> QED
    BY <2>1, FlowAssumption DEF FlowInit, FlowTypeOK, StatusAddsUp
<1>2. FlowInv /\ FlowTypeOK /\ StatusAddsUp /\ [FlowNext]_flowVars
          => (FlowTypeOK /\ StatusAddsUp)'
  BY CountStep
<1> QED
  BY <1>1, <1>2, FlowInvariant, PTL DEF FlowSpec

-----------------------------------------------------------------------------
(***************************************************************************)
(* The capture thread.                                                     *)
(***************************************************************************)
LEMMA SlotFacts ==
    /\ \A t \in Nat : SlotOf(t) \in Slots
    /\ \A t, u \in Nat : t <= u => SlotOf(t) <= SlotOf(u)
    /\ \A t \in 0 .. MaxTime : SlotOf(t) <= MaxSlot
<1>1. TicksPerSlot \in Nat /\ TicksPerSlot > 0
  BY PipelineAssumption
<1>2. \A t \in Nat : SlotOf(t) \in Slots
  BY <1>1 DEF SlotOf, Slots
<1>3. \A t, u \in Nat : t <= u => SlotOf(t) <= SlotOf(u)
  <2> SUFFICES ASSUME NEW t \in Nat, NEW u \in Nat, t <= u
               PROVE  SlotOf(t) <= SlotOf(u)
    OBVIOUS
  <2> QED
    BY <1>1 DEF SlotOf
<1>4. ASSUME NEW t \in 0 .. MaxTime
      PROVE  SlotOf(t) <= MaxSlot
  <2>1. t \in Nat /\ t < (MaxSlot + 1) * TicksPerSlot /\ MaxSlot \in Nat
    BY PipelineAssumption, FlowAssumption, BufferAssumption
  <2> QED
    BY <1>1, <2>1 DEF SlotOf
<1> QED
  BY <1>2, <1>3, <1>4

(* The newest window in which a flow completed is not later than the last  *)
(* packet's, except that a process that has seen no packet yet may have    *)
(* inherited it.  Flows that are tracked have packets of this process.     *)
Begun == windows # {} \/ emitting # {} \/ ~ fresh \/ Tracked # {}

PacketInv ==
    /\ lastEvent <= MaxTime
    /\ \A key \in Tracked :
           /\ SlotOf(flows[key].last) \in 1 .. MaxSlot
           /\ fresh => lastWindow < SlotOf(flows[key].last)
    /\ Begun => clock <= SlotOf(lastEvent)
    /\ clock <= SlotOf(lastEvent) \/ clock <= lastWindow + 1

PipelineInv == PromptInv /\ FlowInv /\ PacketInv

(* A packet that may arrive is in a window that the collector has not      *)
(* emitted, and in no earlier one than the completions before it.          *)
LEMMA ArrivalFacts ==
    ASSUME PipelineInv, NEW time \in 0 .. MaxTime, time >= lastEvent,
           MayArrive(time)
    PROVE  /\ SlotOf(time) \in 1 .. MaxSlot /\ clock <= SlotOf(time)
           /\ lastWindow < SlotOf(time)
           /\ SlotOf(lastEvent) <= SlotOf(time)
<1>1. /\ SlotOf(time) \in Slots /\ SlotOf(time) <= MaxSlot
      /\ SlotOf(lastEvent) \in Slots /\ SlotOf(lastEvent) <= SlotOf(time)
      /\ MaxSlot \in Nat
  <2>1. time \in Nat /\ lastEvent \in Nat
    BY FlowAssumption DEF PipelineInv, FlowInv
  <2> QED
    BY <2>1, SlotFacts, BufferAssumption
<1>2. clock \in Slots \ {0} /\ lastWindow \in Slots
  BY DEF PipelineInv, PromptInv, CollectorTypeOK
<1>3. CASE fresh
  BY <1>1, <1>2, <1>3 DEF PipelineInv, PacketInv, MayArrive, Slots
<1>4. CASE ~ fresh
  <2>1. clock <= SlotOf(lastEvent)
    BY <1>4 DEF PipelineInv, PacketInv, Begun
  <2>2. lastWindow < clock
    BY <1>4 DEF PipelineInv, PromptInv, IdleOK, MayArrive
  <2> QED
    BY <1>1, <1>2, <2>1, <2>2 DEF Slots
<1> QED
  BY <1>3, <1>4

LEMMA PacketStep ==
    ASSUME PipelineInv, NEW key \in FlowKeys, NEW time \in 0 .. MaxTime,
           NEW ends \in BOOLEAN, Packet(key, time, ends)
    PROVE  /\ FlowNext /\ [PromptNext]_collectorVars
           /\ PacketInv'
<1>1. Feed(key, time, ends) /\ time >= lastEvent /\ lastEvent' = time
      /\ MayArrive(time)
  BY DEF Packet, Feed
<1>2. /\ SlotOf(time) \in 1 .. MaxSlot /\ clock <= SlotOf(time)
      /\ lastWindow < SlotOf(time)
  BY <1>1, ArrivalFacts
<1>3. FlowNext
  BY <1>1 DEF FlowNext
<1>4. /\ \/ CompleteFlow(SlotOf(time))
         \/ UNCHANGED collectorVars
      /\ UNCHANGED <<lastWindow, fresh>>
      /\ clock' \in {clock, SlotOf(time)}
  <2>1. CASE Completes(time, ends)
    <3>1. AcceptFlows(SlotOf(time))
      BY <2>1 DEF Packet, CompletionWindow
    <3> QED
      BY <1>2, <3>1 DEF CompleteFlow, AcceptFlows, Slots
  <2>2. CASE ~ Completes(time, ends)
    <3>1. UNCHANGED collectorVars
      BY <2>2 DEF Packet
    <3> QED
      BY <3>1 DEF collectorVars
  <2> QED
    BY <2>1, <2>2
<1>5. [PromptNext]_collectorVars
  BY <1>2, <1>4 DEF PromptNext
<1>6. \A k \in Tracked' :
          /\ SlotOf(flows'[k].last) \in 1 .. MaxSlot
          /\ fresh => lastWindow < SlotOf(flows'[k].last)
  <2> SUFFICES ASSUME NEW k \in Tracked'
               PROVE  /\ SlotOf(flows'[k].last) \in 1 .. MaxSlot
                      /\ fresh => lastWindow < SlotOf(flows'[k].last)
    OBVIOUS
  <2>1. CASE k \in Tracked /\ flows'[k] = flows[k]
    BY <2>1 DEF PipelineInv, PacketInv
  <2>2. CASE flows'[k] = Extended(key, time)
    <3>1. flows'[k].last = time
      BY <2>2 DEF Extended
    <3> QED
      BY <1>2, <3>1
  <2> QED
    BY <1>1, <2>1, <2>2, FeedFacts
<1>7. clock' <= SlotOf(time) /\ lastEvent' <= MaxTime
  BY <1>1, <1>2, <1>4, FlowAssumption DEF Slots
<1>8. PacketInv'
  <2>1. SlotOf(time) = SlotOf(lastEvent)'
    BY <1>1 DEF SlotOf
  <2>2. \A k \in Tracked' :
            /\ SlotOf(flows[k].last)' \in 1 .. MaxSlot
            /\ fresh' => lastWindow' < SlotOf(flows[k].last)'
    BY <1>4, <1>6 DEF SlotOf
  <2> QED
    BY <1>7, <2>1, <2>2 DEF PacketInv
<1> QED
  BY <1>3, <1>5, <1>8

LEMMA RefusedStep ==
    ASSUME PipelineInv, NEW key \in FlowKeys, NEW time \in 0 .. MaxTime,
           PacketRefused(key, time)
    PROVE  /\ FlowNext /\ UNCHANGED collectorVars
           /\ PacketInv'
<1>1. /\ FeedOverflows(key, time) /\ time >= lastEvent /\ lastEvent' = time
      /\ MayArrive(time) /\ UNCHANGED collectorVars
  BY DEF PacketRefused, FeedOverflows
<1>2. SlotOf(time) \in 1 .. MaxSlot /\ clock <= SlotOf(time)
  BY <1>1, ArrivalFacts
<1>3. Tracked' \subseteq Tracked /\ \A k \in Tracked' : flows'[k] = flows[k]
  BY <1>1 DEF FeedOverflows, Only, Tracked
<1>4. FlowNext
  BY <1>1 DEF FlowNext
<1>5. PacketInv'
  <2>1. UNCHANGED <<clock, lastWindow, fresh>>
    BY <1>1 DEF collectorVars
  <2>2. clock' <= SlotOf(lastEvent)' /\ lastEvent' <= MaxTime
    BY <1>1, <1>2, <2>1, FlowAssumption DEF SlotOf
  <2>3. \A k \in Tracked' :
            /\ SlotOf(flows[k].last)' \in 1 .. MaxSlot
            /\ fresh' => lastWindow' < SlotOf(flows[k].last)'
    BY <1>3, <2>1 DEF PipelineInv, PacketInv, SlotOf
  <2> QED
    BY <2>2, <2>3 DEF PacketInv
<1> QED
  BY <1>1, <1>4, <1>5

LEMMA EmitStep ==
    ASSUME PipelineInv, Emit
    PROVE  /\ UNCHANGED flowVars /\ PromptNext
           /\ PacketInv'
<1>1. PICK slot \in emitting : EmitState(slot) /\ UNCHANGED flowVars
  BY DEF Emit
<1>2. PromptNext
  BY <1>1 DEF PromptNext
<1>3. clock' = clock /\ clock <= SlotOf(lastEvent) /\ ~ fresh'
  BY <1>1 DEF EmitState, PipelineInv, PacketInv, Begun
<1>4. PacketInv'
  <2>1. UNCHANGED <<flows, lastEvent>>
    BY <1>1 DEF flowVars
  <2> QED
    BY <1>3, <2>1 DEF PipelineInv, PacketInv, SlotOf, Tracked
<1> QED
  BY <1>1, <1>2, <1>4

LEMMA ShutDownStep ==
    ASSUME PipelineInv, ShutDown
    PROVE  /\ FlowNext /\ PromptNext
           /\ PacketInv'
<1> DEFINE active == {SlotOf(flows[key].last) : key \in Tracked}
<1>1. Flush(active) /\ FlushFlows
  BY DEF ShutDown
<1>2. active \in SUBSET (1 .. MaxSlot)
      /\ (fresh => \A slot \in active : slot > lastWindow)
  <2>1. lastWindow \in Slots /\ MaxSlot \in Nat
    BY BufferAssumption DEF PipelineInv, PromptInv, CollectorTypeOK
  <2> QED
    BY <2>1 DEF PipelineInv, PacketInv, Slots
<1>3. \A slot \in active : slot <= SlotOf(lastEvent)
  <2> SUFFICES ASSUME NEW key \in Tracked
               PROVE  SlotOf(flows[key].last) <= SlotOf(lastEvent)
    OBVIOUS
  <2>1. flows[key].last \in Nat /\ lastEvent \in Nat
        /\ flows[key].last <= lastEvent
    BY DEF PipelineInv, FlowInv, NoFlowOverdue, Flows
  <2> QED
    BY <2>1, SlotFacts
<1>4. active # {} => Tracked # {}
  OBVIOUS
<1> HIDE DEF active
<1>5. FlowNext /\ PromptNext
  BY <1>1, <1>2 DEF FlowNext, PromptNext, BeginFlush, ActiveWindows
<1>6. /\ clock' \in active \cup {clock} /\ windows' = windows \cup active
      /\ emitting' \subseteq Filled(windows')
      /\ UNCHANGED <<lastWindow, fresh, lastEvent>>
      /\ Tracked' = {} /\ emitting = {}
  BY <1>1 DEF Flush, FlushFlows, Tracked
<1>7. windows' = {} => emitting' = {}
  BY <1>6 DEF Filled
<1>8. Begun' => windows # {} \/ active # {} \/ ~ fresh
  BY <1>6, <1>7 DEF Begun
<1>9. Begun' => clock' <= SlotOf(lastEvent)
  BY <1>3, <1>4, <1>6, <1>8 DEF PipelineInv, PacketInv, Begun
<1>10. clock' <= SlotOf(lastEvent) \/ clock' <= lastWindow + 1
  BY <1>3, <1>6 DEF PipelineInv, PacketInv
<1>11. PacketInv'
  BY <1>6, <1>9, <1>10 DEF PipelineInv, PacketInv, SlotOf
<1> QED
  BY <1>5, <1>11

LEMMA NewProcessStep ==
    ASSUME PipelineInv, NewProcess
    PROVE  /\ FlowNext /\ PromptNext
           /\ PacketInv'
<1>1. FlowNext /\ PromptNext
  BY DEF NewProcess, FlowNext, PromptNext
<1>2. /\ windows' = {} /\ emitting' = {} /\ fresh' /\ clock' = clock
      /\ lastWindow' = clock + RestartGap - 1
      /\ Tracked' = {} /\ lastEvent' = lastEvent
  BY DEF NewProcess, NewCollector, NewFlowTable, NothingEmitted, Tracked
<1>3. clock' <= lastWindow' + 1
  BY <1>2, CollectorAssumption
     DEF PipelineInv, PromptInv, CollectorTypeOK, Slots
<1>4. PacketInv'
  BY <1>2, <1>3 DEF PipelineInv, PacketInv, Begun
<1> QED
  BY <1>1, <1>4

LEMMA PipelineStep ==
    ASSUME PipelineInv, [PipelineNext]_pipelineVars
    PROVE  /\ [FlowNext]_flowVars /\ [PromptNext]_collectorVars
           /\ PipelineInv'
<1>1. [FlowNext]_flowVars /\ [PromptNext]_collectorVars /\ PacketInv'
  <2>1. CASE UNCHANGED pipelineVars
    BY <2>1 DEF pipelineVars, flowVars, collectorVars, PipelineInv, PacketInv,
                Begun, SlotOf, Tracked
  <2>2. CASE PipelineNext
    BY <2>2, PacketStep, RefusedStep, EmitStep, ShutDownStep, NewProcessStep
       DEF PipelineNext
  <2> QED
    BY <2>1, <2>2
<1>2. PromptInv' /\ FlowInv'
  BY <1>1, PromptStep, FlowStep DEF PipelineInv
<1> QED
  BY <1>1, <1>2 DEF PipelineInv

LEMMA PipelineInitially == PipelineInit => PipelineInv
<1> SUFFICES ASSUME PipelineInit
             PROVE  PipelineInv
  OBVIOUS
<1>1. PromptInv /\ FlowInv
  BY PromptInit, FlowInitially DEF PipelineInit
<1>2. PacketInv
  BY FlowAssumption
     DEF PipelineInit, CollectorInit, FlowInit, PacketInv, Begun, Tracked
<1> QED
  BY <1>1, <1>2 DEF PipelineInv

LEMMA PipelineInvariant == PipelineSpec => []PipelineInv
<1>1. PipelineInv /\ [PipelineNext]_pipelineVars => PipelineInv'
  BY PipelineStep
<1> QED
  BY <1>1, PipelineInitially, PTL DEF PipelineSpec

(* The packets of the capture thread complete flows the way the collector  *)
(* assumes: each completion is in a window that is not before the others,  *)
(* nor among the emitted ones (agent/collector.py, ingest_event, and the   *)
(* flow builder's order of packets).                                       *)
THEOREM PipelineIsPrompt == PipelineSpec => PromptSpec
<1>1. PipelineInit => CollectorInit
  BY DEF PipelineInit
<1>2. PipelineInv /\ [PipelineNext]_pipelineVars => [PromptNext]_collectorVars
  BY PipelineStep
<1> QED
  BY <1>1, <1>2, PipelineInvariant, PTL DEF PipelineSpec, PromptSpec

(* So what the collector guarantees holds of the agent's packets, too: no  *)
(* emitted window is opened again.                                         *)
THEOREM PipelineNeverReopens == PipelineSpec => []NeverReopens
BY PipelineIsPrompt, PromptNeverReopens, PTL

(* And every window of a day is emitted once, in order.                    *)
THEOREM PipelineEmitsConsecutively == PipelineSpec => EmitsConsecutively
BY PipelineIsPrompt, PromptEmitsConsecutively, PTL

(* The pipeline drives the flow table as any sequence of packets may.      *)
LEMMA PipelineFeedsFlows == PipelineSpec => FlowSpec
<1>1. PipelineInit => FlowInit
  BY DEF PipelineInit
<1>2. PipelineInv /\ [PipelineNext]_pipelineVars => [FlowNext]_flowVars
  BY PipelineStep
<1> QED
  BY <1>1, <1>2, PipelineInvariant, PTL DEF PipelineSpec, FlowSpec

(* After every packet, each flow that is left in the table began less than *)
(* the active timeout ago and was heard of less than the idle timeout ago: *)
(* flow_builder.py, _close_due, which runs only when a packet arrives.     *)
THEOREM FlowsEndInTime == PipelineSpec => []NoFlowOverdue
<1>1. FlowInv => NoFlowOverdue
  BY DEF FlowInv
<1> QED
  BY <1>1, FlowInvariant, PipelineFeedsFlows, PTL

(* The flow table never holds more flows than it may, and the counts that  *)
(* status() reports add up, also when a packet is refused and its records  *)
(* are lost: flow_builder.py, feed_event and status.                       *)
THEOREM FlowCountsAddUp == FlowSpec => [](FlowTypeOK /\ StatusAddsUp)
BY CountInvariant

================================================================================
