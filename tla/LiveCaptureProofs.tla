--------------------------- MODULE LiveCaptureProofs ---------------------------
(***************************************************************************)
(* Proofs about LiveCapture, for any number of sniffers, any length of     *)
(* history and any number of retained flows: there is one capture at a     *)
(* time, forecasts do not cross sessions, the history is whole, and the    *)
(* forecasts follow it.                                                    *)
(***************************************************************************)
EXTENDS LiveCapture, StateBufferProofs

(* stop() takes the handle away before it joins, and a handle is kept only *)
(* while the adapter calls itself running: so a start finds no handle.     *)
(* Outside stop() the two say the same.                                    *)
HandleInv ==
    /\ joining # None => handle = None
    /\ handle # None => adapterState = "running"
    /\ joining = None /\ adapterState = "running" => handle # None

(* Until a stop() fails, what a thread sends to the inference was formed   *)
(* in the current session.                                                 *)
WorkInv ==
    orphans = {} =>
        \A s \in Sniffers : thread[s] = "inferring" => work[s].session = session

CaptureInv ==
    /\ session \in Nat
    /\ staleForecast # None => staleSession \in Nat
    /\ DOMAIN thread = Sniffers /\ DOMAIN work = Sniffers
    /\ HandleInv /\ OneSniffer /\ WorkInv /\ SessionsStayApart

(* A thread that runs before and after a step leaves OneSniffer alone.     *)
LEMMA GoesKeeps ==
    ASSUME CaptureInv, NEW s \in Sniffers, NEW from, NEW to, Goes(s, from, to),
           from \notin {"unborn", "ended"}
    PROVE  /\ DOMAIN thread' = Sniffers
           /\ thread[s] = from /\ thread'[s] = to
           /\ \A t \in Sniffers \ {s} : thread'[t] = thread[t]
           /\ HandleInv' /\ OneSniffer'
<1>1. /\ DOMAIN thread' = Sniffers
      /\ thread[s] = from /\ thread'[s] = to
      /\ \A t \in Sniffers \ {s} : thread'[t] = thread[t]
  BY DEF CaptureInv, Goes
<1>2. HandleInv'
  BY DEF CaptureInv, HandleInv, Goes, adapterVars
<1>3. OneSniffer'
  BY <1>1 DEF CaptureInv, OneSniffer, Goes, adapterVars
<1> QED
  BY <1>1, <1>2, <1>3

(* A step of a thread that touches neither its work nor the forecasts, and *)
(* does not begin an inference.                                            *)
LEMMA QuietStep ==
    ASSUME CaptureInv, NEW s \in Sniffers, NEW from, NEW to, Goes(s, from, to),
           from \notin {"unborn", "ended"}, to # "inferring",
           UNCHANGED <<work, forecastVars>>
    PROVE  CaptureInv'
<1>1. /\ DOMAIN thread' = Sniffers
      /\ thread'[s] = to
      /\ \A t \in Sniffers \ {s} : thread'[t] = thread[t]
      /\ HandleInv' /\ OneSniffer'
  BY GoesKeeps
<1>2. orphans' = orphans
  BY DEF Goes, adapterVars
<1>3. WorkInv'
  BY <1>1, <1>2 DEF CaptureInv, WorkInv, forecastVars
<1>4. SessionsStayApart'
  BY <1>2 DEF CaptureInv, SessionsStayApart, forecastVars
<1> QED
  BY <1>1, <1>3, <1>4 DEF CaptureInv, forecastVars

LEMMA IngestStep ==
    ASSUME CaptureInv, NEW s \in Sniffers, NEW completed, Ingest(s, completed)
    PROVE  CaptureInv'
<1> DEFINE sequences == Sequences(completed)
           to == IF sequences = <<>> THEN "capturing" ELSE "inferring"
<1>1. /\ Goes(s, "delivering", to)
      /\ Accept(packet[s], completed)
      /\ IF sequences = <<>> THEN UNCHANGED work
         ELSE work' = [work EXCEPT ![s] =
                          [session |-> session, slots |-> sequences]]
  BY DEF Ingest
<1>2. UNCHANGED forecastVars
  BY <1>1 DEF Accept
<1>3. CASE sequences = <<>>
  <2>1. UNCHANGED <<work, forecastVars>> /\ Goes(s, "delivering", "capturing")
    BY <1>1, <1>2, <1>3
  <2> QED
    BY <2>1, QuietStep
<1>4. CASE sequences # <<>>
  <2> HIDE DEF sequences
  <2>1. Goes(s, "delivering", "inferring")
    BY <1>1, <1>4
  <2>2. /\ DOMAIN thread' = Sniffers
        /\ \A t \in Sniffers \ {s} : thread'[t] = thread[t]
        /\ HandleInv' /\ OneSniffer'
    BY <2>1, GoesKeeps
  <2>3. /\ DOMAIN work' = Sniffers
        /\ work'[s].session = session
        /\ \A t \in Sniffers \ {s} : work'[t] = work[t]
    BY <1>1, <1>4 DEF CaptureInv
  <2>4. orphans' = orphans
    BY <2>1 DEF Goes, adapterVars
  <2>5. WorkInv'
    BY <1>2, <2>2, <2>3, <2>4 DEF CaptureInv, WorkInv, forecastVars
  <2>6. SessionsStayApart'
    BY <1>2, <2>4 DEF CaptureInv, SessionsStayApart, forecastVars
  <2> QED
    BY <1>2, <2>2, <2>3, <2>5, <2>6 DEF CaptureInv, forecastVars
<1> QED
  BY <1>3, <1>4

(* The answer is stored, or not: either way it is of this session.         *)
LEMMA InferStep ==
    ASSUME CaptureInv, NEW s \in Sniffers, Infer(s)
    PROVE  CaptureInv'
<1> DEFINE to == IF Len(work[s].slots) = 1 THEN "capturing" ELSE "inferring"
           answer == [session |-> work[s].session,
                      slot    |-> Head(work[s].slots)]
<1>1. /\ Goes(s, "inferring", to)
      /\ StoreForecast(answer) \/ UNCHANGED storeVars
      /\ work' = [work EXCEPT ![s].slots = Tail(@)]
  BY DEF Infer
<1>2. /\ DOMAIN thread' = Sniffers
      /\ thread[s] = "inferring"
      /\ \A t \in Sniffers \ {s} : thread'[t] = thread[t]
      /\ HandleInv' /\ OneSniffer'
  BY <1>1, GoesKeeps
<1>3. orphans' = orphans
  BY <1>1 DEF Goes, adapterVars
<1>4. /\ UNCHANGED <<session, staleForecast, staleSession>>
      /\ lastForecast' \in {lastForecast, answer}
  BY <1>1 DEF StoreForecast, storeVars, forecastVars
<1>5. DOMAIN work' = Sniffers
  BY <1>1 DEF CaptureInv
<1>6. ASSUME orphans' = {}
      PROVE  work[s].session = session
  BY <1>2, <1>3, <1>6 DEF CaptureInv, WorkInv
<1>7. WorkInv'
  <2> SUFFICES ASSUME orphans' = {}, NEW t \in Sniffers,
                      thread'[t] = "inferring"
               PROVE  work'[t].session = session'
    BY DEF WorkInv
  <2>1. CASE t = s
    <3>1. \A f \in {work[s]} : [f EXCEPT !.slots = Tail(@)].session = f.session
      OBVIOUS
    <3>2. work'[s] = [work[s] EXCEPT !.slots = Tail(@)]
      BY <1>1 DEF CaptureInv
    <3>3. work'[s].session = work[s].session
      BY <3>1, <3>2
    <3> QED
      BY <2>1, <3>3, <1>4, <1>6
  <2>2. CASE t # s
    <3>1. work'[t] = work[t] /\ thread[t] = "inferring"
      BY <1>1, <1>2, <2>2 DEF CaptureInv
    <3> QED
      BY <3>1, <1>3, <1>4 DEF CaptureInv, WorkInv
  <2> QED
    BY <2>1, <2>2
<1>8. SessionsStayApart'
  <2> SUFFICES ASSUME orphans' = {}
               PROVE  /\ lastForecast' # None => lastForecast'.session = session'
                      /\ staleForecast' # None =>
                             /\ staleForecast'.session = staleSession'
                             /\ staleSession' < session'
    BY DEF SessionsStayApart
  <2>1. answer.session = session
    BY <1>6
  <2> QED
    BY <2>1, <1>3, <1>4 DEF CaptureInv, SessionsStayApart
<1> QED
  BY <1>2, <1>4, <1>5, <1>7, <1>8 DEF CaptureInv

(* A session begins when no thread runs, unless a stop() has failed.       *)
LEMMA SessionStep ==
    ASSUME CaptureInv, MayStart, StartSession, UNCHANGED orphans
    PROVE  /\ session' \in Nat
           /\ staleForecast' # None => staleSession' \in Nat
           /\ SessionsStayApart'
           /\ handle = None /\ joining = None
           /\ orphans = {} =>
                  \A t \in Sniffers : thread[t] \in {"unborn", "ended"}
<1>1. handle = None /\ joining = None
  BY DEF CaptureInv, HandleInv, MayStart, LockFree
<1>2. orphans = {} => \A t \in Sniffers : thread[t] \in {"unborn", "ended"}
  BY <1>1, CaptureAssumption DEF CaptureInv, OneSniffer
<1>3. session' = session + 1 /\ session \in Nat /\ lastForecast' = None
  BY DEF StartSession, CaptureInv
<1>4. staleForecast' # None => staleSession' \in Nat
  BY <1>3 DEF CaptureInv, StartSession
<1>5. SessionsStayApart'
  <2>1. CASE lastForecast = None
    BY <1>3, <2>1 DEF CaptureInv, SessionsStayApart, StartSession
  <2>2. CASE lastForecast # None
    BY <1>3, <2>2 DEF CaptureInv, SessionsStayApart, StartSession
  <2> QED
    BY <2>1, <2>2
<1> QED
  BY <1>1, <1>2, <1>3, <1>4, <1>5

LEMMA CaptureStep ==
    ASSUME CaptureInv, [LiveNext]_liveVars
    PROVE  CaptureInv'
<1>1. CASE Tick
  BY <1>1 DEF Tick, CaptureInv, HandleInv, OneSniffer, WorkInv,
              SessionsStayApart, storeVars, forecastVars, snifferVars
<1>2. ASSUME NEW s \in Sniffers, Dispatch(s)
      PROVE  CaptureInv'
  BY <1>2, QuietStep DEF Dispatch, storeVars
<1>3. ASSUME NEW s \in Sniffers, CountPacket(s)
      PROVE  CaptureInv'
  BY <1>3, QuietStep DEF CountPacket, storeVars
<1>4. ASSUME NEW s \in Sniffers, NEW completed, Ingest(s, completed)
      PROVE  CaptureInv'
  BY <1>4, IngestStep
<1>5. ASSUME NEW s \in Sniffers, Reject(s)
      PROVE  CaptureInv'
  BY <1>5, QuietStep DEF Reject, Refuse
<1>6. ASSUME NEW s \in Sniffers, CountDrop(s)
      PROVE  CaptureInv'
  BY <1>6, QuietStep DEF CountDrop, storeVars
<1>7. ASSUME NEW s \in Sniffers, Infer(s)
      PROVE  CaptureInv'
  BY <1>7, InferStep
<1>8. ASSUME NEW s \in Sniffers, Opens(s) \/ EndAsAsked(s) \/ Die(s)
      PROVE  CaptureInv'
  BY <1>8, QuietStep DEF Opens, EndAsAsked, Die, storeVars
<1>9. ASSUME NEW s \in Sniffers, Start(s)
      PROVE  CaptureInv'
  <2>1. /\ MayStart /\ StartSession /\ UNCHANGED <<orphans, joining, work>>
        /\ thread' = [thread EXCEPT ![s] = "starting"]
        /\ handle' = s /\ adapterState' = "running"
    BY <1>9 DEF Start
  <2>2. /\ session' \in Nat
        /\ staleForecast' # None => staleSession' \in Nat
        /\ SessionsStayApart'
        /\ handle = None /\ joining = None
        /\ orphans = {} =>
               \A t \in Sniffers : thread[t] \in {"unborn", "ended"}
    BY <2>1, SessionStep
  <2>3. /\ DOMAIN thread' = Sniffers
        /\ thread'[s] = "starting"
        /\ \A t \in Sniffers \ {s} : thread'[t] = thread[t]
    BY <2>1 DEF CaptureInv
  <2>4. HandleInv'
    BY <2>1, <2>2, CaptureAssumption DEF HandleInv
  <2>5. OneSniffer'
    BY <2>1, <2>2, <2>3, CaptureAssumption DEF CaptureInv, OneSniffer
  <2>6. WorkInv'
    BY <2>1, <2>2, <2>3 DEF WorkInv
  <2> QED
    BY <2>1, <2>2, <2>3, <2>4, <2>5, <2>6 DEF CaptureInv
<1>10. CASE StartFails
  <2>1. /\ MayStart /\ StartSession
        /\ UNCHANGED <<thread, work, handle, joining, orphans>>
        /\ adapterState' # "running"
    BY <1>10 DEF StartFails, MayStart, snifferVars
  <2>2. /\ session' \in Nat
        /\ staleForecast' # None => staleSession' \in Nat
        /\ SessionsStayApart'
        /\ handle = None /\ joining = None
        /\ orphans = {} =>
               \A t \in Sniffers : thread[t] \in {"unborn", "ended"}
    BY <2>1, SessionStep
  <2>3. HandleInv' /\ OneSniffer' /\ WorkInv'
    BY <2>1, <2>2 DEF CaptureInv, HandleInv, OneSniffer, WorkInv
  <2> QED
    BY <2>1, <2>2, <2>3 DEF CaptureInv
<1>11. CASE StopNothing
  BY <1>11 DEF StopNothing, CaptureInv, HandleInv, OneSniffer, WorkInv,
               SessionsStayApart, storeVars, forecastVars, snifferVars
<1>12. CASE StopAndJoin
  BY <1>12 DEF StopAndJoin, LockFree, CaptureInv, HandleInv, OneSniffer,
               WorkInv, SessionsStayApart, storeVars, forecastVars, snifferVars
<1>13. CASE StopFails
  BY <1>13 DEF StopFails, LockFree, CaptureInv, HandleInv, OneSniffer, WorkInv,
               SessionsStayApart, storeVars, forecastVars, snifferVars
<1>14. CASE Stopped
  BY <1>14 DEF Stopped, JoinEnds, CaptureInv, HandleInv, OneSniffer, WorkInv,
               SessionsStayApart, storeVars, forecastVars, snifferVars
<1>15. CASE UNCHANGED liveVars
  BY <1>15 DEF liveVars, CaptureInv, HandleInv, OneSniffer, WorkInv,
               SessionsStayApart, storeVars, forecastVars, snifferVars,
               adapterVars
<1> QED
  BY <1>1, <1>2, <1>3, <1>4, <1>5, <1>6, <1>7, <1>8, <1>9, <1>10, <1>11,
     <1>12, <1>13, <1>14, <1>15
  DEF LiveNext, SnifferStep

LEMMA CaptureInitially == ASSUME LiveInit PROVE CaptureInv
BY DEF LiveInit, StoreInit, CaptureInv, HandleInv, OneSniffer, WorkInv,
       SessionsStayApart

LEMMA CaptureInvariant == LiveSpec => []CaptureInv
<1>1. LiveInit => CaptureInv
  BY CaptureInitially
<1>2. CaptureInv /\ [LiveNext]_liveVars => CaptureInv'
  BY CaptureStep
<1> QED
  BY <1>1, <1>2, PTL DEF LiveSpec

(* However starts, stops, packets and inferences interleave, a thread that *)
(* runs is the one that the adapter holds, is waiting for, or has lost in  *)
(* a failed stop: live.py, start and stop.                                 *)
THEOREM OneSnifferAtATime == LiveSpec => []OneSniffer
<1>1. CaptureInv => OneSniffer
  BY DEF CaptureInv
<1> QED
  BY <1>1, CaptureInvariant, PTL

(* Until a stop() has failed, the current forecast is of the current       *)
(* session and the stale one of an earlier session, although no answer of  *)
(* the inference says which session it belongs to: live_runtime.py,        *)
(* start_session and ingest_event.                                         *)
THEOREM SessionsAreApart == LiveSpec => []SessionsStayApart
<1>1. CaptureInv => SessionsStayApart
  BY DEF CaptureInv
<1> QED
  BY <1>1, CaptureInvariant, PTL

(* What GET /live offers as ready comes of a capture that can be stopped,  *)
(* and until a stop() has failed it is a forecast of the session it names: *)
(* live_runtime.py, snapshot.                                              *)
THEOREM ReadyMeansLive == LiveSpec => []ReadyIsLive
<1>1. CaptureInv => ReadyIsLive
  BY DEF CaptureInv, HandleInv, SessionsStayApart, ReadyIsLive, Offered
<1> QED
  BY <1>1, CaptureInvariant, PTL
(***************************************************************************)
(* The history.                                                            *)
(***************************************************************************)
(* The histories of a refresh exist, each made of the one before.          *)
LEMMA HistoriesDefined ==
    ASSUME NEW flows
    PROVE  /\ Histories(flows)[0] =
                  [states |-> states, fill |-> bufferFill, formed |-> <<>>,
                   latest |-> latestState]
           /\ \A n \in 0 .. MaxSlot :
                  Histories(flows)[n + 1] =
                      IF n \in Later(flows)
                      THEN WithState(Histories(flows)[n], n)
                      ELSE Histories(flows)[n]
<1> DEFINE base == [states |-> states, fill |-> bufferFill, formed |-> <<>>,
                    latest |-> latestState]
           Next1(h, n) == IF n \in Later(flows) THEN WithState(h, n) ELSE h
           IsHistory(f, N) ==
               f = [n \in 0 .. N |->
                       IF n = 0 THEN base ELSE Next1(f[n - 1], n - 1)]
           S == {N \in 0 .. MaxSlot + 1 : \E f : IsHistory(f, N)}
<1>0. MaxSlot \in Nat
  BY BufferAssumption
<1>1. 0 \in S
  <2>1. IsHistory([n \in 0 .. 0 |-> base], 0)
    OBVIOUS
  <2> HIDE DEF IsHistory
  <2> QED
    BY <2>1, <1>0
<1>2. ASSUME NEW N \in 0 .. MaxSlot + 1, N \in S, N # MaxSlot + 1
      PROVE  N + 1 \in S
  <2> HIDE DEF base, Next1
  <2>1. PICK f : IsHistory(f, N)
    BY <1>2
  <2> DEFINE g == [n \in 0 .. N + 1 |->
                      IF n = N + 1 THEN Next1(f[N], N) ELSE f[n]]
  <2>2. \A n \in 0 .. N : f[n] = IF n = 0 THEN base ELSE Next1(f[n - 1], n - 1)
    BY <2>1
  <2>3. \A n \in 0 .. N : g[n] = f[n]
    BY <1>0
  <2>4. g[N + 1] = Next1(g[N], N) /\ g[0] = base
    BY <1>0, <2>2, <2>3
  <2>5. \A n \in 0 .. N + 1 :
            g[n] = IF n = 0 THEN base ELSE Next1(g[n - 1], n - 1)
    <3> SUFFICES ASSUME NEW n \in 0 .. N + 1
                 PROVE  g[n] = IF n = 0 THEN base ELSE Next1(g[n - 1], n - 1)
      OBVIOUS
    <3> HIDE DEF g
    <3>1. CASE n = N + 1
      BY <3>1, <2>4, <1>0
    <3>2. CASE n # N + 1
      <4>1. n \in 0 .. N /\ (n # 0 => n - 1 \in 0 .. N)
        BY <3>2, <1>0
      <4> QED
        BY <4>1, <2>2, <2>3
    <3> QED
      BY <3>1, <3>2
  <2>6. IsHistory(g, N + 1)
    BY <2>5
  <2> HIDE DEF IsHistory, g
  <2> QED
    BY <2>6, <1>0, <1>2
<1>3. MaxSlot + 1 \in S
  <2> HIDE DEF S
  <2>1. MaxSlot + 1 \in Nat /\ MaxSlot + 1 \in 0 .. MaxSlot + 1
    BY <1>0
  <2> QED
    BY <1>1, <1>2, <2>1, BoundedInduction
<1>4. IsHistory(Histories(flows), MaxSlot + 1)
  <2>1. \E f : IsHistory(f, MaxSlot + 1)
    BY <1>3
  <2>2. Histories(flows) = CHOOSE f : IsHistory(f, MaxSlot + 1)
    BY DEF Histories
  <2> HIDE DEF IsHistory
  <2> QED
    BY <2>1, <2>2
<1> HIDE DEF base, Next1
<1>5. \A n \in 0 .. MaxSlot + 1 :
          Histories(flows)[n] =
              IF n = 0 THEN base ELSE Next1(Histories(flows)[n - 1], n - 1)
  BY <1>4
<1>6. \A n \in 0 .. MaxSlot : n + 1 \in 0 .. MaxSlot + 1 /\ n + 1 # 0
                              /\ (n + 1) - 1 = n
  BY <1>0
<1>7. Histories(flows)[0] = base
  BY <1>5, <1>0
<1>8. \A n \in 0 .. MaxSlot : Histories(flows)[n + 1] = Next1(Histories(flows)[n], n)
  BY <1>5, <1>6
<1> QED
  BY <1>7, <1>8 DEF base, Next1


(* A history in the middle of a refresh: at most SequenceLength states, in *)
(* a row and none later than the latest, that the fill counts.             *)
GoodHistory(h) ==
    /\ h.states \in Seq(Slots) /\ Len(h.states) <= SequenceLength
    /\ Contiguous(h.states)
    /\ h.fill = Len(h.states)
    /\ h.formed \in Seq(Slots)
    /\ h.latest \in Slots \cup {None}
    /\ h.states # <<>> => h.latest # None /\ Newest(h.states) <= h.latest

LEMMA WithStateFacts ==
    ASSUME NEW h, GoodHistory(h), NEW slot \in Slots,
           h.latest = None \/ h.latest < slot
    PROVE  /\ GoodHistory(WithState(h, slot))
           /\ WithState(h, slot).latest = slot
           /\ h.states # <<>> /\ Newest(h.states) = slot - 1 =>
                  Newest(WithState(h, slot).states) = slot
           /\ h.states = <<>> => Newest(WithState(h, slot).states) = slot
<1> DEFINE buf == h.states
           after == StatesAfter(buf, slot)
           fill == FillAfter(h.fill, buf, slot)
           formed == IF FormsSequence(buf, slot)
                     THEN Append(h.formed, slot) ELSE h.formed
<1>1. /\ WithState(h, slot).states = after
      /\ WithState(h, slot).fill = fill
      /\ WithState(h, slot).formed = formed
      /\ WithState(h, slot).latest = slot
  BY DEF WithState
<1>2. /\ buf \in Seq(Slots) /\ Len(buf) <= SequenceLength /\ Contiguous(buf)
      /\ h.fill = Len(buf) /\ h.formed \in Seq(Slots)
      /\ buf # <<>> => Newest(buf) \in Slots /\ Newest(buf) < slot
  <2>1. buf # <<>> => Newest(buf) \in Slots
    BY DEF GoodHistory, Newest
  <2> QED
    BY <2>1, StoreAssumption DEF GoodHistory, Slots
<1>3. formed \in Seq(Slots)
  BY <1>2
<1> SUFFICES /\ after \in Seq(Slots) /\ after # <<>>
             /\ Len(after) <= SequenceLength
             /\ Contiguous(after) /\ fill = Len(after)
             /\ Newest(after) <= slot
             /\ buf = <<>> \/ Newest(buf) = slot - 1 => Newest(after) = slot
  <2> HIDE DEF after, fill, formed
  <2> QED
    BY <1>1, <1>3, StoreAssumption DEF GoodHistory
<1>4. CASE CrossesDay(buf, slot)
  <2>1. after = <<slot>> /\ fill = 1
    BY <1>4 DEF StatesAfter, FillAfter
  <2> QED
    BY <2>1, BufferAssumption DEF Contiguous, Newest, Slots
<1>5. CASE ~ CrossesDay(buf, slot) /\ LeavesGap(buf, slot)
  <2>1. after = buf /\ fill = Len(buf) /\ buf # <<>>
    BY <1>2, <1>5 DEF StatesAfter, FillAfter, LeavesGap
  <2>2. ~ (Newest(buf) = slot - 1)
    BY <1>2, <1>5, <2>1 DEF LeavesGap, Slots
  <2> QED
    BY <1>2, <2>1, <2>2 DEF Slots
<1>6. CASE ~ CrossesDay(buf, slot) /\ ~ LeavesGap(buf, slot)
  <2>1. buf # <<>> =>
            slot = Newest(buf) + 1 /\ DayOf(slot) = DayOf(Newest(buf))
    BY <1>2, <1>6 DEF CrossesDay, LeavesGap, Slots
  <2>2. /\ Pushed(buf, slot) \in Seq(Slots)
        /\ Len(Pushed(buf, slot)) = IF Len(buf) < SequenceLength
                                    THEN Len(buf) + 1 ELSE SequenceLength
        /\ Newest(Pushed(buf, slot)) = slot
        /\ Contiguous(Pushed(buf, slot))
    BY <1>2, <2>1, PushedFacts
  <2>3. /\ after = Pushed(buf, slot)
        /\ fill = IF Len(buf) < SequenceLength THEN Len(buf) + 1 ELSE Len(buf)
    BY <1>2, <1>6 DEF StatesAfter, FillAfter
  <2>4. Len(after) = fill /\ Len(after) <= SequenceLength /\ Len(after) > 0
    BY <1>2, <2>2, <2>3, BufferAssumption
  <2> HIDE DEF after, fill
  <2> QED
    BY <2>2, <2>3, <2>4 DEF Slots
<1> QED
  BY <1>4, <1>5, <1>6


(* The history as it stands between two packets. *)
Present == [states |-> states, fill |-> bufferFill, formed |-> <<>>,
            latest |-> latestState]

(* The later states go on where the latest left off, one after the other.  *)
NoHole(flows) ==
    \A a \in Later(flows) \cup ({latestState} \ {None}), b \in Later(flows) :
        \A k \in a + 1 .. b : k \in Later(flows)

NotBehind(h) == h.states # <<>> => Newest(h.states) = h.latest

LEMMA LaterFacts ==
    ASSUME NEW flows \in Seq(Slots), latestState \in Slots \cup {None}
    PROVE  /\ Later(flows) \subseteq 0 .. MaxSlot
           /\ \A k \in Later(flows) : latestState # None => latestState < k
           /\ \A i \in 1 .. Len(flows) : flows[i] <= MaxSlot =>
                  \/ flows[i] \in Later(flows)
                  \/ latestState # None /\ flows[i] <= latestState
<1>1. Later(flows) \subseteq 0 .. MaxSlot
  BY DEF Later, StateSlots
<1>2. \A k \in Later(flows) : latestState # None => latestState < k
  BY <1>1 DEF Later, Slots
<1>3. ASSUME NEW i \in 1 .. Len(flows), flows[i] <= MaxSlot
      PROVE  \/ flows[i] \in Later(flows)
             \/ latestState # None /\ flows[i] <= latestState
  <2>1. flows[i] \in Range(flows) /\ flows[i] \in Slots
    BY DEF Range
  <2>2. flows[i] \in StateSlots(flows)
    BY <1>3, <2>1, BufferAssumption DEF StateSlots, Slots
  <2> QED
    BY <2>1, <2>2 DEF Later, Slots
<1> QED
  BY <1>1, <1>2, <1>3

LEMMA HistoriesFacts ==
    ASSUME GoodHistory(Present), NEW flows \in Seq(Slots)
    PROVE  \A n \in 0 .. MaxSlot + 1 :
               LET h == Histories(flows)[n]
               IN  /\ GoodHistory(h)
                   /\ h.latest = latestState \/ h.latest \in Later(flows)
                   /\ \A k \in Later(flows) :
                          k < n => h.latest # None /\ k <= h.latest
                   /\ h.latest \in Later(flows) => h.latest < n
                   /\ NoHole(flows) /\ NotBehind(Present) => NotBehind(h)
<1> DEFINE h(n) == Histories(flows)[n]
           P(n) == /\ GoodHistory(h(n))
                   /\ h(n).latest = latestState \/ h(n).latest \in Later(flows)
                   /\ \A k \in Later(flows) :
                          k < n => h(n).latest # None /\ k <= h(n).latest
                   /\ h(n).latest \in Later(flows) => h(n).latest < n
                   /\ NoHole(flows) /\ NotBehind(Present) => NotBehind(h(n))
           S == {n \in 0 .. MaxSlot + 1 : P(n)}
<1>0. MaxSlot \in Nat /\ 0 \in 0 .. MaxSlot + 1
  BY BufferAssumption
<1>1. /\ latestState \in Slots \cup {None} /\ Present.latest = latestState
      /\ Later(flows) \subseteq 0 .. MaxSlot
      /\ \A k \in Later(flows) : latestState # None => latestState < k
  <2>1. Present.latest = latestState
    BY DEF Present
  <2> QED
    BY <2>1, LaterFacts DEF GoodHistory
<1>2. P(0)
  <2>1. h(0) = Present
    BY HistoriesDefined DEF Present
  <2>2. \A k \in Later(flows) : ~ (k < 0)
    BY <1>1
  <2>3. latestState \notin Later(flows)
    BY <1>1, StoreAssumption DEF Slots
  <2> HIDE DEF h
  <2> QED
    BY <1>1, <2>1, <2>2, <2>3
<1>3. ASSUME NEW n \in 0 .. MaxSlot, P(n)
      PROVE  P(n + 1)
  <2>1. h(n + 1) = IF n \in Later(flows) THEN WithState(h(n), n) ELSE h(n)
    BY HistoriesDefined
  <2> HIDE DEF h
  <2>2. n \in Slots /\ n + 1 \in Slots
    BY DEF Slots
  <2>3. CASE n \notin Later(flows)
    <3>1. \A k \in Later(flows) : k < n + 1 => k < n
      BY <1>1, <2>3
    <3>2. h(n).latest \in Later(flows) => h(n).latest < n + 1
      BY <1>1, <1>3
    <3> QED
      BY <1>3, <2>1, <2>3, <3>1, <3>2
  <2>4. CASE n \in Later(flows)
    <3>1. h(n).latest = None \/ h(n).latest < n
      BY <1>1, <1>3, <2>4
    <3>2. /\ h(n + 1) = WithState(h(n), n)
          /\ GoodHistory(h(n + 1)) /\ h(n + 1).latest = n
          /\ h(n).states # <<>> /\ Newest(h(n).states) = n - 1 =>
                 Newest(h(n + 1).states) = n
          /\ h(n).states = <<>> => Newest(h(n + 1).states) = n
      BY <1>3, <2>1, <2>2, <2>4, <3>1, WithStateFacts
    <3>3. \A k \in Later(flows) : k < n + 1 => n # None /\ k <= n
      BY <1>1, <2>2, StoreAssumption DEF Slots
    <3>4. ASSUME NoHole(flows), NotBehind(Present)
          PROVE  NotBehind(h(n + 1))
      <4>1. CASE h(n).states = <<>>
        BY <3>2, <4>1 DEF NotBehind
      <4>2. CASE h(n).states # <<>>
        <5>1. h(n).latest # None /\ Newest(h(n).states) = h(n).latest
          BY <1>3, <3>4, <4>2 DEF GoodHistory, NotBehind
        <5>2. h(n).latest \in Slots
          BY <1>3, <5>1 DEF GoodHistory
        <5>3. h(n).latest \in Later(flows) \cup ({latestState} \ {None})
          BY <1>3, <5>1
        <5>4. CASE h(n).latest = n - 1
          BY <3>2, <4>2, <5>1, <5>4 DEF NotBehind
        <5>5. CASE h(n).latest # n - 1
          <6>1. n - 1 \in h(n).latest + 1 .. n /\ n - 1 < n
            BY <2>2, <3>1, <5>1, <5>2, <5>5 DEF Slots
          <6>2. n - 1 \in Later(flows)
            BY <2>4, <3>4, <5>3, <6>1 DEF NoHole
          <6>3. n - 1 <= h(n).latest
            BY <1>3, <6>1, <6>2
          <6> QED
            BY <2>2, <5>2, <6>1, <6>3 DEF Slots
        <5> QED
          BY <5>4, <5>5
      <4> QED
        BY <4>1, <4>2
    <3> QED
      BY <2>2, <2>4, <3>2, <3>3, <3>4 DEF Slots
  <2> QED
    BY <2>3, <2>4
<1> HIDE DEF P
<1>4. 0 \in S
  BY <1>0, <1>2
<1>5. \A n \in 0 .. MaxSlot + 1 : n \in S /\ n # MaxSlot + 1 => n + 1 \in S
  <2> SUFFICES ASSUME NEW n \in 0 .. MaxSlot + 1, P(n), n # MaxSlot + 1
               PROVE  n + 1 \in S
    OBVIOUS
  <2>1. n \in 0 .. MaxSlot /\ n + 1 \in 0 .. MaxSlot + 1
    BY <1>0
  <2> QED
    BY <1>3, <2>1
<1>6. \A n \in 0 .. MaxSlot + 1 : n \in S
  <2> HIDE DEF S
  <2>1. MaxSlot + 1 \in Nat
    BY <1>0
  <2> QED
    BY <1>4, <1>5, <2>1, BoundedInduction
<1>7. \A n \in 0 .. MaxSlot + 1 : P(n)
  BY <1>6
<1> QED
  BY <1>7, Zenon DEF P


LEMMA KeptFacts ==
    ASSUME NEW old \in Seq(Slots), NEW new \in Seq(Slots)
    PROVE  LET flows == Kept(old \o new)
           IN  /\ flows \in Seq(Slots) /\ Len(flows) <= MaxFlowRecords
               /\ \A i \in 1 .. Len(flows) :
                      \/ \E j \in 1 .. Len(old) : flows[i] = old[j]
                      \/ \E j \in 1 .. Len(new) : flows[i] = new[j]
               /\ new # <<>> => flows # <<>>
               /\ Len(new) < MaxFlowRecords /\ old # <<>> =>
                      \E i \in 1 .. Len(flows) : flows[i] = old[Len(old)]
<1> DEFINE all == old \o new
           flows == Kept(all)
           drop == IF Len(all) > MaxFlowRecords
                   THEN Len(all) - MaxFlowRecords ELSE 0
<1>1. /\ all \in Seq(Slots) /\ Len(all) = Len(old) + Len(new)
      /\ \A i \in 1 .. Len(old) : all[i] = old[i]
      /\ \A i \in Len(old) + 1 .. Len(all) : all[i] = new[i - Len(old)]
  OBVIOUS
<1> HIDE DEF all
<1>2. /\ flows \in Seq(Slots) /\ Len(flows) = Len(all) - drop
      /\ \A i \in 1 .. Len(flows) : flows[i] = all[i + drop]
      /\ drop \in Nat /\ drop <= Len(all) /\ Len(all) - drop <= MaxFlowRecords
  <2>1. MaxFlowRecords \in Nat /\ MaxFlowRecords > 0 /\ Len(all) \in Nat
    BY <1>1, StoreAssumption
  <2>2. CASE Len(all) > MaxFlowRecords
    <3>1. flows = SubSeq(all, Len(all) - MaxFlowRecords + 1, Len(all))
      BY <2>2 DEF Kept
    <3>2. drop = Len(all) - MaxFlowRecords
      BY <2>2
    <3>3. drop + 1 \in 1 .. Len(all) /\ drop \in Nat
      BY <2>1, <2>2, <3>2
    <3>4. flows = SubSeq(all, drop + 1, Len(all))
      BY <3>1, <3>2
    <3> HIDE DEF flows, drop
    <3>5. /\ flows \in Seq(Slots)
          /\ Len(flows) = Len(all) - drop
          /\ \A i \in 1 .. Len(flows) : flows[i] = all[i + drop]
      BY <1>1, <3>3, <3>4
    <3> QED
      BY <2>1, <2>2, <3>2, <3>3, <3>5
  <2>3. CASE ~ (Len(all) > MaxFlowRecords)
    <3>1. flows = all
      BY <2>3 DEF Kept
    <3>2. drop = 0
      BY <2>3
    <3> QED
      BY <1>1, <2>1, <2>3, <3>1, <3>2
  <2> QED
    BY <2>2, <2>3
<1> HIDE DEF flows, drop
<1>3. ASSUME NEW i \in 1 .. Len(flows)
      PROVE  \/ \E j \in 1 .. Len(old) : flows[i] = old[j]
             \/ \E j \in 1 .. Len(new) : flows[i] = new[j]
  <2>1. i + drop \in 1 .. Len(all) /\ flows[i] = all[i + drop]
    BY <1>1, <1>2
  <2>2. CASE i + drop <= Len(old)
    BY <1>1, <2>1, <2>2
  <2>3. CASE ~ (i + drop <= Len(old))
    <3>1. i + drop \in Len(old) + 1 .. Len(all)
          /\ (i + drop) - Len(old) \in 1 .. Len(new)
      BY <1>1, <1>2, <2>1, <2>3
    <3> QED
      BY <1>1, <2>1, <3>1
  <2> QED
    BY <2>2, <2>3
<1>4. new # <<>> => flows # <<>>
  BY <1>1, <1>2, StoreAssumption DEF drop
<1>5. ASSUME Len(new) < MaxFlowRecords, old # <<>>
      PROVE  \E i \in 1 .. Len(flows) : flows[i] = old[Len(old)]
  <2>1. Len(old) - drop \in 1 .. Len(flows) /\ (Len(old) - drop) + drop = Len(old)
    BY <1>1, <1>2, <1>5, StoreAssumption DEF drop
  <2>2. Len(old) \in 1 .. Len(old)
    BY <1>5
  <2> QED
    BY <1>1, <1>2, <2>1, <2>2
<1> QED
  BY <1>2, <1>3, <1>4, <1>5 DEF flows, all

HistoryInv ==
    /\ GoodHistory(Present)
    /\ records \in Seq(Slots)
    /\ lastEvent = None =>
           firstEvent = None /\ records = <<>> /\ latestState = None
    /\ lastEvent # None =>
           /\ firstEvent \in Slots /\ lastEvent \in 0 .. MaxSlot
           /\ firstEvent <= lastEvent
    /\ \A i \in 1 .. Len(records) :
           /\ firstEvent <= records[i] /\ records[i] <= lastEvent
           /\ latestState # None /\ records[i] <= latestState
    /\ latestState # None => records # <<>>
    /\ /\ MaxCompleted < MaxFlowRecords
       /\ lastEvent # None /\ DayOf(firstEvent) = DayOf(lastEvent)
       => NotBehind(Present)

(* Flows that are retained of a day whose states are built hold on to that *)
(* day: the states of the new flows go on from there.                      *)
LEMMA NoHoleInADay ==
    ASSUME NEW flows \in Seq(Slots), NEW first \in Slots, NEW last \in Slots,
           DayOf(first) = DayOf(last), latestState \in Slots \cup {None},
           \A i \in 1 .. Len(flows) : first <= flows[i] /\ flows[i] <= last,
           latestState # None =>
               \E i \in 1 .. Len(flows) : flows[i] <= latestState
    PROVE  NoHole(flows)
<1> SUFFICES ASSUME NEW a \in Later(flows) \cup ({latestState} \ {None}),
                    NEW b \in Later(flows), NEW k \in a + 1 .. b
             PROVE  k \in Later(flows)
  BY DEF NoHole
<1>1. Later(flows) \subseteq 0 .. MaxSlot
      /\ \A l \in Later(flows) : latestState # None => latestState < l
  BY LaterFacts
<1>2. a \in Slots /\ b \in Slots /\ k \in Slots /\ a < k /\ k <= b
      /\ b <= MaxSlot
  BY <1>1, BufferAssumption DEF Slots
<1>3. \A f \in Range(flows) :
          /\ f \in Slots /\ first <= f /\ f <= last
          /\ \E i \in 1 .. Len(flows) : f = flows[i]
  BY DEF Range
<1>4. \A f, g \in Range(flows) : DayOf(f) = DayOf(g)
  <2>1. \A f \in Range(flows) : DayOf(f) = DayOf(first)
    <3> SUFFICES ASSUME NEW f \in Range(flows)
                 PROVE  DayOf(f) = DayOf(first)
      OBVIOUS
    <3>1. f \in first .. last
      BY <1>3 DEF Slots
    <3> QED
      BY <3>1, SameDay
  <2> QED
    BY <2>1
<1>5. PICK g \in Range(flows) : b <= g
  BY DEF Later, StateSlots
<1>6. PICK f \in Range(flows) : f <= a
  <2>1. CASE a \in Later(flows)
    BY <2>1 DEF Later, StateSlots
  <2>2. CASE a = latestState /\ latestState # None
    <3>1. PICK i \in 1 .. Len(flows) : flows[i] <= latestState
      BY <2>2
    <3>2. flows[i] \in Range(flows)
      BY DEF Range
    <3> QED
      BY <2>2, <3>1, <3>2
  <2> QED
    BY <2>1, <2>2
<1>7. k \in StateSlots(flows)
  <2>1. f <= k /\ k <= g /\ k \in 0 .. MaxSlot
    BY <1>2, <1>3, <1>5, <1>6, BufferAssumption DEF Slots
  <2> QED
    BY <1>4, <2>1 DEF StateSlots
<1>8. latestState # None => k > latestState
  BY <1>1, <1>2 DEF Slots
<1> QED
  BY <1>7, <1>8 DEF Later


(* The history after a packet whose flows are refreshed.                   *)
LEMMA RefreshedFacts ==
    ASSUME GoodHistory(Present), NEW flows \in Seq(Slots),
           \A i \in 1 .. Len(flows) : flows[i] <= MaxSlot
    PROVE  /\ GoodHistory(Refreshed(flows))
           /\ \A i \in 1 .. Len(flows) :
                  /\ Refreshed(flows).latest # None
                  /\ flows[i] <= Refreshed(flows).latest
           /\ NoHole(flows) /\ NotBehind(Present) => NotBehind(Refreshed(flows))
<1> DEFINE h == Refreshed(flows)
<1>1. /\ GoodHistory(h)
      /\ h.latest = latestState \/ h.latest \in Later(flows)
      /\ \A k \in Later(flows) :
             k < MaxSlot + 1 => h.latest # None /\ k <= h.latest
      /\ NoHole(flows) /\ NotBehind(Present) => NotBehind(h)
  <2>1. MaxSlot + 1 \in 0 .. MaxSlot + 1
    BY BufferAssumption
  <2> QED
    BY <2>1, HistoriesFacts DEF Refreshed
<1> HIDE DEF h
<1>2. latestState \in Slots \cup {None} /\ h.latest \in Slots \cup {None}
  BY <1>1 DEF GoodHistory, Present
<1>3. ASSUME NEW i \in 1 .. Len(flows)
      PROVE  h.latest # None /\ flows[i] <= h.latest
  <2>1. \/ flows[i] \in Later(flows)
        \/ latestState # None /\ flows[i] <= latestState
    BY <1>2, LaterFacts
  <2>2. CASE flows[i] \in Later(flows)
    <3>1. flows[i] < MaxSlot + 1
      BY BufferAssumption DEF Slots
    <3> QED
      BY <1>1, <2>2, <3>1
  <2>3. CASE latestState # None /\ flows[i] <= latestState
    <3>1. h.latest # None /\ latestState <= h.latest
      BY <1>1, <1>2, <2>3, LaterFacts, StoreAssumption DEF Slots
    <3> QED
      BY <1>2, <2>3, <3>1 DEF Slots
  <2> QED
    BY <2>1, <2>2, <2>3
<1> QED
  BY <1>1, <1>3 DEF h

(* A packet that is not out of order is noted.                             *)
LEMMA NotedFacts ==
    ASSUME HistoryInv, NEW slot \in 0 .. MaxSlot, InOrder(slot), NoteEvent(slot)
    PROVE  /\ slot \in Slots /\ MaxSlot \in Nat
           /\ firstEvent' \in Slots /\ lastEvent' = slot
           /\ lastEvent' \in 0 .. MaxSlot /\ firstEvent' <= slot
           /\ lastEvent # None =>
                  /\ firstEvent' = firstEvent
                  /\ lastEvent \in Slots /\ lastEvent <= slot
           /\ lastEvent = None => firstEvent' = slot /\ firstEvent = None
           /\ slot # None
           /\ DayOf(firstEvent') = DayOf(lastEvent') /\ lastEvent # None =>
                  DayOf(firstEvent) = DayOf(lastEvent)
<1>1. /\ slot \in Slots /\ MaxSlot \in Nat
      /\ firstEvent' \in Slots /\ lastEvent' = slot /\ lastEvent' \in 0 .. MaxSlot
      /\ firstEvent' <= slot
      /\ lastEvent # None =>
             firstEvent' = firstEvent /\ lastEvent \in Slots /\ lastEvent <= slot
      /\ lastEvent = None => firstEvent' = slot /\ firstEvent = None
      /\ slot # None
  BY BufferAssumption, StoreAssumption
     DEF InOrder, NoteEvent, HistoryInv, Slots
<1>2. DayOf(firstEvent') = DayOf(lastEvent') /\ lastEvent # None =>
          DayOf(firstEvent) = DayOf(lastEvent)
  <2> SUFFICES ASSUME DayOf(firstEvent') = DayOf(lastEvent'), lastEvent # None
               PROVE  DayOf(firstEvent) = DayOf(lastEvent)
    OBVIOUS
  <2>1. firstEvent \in Slots /\ lastEvent \in firstEvent .. slot
    BY <1>1 DEF HistoryInv, Slots
  <2> QED
    BY <1>1, <2>1, SameDay
<1> QED
  BY <1>1, <1>2

LEMMA NotedStep ==
    ASSUME HistoryInv, NEW slot \in 0 .. MaxSlot, InOrder(slot), NoteEvent(slot),
           UNCHANGED <<records, states, bufferFill, latestState>>
    PROVE  HistoryInv'
<1>1. /\ firstEvent' \in Slots /\ lastEvent' = slot
      /\ lastEvent' \in 0 .. MaxSlot /\ firstEvent' <= slot
      /\ lastEvent # None =>
             /\ firstEvent' = firstEvent
             /\ lastEvent \in Slots /\ lastEvent <= slot
      /\ slot # None
  BY NotedFacts
<1>2. DayOf(firstEvent') = DayOf(lastEvent') /\ lastEvent # None =>
          DayOf(firstEvent) = DayOf(lastEvent)
  BY NotedFacts
<1>3. Present' = Present
  BY DEF Present
<1>4. \A i \in 1 .. Len(records) : lastEvent # None /\ records[i] \in Slots
  BY DEF HistoryInv
<1>5. \A i \in 1 .. Len(records) : firstEvent' <= records[i] /\ records[i] <= slot
  BY <1>1, <1>4 DEF HistoryInv, Slots
<1>6. NotBehind(Present)' <=> NotBehind(Present)
  BY <1>3 DEF NotBehind
<1>7. lastEvent = None => NotBehind(Present)
  BY DEF HistoryInv, GoodHistory, NotBehind, Present
<1>8. GoodHistory(Present)'
  BY <1>3 DEF HistoryInv, GoodHistory
<1> QED
  BY <1>1, <1>2, <1>5, <1>6, <1>7, <1>8 DEF HistoryInv

LEMMA AcceptStep ==
    ASSUME HistoryInv, NEW slot \in 0 .. MaxSlot, NEW completed \in Seq(Slots),
           Len(completed) <= MaxCompleted,
           firstEvent # None =>
               \A i \in 1 .. Len(completed) :
                   firstEvent <= completed[i] /\ completed[i] <= slot,
           firstEvent = None =>
               \A i \in 1 .. Len(completed) : completed[i] = slot,
           Accept(slot, completed)
    PROVE  /\ HistoryInv'
           /\ Sequences(completed) \in Seq(Slots)
<1> DEFINE flows == Kept(records \o completed)
<1>1. /\ slot \in Slots /\ MaxSlot \in Nat
      /\ firstEvent' \in Slots /\ lastEvent' = slot
      /\ lastEvent' \in 0 .. MaxSlot /\ firstEvent' <= slot
      /\ lastEvent # None =>
             /\ firstEvent' = firstEvent
             /\ lastEvent \in Slots /\ lastEvent <= slot
      /\ lastEvent = None => firstEvent' = slot /\ firstEvent = None
      /\ slot # None
  BY NotedFacts DEF Accept
<1>2. DayOf(firstEvent') = DayOf(lastEvent') /\ lastEvent # None =>
          DayOf(firstEvent) = DayOf(lastEvent)
  BY NotedFacts DEF Accept
<1>3. CASE completed = <<>>
  <2>1. HistoryInv'
    BY <1>3, NotedStep DEF Accept
  <2> QED
    BY <1>3, <2>1 DEF Sequences
<1>4. CASE completed # <<>>
  <2> DEFINE h == Refreshed(flows)
  <2>1. /\ records' = flows /\ states' = h.states /\ bufferFill' = h.fill
        /\ latestState' = h.latest /\ Sequences(completed) = h.formed
    BY <1>4 DEF Accept, Sequences
  <2>2. records \in Seq(Slots) /\ GoodHistory(Present)
    BY DEF HistoryInv
  <2>3. /\ flows \in Seq(Slots) /\ flows # <<>>
        /\ \A i \in 1 .. Len(flows) :
               \/ \E j \in 1 .. Len(records) : flows[i] = records[j]
               \/ \E j \in 1 .. Len(completed) : flows[i] = completed[j]
        /\ Len(completed) < MaxFlowRecords /\ records # <<>> =>
               \E i \in 1 .. Len(flows) : flows[i] = records[Len(records)]
    BY <1>4, <2>2, KeptFacts
  <2> HIDE DEF flows
  <2>4. ASSUME NEW i \in 1 .. Len(flows)
        PROVE  flows[i] \in Slots /\ firstEvent' <= flows[i] /\ flows[i] <= slot
    <3>0. flows[i] \in Slots
      BY <2>3
    <3>1. ASSUME NEW j \in 1 .. Len(records), flows[i] = records[j]
          PROVE  firstEvent' <= flows[i] /\ flows[i] <= slot
      <4>1. lastEvent # None /\ firstEvent <= records[j] /\ records[j] <= lastEvent
        BY DEF HistoryInv
      <4> QED
        BY <1>1, <3>0, <3>1, <4>1 DEF Slots
    <3>2. ASSUME NEW j \in 1 .. Len(completed), flows[i] = completed[j]
          PROVE  firstEvent' <= flows[i] /\ flows[i] <= slot
      <4>1. CASE lastEvent # None
        <5>1. firstEvent # None
          BY <4>1, StoreAssumption DEF HistoryInv
        <5> QED
          BY <1>1, <3>2, <4>1, <5>1
      <4>2. CASE lastEvent = None
        BY <1>1, <3>2, <4>2 DEF Slots
      <4> QED
        BY <4>1, <4>2
    <3> QED
      BY <2>3, <3>0, <3>1, <3>2
  <2>5. \A i \in 1 .. Len(flows) : flows[i] <= MaxSlot
    BY <1>1, <2>4 DEF Slots
  <2>6. /\ GoodHistory(h)
        /\ \A i \in 1 .. Len(flows) : h.latest # None /\ flows[i] <= h.latest
        /\ NoHole(flows) /\ NotBehind(Present) => NotBehind(h)
    BY <2>2, <2>3, <2>5, RefreshedFacts
  <2> HIDE DEF h
  <2>7. ASSUME MaxCompleted < MaxFlowRecords,
               DayOf(firstEvent') = DayOf(lastEvent')
        PROVE  NotBehind(h)
    <3>1. latestState \in Slots \cup {None}
      BY <2>2 DEF GoodHistory, Present
    <3>2. latestState # None =>
              \E i \in 1 .. Len(flows) : flows[i] <= latestState
      <4> SUFFICES ASSUME latestState # None
                   PROVE  \E i \in 1 .. Len(flows) : flows[i] <= latestState
        OBVIOUS
      <4>1. records # <<>> /\ Len(records) \in 1 .. Len(records)
        BY <2>2 DEF HistoryInv
      <4>2. records[Len(records)] <= latestState
        BY <4>1 DEF HistoryInv
      <4>3. Len(completed) < MaxFlowRecords
        BY <2>7, StoreAssumption, CaptureAssumption
      <4> QED
        BY <2>3, <4>1, <4>2, <4>3
    <3>3. NoHole(flows)
      BY <1>1, <2>3, <2>4, <2>7, <3>1, <3>2, NoHoleInADay
    <3>4. NotBehind(Present)
      <4>1. CASE lastEvent = None
        BY <4>1 DEF HistoryInv, GoodHistory, NotBehind, Present
      <4>2. CASE lastEvent # None
        BY <1>2, <2>7, <4>2 DEF HistoryInv
      <4> QED
        BY <4>1, <4>2
    <3> QED
      BY <2>6, <3>3, <3>4
  <2>8. GoodHistory(Present)'
    BY <2>1, <2>6 DEF GoodHistory, Present, Contiguous, Newest
  <2>9. NotBehind(h) => NotBehind(Present)'
    BY <2>1 DEF NotBehind, Present, Newest
  <2>10. HistoryInv'
    BY <1>1, <2>1, <2>3, <2>4, <2>6, <2>7, <2>8, <2>9 DEF HistoryInv
  <2> QED
    BY <2>1, <2>6, <2>10 DEF GoodHistory
<1> QED
  BY <1>3, <1>4


(* The history with everything that its steps need of the threads.         *)
StoreInv ==
    /\ HistoryInv
    /\ session \in Nat
    /\ lastForecast \in Forecasts \cup {None}
    /\ clock \in 0 .. MaxSlot
    /\ packet \in [Sniffers -> 0 .. MaxSlot]
    /\ DOMAIN thread = Sniffers
    /\ work \in [Sniffers -> [session : Nat, slots : Seq(Slots)]]
    /\ \A s \in Sniffers : thread[s] = "inferring" => work[s].slots # <<>>

LEMMA StoreInitially == ASSUME LiveInit PROVE StoreInv
<1>1. GoodHistory(Present)
  BY StoreAssumption, BufferAssumption
     DEF LiveInit, StoreInit, GoodHistory, Present, Contiguous
<1>2. HistoryInv
  BY <1>1 DEF LiveInit, StoreInit, HistoryInv
<1> QED
  BY <1>2, BufferAssumption DEF LiveInit, StoreInit, StoreInv

LEMMA StoreUnchanged ==
    ASSUME HistoryInv, UNCHANGED historyVars
    PROVE  HistoryInv'
<1>1. Present' = Present
  BY DEF Present, historyVars
<1>2. (GoodHistory(Present)' <=> GoodHistory(Present))
      /\ (NotBehind(Present)' <=> NotBehind(Present))
  BY <1>1 DEF GoodHistory, NotBehind
<1> QED
  BY <1>2 DEF HistoryInv, historyVars

(* What is left of StoreInv' when a thread goes on with its work as it is. *)
LEMMA ThreadGoes ==
    ASSUME StoreInv, NEW s \in Sniffers, NEW from, NEW to, Goes(s, from, to),
           to # "inferring", UNCHANGED <<work, forecastVars>>,
           HistoryInv', packet' \in [Sniffers -> 0 .. MaxSlot]
    PROVE  StoreInv'
BY DEF StoreInv, Goes, adapterVars, forecastVars

(* The flows that a packet completes began in this session.                *)
LEMMA CompletedFacts ==
    ASSUME StoreInv, NEW s \in Sniffers, NEW completed \in Completable(s)
    PROVE  /\ completed \in Seq(Slots) /\ Len(completed) <= MaxCompleted
           /\ firstEvent # None =>
                  \A i \in 1 .. Len(completed) :
                      firstEvent <= completed[i] /\ completed[i] <= packet[s]
           /\ firstEvent = None =>
                  \A i \in 1 .. Len(completed) : completed[i] = packet[s]
<1> DEFINE since == IF firstEvent = None THEN packet[s] ELSE firstEvent
<1>1. packet[s] \in 0 .. MaxSlot
  BY DEF StoreInv
<1>2. PICK n \in 0 .. MaxCompleted : completed \in [1 .. n -> since .. packet[s]]
  BY DEF Completable
<1>3. since \in Slots
  BY <1>1, BufferAssumption, StoreAssumption DEF StoreInv, HistoryInv, Slots
<1>4. /\ completed \in Seq(Slots) /\ Len(completed) <= MaxCompleted
      /\ \A i \in 1 .. Len(completed) :
             since <= completed[i] /\ completed[i] <= packet[s]
             /\ completed[i] \in Slots
  <2>1. since .. packet[s] \subseteq Slots
    BY <1>1, <1>3 DEF Slots
  <2>2. n \in Nat /\ n <= MaxCompleted
    BY CaptureAssumption
  <2>3. completed \in Seq(Slots) /\ Len(completed) = n
    BY <1>2, <2>1, <2>2
  <2>4. \A i \in 1 .. n : completed[i] \in since .. packet[s]
    BY <1>2
  <2> QED
    BY <1>1, <1>3, <2>1, <2>2, <2>3, <2>4 DEF Slots
<1>5. /\ firstEvent # None =>
             \A i \in 1 .. Len(completed) :
                 firstEvent <= completed[i] /\ completed[i] <= packet[s]
      /\ firstEvent = None =>
             \A i \in 1 .. Len(completed) : completed[i] = packet[s]
  BY <1>1, <1>4 DEF Slots
<1> QED
  BY <1>4, <1>5

LEMMA StoreIngest ==
    ASSUME StoreInv, NEW s \in Sniffers, NEW completed \in Completable(s),
           Ingest(s, completed)
    PROVE  StoreInv'
<1> DEFINE sequences == Sequences(completed)
<1>1. packet[s] \in 0 .. MaxSlot
  BY DEF StoreInv
<1>2. /\ completed \in Seq(Slots) /\ Len(completed) <= MaxCompleted
      /\ firstEvent # None =>
             \A i \in 1 .. Len(completed) :
                 firstEvent <= completed[i] /\ completed[i] <= packet[s]
      /\ firstEvent = None =>
             \A i \in 1 .. Len(completed) : completed[i] = packet[s]
  BY CompletedFacts
<1>6. HistoryInv' /\ sequences \in Seq(Slots) /\ UNCHANGED forecastVars
  <2>1. HistoryInv /\ Accept(packet[s], completed)
    BY DEF Ingest, StoreInv
  <2> QED
    BY <1>1, <1>2, <2>1, AcceptStep DEF Accept
<1> HIDE DEF sequences
<1>7. /\ Goes(s, "delivering",
              IF sequences = <<>> THEN "capturing" ELSE "inferring")
      /\ IF sequences = <<>> THEN UNCHANGED work
         ELSE work' = [work EXCEPT ![s] =
                          [session |-> session, slots |-> sequences]]
      /\ UNCHANGED packet
  BY DEF Ingest, sequences
<1>8. CASE sequences = <<>>
  <2>1. Goes(s, "delivering", "capturing") /\ UNCHANGED <<work, forecastVars>>
    BY <1>6, <1>7, <1>8
  <2> QED
    BY <1>6, <1>7, <2>1, ThreadGoes DEF StoreInv
<1>9. CASE sequences # <<>>
  <2>1. /\ DOMAIN thread' = Sniffers
        /\ \A t \in Sniffers \ {s} : thread'[t] = thread[t]
        /\ clock' = clock
    BY <1>7, <1>9 DEF Goes, StoreInv, adapterVars
  <2>2. /\ work' \in [Sniffers -> [session : Nat, slots : Seq(Slots)]]
        /\ work'[s].slots = sequences
        /\ \A t \in Sniffers \ {s} : work'[t] = work[t]
    <3> DEFINE job == [session |-> session, slots |-> sequences]
    <3>1. job \in [session : Nat, slots : Seq(Slots)] /\ job.slots = sequences
      BY <1>6 DEF StoreInv
    <3>2. work' = [work EXCEPT ![s] = job]
      BY <1>7, <1>9
    <3> HIDE DEF job
    <3> QED
      BY <3>1, <3>2 DEF StoreInv
  <2>3. \A t \in Sniffers : thread'[t] = "inferring" => work'[t].slots # <<>>
    BY <1>9, <2>1, <2>2 DEF StoreInv
  <2> QED
    BY <1>6, <1>7, <2>1, <2>2, <2>3 DEF StoreInv, forecastVars
<1> QED
  BY <1>8, <1>9

LEMMA StoreInfer ==
    ASSUME StoreInv, NEW s \in Sniffers, Infer(s)
    PROVE  StoreInv'
<1> DEFINE to == IF Len(work[s].slots) = 1 THEN "capturing" ELSE "inferring"
           answer == [session |-> work[s].session,
                      slot    |-> Head(work[s].slots)]
<1>1. /\ Goes(s, "inferring", to)
      /\ StoreForecast(answer) \/ UNCHANGED storeVars
      /\ work' = [work EXCEPT ![s].slots = Tail(@)]
      /\ UNCHANGED packet
  BY DEF Infer
<1>2. /\ DOMAIN thread' = Sniffers
      /\ thread[s] = "inferring" /\ thread'[s] = to
      /\ \A t \in Sniffers \ {s} : thread'[t] = thread[t]
      /\ clock' = clock
  BY <1>1 DEF Goes, StoreInv, adapterVars
<1>3. /\ work[s].session \in Nat /\ work[s].slots \in Seq(Slots)
      /\ work[s].slots # <<>>
  BY <1>2 DEF StoreInv
<1>4. answer \in Forecasts /\ answer # None
  <2>1. Head(work[s].slots) \in Slots
    BY <1>3
  <2> QED
    BY <1>3, <2>1, StoreAssumption DEF Forecasts
<1>5. /\ work' \in [Sniffers -> [session : Nat, slots : Seq(Slots)]]
      /\ work'[s].slots = Tail(work[s].slots)
      /\ \A t \in Sniffers \ {s} : work'[t] = work[t]
  <2> DEFINE job == [work[s] EXCEPT !.slots = Tail(@)]
  <2>1. work' = [work EXCEPT ![s] = job]
    BY <1>1
  <2>2. Tail(work[s].slots) \in Seq(Slots)
    BY <1>3
  <2>3. work[s] \in [session : Nat, slots : Seq(Slots)]
    BY DEF StoreInv
  <2>4. job \in [session : Nat, slots : Seq(Slots)]
        /\ job.slots = Tail(work[s].slots)
    BY <2>2, <2>3
  <2> HIDE DEF job
  <2> QED
    BY <2>1, <2>4 DEF StoreInv
<1>6. to = "inferring" => Tail(work[s].slots) # <<>>
  <2> SUFFICES ASSUME Len(work[s].slots) # 1
               PROVE  Len(Tail(work[s].slots)) # 0
    BY <1>3
  <2>1. \A q \in Seq(Slots) : q # <<>> => Len(Tail(q)) = Len(q) - 1
    OBVIOUS
  <2> QED
    BY <1>3, <2>1
<1>7. \A t \in Sniffers : thread'[t] = "inferring" => work'[t].slots # <<>>
  BY <1>2, <1>5, <1>6 DEF StoreInv
<1> HIDE DEF answer, to
<1>8. /\ UNCHANGED historyVars /\ session' = session
      /\ lastForecast' \in {lastForecast, answer}
  <2>1. CASE StoreForecast(answer)
    BY <2>1 DEF StoreForecast
  <2>2. CASE UNCHANGED storeVars
    BY <2>2 DEF storeVars, forecastVars
  <2> QED
    BY <1>1, <2>1, <2>2
<1>9. HistoryInv'
  BY <1>8, StoreUnchanged DEF StoreInv
<1> QED
  BY <1>1, <1>2, <1>4, <1>5, <1>7, <1>8, <1>9 DEF StoreInv

(* A new session begins with an empty history. *)
LEMMA StoreBegins ==
    ASSUME StoreInv, StartSession
    PROVE  HistoryInv' /\ session' \in Nat /\ lastForecast' = None
<1>1. /\ firstEvent' = None /\ lastEvent' = None
      /\ records' = <<>> /\ states' = <<>>
      /\ bufferFill' = 0 /\ latestState' = None
      /\ session' = session + 1 /\ lastForecast' = None
  BY DEF StartSession
<1>2. GoodHistory(Present)'
  BY <1>1, BufferAssumption DEF GoodHistory, Present, Contiguous
<1>3. HistoryInv'
  BY <1>1, <1>2 DEF HistoryInv
<1> QED
  BY <1>1, <1>3 DEF StoreInv

(* A step of none of the threads. *)
LEMMA StoreCarried ==
    ASSUME StoreInv, HistoryInv', clock' \in 0 .. MaxSlot,
           UNCHANGED <<session, lastForecast, thread, packet, work>>
    PROVE  StoreInv'
<1>1. session' \in Nat /\ lastForecast' \in Forecasts \cup {None}
  BY DEF StoreInv
<1>2. packet' \in [Sniffers -> 0 .. MaxSlot] /\ DOMAIN thread' = Sniffers
  BY DEF StoreInv
<1>3. work' \in [Sniffers -> [session : Nat, slots : Seq(Slots)]]
  BY DEF StoreInv
<1>4. \A s \in Sniffers : thread'[s] = "inferring" => work'[s].slots # <<>>
  BY DEF StoreInv
<1> QED
  BY <1>1, <1>2, <1>3, <1>4 DEF StoreInv

LEMMA StoreStep ==
    ASSUME StoreInv, [LiveNext]_liveVars
    PROVE  StoreInv'
<1>0. UNCHANGED storeVars => HistoryInv'
  BY StoreUnchanged DEF StoreInv, storeVars
<1>1. ASSUME Tick
      PROVE  StoreInv'
  <2>1. clock' \in 0 .. MaxSlot
    BY <1>1, BufferAssumption DEF Tick, StoreInv
  <2>2. UNCHANGED <<storeVars, snifferVars>>
    BY <1>1 DEF Tick
  <2>3. HistoryInv' /\ UNCHANGED <<session, lastForecast, thread, packet, work>>
    BY <1>0, <2>2 DEF storeVars, forecastVars, snifferVars
  <2> QED
    BY <2>1, <2>3, StoreCarried
<1>2. ASSUME NEW s \in Sniffers, Dispatch(s)
      PROVE  StoreInv'
  <2>1. HistoryInv' /\ UNCHANGED <<work, forecastVars>>
    BY <1>0, <1>2 DEF Dispatch, storeVars
  <2>2. packet' \in [Sniffers -> 0 .. MaxSlot]
    BY <1>2 DEF Dispatch, StoreInv
  <2> QED
    BY <1>2, <2>1, <2>2, ThreadGoes DEF Dispatch, forecastVars
<1>3. ASSUME NEW s \in Sniffers,
             \/ Opens(s) \/ CountPacket(s) \/ CountDrop(s)
             \/ EndAsAsked(s) \/ Die(s)
      PROVE  StoreInv'
  <2>1. UNCHANGED <<storeVars, packet, work>>
    BY <1>3 DEF Opens, CountPacket, CountDrop, EndAsAsked, Die
  <2>2. HistoryInv' /\ UNCHANGED <<work, forecastVars>>
        /\ packet' \in [Sniffers -> 0 .. MaxSlot]
    BY <1>0, <2>1 DEF storeVars, StoreInv
  <2> QED
    BY <1>3, <2>2, ThreadGoes
       DEF Opens, CountPacket, CountDrop, EndAsAsked, Die, forecastVars
<1>4. ASSUME NEW s \in Sniffers, NEW completed \in Completable(s),
             Ingest(s, completed)
      PROVE  StoreInv'
  BY <1>4, StoreIngest DEF Ingest, Accept, forecastVars
<1>5. ASSUME NEW s \in Sniffers, Reject(s)
      PROVE  StoreInv'
  <2>1. /\ UNCHANGED <<records, states, bufferFill, latestState, forecastVars>>
        /\ \/ UNCHANGED <<firstEvent, lastEvent>>
           \/ InOrder(packet[s]) /\ NoteEvent(packet[s])
    BY <1>5 DEF Reject, Refuse
  <2>2. packet[s] \in 0 .. MaxSlot /\ HistoryInv
    BY DEF StoreInv
  <2>3. HistoryInv'
    BY <2>1, <2>2, NotedStep, StoreUnchanged DEF historyVars
  <2> QED
    BY <1>5, <2>1, <2>3, ThreadGoes DEF Reject, StoreInv, forecastVars
<1>6. ASSUME NEW s \in Sniffers, Infer(s)
      PROVE  StoreInv'
  BY <1>6, StoreInfer
<1>7. ASSUME NEW s \in Sniffers, Start(s)
      PROVE  StoreInv'
  <2>1. HistoryInv' /\ session' \in Nat /\ lastForecast' = None
    BY <1>7, StoreBegins DEF Start
  <2> QED
    BY <1>7, <2>1 DEF Start, StoreInv
<1>8. ASSUME StartFails
      PROVE  StoreInv'
  <2>1. HistoryInv' /\ session' \in Nat /\ lastForecast' = None
    BY <1>8, StoreBegins DEF StartFails
  <2> QED
    BY <1>8, <2>1 DEF StartFails, StoreInv, snifferVars
<1>9. ASSUME StopNothing \/ StopAndJoin \/ StopFails \/ Stopped
      PROVE  StoreInv'
  <2>1. UNCHANGED <<storeVars, snifferVars, clock>>
    BY <1>9 DEF StopNothing, StopAndJoin, StopFails, Stopped
  <2>2. HistoryInv' /\ UNCHANGED <<session, lastForecast, clock, thread, packet,
                                   work>>
    BY <1>0, <2>1 DEF storeVars, forecastVars, snifferVars
  <2>3. clock' \in 0 .. MaxSlot
    BY <2>2 DEF StoreInv
  <2> QED
    BY <2>2, <2>3, StoreCarried
<1>10. ASSUME UNCHANGED liveVars
       PROVE  StoreInv'
  <2>1. UNCHANGED <<storeVars, snifferVars, clock>>
    BY <1>10 DEF liveVars, adapterVars
  <2>2. HistoryInv' /\ UNCHANGED <<session, lastForecast, clock, thread, packet,
                                   work>>
    BY <1>0, <2>1 DEF storeVars, forecastVars, snifferVars
  <2>3. clock' \in 0 .. MaxSlot
    BY <2>2 DEF StoreInv
  <2> QED
    BY <2>2, <2>3, StoreCarried
<1> QED
  BY <1>1, <1>2, <1>3, <1>4, <1>5, <1>6, <1>7, <1>8, <1>9, <1>10
     DEF LiveNext, SnifferStep

LEMMA StoreInvariant == LiveSpec => []StoreInv
<1>1. LiveInit => StoreInv
  BY StoreInitially
<1>2. StoreInv /\ [LiveNext]_liveVars => StoreInv'
  BY StoreStep
<1> QED
  BY <1>1, <1>2, PTL DEF LiveSpec

(* However packets, refreshes and midnights come, the number of states     *)
(* that is shown as the history is the number of states that the model     *)
(* gets: live_runtime.py, _refresh_states, whose counter follows other     *)
(* branches than the buffer.                                               *)
THEOREM FillCountsTheStates == LiveSpec => []FillIsHonest
<1>1. StoreInv => FillIsHonest
  BY DEF StoreInv, HistoryInv, GoodHistory, Present, FillIsHonest
<1> QED
  BY <1>1, StoreInvariant, PTL

(* When one packet completes fewer flows than are retained, the history is *)
(* without a hole and keeps up with the states that are built, as long as  *)
(* the session's packets are of one day: live_runtime.py, _refresh_states. *)
(* The hypothesis is what the retained flows hold the states together by.  *)
THEOREM HistoryStaysWhole ==
    MaxCompleted < MaxFlowRecords => (LiveSpec => []HistoryIsWhole)
<1> SUFFICES ASSUME MaxCompleted < MaxFlowRecords
             PROVE  LiveSpec => []HistoryIsWhole
  OBVIOUS
<1>1. StoreInv => HistoryIsWhole
  BY DEF StoreInv, HistoryInv, GoodHistory, NotBehind, Present, HistoryIsWhole
<1> QED
  BY <1>1, StoreInvariant, PTL

(***************************************************************************)
(* The forecasts.                                                          *)
(***************************************************************************)

(* A refresh forms its sequences in the order of their states, after what  *)
(* was there before.                                                       *)
LEMMA FormedStep ==
    ASSUME NEW h, GoodHistory(h), NEW slot \in Slots,
           h.latest = None \/ h.latest < slot,
           NEW after \in Slots \cup {None}, after # None => after < slot,
           Follows(h.formed, after, h.latest)
    PROVE  Follows(WithState(h, slot).formed, after, slot)
<1> DEFINE formed == h.formed
<1>1. /\ formed \in Seq(Slots) /\ h.latest \in Slots \cup {None}
      /\ slot \in Nat /\ slot # None
  BY StoreAssumption DEF GoodHistory, Slots
<1>2. \A i \in 1 .. Len(formed) :
          /\ formed[i] \in Nat /\ formed[i] < slot
          /\ after # None => after < formed[i]
          /\ \A j \in 1 .. i - 1 : formed[j] < formed[i]
  <2> SUFFICES ASSUME NEW i \in 1 .. Len(formed)
               PROVE  formed[i] \in Nat /\ formed[i] < slot
    BY DEF Follows
  <2>1. formed[i] \in Nat
    BY <1>1 DEF Slots
  <2>2. h.latest # None /\ formed[i] <= h.latest
    BY DEF Follows
  <2> QED
    BY <1>1, <2>1, <2>2 DEF Slots
<1>3. Follows(formed, after, slot)
  BY <1>1, <1>2 DEF Follows
<1>4. Follows(Append(formed, slot), after, slot)
  <2>1. /\ Len(Append(formed, slot)) = Len(formed) + 1
        /\ \A i \in 1 .. Len(formed) : Append(formed, slot)[i] = formed[i]
        /\ Append(formed, slot)[Len(formed) + 1] = slot
        /\ Len(formed) \in Nat
    BY <1>1
  <2> SUFFICES ASSUME NEW i \in 1 .. Len(formed) + 1
               PROVE  /\ Append(formed, slot)[i] <= slot
                      /\ after # None => after < Append(formed, slot)[i]
                      /\ \A j \in 1 .. i - 1 :
                             Append(formed, slot)[j] < Append(formed, slot)[i]
    BY <1>1, <2>1 DEF Follows
  <2> HIDE DEF formed
  <2>2. CASE i = Len(formed) + 1
    BY <1>1, <1>2, <2>1, <2>2
  <2>3. CASE i # Len(formed) + 1
    <3>1. i \in 1 .. Len(formed)
      BY <2>1, <2>3
    <3>2. \A j \in 1 .. i - 1 : j \in 1 .. Len(formed)
      BY <2>1, <3>1
    <3> QED
      BY <1>1, <1>2, <2>1, <3>1, <3>2
  <2> QED
    BY <2>2, <2>3
<1> QED
  BY <1>3, <1>4 DEF WithState

LEMMA FormedFacts ==
    ASSUME GoodHistory(Present), NEW flows \in Seq(Slots)
    PROVE  /\ Follows(Refreshed(flows).formed, latestState,
                      Refreshed(flows).latest)
           /\ latestState # None =>
                  /\ Refreshed(flows).latest # None
                  /\ latestState <= Refreshed(flows).latest
<1> DEFINE h(n) == Histories(flows)[n]
           P(n) == Follows(h(n).formed, latestState, h(n).latest)
           S == {n \in 0 .. MaxSlot + 1 : P(n)}
<1>0. MaxSlot \in Nat /\ MaxSlot + 1 \in Nat /\ 0 \in 0 .. MaxSlot + 1
  BY BufferAssumption
<1>1. /\ latestState \in Slots \cup {None}
      /\ Later(flows) \subseteq 0 .. MaxSlot
      /\ \A k \in Later(flows) : latestState # None => latestState < k
  <2>1. latestState \in Slots \cup {None}
    BY DEF GoodHistory, Present
  <2> QED
    BY <2>1, LaterFacts
<1>2. \A n \in 0 .. MaxSlot + 1 :
          /\ GoodHistory(h(n))
          /\ h(n).latest = latestState \/ h(n).latest \in Later(flows)
          /\ h(n).latest \in Later(flows) => h(n).latest < n
  BY HistoriesFacts
<1>3. P(0)
  <2>1. h(0).formed = <<>>
    BY HistoriesDefined
  <2> QED
    BY <2>1 DEF Follows
<1>4. ASSUME NEW n \in 0 .. MaxSlot, P(n)
      PROVE  P(n + 1)
  <2>1. h(n + 1) = IF n \in Later(flows) THEN WithState(h(n), n) ELSE h(n)
    BY HistoriesDefined
  <2>2. n \in Slots /\ n \in 0 .. MaxSlot + 1
    BY <1>0 DEF Slots
  <2>3. /\ GoodHistory(h(n))
        /\ h(n).latest = latestState \/ h(n).latest \in Later(flows)
        /\ h(n).latest \in Later(flows) => h(n).latest < n
    BY <1>2, <2>2
  <2> HIDE DEF h
  <2>4. CASE n \in Later(flows)
    <3>1. h(n).latest = None \/ h(n).latest < n
      BY <1>1, <2>3, <2>4
    <3>2. latestState # None => latestState < n
      BY <1>1, <2>4
    <3>3. Follows(WithState(h(n), n).formed, latestState, n)
      BY <1>1, <1>4, <2>2, <2>3, <3>1, <3>2, FormedStep
    <3>4. WithState(h(n), n).latest = n
      BY DEF WithState
    <3> QED
      BY <2>1, <2>4, <3>3, <3>4
  <2> QED
    BY <1>4, <2>1, <2>4
<1> HIDE DEF P
<1>5. 0 \in S
  BY <1>0, <1>3
<1>6. \A n \in 0 .. MaxSlot + 1 : n \in S /\ n # MaxSlot + 1 => n + 1 \in S
  <2> SUFFICES ASSUME NEW n \in 0 .. MaxSlot + 1, P(n), n # MaxSlot + 1
               PROVE  n + 1 \in S
    OBVIOUS
  <2>1. n \in 0 .. MaxSlot /\ n + 1 \in 0 .. MaxSlot + 1
    BY <1>0
  <2> QED
    BY <1>4, <2>1
<1>7. MaxSlot + 1 \in S
  <2> HIDE DEF S
  <2> QED
    BY <1>0, <1>5, <1>6, BoundedInduction
<1>8. P(MaxSlot + 1)
  BY <1>7
<1>9. MaxSlot + 1 \in 0 .. MaxSlot + 1
  BY <1>0
<1>10. latestState # None =>
           h(MaxSlot + 1).latest # None /\ latestState <= h(MaxSlot + 1).latest
  BY <1>1, <1>2, <1>9, StoreAssumption DEF Slots
<1> QED
  BY <1>8, <1>10 DEF P, Refreshed

(* While no stop() has failed at most one thread runs.                     *)
LEMMA OneThread ==
    ASSUME CaptureInv, orphans = {}, NEW s \in Sniffers, NEW t \in Sniffers,
           thread[s] \notin {"unborn", "ended"},
           thread[t] \notin {"unborn", "ended"}
    PROVE  s = t
BY CaptureAssumption DEF CaptureInv, HandleInv, OneSniffer

LEMMA FollowIngest ==
    ASSUME CaptureInv, StoreInv, ForecastFollowsHistory, orphans = {},
           NEW s \in Sniffers, NEW completed \in Completable(s),
           Ingest(s, completed)
    PROVE  ForecastFollowsHistory'
<1> DEFINE sequences == Sequences(completed)
<1>1. /\ Goes(s, "delivering",
              IF sequences = <<>> THEN "capturing" ELSE "inferring")
      /\ Accept(packet[s], completed)
      /\ IF sequences = <<>> THEN UNCHANGED work
         ELSE work' = [work EXCEPT ![s] =
                          [session |-> session, slots |-> sequences]]
  BY DEF Ingest
<1> HIDE DEF sequences
<1>2. /\ thread[s] = "delivering"
      /\ \A t \in Sniffers \ {s} : thread'[t] \in {"unborn", "ended"}
      /\ thread'[s] = IF sequences = <<>> THEN "capturing" ELSE "inferring"
  <2>1. /\ thread[s] = "delivering"
        /\ \A t \in Sniffers \ {s} : thread'[t] = thread[t]
        /\ thread'[s] = IF sequences = <<>> THEN "capturing" ELSE "inferring"
    BY <1>1, GoesKeeps
  <2> QED
    BY <2>1, OneThread
<1>3. /\ Follows(sequences, latestState, latestState')
      /\ latestState # None => latestState' # None /\ latestState <= latestState'
      /\ UNCHANGED forecastVars
  <2>1. UNCHANGED forecastVars
    BY <1>1 DEF Accept
  <2>2. CASE completed = <<>>
    <3>1. sequences = <<>> /\ latestState' = latestState
      BY <1>1, <2>2 DEF Accept, Sequences, sequences
    <3>2. latestState # None => latestState \in Nat
      BY DEF StoreInv, HistoryInv, GoodHistory, Present, Slots
    <3> QED
      BY <2>1, <3>1, <3>2 DEF Follows
  <2>3. CASE completed # <<>>
    <3> DEFINE flows == Kept(records \o completed)
    <3>1. latestState' = Refreshed(flows).latest
          /\ sequences = Refreshed(flows).formed
      BY <1>1, <2>3 DEF Accept, Sequences, sequences
    <3>2. completed \in Seq(Slots)
      BY CompletedFacts
    <3>3. flows \in Seq(Slots) /\ GoodHistory(Present)
      BY <3>2, KeptFacts DEF StoreInv, HistoryInv
    <3> HIDE DEF flows
    <3> QED
      BY <2>1, <3>1, <3>3, FormedFacts
  <2> QED
    BY <2>2, <2>3
<1>4. /\ lastForecast' = lastForecast
      /\ lastForecast # None =>
             /\ latestState # None /\ lastForecast.slot <= latestState
             /\ lastForecast.slot \in Nat
      /\ latestState # None => latestState \in Nat
      /\ latestState' # None => latestState' \in Nat
  BY <1>3, StoreIngest
     DEF ForecastFollowsHistory, forecastVars, StoreInv, Forecasts, HistoryInv,
         GoodHistory, Present, Slots
<1>5. lastForecast' # None =>
          latestState' # None /\ lastForecast'.slot <= latestState'
  BY <1>3, <1>4
<1>6. ASSUME NEW t \in Sniffers, thread'[t] = "inferring"
      PROVE  Follows(work'[t].slots, LastForecastSlot', latestState')
  <2>1. t = s /\ sequences # <<>> /\ work'[s].slots = sequences
    BY <1>1, <1>2, <1>6 DEF CaptureInv
  <2>2. sequences \in Seq(Slots)
    BY <2>1, StoreIngest DEF StoreInv
  <2>3. Follows(sequences, LastForecastSlot', latestState')
    <3>1. \A i \in 1 .. Len(sequences) : sequences[i] \in Nat
      BY <2>2 DEF Slots
    <3> QED
      BY <1>3, <1>4, <3>1 DEF Follows, LastForecastSlot
  <2> QED
    BY <2>1, <2>3
<1> QED
  BY <1>5, <1>6 DEF ForecastFollowsHistory
LEMMA FollowInfer ==
    ASSUME CaptureInv, StoreInv, ForecastFollowsHistory, orphans = {},
           NEW s \in Sniffers, Infer(s)
    PROVE  ForecastFollowsHistory'
<1> DEFINE slots == work[s].slots
           answer == [session |-> work[s].session, slot |-> Head(slots)]
           to == IF Len(slots) = 1 THEN "capturing" ELSE "inferring"
<1>1. /\ Goes(s, "inferring", to)
      /\ StoreForecast(answer) \/ UNCHANGED storeVars
      /\ work' = [work EXCEPT ![s].slots = Tail(@)]
  BY DEF Infer
<1>2. /\ thread[s] = "inferring"
      /\ \A t \in Sniffers \ {s} : thread'[t] \in {"unborn", "ended"}
  <2>1. /\ thread[s] = "inferring"
        /\ \A t \in Sniffers \ {s} : thread'[t] = thread[t]
    BY <1>1, GoesKeeps
  <2> QED
    BY <2>1, OneThread
<1>3. /\ slots \in Seq(Slots) /\ slots # <<>>
      /\ \A i \in 1 .. Len(slots) : slots[i] \in Nat
      /\ 1 \in 1 .. Len(slots) /\ answer.slot = slots[1]
      /\ Len(Tail(slots)) = Len(slots) - 1
      /\ \A i \in 1 .. Len(slots) - 1 : Tail(slots)[i] = slots[i + 1]
  BY <1>2 DEF StoreInv, Slots
<1>4. work'[s].slots = Tail(slots)
  BY <1>1 DEF StoreInv
<1>5. /\ latestState' = latestState
      /\ lastForecast' \in {lastForecast, answer}
  BY <1>1 DEF StoreForecast, storeVars, historyVars, forecastVars
<1>6. answer # None
  BY <1>3, StoreAssumption DEF StoreInv
<1> HIDE DEF slots, answer, to
<1>7. /\ Follows(slots, LastForecastSlot, latestState)
      /\ lastForecast # None =>
             latestState # None /\ lastForecast.slot <= latestState
  BY <1>2 DEF ForecastFollowsHistory, slots
<1>8. lastForecast' # None =>
          latestState' # None /\ lastForecast'.slot <= latestState'
  <2>1. latestState # None /\ answer.slot <= latestState
    BY <1>3, <1>7 DEF Follows
  <2> QED
    BY <1>5, <1>7, <2>1
<1>9. Follows(Tail(slots), LastForecastSlot', latestState')
  <2> SUFFICES ASSUME NEW i \in 1 .. Len(slots) - 1
               PROVE  /\ latestState # None /\ slots[i + 1] <= latestState
                      /\ LastForecastSlot' # None =>
                             LastForecastSlot' < slots[i + 1]
                      /\ \A j \in 1 .. i - 1 :
                             Tail(slots)[j] < slots[i + 1]
    BY <1>3, <1>5 DEF Follows
  <2>1. /\ i + 1 \in 1 .. Len(slots) /\ 1 \in 1 .. (i + 1) - 1
        /\ \A j \in 1 .. i - 1 :
               j \in 1 .. Len(slots) - 1 /\ j + 1 \in 1 .. (i + 1) - 1
    BY <1>3
  <2>2. /\ latestState # None /\ slots[i + 1] <= latestState
        /\ LastForecastSlot # None => LastForecastSlot < slots[i + 1]
        /\ \A j \in 1 .. (i + 1) - 1 : slots[j] < slots[i + 1]
    BY <1>7, <2>1 DEF Follows
  <2>3. LastForecastSlot' # None => LastForecastSlot' < slots[i + 1]
    BY <1>3, <1>5, <1>6, <2>1, <2>2 DEF LastForecastSlot
  <2> QED
    BY <1>3, <2>1, <2>2, <2>3
<1> QED
  BY <1>2, <1>4, <1>8, <1>9 DEF ForecastFollowsHistory

(* A step that forms no sequence and makes no forecast.                    *)
LEMMA FollowKept ==
    ASSUME ForecastFollowsHistory, orphans' = {} => orphans = {},
           UNCHANGED <<work, lastForecast, latestState>>,
           \A s \in Sniffers :
               thread'[s] = "inferring" => thread[s] = "inferring"
    PROVE  ForecastFollowsHistory'
BY DEF ForecastFollowsHistory, Follows, LastForecastSlot

LEMMA FollowStep ==
    ASSUME CaptureInv, StoreInv, ForecastFollowsHistory, [LiveNext]_liveVars
    PROVE  ForecastFollowsHistory'
<1>0. DOMAIN thread = Sniffers
  BY DEF CaptureInv
<1>1. ASSUME NEW s \in Sniffers, NEW completed \in Completable(s),
             Ingest(s, completed)
      PROVE  ForecastFollowsHistory'
  <2>1. CASE orphans = {}
    BY <1>1, <2>1, FollowIngest
  <2>2. CASE orphans # {}
    BY <1>1, <2>2 DEF Ingest, Goes, adapterVars, ForecastFollowsHistory
  <2> QED
    BY <2>1, <2>2
<1>2. ASSUME NEW s \in Sniffers, Infer(s)
      PROVE  ForecastFollowsHistory'
  <2>1. CASE orphans = {}
    BY <1>2, <2>1, FollowInfer
  <2>2. CASE orphans # {}
    BY <1>2, <2>2 DEF Infer, Goes, adapterVars, ForecastFollowsHistory
  <2> QED
    BY <2>1, <2>2
<1>3. ASSUME NEW s \in Sniffers,
             \/ Opens(s) \/ Dispatch(s) \/ CountPacket(s) \/ Reject(s)
             \/ CountDrop(s)
             \/ EndAsAsked(s) \/ Die(s)
      PROVE  ForecastFollowsHistory'
  <2>1. UNCHANGED <<work, lastForecast, latestState, orphans>>
    BY <1>3 DEF Opens, Dispatch, CountPacket, Reject, Refuse, CountDrop,
                EndAsAsked, Die, Goes, storeVars, historyVars, forecastVars, adapterVars
  <2>2. PICK to \in {"capturing", "counting", "delivering", "dropping", "ended"} :
            thread' = [thread EXCEPT ![s] = to]
    BY <1>3 DEF Opens, Dispatch, CountPacket, Reject, CountDrop, EndAsAsked,
                Die, Goes
  <2>3. \A t \in Sniffers :
            thread'[t] = "inferring" => thread[t] = "inferring"
    BY <1>0, <2>2
  <2> QED
    BY <2>1, <2>3, FollowKept
<1>4. ASSUME NEW s \in Sniffers, Start(s)
      PROVE  ForecastFollowsHistory'
  <2>1. /\ MayStart /\ StartSession /\ UNCHANGED orphans
        /\ thread' = [thread EXCEPT ![s] = "starting"]
        /\ lastForecast' = None
    BY <1>4 DEF Start, StartSession
  <2>2. orphans = {} => \A t \in Sniffers : thread'[t] # "inferring"
    BY <1>0, <2>1, SessionStep
  <2> QED
    BY <2>1, <2>2 DEF ForecastFollowsHistory
<1>5. CASE StartFails
  <2>1. MayStart /\ StartSession /\ UNCHANGED <<orphans, thread>>
        /\ lastForecast' = None
    BY <1>5 DEF StartFails, StartSession, snifferVars
  <2>2. orphans = {} => \A t \in Sniffers : thread'[t] # "inferring"
    BY <2>1, SessionStep
  <2> QED
    BY <2>1, <2>2 DEF ForecastFollowsHistory
<1>6. CASE Tick \/ StopNothing \/ StopAndJoin \/ StopFails \/ Stopped
           \/ UNCHANGED liveVars
  <2>1. UNCHANGED <<work, lastForecast, latestState, thread>>
        /\ orphans \subseteq orphans'
    BY <1>6 DEF Tick, StopNothing, StopAndJoin, StopFails, Stopped, liveVars,
                storeVars, historyVars, forecastVars, snifferVars, adapterVars
  <2> QED
    BY <2>1, FollowKept
<1> QED
  BY <1>1, <1>2, <1>3, <1>4, <1>5, <1>6 DEF LiveNext, SnifferStep

(* Forecasts are made in the order of the history and each once, however   *)
(* packets, refreshes, inferences, starts and stops interleave, until a    *)
(* stop() fails: live_runtime.py, ingest_event, which releases the lock    *)
(* between a refresh and its inferences.                                   *)
THEOREM ForecastsFollowHistory == LiveSpec => []ForecastFollowsHistory
<1>1. LiveInit => ForecastFollowsHistory
  BY DEF LiveInit, StoreInit, ForecastFollowsHistory
<1>2. CaptureInv /\ StoreInv /\ ForecastFollowsHistory /\ [LiveNext]_liveVars
          => ForecastFollowsHistory'
  BY FollowStep
<1> QED
  BY <1>1, <1>2, CaptureInvariant, StoreInvariant, PTL DEF LiveSpec
===============================================================================
