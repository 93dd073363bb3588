--------------------------- MODULE ReplayEngineProofs ---------------------------
(***************************************************************************)
(* Proofs about ReplayEngine, for files of any length and any mixture of   *)
(* events, any sequence length and any length of day: no flow and no       *)
(* packet is lost or counted twice, and the demo engine, which sorts a     *)
(* whole file, agrees with the replay that is fed event by event.          *)
(***************************************************************************)
EXTENDS ReplayEngine, StateBufferProofs

Windows == [slot : Slots, count : Nat]

States == [buffer : Seq(Slots), pushed : Seq(Windows),
           inference : Seq(Slots) \cup {None}, ok : BOOLEAN]

LEMMA EventFacts ==
    ASSUME NEW event \in Events
    PROVE  /\ event.kind \in {"flow", "packet", "state"}
           /\ event.time \in Nat /\ SlotOf(event.time) \in Slots
           /\ event.kind = "state" => event.time % 2 = 0
<1>1. Times \subseteq Nat
  BY BufferAssumption DEF Times
<1>2. /\ event.kind \in {"flow", "packet", "state"}
      /\ event.time \in Times
      /\ event.kind = "state" => event.time % 2 = 0
  BY DEF Events
<1>3. event.time \in Nat
  BY <1>1, <1>2
<1>4. SlotOf(event.time) \in Slots
  BY <1>3 DEF SlotOf, Slots
<1> QED
  BY <1>2, <1>3, <1>4

(* Slots follow time, and a state event, at the begin of its slot, is in a *)
(* later slot than all that came before it.                                *)
LEMMA SlotOfMonotone ==
    \A s, t \in Nat :
        /\ s <= t => SlotOf(s) <= SlotOf(t)
        /\ s < t /\ t % 2 = 0 => SlotOf(s) < SlotOf(t)
BY DEF SlotOf

(* A state that _consume_state takes is pushed, whatever becomes of it.    *)
LEMMA ConsumeFacts ==
    ASSUME NEW states \in States, NEW window \in Windows
    PROVE  /\ Consume(states, window) \in States
           /\ Consume(states, window).ok => states.ok
           /\ Consume(states, window).ok =>
                  Consume(states, window).pushed = Append(states.pushed, window)
<1> DEFINE slot == window.slot
           after == IF CrossesDay(states.buffer, slot) THEN <<slot>>
                    ELSE Pushed(states.buffer, slot)
           ready == IsReady(after) /\ ~ CrossesDay(states.buffer, slot)
           out == Consume(states, window)
<1>1. /\ states.buffer \in Seq(Slots) /\ states.pushed \in Seq(Windows)
      /\ slot \in Slots
  BY DEF States, Windows
<1>2. after \in Seq(Slots)
  <2>1. Append(states.buffer, slot) \in Seq(Slots)
        /\ Append(states.buffer, slot) # <<>>
    BY <1>1
  <2>2. Pushed(states.buffer, slot) \in Seq(Slots)
    BY <2>1 DEF Pushed
  <2> QED
    BY <1>1, <2>2
<1>3. Append(states.pushed, window) \in Seq(Windows)
  BY <1>1
<1>4. (ready => Admits(after)) \in BOOLEAN
  OBVIOUS
<1>5. \/ out = [states EXCEPT !.ok = FALSE]
      \/ states.ok /\ out = [states EXCEPT !.pushed = Append(states.pushed, window)]
      \/ states.ok /\ out = [states EXCEPT
                    !.pushed = Append(states.pushed, window), !.buffer = after,
                    !.inference = IF ready THEN after ELSE states.inference,
                    !.ok = (ready => Admits(after))]
  BY DEF Consume
<1> HIDE DEF after, ready, out
<1>6. CASE out = [states EXCEPT !.ok = FALSE]
  BY <1>6 DEF States, out
<1>7. CASE states.ok /\ out = [states EXCEPT !.pushed = Append(states.pushed, window)]
  BY <1>3, <1>7 DEF States, out
<1>8. CASE states.ok /\ out = [states EXCEPT
                    !.pushed = Append(states.pushed, window), !.buffer = after,
                    !.inference = IF ready THEN after ELSE states.inference,
                    !.ok = (ready => Admits(after))]
  <2> DEFINE good == (ready => Admits(after))
  <2>1. good \in BOOLEAN
    BY <1>4
  <2>2. out = [states EXCEPT
                    !.pushed = Append(states.pushed, window), !.buffer = after,
                    !.inference = IF ready THEN after ELSE states.inference,
                    !.ok = good]
    BY <1>8
  <2> HIDE DEF good
  <2>3. states.ok
    BY <1>8
  <2>4. (IF ready THEN after ELSE states.inference) \in Seq(Slots) \cup {None}
    BY <1>2 DEF States
  <2>5. out \in States
    BY <1>2, <1>3, <2>1, <2>2, <2>4 DEF States
  <2>6. out.pushed = Append(states.pushed, window)
    BY <2>2 DEF States
  <2> QED
    BY <2>3, <2>5, <2>6 DEF out
<1> QED
  BY <1>5, <1>6, <1>7, <1>8
-----------------------------------------------------------------------------
(* Counting: the windows account for the events D, each in the slot that   *)
(* slotAt gives it.                                                        *)
Counted(windows) == {i \in DOMAIN windows : windows[i].count > 0}

In(D, slotAt, slot) == {d \in D : slotAt[d] = slot}

Tally(windows, slotAt, D) ==
    /\ \A i, j \in Counted(windows) : i < j => windows[i].slot < windows[j].slot
    /\ \A i \in Counted(windows) :
           /\ windows[i].count = Cardinality(In(D, slotAt, windows[i].slot))
           /\ \E d \in D : slotAt[d] = windows[i].slot
    /\ \A d \in D : \E i \in Counted(windows) : windows[i].slot = slotAt[d]

LEMMA AppendWindow ==
    ASSUME NEW ws \in Seq(Windows), NEW w \in Windows
    PROVE  /\ Append(ws, w) \in Seq(Windows)
           /\ Len(ws) \in Nat /\ Counted(ws) \subseteq 1 .. Len(ws)
           /\ Append(ws, w)[Len(ws) + 1] = w
           /\ \A i \in 1 .. Len(ws) : Append(ws, w)[i] = ws[i]
           /\ Counted(Append(ws, w)) =
                  IF w.count > 0 THEN Counted(ws) \cup {Len(ws) + 1}
                                 ELSE Counted(ws)
<1> DEFINE t == Append(ws, w)
<1>1. /\ t \in Seq(Windows) /\ Len(ws) \in Nat /\ Len(t) = Len(ws) + 1
      /\ t[Len(ws) + 1] = w
      /\ \A i \in 1 .. Len(ws) : t[i] = ws[i]
      /\ DOMAIN t = 1 .. Len(ws) + 1 /\ DOMAIN ws = 1 .. Len(ws)
  BY AppendProperties, LenProperties
<1> HIDE DEF t
<1>2. 1 .. Len(ws) + 1 = (1 .. Len(ws)) \cup {Len(ws) + 1}
  BY <1>1
<1>3. Counted(t) = IF w.count > 0 THEN Counted(ws) \cup {Len(ws) + 1}
                                  ELSE Counted(ws)
  BY <1>1, <1>2 DEF Counted
<1> QED
  BY <1>1, <1>3 DEF t, Counted

(* Only the slots of the events matter.                                    *)
LEMMA TallySame ==
    ASSUME NEW ws, NEW D, NEW f, NEW g, Tally(ws, f, D), \A d \in D : g[d] = f[d]
    PROVE  Tally(ws, g, D)
<1>1. \A slot : In(D, g, slot) = In(D, f, slot)
  BY DEF In
<1> QED
  BY <1>1 DEF Tally

(* A state that came as an event counts for nothing.                       *)
LEMMA TallyZero ==
    ASSUME NEW ws \in Seq(Windows), NEW w \in Windows, NEW D, NEW f,
           Tally(ws, f, D), w.count = 0
    PROVE  Tally(Append(ws, w), f, D)
<1>1. /\ Counted(Append(ws, w)) = Counted(ws)
      /\ \A i \in Counted(ws) : Append(ws, w)[i] = ws[i]
  BY AppendWindow
<1> QED
  BY <1>1 DEF Tally

(* The first event of a slot that is later than all windows.               *)
LEMMA TallyNew ==
    ASSUME NEW ws \in Seq(Windows), NEW slot \in Slots, NEW D, NEW f, NEW g, NEW x,
           Tally(ws, f, D), IsFiniteSet(D), x \notin D,
           \A d \in D : g[d] = f[d], g[x] = slot,
           \A i \in Counted(ws) : ws[i].slot < slot
    PROVE  Tally(Append(ws, [slot |-> slot, count |-> 1]), g, D \cup {x})
<1> DEFINE w == [slot |-> slot, count |-> 1]
           E == D \cup {x}
           t == Append(ws, w)
           last == Len(ws) + 1
<1>0. w \in Windows /\ w.slot = slot /\ w.count = 1
  BY DEF Windows
<1>1. /\ Len(ws) \in Nat /\ Counted(ws) \subseteq 1 .. Len(ws)
      /\ Counted(t) = Counted(ws) \cup {last} /\ t[last] = w
      /\ \A i \in Counted(ws) : t[i] = ws[i] /\ i < last /\ i # last
  <2>1. /\ Len(ws) \in Nat /\ Counted(ws) \subseteq 1 .. Len(ws)
        /\ t[last] = w /\ \A i \in 1 .. Len(ws) : t[i] = ws[i]
        /\ Counted(t) = IF w.count > 0 THEN Counted(ws) \cup {last}
                                       ELSE Counted(ws)
    BY <1>0, AppendWindow
  <2> HIDE DEF t, w
  <2> QED
    BY <1>0, <2>1
<1>2. \A d \in D : f[d] # slot
  BY DEF Tally, Slots
<1>3. In(E, g, slot) = {x} /\ Cardinality(In(E, g, slot)) = 1
  <2>1. In(E, g, slot) = {x}
    BY <1>2 DEF In
  <2> QED
    BY <2>1, FS_Singleton
<1>4. \A i \in Counted(ws) : In(E, g, ws[i].slot) = In(D, f, ws[i].slot)
  <2> SUFFICES ASSUME NEW i \in Counted(ws)
               PROVE  In(E, g, ws[i].slot) = In(D, f, ws[i].slot)
    OBVIOUS
  <2>1. ws[i].slot # slot
    <3>1. i \in 1 .. Len(ws) /\ ws[i] \in Windows
      BY <1>1
    <3>2. ws[i].slot \in Nat /\ slot \in Nat
      BY <3>1 DEF Windows, Slots
    <3> QED
      BY <3>2
  <2> QED
    BY <2>1 DEF In
<1> HIDE DEF w, t, E, last
<1>5. \A i, j \in Counted(t) : i < j => t[i].slot < t[j].slot
  <2> SUFFICES ASSUME NEW i \in Counted(t), NEW j \in Counted(t), i < j
               PROVE  t[i].slot < t[j].slot
    OBVIOUS
  <2>0. i \in Int /\ last \in Int
    BY <1>1 DEF last
  <2>1. CASE j = last
    BY <1>0, <1>1, <2>0, <2>1
  <2>2. CASE j # last
    <3>1. i # last
      BY <1>1, <2>0, <2>2
    <3> QED
      BY <1>1, <2>2, <3>1 DEF Tally
  <2> QED
    BY <2>1, <2>2
<1>6. \A i \in Counted(t) : /\ t[i].count = Cardinality(In(E, g, t[i].slot))
                            /\ \E d \in E : g[d] = t[i].slot
  <2> SUFFICES ASSUME NEW i \in Counted(t)
               PROVE  /\ t[i].count = Cardinality(In(E, g, t[i].slot))
                      /\ \E d \in E : g[d] = t[i].slot
    OBVIOUS
  <2>1. CASE i = last
    BY <1>0, <1>1, <1>3, <2>1 DEF E
  <2>2. CASE i # last
    BY <1>1, <1>4, <2>2 DEF Tally, E
  <2> QED
    BY <2>1, <2>2
<1>7. \A d \in E : \E i \in Counted(t) : t[i].slot = g[d]
  <2> SUFFICES ASSUME NEW d \in E
               PROVE  \E i \in Counted(t) : t[i].slot = g[d]
    OBVIOUS
  <2>1. CASE d = x
    BY <1>0, <1>1, <2>1
  <2>2. CASE d \in D
    BY <1>1, <2>2 DEF Tally
  <2> QED
    BY <2>1, <2>2 DEF E
<1> QED
  BY <1>5, <1>6, <1>7 DEF Tally, w, t, E

(* One more event of the slot of the last window.                          *)
LEMMA TallyMore ==
    ASSUME NEW ws \in Seq(Windows), NEW b \in Windows, NEW D, NEW f, NEW g, NEW x,
           Tally(Append(ws, b), f, D), IsFiniteSet(D), x \notin D,
           \A d \in D : g[d] = f[d], g[x] = b.slot, b.count > 0
    PROVE  Tally(Append(ws, [b EXCEPT !.count = @ + 1]), g, D \cup {x})
<1> DEFINE c == [b EXCEPT !.count = @ + 1]
           E == D \cup {x}
           s == Append(ws, b)
           t == Append(ws, c)
           last == Len(ws) + 1
<1>0. c \in Windows /\ c.slot = b.slot /\ c.count = b.count + 1 /\ b.count \in Nat
  BY DEF Windows
<1>1. /\ Counted(t) = Counted(s) /\ Counted(s) = Counted(ws) \cup {last}
      /\ t[last] = c /\ s[last] = b
      /\ \A i \in Counted(ws) : t[i] = s[i] /\ i # last /\ i < last
  <2>1. /\ Len(ws) \in Nat /\ Counted(ws) \subseteq 1 .. Len(ws)
        /\ t[last] = c /\ s[last] = b
        /\ \A i \in 1 .. Len(ws) : t[i] = ws[i] /\ s[i] = ws[i]
        /\ Counted(t) = IF c.count > 0 THEN Counted(ws) \cup {last}
                                       ELSE Counted(ws)
        /\ Counted(s) = IF b.count > 0 THEN Counted(ws) \cup {last}
                                       ELSE Counted(ws)
    BY <1>0, AppendWindow, ZenonT(60)
  <2> HIDE DEF t, s, c
  <2> QED
    BY <1>0, <2>1
<1>2. \A i \in Counted(s) : t[i].slot = s[i].slot
  BY <1>0, <1>1
<1>3. In(E, g, b.slot) = In(D, f, b.slot) \cup {x}
      /\ x \notin In(D, f, b.slot)
  BY DEF In
<1>4. IsFiniteSet(In(D, f, b.slot)) /\ Cardinality(In(D, f, b.slot)) = b.count
  <2>1. In(D, f, b.slot) \in SUBSET D
    BY DEF In
  <2>2. IsFiniteSet(In(D, f, b.slot))
    BY <2>1, FS_Subset
  <2>3. last \in Counted(s) /\ s[last] = b
    BY <1>1
  <2> HIDE DEF s, last
  <2> QED
    BY <2>2, <2>3 DEF Tally, s
<1>5. Cardinality(In(E, g, b.slot)) = b.count + 1
  BY <1>3, <1>4, FS_AddElement
<1>6. \A i \in Counted(ws) : In(E, g, s[i].slot) = In(D, f, s[i].slot)
  <2> SUFFICES ASSUME NEW i \in Counted(ws)
               PROVE  In(E, g, s[i].slot) = In(D, f, s[i].slot)
    OBVIOUS
  <2>1. s[i].slot < s[last].slot
    BY <1>1 DEF Tally
  <2>2. s[i].slot # b.slot
    <3>1. i \in Counted(s) /\ s \in Seq(Windows)
      BY <1>1, AppendWindow
    <3>2. s[i] \in Windows
      BY <3>1 DEF Counted
    <3>3. s[i].slot \in Nat /\ b.slot \in Nat
      BY <3>2 DEF Windows, Slots
    <3> HIDE DEF s, last
    <3> QED
      BY <1>1, <2>1, <3>3
  <2> HIDE DEF s
  <2> QED
    BY <2>2 DEF In
<1>7. Tally(s, f, D)
  OBVIOUS
<1> HIDE DEF c, s, t, E, last
<1>8. \A i, j \in Counted(t) : i < j => t[i].slot < t[j].slot
  BY <1>1, <1>2, <1>7 DEF Tally
<1>9. \A i \in Counted(t) : /\ t[i].count = Cardinality(In(E, g, t[i].slot))
                            /\ \E d \in E : g[d] = t[i].slot
  <2> SUFFICES ASSUME NEW i \in Counted(t)
               PROVE  /\ t[i].count = Cardinality(In(E, g, t[i].slot))
                      /\ \E d \in E : g[d] = t[i].slot
    OBVIOUS
  <2>1. CASE i = last
    BY <1>0, <1>1, <1>5, <2>1 DEF E
  <2>2. CASE i # last
    <3>1. i \in Counted(ws) /\ i \in Counted(s) /\ t[i] = s[i]
      BY <1>1, <2>2
    <3>2. /\ s[i].count = Cardinality(In(D, f, s[i].slot))
          /\ \E d \in D : f[d] = s[i].slot
      BY <1>7, <3>1 DEF Tally
    <3>3. PICK d \in D : f[d] = s[i].slot
      BY <3>2
    <3>4. d \in E /\ g[d] = t[i].slot
      BY <3>1, <3>3 DEF E
    <3>5. t[i].count = Cardinality(In(E, g, t[i].slot))
      BY <1>6, <3>1, <3>2
    <3> QED
      BY <3>4, <3>5
  <2> QED
    BY <2>1, <2>2
<1>10. \A d \in E : \E i \in Counted(t) : t[i].slot = g[d]
  <2> SUFFICES ASSUME NEW d \in E
               PROVE  \E i \in Counted(t) : t[i].slot = g[d]
    OBVIOUS
  <2>1. CASE d = x
    BY <1>0, <1>1, <2>1
  <2>2. CASE d \in D
    BY <1>1, <1>2, <1>7, <2>2 DEF Tally
  <2> QED
    BY <2>1, <2>2 DEF E
<1> QED
  BY <1>8, <1>9, <1>10 DEF Tally, c, t, E
-----------------------------------------------------------------------------
(* The open bucket is no window yet, the windows are of slots before the   *)
(* slot of the last event, and the bucket is not of a later one.           *)
Late(windows, bucket, slot) ==
    /\ windows \in Seq(Windows) /\ bucket \in Windows \cup {None}
    /\ \A i \in Counted(windows) : windows[i].slot < slot
    /\ bucket # None => bucket.count > 0 /\ bucket.slot <= slot

LEMMA NoneIsNoWindow == None \notin Windows
BY ReplayAssumption DEF Windows, Slots

LEMMA OpenFacts ==
    ASSUME NEW ws \in Seq(Windows), NEW b
    PROVE  /\ b = None => ws \o Open(b) = ws
           /\ b \in Windows => ws \o Open(b) = Append(ws, b)
<1>1. ws \o <<>> = ws
  BY ConcatEmptySeq
<1>2. b \in Windows => Append(ws, b) = ws \o <<b>>
  BY AppendIsConcat
<1> QED
  BY <1>1, <1>2, NoneIsNoWindow DEF Open

(* An event of the bucket's slot goes into it; one of a later slot         *)
(* completes it and opens the next.                                        *)
LEMMA BucketStep ==
    ASSUME NEW ws, NEW b, NEW last \in Slots, NEW slot \in Slots,
           NEW D, NEW f, NEW g, NEW x,
           Late(ws, b, last), last <= slot,
           Tally(ws \o Open(b), f, D), IsFiniteSet(D), x \notin D,
           \A d \in D : g[d] = f[d], g[x] = slot
    PROVE  /\ Late(ws \o Completed(b, slot), Added(b, slot), slot)
           /\ Tally((ws \o Completed(b, slot)) \o Open(Added(b, slot)),
                    g, D \cup {x})
<1> DEFINE new == [slot |-> slot, count |-> 1]
<1>0. /\ ws \in Seq(Windows) /\ b \in Windows \cup {None}
      /\ \A i \in Counted(ws) : ws[i].slot \in Nat /\ ws[i].slot < slot
      /\ new \in Windows /\ new.count > 0 /\ new.slot = slot
      /\ slot \in Nat /\ last \in Nat
  <2>1. ws \in Seq(Windows) /\ b \in Windows \cup {None}
        /\ \A i \in Counted(ws) : ws[i].slot < last
    BY DEF Late
  <2>2. slot \in Nat /\ last \in Nat
    BY DEF Slots
  <2>3. \A i \in Counted(ws) : ws[i] \in Windows
    BY <2>1 DEF Counted
  <2>4. \A i \in Counted(ws) : ws[i].slot \in Nat
    BY <2>3 DEF Windows, Slots
  <2>5. new \in Windows /\ new.count > 0 /\ new.slot = slot
    BY DEF Windows
  <2> HIDE DEF new
  <2> QED
    BY <2>1, <2>2, <2>4, <2>5
<1>1. CASE b = None
  <2>1. Completed(b, slot) = <<>> /\ Added(b, slot) = new
    BY <1>1 DEF Completed, Added
  <2>2. ws \o <<>> = ws /\ ws \o Open(b) = ws /\ ws \o Open(new) = Append(ws, new)
    BY <1>0, <1>1, OpenFacts, ConcatEmptySeq
  <2>3. Tally(Append(ws, new), g, D \cup {x})
    BY <1>0, <2>2, TallyNew
  <2>4. Late(ws, new, slot)
    <3> HIDE DEF new
    <3> QED
      BY <1>0 DEF Late
  <2> HIDE DEF new
  <2> QED
    BY <2>1, <2>2, <2>3, <2>4
<1>2. CASE b \in Windows /\ b.slot = slot
  <2> DEFINE c == [b EXCEPT !.count = @ + 1]
  <2>1. b # None /\ b.count > 0 /\ b.count \in Nat
    BY <1>2, NoneIsNoWindow DEF Late, Windows
  <2>2. Completed(b, slot) = <<>> /\ Added(b, slot) = c
    BY <1>2, <2>1 DEF Completed, Added
  <2>3. c \in Windows /\ c.slot = slot /\ c.count > 0
    BY <1>2, <2>1 DEF Windows
  <2>4. /\ ws \o <<>> = ws /\ ws \o Open(b) = Append(ws, b)
        /\ ws \o Open(c) = Append(ws, c)
    BY <1>0, <1>2, <2>3, OpenFacts, ConcatEmptySeq
  <2>5. Tally(Append(ws, c), g, D \cup {x})
    BY <1>0, <1>2, <2>1, <2>4, TallyMore
  <2>6. Late(ws, c, slot)
    <3> HIDE DEF c
    <3> QED
      BY <1>0, <2>3 DEF Late
  <2> HIDE DEF c
  <2> QED
    BY <2>2, <2>4, <2>5, <2>6
<1>3. CASE b \in Windows /\ b.slot # slot
  <2> DEFINE vs == Append(ws, b)
  <2>1. b # None /\ b.slot \in Nat /\ b.slot <= last
    BY <1>3, NoneIsNoWindow DEF Late, Windows, Slots
  <2>2. Completed(b, slot) = <<b>> /\ Added(b, slot) = new
    BY <1>3, <2>1 DEF Completed, Added
  <2>3. /\ vs \in Seq(Windows) /\ ws \o <<b>> = vs /\ ws \o Open(b) = vs
        /\ vs \o Open(new) = Append(vs, new)
    BY <1>0, <1>3, OpenFacts, AppendWindow, AppendIsConcat
  <2>4. \A i \in Counted(vs) : vs[i].slot < slot
    <3>1. /\ Counted(vs) \subseteq Counted(ws) \cup {Len(ws) + 1}
          /\ vs[Len(ws) + 1] = b
          /\ \A i \in Counted(ws) : vs[i] = ws[i]
      BY <1>0, <1>3, AppendWindow
    <3> HIDE DEF vs
    <3>2. b.slot < slot
      BY <1>0, <1>3, <2>1
    <3> QED
      BY <1>0, <3>1, <3>2
  <2> HIDE DEF vs
  <2>5. Tally(Append(vs, new), g, D \cup {x})
    BY <1>0, <2>3, <2>4, TallyNew
  <2>6. Late(vs, new, slot)
    <3> HIDE DEF new
    <3> QED
      BY <1>0, <2>3, <2>4 DEF Late
  <2> HIDE DEF new
  <2> QED
    BY <2>2, <2>3, <2>5, <2>6
<1> QED
  BY <1>0, <1>1, <1>2, <1>3
-----------------------------------------------------------------------------
LastSlot(events) ==
    IF events = <<>> THEN 0 ELSE SlotOf(events[Len(events)].time)

SlotsOf(events) == [i \in 1 .. Len(events) |-> SlotOf(events[i].time)]

Kind(events, kind) == {i \in 1 .. Len(events) : events[i].kind = kind}

InOrderOfTime(events) ==
    \A i, j \in 1 .. Len(events) : i < j => events[i].time <= events[j].time

(* The inductive invariant. While the replay reads, what is flushed is of  *)
(* slots that are over: the next flow of any of these would be too early.  *)
(* That is why no later window can repeat a slot.                          *)
ReplayInv ==
    /\ fed \in Seq(Events)
    /\ phase \in {"reading", "finished", "stopped", "failed"}
    /\ phase # "failed" =>
           /\ net \in States /\ net.ok
           /\ InOrderOfTime(fed)
           /\ Tally(net.pushed \o Open(pending), SlotsOf(fed), Kind(fed, "flow"))
           /\ Tally(tables \o Open(packets), SlotsOf(fed), Kind(fed, "packet"))
           /\ net.pushed \o Open(pending) \in Seq(Windows)
           /\ tables \o Open(packets) \in Seq(Windows)
    /\ phase = "reading" =>
           /\ fed = <<>> => pending = None
           /\ Late(net.pushed, pending, LastSlot(fed))
           /\ Late(tables, packets, LastSlot(fed))

(* What one more event, not before the last, changes.                      *)
LEMMA FedFacts ==
    ASSUME NEW s \in Seq(Events), NEW event \in Events, InOrderOfTime(s),
           s # <<>> => event.time >= s[Len(s)].time
    PROVE  LET x == Len(s) + 1
               t == Append(s, event)
           IN  /\ t \in Seq(Events) /\ InOrderOfTime(t)
               /\ LastSlot(s) \in Slots /\ LastSlot(t) = SlotOf(event.time)
               /\ LastSlot(s) <= LastSlot(t) /\ LastSlot(t) \in Slots
               /\ s # <<>> /\ event.kind = "state" /\ event.time > s[Len(s)].time
                      => LastSlot(s) < LastSlot(t)
               /\ SlotsOf(t)[x] = SlotOf(event.time)
               /\ \A i \in 1 .. Len(s) : SlotsOf(t)[i] = SlotsOf(s)[i]
               /\ \A kind : /\ IsFiniteSet(Kind(s, kind)) /\ x \notin Kind(s, kind)
                            /\ Kind(s, kind) \subseteq 1 .. Len(s)
                            /\ Kind(t, kind) =
                                   IF event.kind = kind THEN Kind(s, kind) \cup {x}
                                                        ELSE Kind(s, kind)
<1> DEFINE x == Len(s) + 1
           t == Append(s, event)
<1>1. /\ t \in Seq(Events) /\ Len(s) \in Nat /\ Len(t) = x /\ t[x] = event
      /\ \A i \in 1 .. Len(s) : t[i] = s[i] /\ s[i] \in Events
      /\ t # <<>>
  BY AppendProperties
<1>2. /\ event.time \in Nat /\ SlotOf(event.time) \in Slots
      /\ event.kind = "state" => event.time % 2 = 0
  BY EventFacts
<1>3. \A i \in 1 .. Len(s) : s[i].time \in Nat /\ SlotOf(s[i].time) \in Slots
  BY <1>1, EventFacts
<1>4. s # <<>> => Len(s) \in 1 .. Len(s)
  BY <1>1
<1> HIDE DEF t
<1>5. \A i \in 1 .. x : i # x => i \in 1 .. Len(s)
  BY <1>1
<1>6. \A i \in 1 .. Len(s) : s[i].time <= event.time
  <2> SUFFICES ASSUME NEW i \in 1 .. Len(s)
               PROVE  s[i].time <= event.time
    OBVIOUS
  <2>1. s # <<>>
    BY <1>1
  <2>2. s[i].time <= s[Len(s)].time
    <3>1. CASE i = Len(s)
      BY <1>3, <3>1
    <3>2. CASE i < Len(s)
      BY <1>4, <2>1, <3>2 DEF InOrderOfTime
    <3> QED
      BY <1>1, <3>1, <3>2
  <2>3. s[i].time \in Nat /\ s[Len(s)].time \in Nat
    BY <1>3, <1>4, <2>1
  <2> QED
    BY <1>2, <2>1, <2>2, <2>3
<1>7. InOrderOfTime(t)
  <2> SUFFICES ASSUME NEW i \in 1 .. Len(t), NEW j \in 1 .. Len(t), i < j
               PROVE  t[i].time <= t[j].time
    BY DEF InOrderOfTime
  <2>1. i \in 1 .. Len(s)
    BY <1>1
  <2>2. CASE j = x
    BY <1>1, <1>6, <2>1, <2>2
  <2>3. CASE j # x
    BY <1>1, <1>5, <2>1, <2>3 DEF InOrderOfTime
  <2> QED
    BY <2>2, <2>3
<1>8. LastSlot(t) = SlotOf(event.time)
  BY <1>1 DEF LastSlot
<1>9. LastSlot(s) \in Slots /\ LastSlot(s) <= LastSlot(t)
  <2>1. CASE s = <<>>
    BY <1>2, <1>8, <2>1 DEF LastSlot, Slots
  <2>2. CASE s # <<>>
    BY <1>2, <1>3, <1>4, <1>8, <2>2, SlotOfMonotone DEF LastSlot
  <2> QED
    BY <2>1, <2>2
<1>10. s # <<>> /\ event.kind = "state" /\ event.time > s[Len(s)].time
           => LastSlot(s) < LastSlot(t)
  BY <1>2, <1>3, <1>4, <1>8, SlotOfMonotone DEF LastSlot
<1>11. /\ SlotsOf(t)[x] = SlotOf(event.time)
       /\ \A i \in 1 .. Len(s) : SlotsOf(t)[i] = SlotsOf(s)[i]
  BY <1>1 DEF SlotsOf
<1>12. ASSUME NEW kind
       PROVE  /\ IsFiniteSet(Kind(s, kind)) /\ x \notin Kind(s, kind)
              /\ Kind(s, kind) \subseteq 1 .. Len(s)
              /\ Kind(t, kind) =
                     IF event.kind = kind THEN Kind(s, kind) \cup {x}
                                          ELSE Kind(s, kind)
  <2>1. Kind(s, kind) \in SUBSET (1 .. Len(s))
    BY DEF Kind
  <2>2. IsFiniteSet(1 .. Len(s))
    BY <1>1, FS_Interval
  <2>3. IsFiniteSet(Kind(s, kind))
    BY <2>1, <2>2, FS_Subset
  <2>4. x \notin Kind(s, kind)
    BY <1>1, <2>1
  <2>5. 1 .. x = (1 .. Len(s)) \cup {x} /\ x \notin 1 .. Len(s)
    BY <1>1
  <2>6. Kind(t, kind) = {i \in (1 .. Len(s)) \cup {x} : t[i].kind = kind}
    BY <1>1, <2>5 DEF Kind
  <2> HIDE DEF x
  <2>7. Kind(t, kind) = IF event.kind = kind THEN Kind(s, kind) \cup {x}
                                             ELSE Kind(s, kind)
    BY <1>1, <2>5, <2>6 DEF Kind
  <2> QED
    BY <2>1, <2>3, <2>4, <2>7
<1> QED
  BY <1>1, <1>2, <1>7, <1>8, <1>9, <1>10, <1>11, <1>12 DEF t

LEMMA LateType ==
    ASSUME NEW ws, NEW b, NEW slot, Late(ws, b, slot)
    PROVE  ws \o Open(b) \in Seq(Windows)
<1>1. CASE b = None
  BY <1>1, OpenFacts DEF Late
<1>2. CASE b \in Windows
  <2>1. ws \in Seq(Windows) /\ ws \o Open(b) = Append(ws, b)
    BY <1>2, OpenFacts DEF Late
  <2> QED
    BY <1>2, <2>1, AppendProperties
<1> QED
  BY <1>1, <1>2 DEF Late

LEMMA LateLater ==
    ASSUME NEW ws, NEW b, NEW last \in Slots, NEW slot \in Slots,
           Late(ws, b, last), last <= slot
    PROVE  Late(ws, b, slot)
<1>1. \A i \in Counted(ws) : ws[i].slot \in Nat
  <2>1. \A i \in Counted(ws) : ws[i] \in Windows
    BY DEF Late, Counted
  <2> QED
    BY <2>1 DEF Windows, Slots
<1>2. b # None => b.slot \in Nat
  BY DEF Late, Windows, Slots
<1>3. last \in Nat /\ slot \in Nat
  BY DEF Slots
<1> QED
  BY <1>1, <1>2, <1>3 DEF Late

(* What is flushed is pushed behind what was pushed before.                *)
LEMMA FlushedFacts ==
    ASSUME net \in States, NEW ws, ws = <<>> \/ \E b \in Windows : ws = <<b>>
    PROVE  /\ Flushed(ws) \in States
           /\ Flushed(ws).ok => net.ok
           /\ Flushed(ws).ok => Flushed(ws).pushed = net.pushed \o ws
<1>0. net.pushed \in Seq(Windows)
  BY DEF States
<1>1. CASE ws = <<>>
  <2>1. Flushed(ws) = net /\ net.pushed \o ws = net.pushed
    BY <1>0, <1>1, ConcatEmptySeq DEF Flushed
  <2> QED
    BY <2>1
<1>2. ASSUME NEW b \in Windows, ws = <<b>>
      PROVE  /\ Flushed(ws) \in States
             /\ Flushed(ws).ok => net.ok
             /\ Flushed(ws).ok => Flushed(ws).pushed = net.pushed \o ws
  <2>1. Flushed(ws) = Consume(net, b)
    BY <1>2 DEF Flushed
  <2>2. net.pushed \o ws = Append(net.pushed, b)
    BY <1>0, <1>2, AppendIsConcat
  <2> QED
    BY <2>1, <2>2, ConsumeFacts
<1> QED
  BY <1>1, <1>2

LEMMA CompletedIs ==
    ASSUME NEW b \in Windows \cup {None}, NEW slot
    PROVE  /\ Completed(b, slot) = <<>> \/ \E w \in Windows : Completed(b, slot) = <<w>>
           /\ Open(b) = <<>> \/ \E w \in Windows : Open(b) = <<w>>
BY DEF Completed, Open

(* The outcome of the states that went through _consume_state.             *)
LEMMA ContinuesFacts ==
    ASSUME NEW states \in States, Continues(states), phase = "reading"
    PROVE  /\ net' = states
           /\ phase' \in {"reading", "stopped", "failed"}
           /\ phase' # "failed" => states.ok
BY DEF Continues

(* A state that came as an event closes all windows of flows before it.    *)
LEMMA FeedStateInv ==
    ASSUME ReplayInv, NEW event \in Events, FeedState(event)
    PROVE  ReplayInv'
<1> DEFINE zero == [slot |-> SlotOf(event.time), count |-> 0]
           mid == Flushed(Open(pending))
           ws == net.pushed \o Open(pending)
           x == Len(fed) + 1
<1>1. /\ phase = "reading" /\ event.kind = "state"
      /\ fed' = Append(fed, event) /\ pending' = None
      /\ tables' = tables /\ packets' = packets
      /\ Continues(Consume(mid, zero))
  BY DEF FeedState, Reads
<1>2. /\ fed \in Seq(Events) /\ net \in States /\ net.ok /\ InOrderOfTime(fed)
      /\ Tally(ws, SlotsOf(fed), Kind(fed, "flow"))
      /\ Tally(tables \o Open(packets), SlotsOf(fed), Kind(fed, "packet"))
      /\ fed = <<>> => pending = None
      /\ Late(net.pushed, pending, LastSlot(fed))
      /\ Late(tables, packets, LastSlot(fed))
  BY <1>1 DEF ReplayInv
<1>3. /\ fed # <<>> => event.time >= fed[Len(fed)].time
      /\ fed # <<>> => event.time > fed[Len(fed)].time
  BY <1>1 DEF FeedState, OnTime
<1>4. /\ fed' \in Seq(Events) /\ InOrderOfTime(fed)'
      /\ LastSlot(fed) \in Slots /\ LastSlot(fed)' \in Slots
      /\ LastSlot(fed) <= LastSlot(fed)'
      /\ fed # <<>> => LastSlot(fed) < LastSlot(fed)'
      /\ \A i \in 1 .. Len(fed) : SlotsOf(fed)'[i] = SlotsOf(fed)[i]
      /\ \A kind \in {"flow", "packet"} :
             /\ Kind(fed, kind)' = Kind(fed, kind)
             /\ Kind(fed, kind) \subseteq 1 .. Len(fed)
  BY <1>1, <1>2, <1>3, FedFacts
<1>5. zero \in Windows /\ zero.count = 0 /\ SlotOf(event.time) \in Slots
  BY EventFacts DEF Windows
<1>6. pending \in Windows \cup {None} /\ net.pushed \in Seq(Windows)
  BY <1>2 DEF Late
<1>7. /\ mid \in States
      /\ mid.ok => mid.pushed = ws
  BY <1>2, <1>6, FlushedFacts, CompletedIs
<1> HIDE DEF mid, zero
<1>8. /\ Consume(mid, zero) \in States
      /\ Consume(mid, zero).ok => Consume(mid, zero).pushed = Append(ws, zero)
  BY <1>5, <1>7, ConsumeFacts
<1>9. /\ net' \in States /\ phase' \in {"reading", "stopped", "failed"}
      /\ phase' # "failed" => net'.ok /\ net'.pushed = Append(ws, zero)
  BY <1>1, <1>8, ContinuesFacts
<1>10. Tally(tables \o Open(packets), SlotsOf(fed)', Kind(fed, "packet")')
  <2>1. \A d \in Kind(fed, "packet") : SlotsOf(fed)'[d] = SlotsOf(fed)[d]
    BY <1>4
  <2>2. Kind(fed, "packet")' = Kind(fed, "packet")
    BY <1>4
  <2>3. Tally(tables \o Open(packets), SlotsOf(fed)', Kind(fed, "packet"))
    BY <1>2, <2>1, TallySame
  <2> QED
    BY <2>2, <2>3
<1>11. Late(tables, packets, LastSlot(fed)')
  BY <1>2, <1>4, LateLater
<1>12. /\ ws \in Seq(Windows) /\ Append(ws, zero) \in Seq(Windows)
       /\ Append(ws, zero) \o Open(None) = Append(ws, zero)
  <2>1. ws \in Seq(Windows)
    BY <1>6, OpenFacts, AppendWindow
  <2> HIDE DEF ws
  <2>2. Append(ws, zero) \in Seq(Windows)
    BY <1>5, <2>1, AppendWindow
  <2> QED
    BY <2>1, <2>2, OpenFacts
<1>13. Tally(Append(ws, zero), SlotsOf(fed)', Kind(fed, "flow")')
  <2>1. \A d \in Kind(fed, "flow") : SlotsOf(fed)'[d] = SlotsOf(fed)[d]
    BY <1>4
  <2>2. Kind(fed, "flow")' = Kind(fed, "flow")
    BY <1>4
  <2>3. Tally(ws, SlotsOf(fed)', Kind(fed, "flow"))
    BY <1>2, <2>1, TallySame
  <2> HIDE DEF ws
  <2>4. Tally(Append(ws, zero), SlotsOf(fed)', Kind(fed, "flow"))
    BY <1>5, <1>12, <2>3, TallyZero
  <2> QED
    BY <2>2, <2>4
<1>14. \A i \in Counted(Append(ws, zero)) :
           Append(ws, zero)[i].slot < LastSlot(fed)'
  <2>1. \A i \in Counted(net.pushed) : net.pushed[i].slot < LastSlot(fed)'
    BY <1>2, <1>4, LateLater DEF Late
  <2>2. \A i \in Counted(ws) : ws[i].slot < LastSlot(fed)'
    <3>1. CASE pending = None
      BY <1>6, <2>1, <3>1, OpenFacts
    <3>2. CASE pending \in Windows
      <4>1. pending # None /\ pending.slot <= LastSlot(fed) /\ fed # <<>>
        BY <1>2, <3>2, NoneIsNoWindow DEF Late
      <4>2. pending.slot < LastSlot(fed)'
        BY <1>4, <3>2, <4>1 DEF Windows, Slots
      <4>3. ws = Append(net.pushed, pending)
        BY <1>6, <3>2, OpenFacts
      <4> HIDE DEF ws
      <4>4. /\ Counted(ws) \subseteq Counted(net.pushed) \cup {Len(net.pushed) + 1}
            /\ ws[Len(net.pushed) + 1] = pending
            /\ \A i \in Counted(net.pushed) : ws[i] = net.pushed[i]
        BY <1>6, <3>2, <4>3, AppendWindow
      <4> QED
        BY <2>1, <4>2, <4>4
    <3> QED
      BY <1>6, <3>1, <3>2
  <2> HIDE DEF ws
  <2>3. /\ Counted(Append(ws, zero)) = Counted(ws)
        /\ \A i \in Counted(ws) : Append(ws, zero)[i] = ws[i]
    BY <1>5, <1>12, AppendWindow
  <2> QED
    BY <2>2, <2>3
<1> HIDE DEF ws
<1>15. fed' # <<>>
  BY <1>1, <1>2
<1>16. phase' # "failed" =>
           /\ Tally(net.pushed \o Open(pending), SlotsOf(fed), Kind(fed, "flow"))'
           /\ Tally(tables \o Open(packets), SlotsOf(fed), Kind(fed, "packet"))'
           /\ Late(net.pushed, pending, LastSlot(fed))'
           /\ Late(tables, packets, LastSlot(fed))'
  <2>1. Late(Append(ws, zero), None, LastSlot(fed)')
    BY <1>12, <1>14 DEF Late
  <2> QED
    BY <1>1, <1>9, <1>10, <1>11, <1>12, <1>13, <2>1
<1> QED
  BY <1>4, <1>9, <1>15, <1>16, LateType DEF ReplayInv

(* A flow goes into the bucket of its slot, the bucket it completes is     *)
(* flushed.                                                                *)
LEMMA FeedFlowInv ==
    ASSUME ReplayInv, NEW event \in Events, FeedFlow(event)
    PROVE  ReplayInv'
<1> DEFINE slot == SlotOf(event.time)
           done == Completed(pending, slot)
           x == Len(fed) + 1
<1>1. /\ phase = "reading" /\ event.kind = "flow"
      /\ fed' = Append(fed, event) /\ pending' = Added(pending, slot)
      /\ tables' = tables /\ packets' = packets
      /\ Continues(Flushed(done))
  BY DEF FeedFlow, Reads
<1>2. /\ fed \in Seq(Events) /\ net \in States /\ net.ok /\ InOrderOfTime(fed)
      /\ Tally(net.pushed \o Open(pending), SlotsOf(fed), Kind(fed, "flow"))
      /\ Tally(tables \o Open(packets), SlotsOf(fed), Kind(fed, "packet"))
      /\ Late(net.pushed, pending, LastSlot(fed))
      /\ Late(tables, packets, LastSlot(fed))
  BY <1>1 DEF ReplayInv
<1>3. fed # <<>> => event.time >= fed[Len(fed)].time
  BY <1>1 DEF FeedFlow, OnTime
<1>4. /\ fed' \in Seq(Events) /\ InOrderOfTime(fed)' /\ fed' # <<>>
      /\ LastSlot(fed) \in Slots /\ LastSlot(fed)' = slot /\ slot \in Slots
      /\ LastSlot(fed) <= slot
      /\ SlotsOf(fed)'[x] = slot
      /\ \A i \in 1 .. Len(fed) : SlotsOf(fed)'[i] = SlotsOf(fed)[i]
      /\ IsFiniteSet(Kind(fed, "flow")) /\ x \notin Kind(fed, "flow")
      /\ Kind(fed, "flow") \subseteq 1 .. Len(fed)
      /\ Kind(fed, "flow")' = Kind(fed, "flow") \cup {x}
      /\ Kind(fed, "packet") \subseteq 1 .. Len(fed)
      /\ Kind(fed, "packet")' = Kind(fed, "packet")
  <2>1. fed' # <<>>
    BY <1>1, <1>2
  <2> QED
    BY <1>1, <1>2, <1>3, <2>1, FedFacts
<1> HIDE DEF slot, x
<1>5. pending \in Windows \cup {None} /\ net.pushed \in Seq(Windows)
  BY <1>2 DEF Late
<1>6. /\ Flushed(done) \in States
      /\ Flushed(done).ok => Flushed(done).pushed = net.pushed \o done
  <2>1. done = <<>> \/ \E b \in Windows : done = <<b>>
    BY <1>5, CompletedIs
  <2> HIDE DEF done
  <2> QED
    BY <1>2, <2>1, FlushedFacts
<1>7. /\ Late(net.pushed \o done, Added(pending, slot), slot)
      /\ Tally((net.pushed \o done) \o Open(Added(pending, slot)),
               SlotsOf(fed)', Kind(fed, "flow") \cup {x})
  <2>1. \A d \in Kind(fed, "flow") : SlotsOf(fed)'[d] = SlotsOf(fed)[d]
    BY <1>4
  <2>2. Tally(net.pushed \o Open(pending), SlotsOf(fed), Kind(fed, "flow"))
        /\ Late(net.pushed, pending, LastSlot(fed))
    BY <1>2
  <2>3. /\ LastSlot(fed) \in Slots /\ slot \in Slots /\ LastSlot(fed) <= slot
        /\ IsFiniteSet(Kind(fed, "flow")) /\ x \notin Kind(fed, "flow")
        /\ SlotsOf(fed)'[x] = slot
    BY <1>4
  <2> QED
    BY <2>1, <2>2, <2>3, BucketStep
<1> HIDE DEF done
<1>8. /\ net' \in States /\ phase' \in {"reading", "stopped", "failed"}
      /\ phase' # "failed" => net'.ok /\ net'.pushed = net.pushed \o done
  <2>1. net' = Flushed(done) /\ phase' \in {"reading", "stopped", "failed"}
        /\ (phase' # "failed" => Flushed(done).ok)
    BY <1>1, <1>6, ContinuesFacts
  <2> QED
    BY <1>6, <2>1
<1>9. Tally(tables \o Open(packets), SlotsOf(fed)', Kind(fed, "packet")')
  <2>1. \A d \in Kind(fed, "packet") : SlotsOf(fed)'[d] = SlotsOf(fed)[d]
    BY <1>4
  <2>2. Tally(tables \o Open(packets), SlotsOf(fed)', Kind(fed, "packet"))
    BY <1>2, <2>1, TallySame
  <2> QED
    BY <1>4, <2>2
<1>10. Late(tables, packets, slot)
  BY <1>2, <1>4, LateLater
<1>11. phase' # "failed" =>
           /\ Tally(net.pushed \o Open(pending), SlotsOf(fed), Kind(fed, "flow"))'
           /\ Tally(tables \o Open(packets), SlotsOf(fed), Kind(fed, "packet"))'
           /\ Late(net.pushed, pending, LastSlot(fed))'
           /\ Late(tables, packets, LastSlot(fed))'
  BY <1>1, <1>4, <1>7, <1>8, <1>9, <1>10
<1> QED
  BY <1>4, <1>8, <1>11, LateType DEF ReplayInv

LEMMA FeedPacketInv ==
    ASSUME ReplayInv, NEW event \in Events, FeedPacket(event)
    PROVE  ReplayInv'
<1> DEFINE slot == SlotOf(event.time)
           done == Completed(packets, slot)
           x == Len(fed) + 1
<1>1. /\ phase = "reading" /\ phase' = phase /\ event.kind = "packet"
      /\ fed' = Append(fed, event) /\ packets' = Added(packets, slot)
      /\ tables' = tables \o done
      /\ net' = net /\ pending' = pending
  BY DEF FeedPacket, Reads
<1>2. /\ fed \in Seq(Events) /\ net \in States /\ net.ok /\ InOrderOfTime(fed)
      /\ Tally(net.pushed \o Open(pending), SlotsOf(fed), Kind(fed, "flow"))
      /\ Tally(tables \o Open(packets), SlotsOf(fed), Kind(fed, "packet"))
      /\ fed = <<>> => pending = None
      /\ Late(net.pushed, pending, LastSlot(fed))
      /\ Late(tables, packets, LastSlot(fed))
  BY <1>1 DEF ReplayInv
<1>3. fed # <<>> => event.time >= fed[Len(fed)].time
  BY <1>1 DEF FeedPacket, OnTime
<1>4. /\ fed' \in Seq(Events) /\ InOrderOfTime(fed)' /\ fed' # <<>>
      /\ LastSlot(fed) \in Slots /\ LastSlot(fed)' = slot /\ slot \in Slots
      /\ LastSlot(fed) <= slot
      /\ SlotsOf(fed)'[x] = slot
      /\ \A i \in 1 .. Len(fed) : SlotsOf(fed)'[i] = SlotsOf(fed)[i]
      /\ IsFiniteSet(Kind(fed, "packet")) /\ x \notin Kind(fed, "packet")
      /\ Kind(fed, "packet") \subseteq 1 .. Len(fed)
      /\ Kind(fed, "packet")' = Kind(fed, "packet") \cup {x}
      /\ Kind(fed, "flow") \subseteq 1 .. Len(fed)
      /\ Kind(fed, "flow")' = Kind(fed, "flow")
  <2>1. fed' # <<>>
    BY <1>1, <1>2
  <2> QED
    BY <1>1, <1>2, <1>3, <2>1, FedFacts
<1> HIDE DEF slot, x
<1>7. /\ Late(tables \o done, Added(packets, slot), slot)
      /\ Tally((tables \o done) \o Open(Added(packets, slot)),
               SlotsOf(fed)', Kind(fed, "packet") \cup {x})
  <2>1. \A d \in Kind(fed, "packet") : SlotsOf(fed)'[d] = SlotsOf(fed)[d]
    BY <1>4
  <2> QED
    BY <1>2, <1>4, <2>1, BucketStep
<1> HIDE DEF done
<1>9. Tally(net.pushed \o Open(pending), SlotsOf(fed)', Kind(fed, "flow")')
  <2>1. \A d \in Kind(fed, "flow") : SlotsOf(fed)'[d] = SlotsOf(fed)[d]
    BY <1>4
  <2>2. Tally(net.pushed \o Open(pending), SlotsOf(fed)', Kind(fed, "flow"))
    BY <1>2, <2>1, TallySame
  <2> QED
    BY <1>4, <2>2
<1>10. Late(net.pushed, pending, slot)
  BY <1>2, <1>4, LateLater
<1>11. /\ Tally(net.pushed \o Open(pending), SlotsOf(fed), Kind(fed, "flow"))'
       /\ Tally(tables \o Open(packets), SlotsOf(fed), Kind(fed, "packet"))'
       /\ Late(net.pushed, pending, LastSlot(fed))'
       /\ Late(tables, packets, LastSlot(fed))'
  BY <1>1, <1>4, <1>7, <1>9, <1>10
<1> QED
  BY <1>1, <1>2, <1>4, <1>11, LateType DEF ReplayInv

(* The end of the file closes the buckets: the windows stay what they are. *)
LEMMA FinishInv ==
    ASSUME ReplayInv, Finish
    PROVE  ReplayInv'
<1>1. /\ phase = "reading" /\ phase' = IF net'.ok THEN "finished" ELSE "failed"
      /\ fed' = fed /\ pending' = None /\ packets' = None
      /\ tables' = tables \o Open(packets)
      /\ net' = Flushed(Open(pending))
  BY DEF Finish
<1>2. /\ fed \in Seq(Events) /\ net \in States /\ net.ok /\ InOrderOfTime(fed)
      /\ Tally(net.pushed \o Open(pending), SlotsOf(fed), Kind(fed, "flow"))
      /\ Tally(tables \o Open(packets), SlotsOf(fed), Kind(fed, "packet"))
      /\ pending \in Windows \cup {None} /\ net.pushed \in Seq(Windows)
      /\ packets \in Windows \cup {None} /\ tables \in Seq(Windows)
  BY <1>1 DEF ReplayInv, Late
<1> DEFINE ws == net.pushed \o Open(pending)
           ts == tables \o Open(packets)
<1>3. ws \in Seq(Windows) /\ ts \in Seq(Windows)
  BY <1>2, OpenFacts, AppendWindow
<1>4. /\ net' \in States
      /\ net'.ok => net'.pushed = ws
  <2>1. Open(pending) = <<>> \/ \E w \in Windows : Open(pending) = <<w>>
    BY <1>2, CompletedIs
  <2> QED
    BY <1>1, <1>2, <2>1, FlushedFacts
<1> HIDE DEF ws, ts
<1>5. ws \o Open(None) = ws /\ ts \o Open(None) = ts
  BY <1>3, OpenFacts
<1>6. phase' # "failed" =>
           /\ net'.ok /\ InOrderOfTime(fed)'
           /\ Tally(net.pushed \o Open(pending), SlotsOf(fed), Kind(fed, "flow"))'
           /\ Tally(tables \o Open(packets), SlotsOf(fed), Kind(fed, "packet"))'
           /\ (net.pushed \o Open(pending))' \in Seq(Windows)
           /\ (tables \o Open(packets))' \in Seq(Windows)
  BY <1>1, <1>2, <1>3, <1>4, <1>5 DEF ws, ts
<1> QED
  BY <1>1, <1>2, <1>4, <1>6 DEF ReplayInv

LEMMA ReplayStart ==
    ASSUME ReplayInit
    PROVE  ReplayInv
<1>1. /\ fed = <<>> /\ pending = None /\ packets = None /\ tables = <<>>
      /\ net = NoStates /\ phase = "reading"
  BY DEF ReplayInit
<1>2. net \in States /\ net.ok /\ net.pushed = <<>>
  BY <1>1 DEF NoStates, States
<1>3. <<>> \o Open(None) = <<>> /\ <<>> \in Seq(Windows)
  <2>1. <<>> \in Seq(Windows)
    OBVIOUS
  <2> QED
    BY <2>1, OpenFacts
<1>4. Counted(<<>>) = {} /\ \A kind : Kind(<<>>, kind) = {}
  BY DEF Counted, Kind
<1>5. \A f, D : D = {} => Tally(<<>>, f, D)
  BY <1>4 DEF Tally
<1>6. \A slot : Late(<<>>, None, slot)
  BY <1>3, <1>4 DEF Late
<1>7. InOrderOfTime(fed)
  BY <1>1 DEF InOrderOfTime
<1> QED
  BY <1>1, <1>2, <1>3, <1>4, <1>5, <1>6, <1>7 DEF ReplayInv

LEMMA ReplaySteps ==
    ASSUME ReplayInv, [ReplayNext]_replayVars
    PROVE  ReplayInv'
<1>1. CASE UNCHANGED replayVars
  BY <1>1 DEF replayVars, ReplayInv
<1>2. ASSUME NEW event \in Events, FeedState(event)
      PROVE  ReplayInv'
  BY <1>2, FeedStateInv
<1>3. ASSUME NEW event \in Events, FeedFlow(event)
      PROVE  ReplayInv'
  BY <1>3, FeedFlowInv
<1>4. ASSUME NEW event \in Events, FeedPacket(event)
      PROVE  ReplayInv'
  BY <1>4, FeedPacketInv
<1>5. ASSUME NEW event \in Events, Refuse(event)
      PROVE  ReplayInv'
  <2>1. phase' = "failed" /\ fed' \in Seq(Events)
    BY <1>5 DEF Refuse, Reads, ReplayInv
  <2> QED
    BY <2>1 DEF ReplayInv
<1>6. CASE Finish
  BY <1>6, FinishInv
<1> QED
  BY <1>1, <1>2, <1>3, <1>4, <1>5, <1>6 DEF ReplayNext

LEMMA TallyCountsAll ==
    ASSUME NEW windows \in Seq(Windows), NEW kind,
           Tally(windows, SlotsOf(fed), Kind(fed, kind)), fed \in Seq(Events)
    PROVE  CountsAll(windows, kind)
<1> DEFINE D == Kind(fed, kind)
           f == SlotsOf(fed)
           Of(slot) == {i \in EventsOf(kind) : SlotOf(fed[i].time) = slot}
           slots == {SlotOf(fed[i].time) : i \in EventsOf(kind)}
<1>1. /\ EventsOf(kind) = D
      /\ \A i \in D : f[i] = SlotOf(fed[i].time)
  BY DEF EventsOf, Kind, SlotsOf
<1>2. \A slot : Of(slot) = In(D, f, slot)
  BY <1>1 DEF In
<1>3. \A i \in Counted(windows) :
          /\ windows[i].slot \in slots
          /\ windows[i].count = Cardinality(Of(windows[i].slot))
  BY <1>1, <1>2 DEF Tally
<1>4. \A slot \in slots : \E i \in Counted(windows) : windows[i].slot = slot
  BY <1>1 DEF Tally
<1>5. \A i, j \in Counted(windows) : i < j => windows[i].slot < windows[j].slot
  BY DEF Tally
<1>6. windows \in Seq(Windows)
  OBVIOUS
<1>7. \A i \in Counted(windows) :
          windows[i] = [slot |-> windows[i].slot, count |-> windows[i].count]
  <2>1. \A i \in Counted(windows) : windows[i] \in Windows
    BY <1>6 DEF Counted
  <2> QED
    BY <2>1 DEF Windows
<1> HIDE DEF Of, slots
<1>8. {windows[i] : i \in Counted(windows)} =
          {[slot |-> slot, count |-> Cardinality(Of(slot))] : slot \in slots}
  <2>1. ASSUME NEW i \in Counted(windows)
        PROVE  \E slot \in slots :
                   windows[i] = [slot |-> slot, count |-> Cardinality(Of(slot))]
    BY <1>3, <1>7
  <2>2. ASSUME NEW slot \in slots
        PROVE  \E i \in Counted(windows) :
                   windows[i] = [slot |-> slot, count |-> Cardinality(Of(slot))]
    BY <1>3, <1>4, <1>7
  <2> QED
    BY <2>1, <2>2
<1> QED
  BY <1>5, <1>8 DEF CountsAll, Counted, Of, slots

(* ReplayCountsAll, for every file and every mixture of events in it: no   *)
(* flow and no packet is lost or counted twice (realtime_engine.py).       *)
THEOREM ReplayCounts == ReplaySpec => []ReplayCountsAll
<1>1. ReplayInit => ReplayInv
  BY ReplayStart
<1>2. ReplayInv /\ [ReplayNext]_replayVars => ReplayInv'
  BY ReplaySteps
<1>3. ReplayInv => ReplayCountsAll
  BY TallyCountsAll DEF ReplayInv, ReplayCountsAll
<1> QED
  BY <1>1, <1>2, <1>3, PTL DEF ReplaySpec

-----------------------------------------------------------------------------
(* The demo engine.                                                        *)
Runs == [bucket : Windows \cup {None}, activity : Seq(Windows), states : States]

LEMMA DemoStartIsRun == DemoStart \in Runs
BY DEF DemoStart, NoStates, Runs, States

(* One row more: the windows of the replay's flow handler, the activity of *)
(* its packet handler.                                                     *)
LEMMA TakeRowFacts ==
    ASSUME NEW run \in Runs, NEW time \in Nat
    PROVE  LET slot == SlotOf(time)
               done == Completed(run.bucket, slot)
           IN  /\ TakeRow(run, time) \in Runs
               /\ TakeRow(run, time).bucket = Added(run.bucket, slot)
               /\ TakeRow(run, time).activity = run.activity \o done
               /\ TakeRow(run, time).states =
                      IF done = <<>> THEN run.states
                                     ELSE Consume(run.states, run.bucket)
<1> DEFINE slot == SlotOf(time)
           done == Completed(run.bucket, slot)
           b == Added(run.bucket, slot)
           out == TakeRow(run, time)
<1>0. slot \in Nat
  BY DEF SlotOf
<1>1. /\ run.bucket \in Windows \cup {None} /\ run.activity \in Seq(Windows)
      /\ run.states \in States
      /\ run = [bucket |-> run.bucket, activity |-> run.activity,
                states |-> run.states]
  BY DEF Runs
<1>2. b \in Windows
  <2>1. [slot |-> slot, count |-> 1] \in Windows
    BY <1>0 DEF Windows, Slots
  <2>2. CASE run.bucket = None
    BY <2>1, <2>2 DEF Added
  <2>3. CASE run.bucket # None
    <3>1. [run.bucket EXCEPT !.count = @ + 1] \in Windows
      BY <1>1, <2>3 DEF Windows
    <3> QED
      BY <2>1, <3>1 DEF Added
  <2> QED
    BY <2>2, <2>3
<1>3. CASE done = <<>>
  <2>1. out = [run EXCEPT !.bucket = b]
    BY <1>3 DEF TakeRow
  <2> HIDE DEF b, out, slot
  <2>2. out = [bucket |-> b, activity |-> run.activity, states |-> run.states]
    BY <1>1, <2>1
  <2>3. out \in Runs
    BY <1>1, <1>2, <2>2 DEF Runs
  <2>4. run.activity \o done = run.activity
    BY <1>1, <1>3, ConcatEmptySeq
  <2> QED
    BY <1>3, <2>2, <2>3, <2>4 DEF out, b, slot
<1>4. CASE done # <<>>
  <2>1. /\ run.bucket # None /\ run.bucket \in Windows /\ run.bucket.slot # slot
        /\ done = <<run.bucket>>
    BY <1>1, <1>4 DEF Completed
  <2>2. Added(None, slot) = [slot |-> slot, count |-> 1]
    BY DEF Added
  <2>3. b = [slot |-> slot, count |-> 1]
    BY <1>4 DEF Added
  <2> DEFINE mid == FlushBucket(run)
             states == Consume(run.states, run.bucket)
             activity == Append(run.activity, run.bucket)
  <2>4. mid = [bucket |-> None, activity |-> activity, states |-> states]
    BY <2>1 DEF FlushBucket
  <2>5. out = [mid EXCEPT !.bucket = Added(@, slot)]
    BY <1>4 DEF TakeRow
  <2>6. states \in States
    BY <1>1, <2>1, ConsumeFacts
  <2>7. activity \in Seq(Windows) /\ activity = run.activity \o <<run.bucket>>
    BY <1>1, <2>1, AppendIsConcat, AppendProperties
  <2> HIDE DEF mid, states, activity, b, out
  <2>8. out = [bucket |-> b, activity |-> activity, states |-> states]
    BY <2>2, <2>3, <2>4, <2>5
  <2>9. out \in Runs
    BY <1>2, <2>6, <2>7, <2>8 DEF Runs
  <2> QED
    BY <1>4, <2>1, <2>7, <2>8, <2>9 DEF out, b, states
<1> QED
  BY <1>3, <1>4

(* The runs over a file exist, each made of the one before.                *)
LEMMA RunAfterDefined ==
    ASSUME NEW rows \in Seq(Nat)
    PROVE  /\ RunAfter(rows)[0] = DemoStart
           /\ \A n \in 1 .. Len(rows) :
                  RunAfter(rows)[n] = TakeRow(RunAfter(rows)[n - 1], rows[n])
<1> DEFINE IsRun(f, N) ==
               f = [n \in 0 .. N |->
                       IF n = 0 THEN DemoStart ELSE TakeRow(f[n - 1], rows[n])]
           S == {N \in 0 .. Len(rows) : \E f : IsRun(f, N)}
<1>0. Len(rows) \in Nat
  BY LenProperties
<1>1. 0 \in S
  <2>1. IsRun([n \in 0 .. 0 |-> DemoStart], 0)
    OBVIOUS
  <2> HIDE DEF IsRun
  <2> QED
    BY <2>1, <1>0
<1>2. ASSUME NEW N \in 0 .. Len(rows), N \in S, N # Len(rows)
      PROVE  N + 1 \in S
  <2>1. PICK f : IsRun(f, N)
    BY <1>2
  <2> DEFINE g == [n \in 0 .. N + 1 |->
                      IF n = N + 1 THEN TakeRow(f[N], rows[N + 1]) ELSE f[n]]
  <2>2. \A n \in 0 .. N :
            f[n] = IF n = 0 THEN DemoStart ELSE TakeRow(f[n - 1], rows[n])
    BY <2>1
  <2>3. \A n \in 0 .. N : g[n] = f[n]
    BY <1>0
  <2>4. g[N + 1] = TakeRow(g[N], rows[N + 1]) /\ g[0] = DemoStart
    BY <1>0, <2>2, <2>3
  <2>5. \A n \in 0 .. N + 1 :
            g[n] = IF n = 0 THEN DemoStart ELSE TakeRow(g[n - 1], rows[n])
    <3> SUFFICES ASSUME NEW n \in 0 .. N + 1
                 PROVE  g[n] = IF n = 0 THEN DemoStart
                               ELSE TakeRow(g[n - 1], rows[n])
      OBVIOUS
    <3> HIDE DEF g
    <3>1. CASE n = N + 1
      BY <3>1, <2>4, <1>0
    <3>2. CASE n # N + 1
      <4>1. n \in 0 .. N /\ (n # 0 => n - 1 \in 0 .. N)
        BY <3>2, <1>0
      <4> QED
        BY <4>1, <2>2, <2>3
    <3> QED
      BY <3>1, <3>2
  <2>6. IsRun(g, N + 1)
    BY <2>5
  <2> HIDE DEF IsRun, g
  <2> QED
    BY <2>6, <1>0, <1>2
<1>3. Len(rows) \in S
  <2> HIDE DEF S
  <2>1. Len(rows) \in 0 .. Len(rows)
    BY <1>0
  <2> QED
    BY <1>0, <1>1, <1>2, <2>1, BoundedInduction
<1>4. IsRun(RunAfter(rows), Len(rows))
  <2>1. \E f : IsRun(f, Len(rows))
    BY <1>3
  <2>2. RunAfter(rows) = CHOOSE f : IsRun(f, Len(rows))
    BY DEF RunAfter
  <2> HIDE DEF IsRun
  <2> QED
    BY <2>1, <2>2
<1>5. \A n \in 0 .. Len(rows) :
          RunAfter(rows)[n] =
              IF n = 0 THEN DemoStart ELSE TakeRow(RunAfter(rows)[n - 1], rows[n])
  BY <1>4
<1>6. \A n \in 1 .. Len(rows) : n \in 0 .. Len(rows) /\ n # 0
  BY <1>0
<1> QED
  BY <1>0, <1>5, <1>6

Demo(rows) == RunAfter(rows)[Len(rows)]

(* The run over one row more is one row more for the run.                  *)
LEMMA DemoAppend ==
    ASSUME NEW rows \in Seq(Nat), NEW time \in Nat
    PROVE  /\ Demo(rows) \in Runs
           /\ Demo(Append(rows, time)) = TakeRow(Demo(rows), time)
<1> DEFINE more == Append(rows, time)
           N == Len(rows)
           S == {n \in 0 .. N : /\ RunAfter(more)[n] = RunAfter(rows)[n]
                                /\ RunAfter(rows)[n] \in Runs}
<1>0. N \in Nat
  BY LenProperties
<1>1. /\ more \in Seq(Nat) /\ Len(more) = N + 1 /\ more[N + 1] = time
      /\ \A n \in 1 .. N : more[n] = rows[n] /\ rows[n] \in Nat
  BY AppendProperties
<1> HIDE DEF more, N
<1>2. /\ RunAfter(more)[0] = DemoStart
      /\ \A n \in 1 .. N + 1 :
             RunAfter(more)[n] = TakeRow(RunAfter(more)[n - 1], more[n])
  BY <1>1, RunAfterDefined
<1>3. /\ RunAfter(rows)[0] = DemoStart
      /\ \A n \in 1 .. N :
             RunAfter(rows)[n] = TakeRow(RunAfter(rows)[n - 1], rows[n])
  BY RunAfterDefined DEF N
<1>4. 0 \in S
  BY <1>0, <1>2, <1>3, DemoStartIsRun
<1>5. ASSUME NEW n \in 0 .. N, n \in S, n # N
      PROVE  n + 1 \in S
  <2>1. n + 1 \in 1 .. N /\ n + 1 \in 1 .. N + 1 /\ (n + 1) - 1 = n
        /\ n + 1 \in 0 .. N
    BY <1>0, <1>5
  <2>2. RunAfter(rows)[n + 1] = TakeRow(RunAfter(rows)[n], rows[n + 1])
    BY <1>3, <2>1
  <2>3. RunAfter(more)[n + 1] = TakeRow(RunAfter(more)[n], more[n + 1])
    BY <1>2, <2>1
  <2>4. rows[n + 1] \in Nat /\ more[n + 1] = rows[n + 1]
    BY <1>1, <2>1
  <2>5. RunAfter(rows)[n] \in Runs /\ RunAfter(more)[n] = RunAfter(rows)[n]
    BY <1>5
  <2>6. TakeRow(RunAfter(rows)[n], rows[n + 1]) \in Runs
    BY <2>4, <2>5, TakeRowFacts
  <2> QED
    BY <2>1, <2>2, <2>3, <2>4, <2>5, <2>6
<1>6. N \in S
  <2> HIDE DEF S
  <2>1. N \in 0 .. N
    BY <1>0
  <2> QED
    BY <1>0, <1>4, <1>5, <2>1, BoundedInduction
<1>7. RunAfter(more)[N + 1] = TakeRow(RunAfter(more)[N], more[N + 1])
  <2>1. N + 1 \in 1 .. N + 1 /\ (N + 1) - 1 = N
    BY <1>0
  <2> QED
    BY <1>2, <2>1
<1> QED
  BY <1>1, <1>6, <1>7 DEF Demo, more, N

(* The demo sorts what it is given: rows in order come back in order.      *)
LEMMA InOrderAgain ==
    ASSUME NEW t \in Seq(Nat), \A i, j \in 1 .. Len(t) : i < j => t[i] <= t[j]
    PROVE  InTimeOrder(Backwards(t)) = t /\ Len(Backwards(t)) = Len(t)
<1> DEFINE n == Len(t)
           b == Backwards(t)
           o == StableOrder(b)
           u == InTimeOrder(b)
           p == [i \in 1 .. n |-> n + 1 - o[i]]
<1>1. n \in Nat /\ DOMAIN t = 1 .. n /\ t \in [1 .. n -> Nat]
  BY LenProperties
<1>2. \A i \in 1 .. n : n + 1 - i \in 1 .. n
  BY <1>1
<1>3. b \in [1 .. n -> Nat] /\ \A i \in 1 .. n : b[i] = t[n + 1 - i]
  BY <1>1, <1>2 DEF Backwards
<1> HIDE DEF n, b
<1>4. b \in Seq(Nat) /\ b \in Seq(Int) /\ Len(b) = n /\ DOMAIN b = 1 .. n
  <2>1. b \in Seq(Nat) /\ b \in Seq(Int)
    BY <1>1, <1>3, IsASeq
  <2> QED
    BY <1>1, <1>3, <2>1, LenProperties
<1>5. /\ o \in [1 .. n -> 1 .. n]
      /\ \A x \in 1 .. n : \E i \in 1 .. n : o[i] = x
      /\ \A i, j \in 1 .. n : i < j =>
             b[o[i]] < b[o[j]] \/ (b[o[i]] = b[o[j]] /\ o[i] < o[j])
  BY <1>4, StableOrderFacts
<1> HIDE DEF o
<1>50. \A i \in 1 .. n : o[i] \in 1 .. n /\ b[o[i]] \in Nat
  BY <1>3, <1>5
<1>51. ASSUME NEW i \in 1 .. n, NEW j \in 1 .. n, i < j
       PROVE  b[o[i]] <= b[o[j]] /\ o[i] # o[j]
  <2>1. b[o[i]] < b[o[j]] \/ (b[o[i]] = b[o[j]] /\ o[i] < o[j])
    BY <1>5, <1>51
  <2>2. b[o[i]] \in Nat /\ b[o[j]] \in Nat /\ o[i] \in Int /\ o[j] \in Int
    BY <1>50
  <2> QED
    BY <2>1, <2>2
<1>6. u = [i \in 1 .. n |-> b[o[i]]]
  BY <1>4 DEF InTimeOrder, o
<1> HIDE DEF u
<1>7. p \in [1 .. n -> 1 .. n]
  <2>1. \A i \in 1 .. n : n + 1 - o[i] \in 1 .. n
    BY <1>2, <1>50
  <2> QED
    BY <2>1
<1>8. \A x \in 1 .. n : \E i \in 1 .. n : p[i] = x
  <2> SUFFICES ASSUME NEW x \in 1 .. n
               PROVE  \E i \in 1 .. n : p[i] = x
    OBVIOUS
  <2>1. n + 1 - x \in 1 .. n
    BY <1>2
  <2>2. PICK i \in 1 .. n : o[i] = n + 1 - x
    BY <1>5, <2>1
  <2>3. p[i] = x
    BY <1>1, <2>2
  <2> QED
    BY <2>3
<1>9. \A i, j \in 1 .. n : p[i] = p[j] => i = j
  <2> SUFFICES ASSUME NEW i \in 1 .. n, NEW j \in 1 .. n, p[i] = p[j]
               PROVE  i = j
    OBVIOUS
  <2>1. o[i] \in 1 .. n /\ o[j] \in 1 .. n /\ n + 1 - o[i] = n + 1 - o[j]
    BY <1>50
  <2>2. o[i] = o[j]
    <3>1. o[i] \in Int /\ o[j] \in Int /\ n \in Int
      BY <1>1, <2>1
    <3> QED
      BY <2>1, <3>1
  <2>3. ~ (i < j)
    BY <1>51, <2>2
  <2>4. ~ (j < i)
    BY <1>51, <2>2
  <2> QED
    BY <1>1, <2>3, <2>4
<1>10. \A i \in 1 .. n : u[i] = t[p[i]]
  <2> SUFFICES ASSUME NEW i \in 1 .. n
               PROVE  u[i] = t[p[i]]
    OBVIOUS
  <2>1. o[i] \in 1 .. n
    BY <1>5
  <2> QED
    BY <1>3, <1>6, <2>1
<1>11. u \in [1 .. n -> Int] /\ t \in [1 .. n -> Int]
  BY <1>1, <1>3, <1>5, <1>6
<1>12. \A i, j \in 1 .. n : i < j => u[i] <= u[j]
  <2> SUFFICES ASSUME NEW i \in 1 .. n, NEW j \in 1 .. n, i < j
               PROVE  u[i] <= u[j]
    OBVIOUS
  <2>1. b[o[i]] <= b[o[j]]
    BY <1>51
  <2> QED
    BY <1>6, <2>1
<1>13. \A i, j \in 1 .. n : i < j => t[i] <= t[j]
  BY DEF n
<1> HIDE DEF p
<1>14. u = t
  <2>1. Permutes(n, p) /\ SortedTimes(n, t) /\ SortedTimes(n, u)
    BY <1>7, <1>8, <1>9, <1>12, <1>13 DEF Permutes, SortedTimes
  <2> QED
    BY <1>1, <1>10, <1>11, <2>1, SortedTwice
<1> QED
  BY <1>4, <1>14 DEF u, n, b

-----------------------------------------------------------------------------
TimesIn(events, kind) ==
    RowsAt([i \in 1 .. Len(events) |-> events[i].time], Kind(events, kind))

LEMMA TimesFacts ==
    ASSUME NEW s \in Seq(Events), NEW event \in Events, NEW kind
    PROVE  /\ TimesIn(s, kind) \in Seq(Nat)
           /\ TimesIn(Append(s, event), kind) =
                  IF event.kind = kind THEN Append(TimesIn(s, kind), event.time)
                                       ELSE TimesIn(s, kind)
           /\ Kind(Append(s, event), kind) =
                  IF event.kind = kind THEN Kind(s, kind) \cup {Len(s) + 1}
                                       ELSE Kind(s, kind)
<1> DEFINE n == Len(s)
           t == Append(s, event)
           times == [i \in 1 .. n |-> s[i].time]
           after == [i \in 1 .. n + 1 |-> t[i].time]
           D == Kind(s, kind)
<1>1. /\ n \in Nat /\ Len(t) = n + 1 /\ t[n + 1] = event
      /\ \A i \in 1 .. n : t[i] = s[i] /\ s[i] \in Events
  BY AppendProperties, LenProperties
<1>2. event.time \in Nat /\ \A i \in 1 .. n : s[i].time \in Nat
  BY <1>1, EventFacts
<1> HIDE DEF t, n
<1>3. times \in Seq(Nat) /\ Len(times) = n
  <2>1. times \in Seq(Nat)
    BY <1>1, <1>2, IsASeq
  <2>2. DOMAIN times = 1 .. Len(times) /\ Len(times) \in Nat
    BY <2>1, LenProperties
  <2> QED
    BY <1>1, <2>1, <2>2
<1>4. after = Append(times, event.time)
  <2>1. Append(times, event.time) =
            [i \in 1 .. n + 1 |-> IF i = n + 1 THEN event.time ELSE times[i]]
    <3> HIDE DEF times
    <3> QED
      BY <1>1, <1>2, <1>3
  <2>2. ASSUME NEW i \in 1 .. n + 1
        PROVE  t[i].time = IF i = n + 1 THEN event.time ELSE times[i]
    BY <1>1
  <2> QED
    BY <2>1, <2>2
<1> HIDE DEF times, after
<1>5. D \in SUBSET (1 .. Len(times))
  BY <1>3 DEF Kind, n
<1>6. Kind(t, kind) = IF event.kind = kind THEN D \cup {n + 1} ELSE D
  <2>1. 1 .. n + 1 = (1 .. n) \cup {n + 1} /\ n + 1 \notin 1 .. n
    BY <1>1
  <2>2. Kind(t, kind) = {i \in (1 .. n) \cup {n + 1} : t[i].kind = kind}
    BY <1>1, <2>1 DEF Kind
  <2>3. \A i \in 1 .. n : t[i].kind = s[i].kind
    BY <1>1
  <2>4. D = {i \in 1 .. n : s[i].kind = kind}
    BY DEF Kind, n
  <2> HIDE DEF D
  <2> QED
    BY <1>1, <2>1, <2>2, <2>3, <2>4
<1>7. /\ RowsAt(times, D) \in Seq(Nat)
      /\ RowsAt(after, D) = RowsAt(times, D)
      /\ RowsAt(after, D \cup {n + 1}) = Append(RowsAt(times, D), event.time)
  <2> HIDE DEF D
  <2> DEFINE e == event.time
  <2>1. e \in Nat /\ times \in Seq(Nat) /\ after = Append(times, e)
    BY <1>2, <1>3, <1>4
  <2> HIDE DEF e
  <2>2. /\ RowsAt(times, D) \in Seq(Nat)
        /\ RowsAt(Append(times, e), D) = RowsAt(times, D)
    BY <1>5, <2>1, RowsAtKeeps
  <2>3. RowsAt(Append(times, e), D \cup {Len(times) + 1}) =
            Append(RowsAt(times, D), e)
    BY <1>5, <2>1, RowsAtAppend
  <2> QED
    BY <1>3, <2>1, <2>2, <2>3 DEF e
<1>8. /\ TimesIn(s, kind) = RowsAt(times, D)
      /\ TimesIn(t, kind) = RowsAt(after, Kind(t, kind))
  BY <1>1 DEF TimesIn, times, after, n
<1> HIDE DEF D
<1> QED
  BY <1>6, <1>7, <1>8 DEF t, n, D

LEMMA TimesAscend ==
    ASSUME NEW s \in Seq(Events), InOrderOfTime(s), NEW kind
    PROVE  SortedTimes(Len(TimesIn(s, kind)), TimesIn(s, kind))
<1> DEFINE D == Kind(s, kind)
           n == Cardinality(D)
           times == [i \in 1 .. Len(s) |-> s[i].time]
           out == TimesIn(s, kind)
<1>1. Len(s) \in Nat /\ D \subseteq 1 .. Len(s) /\ D \in SUBSET Int
  BY LenProperties DEF Kind
<1>2. IsFiniteSet(D)
  <2>1. IsFiniteSet(1 .. Len(s))
    BY <1>1, FS_Interval
  <2> QED
    BY <1>1, <2>1, FS_Subset
<1>3. n \in Nat
  BY <1>2, FS_CardinalityType
<1> HIDE DEF D, n, times
<1>4. PICK at \in [1 .. n -> D] :
          /\ \A i, j \in 1 .. n : i < j => at[i] < at[j]
          /\ \A rows : RowsAt(rows, D) = [k \in 1 .. n |-> rows[at[k]]]
  <2>1. \E at \in [1 .. Cardinality(D) -> D] :
            /\ \A i, j \in 1 .. Cardinality(D) : i < j => at[i] < at[j]
            /\ \A x \in D : \E i \in 1 .. Cardinality(D) : at[i] = x
            /\ \A rows : RowsAt(rows, D) =
                   [k \in 1 .. Cardinality(D) |-> rows[at[k]]]
    BY <1>1, <1>2, RowsAtFacts
  <2> QED
    BY <2>1 DEF n
<1>5. out = [k \in 1 .. n |-> times[at[k]]]
  BY <1>4 DEF TimesIn, D, times
<1>6. out \in Seq(Nat)
  <2>1. Len(s) \in Nat /\ \A i \in 1 .. Len(s) : s[i].time \in Nat
    <3>1. \A i \in 1 .. Len(s) : s[i] \in Events
      BY <1>1
    <3> QED
      BY <1>1, <3>1, EventFacts
  <2>2. \A k \in 1 .. n : times[at[k]] \in Nat
    BY <1>1, <1>4, <2>1 DEF times
  <2> QED
    BY <1>3, <1>5, <2>2, IsASeq
<1> HIDE DEF out
<1>7. Len(out) = n
  <2>1. DOMAIN out = 1 .. Len(out) /\ Len(out) \in Nat
    BY <1>6, LenProperties
  <2> QED
    BY <1>3, <1>5, <2>1
<1>8. ASSUME NEW i \in 1 .. n, NEW j \in 1 .. n, i < j
      PROVE  out[i] <= out[j]
  <2>1. at[i] < at[j] /\ at[i] \in 1 .. Len(s) /\ at[j] \in 1 .. Len(s)
    BY <1>1, <1>4, <1>8
  <2>2. s[at[i]].time <= s[at[j]].time
    BY <2>1 DEF InOrderOfTime
  <2> QED
    BY <1>5, <2>1, <2>2 DEF times
<1> QED
  BY <1>7, <1>8 DEF SortedTimes, out

(* What joins the engines: over the flows and over the packets fed so far, *)
(* the demo has the same bucket open and has passed on the same windows.   *)
DemoInv ==
    LET flows == Demo(TimesIn(fed, "flow"))
        seen  == Demo(TimesIn(fed, "packet"))
    IN  Kind(fed, "state") = {} =>
            /\ phase = "reading" =>
                   /\ flows.bucket = pending /\ flows.states = net
                   /\ seen.bucket = packets /\ seen.activity = tables
            /\ phase = "finished" =>
                   /\ FlushBucket(flows).states = net
                   /\ FlushBucket(seen).activity = tables

LEMMA FlushedIs ==
    ASSUME NEW b, NEW slot
    PROVE  /\ Flushed(Completed(b, slot)) =
                  IF Completed(b, slot) = <<>> THEN net ELSE Consume(net, b)
           /\ Flushed(Open(b)) = IF b = None THEN net ELSE Consume(net, b)
<1>1. <<b>> # <<>> /\ <<b>>[1] = b
  OBVIOUS
<1> QED
  BY <1>1 DEF Flushed, Completed, Open

LEMMA DemoSteps ==
    ASSUME ReplayInv, DemoInv, [ReplayNext]_replayVars
    PROVE  DemoInv'
<1> DEFINE flows == Demo(TimesIn(fed, "flow"))
           seen  == Demo(TimesIn(fed, "packet"))
<1>0. fed \in Seq(Events)
  BY DEF ReplayInv
<1>1. CASE UNCHANGED replayVars
  BY <1>1 DEF replayVars, DemoInv
<1>2. ASSUME NEW event \in Events, FeedState(event)
      PROVE  DemoInv'
  <2>1. fed' = Append(fed, event) /\ event.kind = "state"
    BY <1>2 DEF FeedState, Reads
  <2>2. Kind(fed', "state") = Kind(fed, "state") \cup {Len(fed) + 1}
    BY <1>0, <2>1, TimesFacts
  <2>3. Kind(fed', "state") # {}
    BY <2>2
  <2> QED
    BY <2>3 DEF DemoInv
<1>3. ASSUME NEW event \in Events, FeedFlow(event), Kind(fed, "state")' = {}
      PROVE  DemoInv'
  <2> DEFINE slot == SlotOf(event.time)
             done == Completed(pending, slot)
  <2>1. /\ phase = "reading" /\ event.kind = "flow"
        /\ fed' = Append(fed, event) /\ pending' = Added(pending, slot)
        /\ tables' = tables /\ packets' = packets
        /\ net' = Flushed(done) /\ phase' # "finished"
    BY <1>3 DEF FeedFlow, Reads, Continues
  <2>2. /\ TimesIn(fed, "flow") \in Seq(Nat)
        /\ TimesIn(fed', "flow") = Append(TimesIn(fed, "flow"), event.time)
        /\ TimesIn(fed', "packet") = TimesIn(fed, "packet")
        /\ Kind(fed', "state") = Kind(fed, "state")
    BY <1>0, <2>1, TimesFacts
  <2>3. /\ flows.bucket = pending /\ flows.states = net
        /\ seen.bucket = packets /\ seen.activity = tables
    BY <1>3, <2>1, <2>2 DEF DemoInv
  <2>4. event.time \in Nat
    BY EventFacts
  <2>5. /\ flows \in Runs
        /\ Demo(TimesIn(fed', "flow")) = TakeRow(flows, event.time)
    BY <2>2, <2>4, DemoAppend
  <2>6. /\ TakeRow(flows, event.time).bucket = Added(pending, slot)
        /\ TakeRow(flows, event.time).states = Flushed(done)
    <3> HIDE DEF flows
    <3>1. /\ TakeRow(flows, event.time).bucket = Added(pending, slot)
          /\ TakeRow(flows, event.time).states =
                 IF done = <<>> THEN net ELSE Consume(net, pending)
      BY <2>3, <2>4, <2>5, TakeRowFacts
    <3> QED
      BY <3>1, FlushedIs
  <2> HIDE DEF slot, done
  <2> QED
    BY <2>1, <2>2, <2>3, <2>5, <2>6 DEF DemoInv
<1>4. ASSUME NEW event \in Events, FeedPacket(event), Kind(fed, "state")' = {}
      PROVE  DemoInv'
  <2> DEFINE slot == SlotOf(event.time)
             done == Completed(packets, slot)
  <2>1. /\ phase = "reading" /\ event.kind = "packet"
        /\ fed' = Append(fed, event) /\ packets' = Added(packets, slot)
        /\ tables' = tables \o done
        /\ pending' = pending /\ net' = net /\ phase' = "reading"
    BY <1>4 DEF FeedPacket, Reads
  <2>2. /\ TimesIn(fed, "packet") \in Seq(Nat)
        /\ TimesIn(fed', "packet") = Append(TimesIn(fed, "packet"), event.time)
        /\ TimesIn(fed', "flow") = TimesIn(fed, "flow")
        /\ Kind(fed', "state") = Kind(fed, "state")
    BY <1>0, <2>1, TimesFacts
  <2>3. /\ flows.bucket = pending /\ flows.states = net
        /\ seen.bucket = packets /\ seen.activity = tables
    BY <1>4, <2>1, <2>2 DEF DemoInv
  <2>4. event.time \in Nat
    BY EventFacts
  <2>5. /\ seen \in Runs
        /\ Demo(TimesIn(fed', "packet")) = TakeRow(seen, event.time)
    BY <2>2, <2>4, DemoAppend
  <2>6. /\ TakeRow(seen, event.time).bucket = Added(packets, slot)
        /\ TakeRow(seen, event.time).activity = tables \o done
    <3> HIDE DEF seen
    <3> QED
      BY <2>3, <2>4, <2>5, TakeRowFacts
  <2> HIDE DEF slot, done
  <2> QED
    BY <2>1, <2>2, <2>3, <2>5, <2>6 DEF DemoInv
<1>5. ASSUME NEW event \in Events, Refuse(event)
      PROVE  DemoInv'
  BY <1>5 DEF Refuse, DemoInv
<1>6. CASE Finish /\ Kind(fed, "state")' = {}
  <2>1. /\ phase = "reading" /\ fed' = fed /\ phase' # "reading"
        /\ tables' = tables \o Open(packets)
        /\ net' = Flushed(Open(pending))
    BY <1>6 DEF Finish
  <2>2. /\ flows.bucket = pending /\ flows.states = net
        /\ seen.bucket = packets /\ seen.activity = tables
    BY <1>6, <2>1 DEF DemoInv
  <2>3. tables \in Seq(Windows) /\ packets \in Windows \cup {None}
    BY <2>1 DEF ReplayInv, Late
  <2>4. FlushBucket(flows).states = Flushed(Open(pending))
    BY <2>2, FlushedIs DEF FlushBucket
  <2>5. FlushBucket(seen).activity = tables \o Open(packets)
    BY <2>2, <2>3, OpenFacts DEF FlushBucket
  <2> QED
    BY <2>1, <2>4, <2>5 DEF DemoInv
<1>7. CASE Kind(fed, "state")' # {}
  BY <1>7 DEF DemoInv
<1> QED
  BY <1>1, <1>2, <1>3, <1>4, <1>5, <1>6, <1>7 DEF ReplayNext

(* What the demo makes of the rows of a file that it is given backwards.   *)
LEMMA FinalDemoIs ==
    ASSUME fed \in Seq(Events), InOrderOfTime(fed), NEW kind
    PROVE  /\ TimesOf(kind) = TimesIn(fed, kind)
           /\ TimesOf(kind) \in Seq(Nat)
           /\ FinalDemo(Backwards(TimesOf(kind))) =
                  FlushBucket(Demo(TimesOf(kind)))
           /\ Backwards(TimesOf(kind)) = <<>> => TimesOf(kind) = <<>>
<1> DEFINE t == TimesOf(kind)
<1>1. t = TimesIn(fed, kind)
  <2>1. DOMAIN fed = 1 .. Len(fed)
    BY LenProperties
  <2> QED
    BY <2>1 DEF TimesOf, TimesIn, EventsOf, Kind
<1>2. TimesIn(fed, kind) \in Seq(Nat)
  <2>1. [kind |-> "flow", time |-> 0] \in Events
    BY BufferAssumption DEF Events, Times
  <2> QED
    BY <2>1, TimesFacts
<1>3. SortedTimes(Len(t), t)
  BY <1>1, TimesAscend
<1> HIDE DEF t
<1>4. InTimeOrder(Backwards(t)) = t /\ Len(Backwards(t)) = Len(t)
  BY <1>1, <1>2, <1>3, InOrderAgain DEF SortedTimes
<1>5. Backwards(t) = <<>> => t = <<>>
  <2>1. ASSUME Backwards(t) = <<>>
        PROVE  t = <<>>
    <3>1. Len(t) = 0
      BY <1>4, <2>1
    <3> QED
      BY <1>1, <1>2, <3>1, EmptySeq
  <2> QED
    BY <2>1
<1> QED
  BY <1>1, <1>2, <1>4, <1>5 DEF FinalDemo, Demo, t

LEMMA DemoInvAgrees ==
    ASSUME ReplayInv, DemoInv
    PROVE  DemoAgreesWithReplay
<1> SUFFICES ASSUME phase = "finished", EventsOf("state") = {}
             PROVE  LET flows == Backwards(TimesOf("flow"))
                        seen  == Backwards(TimesOf("packet"))
                    IN  /\ seen # <<>> => FinalDemo(seen).activity = tables
                        /\ DemoSucceeds(flows) =>
                               FinalDemo(flows).states.inference = net.inference
                        /\ OneCaptureDay(flows) /\ net.inference # None =>
                               DemoSucceeds(flows)
  BY DEF DemoAgreesWithReplay
<1> DEFINE flows == Backwards(TimesOf("flow"))
           seen  == Backwards(TimesOf("packet"))
<1>1. fed \in Seq(Events) /\ InOrderOfTime(fed)
  BY DEF ReplayInv
<1>2. Kind(fed, "state") = {}
  <2>1. DOMAIN fed = 1 .. Len(fed)
    BY <1>1, LenProperties
  <2> QED
    BY <2>1 DEF EventsOf, Kind
<1>3. /\ FlushBucket(Demo(TimesOf("flow"))).states = net
      /\ FlushBucket(Demo(TimesOf("packet"))).activity = tables
  BY <1>1, <1>2, FinalDemoIs DEF DemoInv
<1>4. FinalDemo(flows).states = net /\ FinalDemo(seen).activity = tables
  BY <1>1, <1>3, FinalDemoIs
<1>5. flows = <<>> => net.inference = None
  <2> SUFFICES ASSUME flows = <<>>
               PROVE  net.inference = None
    OBVIOUS
  <2>1. TimesOf("flow") = <<>>
    BY <1>1, FinalDemoIs
  <2>2. Demo(<<>>) = DemoStart
    <3>1. <<>> \in Seq(Nat) /\ Len(<<>>) = 0
      OBVIOUS
    <3> QED
      BY <3>1, RunAfterDefined DEF Demo
  <2>3. FlushBucket(DemoStart).states = NoStates
    BY DEF FlushBucket, DemoStart
  <2> QED
    BY <1>3, <2>1, <2>2, <2>3 DEF NoStates
<1> HIDE DEF flows, seen
<1> QED
  BY <1>4, <1>5 DEF DemoSucceeds, flows, seen

LEMMA DemoInvStart ==
    ASSUME ReplayInit
    PROVE  DemoInv
<1>1. /\ fed = <<>> /\ pending = None /\ packets = None /\ tables = <<>>
      /\ net = NoStates /\ phase = "reading"
  BY DEF ReplayInit
<1>2. \A kind : Kind(fed, kind) = {}
  BY <1>1 DEF Kind
<1>3. ASSUME NEW kind
      PROVE  TimesIn(fed, kind) = <<>>
  <2>1. Cardinality(Kind(fed, kind)) = 0
    BY <1>2, FS_EmptySet
  <2>2. TimesIn(fed, kind) \in Seq(Nat)
    <3>1. [kind |-> "flow", time |-> 0] \in Events /\ fed \in Seq(Events)
      BY <1>1, BufferAssumption DEF Events, Times
    <3> QED
      BY <3>1, TimesFacts
  <2>3. DOMAIN TimesIn(fed, kind) = 1 .. 0
    BY <2>1 DEF TimesIn, RowsAt
  <2> QED
    BY <2>2, <2>3, EmptySeq, LenProperties
<1>4. Demo(<<>>) = DemoStart
  <2>1. <<>> \in Seq(Nat) /\ Len(<<>>) = 0
    OBVIOUS
  <2> QED
    BY <2>1, RunAfterDefined DEF Demo
<1> QED
  BY <1>1, <1>3, <1>4 DEF DemoInv, DemoStart

(* DemoAgreesWithReplay, for every file: the demo engine sorts rows and    *)
(* walks through whole buckets, the replay engine takes one event after    *)
(* the other, and they never differ (final_demo_engine.py, run).           *)
THEOREM DemoAgrees == ReplaySpec => []DemoAgreesWithReplay
<1>1. ReplayInit => ReplayInv /\ DemoInv
  BY ReplayStart, DemoInvStart
<1>2. ReplayInv /\ DemoInv /\ [ReplayNext]_replayVars => (ReplayInv /\ DemoInv)'
  BY ReplaySteps, DemoSteps
<1>3. ReplayInv /\ DemoInv => DemoAgreesWithReplay
  BY DemoInvAgrees
<1> QED
  BY <1>1, <1>2, <1>3, PTL DEF ReplaySpec

==============================================================================
