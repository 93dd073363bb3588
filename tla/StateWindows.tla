----------------------------- MODULE StateWindows -----------------------------
(***************************************************************************)
(* From the flows of the capture days to the windows the models learn      *)
(* from: features/network_state.py, forecasting/windowing.py and           *)
(* preprocessing/split.py, as operators.                                   *)
(*                                                                         *)
(* A flow is [day, date, slot, attack]: the day of the capture file it is  *)
(* in, the date and the ten-second slot of its own timestamp, and whether  *)
(* its label is something else than Benign.  The seventeen features of a   *)
(* state are sums and means of its flows; a state is kept as its place.    *)
(* SequenceLength and SlotsPerDay are those of the streaming buffer.       *)
(***************************************************************************)
EXTENDS StateBuffer, Ordering

CONSTANT
    CaptureDays       \* the capture days, in order: 1 .. n

ASSUME WindowsAssumption ==
    IsFiniteSet(CaptureDays) /\ CaptureDays = 1 .. Cardinality(CaptureDays)

DaySlots == 0 .. SlotsPerDay - 1

Bit(condition) == IF condition THEN 1 ELSE 0

(* timestamp_capture_date_mismatch: the raw files have a few rows of       *)
(* January 1970.                                                           *)
Flagged(flow) == flow.date # flow.day

Elements(seq) == {seq[i] : i \in DOMAIN seq}

(* Mutant: the mismatched rows are counted.                                *)
EveryFlow(flows) == Elements(flows)

ValidFlows(flows) == {flow \in Elements(flows) : ~ Flagged(flow)}

(* _complete_state_index: every slot from the first to the last with a     *)
(* flow, the empty ones too.                                               *)
StateIndex(valid, day) ==
    LET busy == {flow.slot : flow \in {f \in valid : f.day = day}}
    IN  UNION {first .. last : first \in busy, last \in busy}

(* binary_attack_state *)
AttackState(valid, day, slot) ==
    Bit(\E flow \in valid :
            flow.day = day /\ flow.slot = slot /\ flow.attack)

(* The places of the states, and their order: capture_day, timestamp.      *)
Places(valid) ==
    UNION {{day} \X StateIndex(valid, day) : day \in CaptureDays}

Chronological(places) ==
    {pair \in places \X places :
        \/ pair[1][1] < pair[2][1]
        \/ pair[1][1] = pair[2][1] /\ pair[1][2] < pair[2][2]}

(* Mutant: shift(-1) without the groupby.                                  *)
NextRow(rows, i) == IF i = Len(rows) THEN -1 ELSE rows[i + 1].attack

(* future_attack_state: the label of the next state of the day, -1 for     *)
(* none.                                                                   *)
FutureState(rows, i) ==
    IF i = Len(rows) THEN -1
    ELSE IF rows[i + 1].day # rows[i].day THEN -1 ELSE rows[i + 1].attack

(* aggregate_network_states, mode "supervised" *)
StateTable(flows) ==
    LET valid == ValidFlows(flows)
        order == Arranged(Places(valid), Chronological(Places(valid)))
        rows  == [i \in 1 .. Cardinality(Places(valid)) |->
                     [day |-> order[i][1], slot |-> order[i][2],
                      attack |-> AttackState(valid, order[i][1], order[i][2])]]
    IN  [i \in DOMAIN rows |->
            [day |-> rows[i].day, slot |-> rows[i].slot,
             attack |-> rows[i].attack, future |-> FutureState(rows, i)]]

FutureAvailable(row) == row.future # -1

Group(rows, day) == RowsAt(rows, {i \in DOMAIN rows : rows[i].day = day})

(* _validate_fixed_state_cadence *)
FixedCadence(rows) ==
    \A day \in CaptureDays :
        LET group == Group(rows, day)
        IN  \A i \in 1 .. Len(group) - 1 :
                group[i + 1].slot = group[i].slot + 1

(* build_sequences with the pre-aligned column future_attack_state: the    *)
(* target of a window is read from its last row.                           *)
BuildSequences(rows) ==
    UNION {LET group   == Group(rows, day)
               EndOf(s) == s + SequenceLength - 1
           IN  {[inputs |-> SubSeq(group, s, EndOf(s)),
                 targets |-> <<group[EndOf(s)].future>>] :
                    s \in {s \in 1 .. Len(group) - SequenceLength + 1 :
                               FutureAvailable(group[EndOf(s)])}} :
           day \in CaptureDays}

(* build_multistep_sequences: the labels of the next K rows of the day.    *)
BuildMultistep(rows, K) ==
    UNION {LET group   == Group(rows, day)
               EndOf(s) == s + SequenceLength - 1
           IN  {[inputs |-> SubSeq(group, s, EndOf(s)),
                 targets |-> [k \in 1 .. K |-> group[EndOf(s) + k].attack]] :
                    s \in 1 .. Len(group) - SequenceLength - K + 1} :
           day \in CaptureDays}
-----------------------------------------------------------------------------
(* The single-day experiment: windows of flow rows.                        *)

(* Mutant: the rows stay in the order of the file.                         *)
FileOrder(rows) == rows

(* The stable sort of chronological_split. *)
Sorted(rows) ==
    LET order == StableOrder([i \in DOMAIN rows |-> rows[i].slot])
    IN  [i \in DOMAIN rows |-> rows[order[i]]]

(* The blocks of chronological_split, whose boundaries are slots of the    *)
(* one day: a row of another date, before the first block or after the     *)
(* last, is in none.                                                       *)
BlockOf(row, starts) ==
    IF Flagged(row) \/ row.slot < starts.train \/ row.slot > starts.end
    THEN "unassigned"
    ELSE IF row.slot < starts.validation THEN "train"
    ELSE IF row.slot < starts.test THEN "validation" ELSE "test"

(* generate_temporal_windows: L rows of a block, and the row K after them. *)
RowWindows(rows, starts, block, stride, K) ==
    LET positions == RowsAt([i \in DOMAIN rows |-> i],
                            {i \in DOMAIN rows : BlockOf(rows[i], starts) = block})
        available == Len(positions) - SequenceLength - K + 1
    IN  {[inputs |-> [i \in 1 .. SequenceLength |-> positions[s + i]],
          target |-> positions[s + SequenceLength + K],
          label |-> rows[positions[s + SequenceLength + K]].attack] :
            s \in {s \in 0 .. available - 1 : s % stride = 0}}
==============================================================================
