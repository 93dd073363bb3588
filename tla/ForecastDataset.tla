---------------------------- MODULE ForecastDataset ----------------------------
(***************************************************************************)
(* The offline data pipeline: prepare_cic_multiday, build_network_states,  *)
(* build_state_splits, the loading part of train_multistep and             *)
(* train_world_model, and build_temporal_windows.  Each script reads the   *)
(* file of the one before.  build_state_splits writes one file after the   *)
(* other and gives up at the first role without states; what it has        *)
(* written stays.                                                          *)
(***************************************************************************)
EXTENDS StateWindows

CONSTANTS
    Captures,         \* what the capture files may hold: sequences of flows
    DayRole,          \* SELECTED_ROLES: day -> role
    Horizons,         \* K_VALUES
    BlockStarts,      \* DEFAULT_BOUNDARIES of the single-day experiment: the
                      \* first slot of each block, and the last slot of all
    RowStride,        \* --stride of build_temporal_windows
    NoFile            \* a file that has not been written

SplitRoles == <<"train", "validation", "test">>

ASSUME DatasetAssumption ==
    /\ Captures \subseteq Seq([day : CaptureDays, date : Nat,
                             slot : DaySlots, attack : BOOLEAN])
    /\ \A capture \in Captures :
           \A day \in CaptureDays : \E flow \in Elements(capture) : flow.day = day
    /\ DayRole \in [CaptureDays -> Elements(SplitRoles)]
    /\ Horizons \subseteq Nat \ {0} /\ 1 \in Horizons
    /\ BlockStarts \in [train : Int, validation : Int, test : Int, end : Int]
    /\ BlockStarts.train < BlockStarts.validation
    /\ BlockStarts.validation < BlockStarts.test
    /\ BlockStarts.test <= BlockStarts.end
    /\ RowStride \in Nat \ {0}

VARIABLES
    flows,            \* cic_ids2018_multiday_flow.parquet
    states,           \* cic_ids2018_network_states.parquet
    splits,           \* states/<role>.parquet
    sequences,        \* the batches of train_world_model, by role
    batches,          \* the batches of train_multistep, by horizon and role
    windows           \* cic_ids2018_temporal_windows.npz, by block

dataVars == <<flows, states, splits, sequences, batches, windows>>

DatasetInit ==
    /\ flows = NoFile /\ states = NoFile
    /\ splits = [i \in DOMAIN SplitRoles |-> NoFile]
    /\ sequences = NoFile /\ batches = NoFile /\ windows = NoFile

(* prepare_cic_multiday.main: every selected day has a file with rows.     *)
PrepareMultiday ==
    /\ flows = NoFile
    /\ flows' \in Captures
    /\ UNCHANGED <<states, splits, sequences, batches, windows>>

(* build_network_states.build *)
BuildStates ==
    /\ flows # NoFile /\ states = NoFile
    /\ ValidFlows(flows) # {}
    /\ states' = StateTable(flows)
    /\ UNCHANGED <<flows, splits, sequences, batches, windows>>

(* The rows of the days of a role.                                         *)
RoleRows(rows, role) ==
    RowsAt(rows, {i \in DOMAIN rows : DayRole[rows[i].day] = role})

(* One file of build_splits: the next role, unless it has no states.       *)
WriteSplit(i) ==
    LET part == RoleRows(states, SplitRoles[i])
    IN  /\ states # NoFile
        /\ splits[i] = NoFile
        /\ \A j \in 1 .. i - 1 : splits[j] # NoFile
        /\ part # <<>>
        /\ splits' = [splits EXCEPT ![i] = part]
        /\ UNCHANGED <<flows, states, sequences, batches, windows>>

(* EXPECTED_DAYS: the file holds exactly the days of its role.             *)
HasItsDays(i) ==
    {row.day : row \in Elements(splits[i])} =
        {day \in CaptureDays : DayRole[day] = SplitRoles[i]}

Loadable ==
    /\ \A i \in DOMAIN SplitRoles : splits[i] # NoFile
    /\ \A i \in DOMAIN SplitRoles : HasItsDays(i) /\ FixedCadence(splits[i])

(* train_world_model: only the rows with a future label.                   *)
TrainingRows(rows) ==
    RowsAt(rows, {i \in DOMAIN rows : FutureAvailable(rows[i])})

LoadSequences ==
    /\ Loadable /\ sequences = NoFile
    /\ sequences' = [i \in DOMAIN SplitRoles |->
                        BuildSequences(TrainingRows(splits[i]))]
    /\ UNCHANGED <<flows, states, splits, batches, windows>>

(* _check_k1_alignment *)
AlignedWithApproved(batch) ==
    \A window \in batch :
        window.targets[1] = window.inputs[SequenceLength].future

(* train_multistep: the full rows, once for each horizon.                  *)
LoadBatches ==
    LET loaded == [K \in Horizons |-> [i \in DOMAIN SplitRoles |->
                        BuildMultistep(splits[i], K)]]
    IN  /\ Loadable /\ batches = NoFile
        /\ \A i \in DOMAIN SplitRoles : AlignedWithApproved(loaded[1][i])
        /\ batches' = loaded
        /\ UNCHANGED <<flows, states, splits, sequences, windows>>

(* The rows of the single-day experiment.  Its file                        *)
(* (cic_ids2018_model_features.parquet) has a preprocessing of its own and *)
(* holds one capture day, which the multiday experiment tests on: here its *)
(* rows are the flows of that day.                                         *)
SingleDay == RoleRows(flows, "test")

(* build_temporal_windows.build_windows *)
BuildWindows ==
    /\ flows # NoFile /\ windows = NoFile
    /\ \A row \in Elements(SingleDay) : BlockOf(row, BlockStarts) # "unassigned"
    /\ windows' = [i \in DOMAIN SplitRoles |->
                      RowWindows(Sorted(SingleDay), BlockStarts, SplitRoles[i],
                                 RowStride, 1)]
    /\ UNCHANGED <<flows, states, splits, sequences, batches>>

DatasetNext ==
    \/ PrepareMultiday
    \/ BuildStates
    \/ \E i \in DOMAIN SplitRoles : WriteSplit(i)
    \/ LoadSequences
    \/ LoadBatches
    \/ BuildWindows

DatasetSpec == DatasetInit /\ [][DatasetNext]_dataVars
-----------------------------------------------------------------------------
(* What happened in a slot, said of the flows and nothing else. *)
UnderAttack(day, slot) ==
    \E flow \in Elements(flows) : /\ flow.date = flow.day /\ flow.day = day
                               /\ flow.slot = slot /\ flow.attack

Observed(day) ==
    {flow.slot : flow \in {f \in Elements(flows) : f.date = f.day /\ f.day = day}}

(* Every window of every horizon is L consecutive slots of one day of its  *)
(* role, its k-th target says whether the k-th slot after them was under   *)
(* attack, and no window is missing: an end with L - 1 slots before it and *)
(* K after it, all between the first and the last flow of the day, has     *)
(* one.  So no window crosses a day, an empty slot is a state of its own,  *)
(* and a row with another date than its file counts for nothing            *)
(* (windowing.py: "S(t-L+1)..S(t) -> y(t+K)").                             *)
WindowsTellTheFuture ==
    batches # NoFile =>
        \A K \in Horizons, i \in DOMAIN SplitRoles :
            LET ends == {end \in CaptureDays \X DaySlots :
                    /\ DayRole[end[1]] = SplitRoles[i]
                    /\ \E a, b \in Observed(end[1]) :
                          a <= end[2] - SequenceLength + 1 /\ end[2] + K <= b}
            IN  batches[K][i] =
                    {[inputs |-> [j \in 1 .. SequenceLength |->
                        LET slot == end[2] - SequenceLength + j
                        IN  [day |-> end[1], slot |-> slot,
                             attack |-> Bit(UnderAttack(end[1], slot)),
                             future |-> Bit(UnderAttack(end[1], slot + 1))]],
                      targets |-> [k \in 1 .. K |->
                        Bit(UnderAttack(end[1], end[2] + k))]] : end \in ends}

(* The two ways to the one-step target agree on every window, not only on  *)
(* the labels that _check_k1_alignment compares: shifting labels back and  *)
(* dropping the last row of each day (train_world_model) leaves the same   *)
(* windows as reading one row ahead (train_multistep): "K=1 is equivalent  *)
(* to the existing future_attack_state(t) target" (windowing.py:410).      *)
OneStepAgrees ==
    sequences # NoFile /\ batches # NoFile =>
        \A i \in DOMAIN SplitRoles : sequences[i] = batches[1][i]

(* The slots of each block, in the order of SplitRoles.                    *)
BlockSlots ==
    <<BlockStarts.train .. BlockStarts.validation - 1,
      BlockStarts.validation .. BlockStarts.test - 1,
      BlockStarts.test .. BlockStarts.end>>

(* The rows of a window of any block happened in the time of that block,   *)
(* and so did its target, not earlier than any of them, in whatever order  *)
(* the capture file has the rows: what a model trains on is over before    *)
(* validation starts, and that before the test ("windows within each split *)
(* only", windowing.py:60; "assign contiguous train/validation/test        *)
(* blocks", split.py:44).                                                  *)
RowWindowsLookAhead ==
    windows # NoFile =>
        LET rows      == Sorted(SingleDay)
            slotOf(p) == rows[p].slot
        IN  \A i \in DOMAIN SplitRoles : \A window \in windows[i] :
                /\ slotOf(window.target) \in BlockSlots[i]
                /\ \A j \in DOMAIN window.inputs :
                       /\ slotOf(window.inputs[j]) \in BlockSlots[i]
                       /\ slotOf(window.inputs[j]) <= slotOf(window.target)
==============================================================================
