---------------------------- MODULE ModelArtifacts ----------------------------
(***************************************************************************)
(* The scripts that train on the split files, the files they leave, and    *)
(* the inference that loads those files while they may be replaced:        *)
(* build_state_splits, train_baseline, train_world_model,                  *)
(* compare_lstm_sequence_lengths, train_multistep, build_operating_policy  *)
(* and forecasting/inference.py.                                           *)
(*                                                                         *)
(* One script runs at a time; the service predicts beside it.  Every file  *)
(* is written in place, so a reader may meet it half written, and a script *)
(* that raises or is killed leaves what it has written.  A split file is   *)
(* the set of its days; weights are the number of the epoch they are from  *)
(* (for the baseline, of the class weight).                                *)
(***************************************************************************)
EXTENDS Integers, SequencesExt

CONSTANTS
    Days,             \* capture days
    ExpectedDays,     \* EXPECTED_DAYS: role -> days
    Reports,          \* the split reports build_state_splits may be given
    Epochs,           \* epochs of a training (20 in the code)
    Validations,      \* validation results: the ranks of PR-AUC and F1
    Scripts,          \* which training scripts are run
    MaxBundles,       \* bundles _load_inference_bundle caches (8)
    MaxRuns,          \* bound: script runs
    None

Roles == <<"train", "validation", "test">>

ASSUME ArtifactsAssumption ==
    /\ ExpectedDays \in [{"train", "validation", "test"} -> (SUBSET Days) \ {{}}]
    /\ \A i, j \in 1 .. 3 :
           i # j => ExpectedDays[Roles[i]] \cap ExpectedDays[Roles[j]] = {}
    /\ Reports \subseteq [Days -> {"train", "validation", "test"}]
    /\ Epochs \in Nat \ {0} /\ MaxBundles \in Nat \ {0} /\ MaxRuns \in Nat
    /\ Validations \subseteq [score : Nat, f1 : Nat]
    /\ Scripts \subseteq {"baseline", "world_model", "lengths", "multistep"}

(* What a script trains, in order.  train_world_model trains an unweighted *)
(* control after the model it saves.                                       *)
Jobs ==
    [baseline    |-> <<"preprocessor">>,
     world_model |-> <<"v1", "control">>,
     lengths     |-> <<"l5", "l20">>,
     multistep   |-> <<"k1", "k5">>]

Artifacts == {"preprocessor", "v1", "l5", "l20", "k1", "k5", "policy"}

(* The order in which _load_inference_bundle reads; the schema, which no   *)
(* script writes, is left out.                                             *)
Bundle == <<"policy", "k5", "preprocessor">>

VARIABLES
    splitFile,        \* role -> the days of <role>.parquet, or None
    build,            \* the build_splits that runs: its report, the next role
    run,              \* the training or policy script that runs
    disk,             \* artifact -> stamp (size, mtime), whole, content
    loading,          \* the prediction that loads its bundle
    cache,            \* the lru_cache, the least recently used first
    runs              \* script runs so far

vars == <<splitFile, build, run, disk, loading, cache, runs>>

(* The repository ships these files; the split files are built. *)
Shipped == {"preprocessor", "k1", "k5", "policy"}

ArtifactsInit ==
    /\ splitFile \in {[role \in {"train", "validation", "test"} |-> None],
                      ExpectedDays}
    /\ build = None /\ run = None
    /\ disk = [name \in Artifacts |->
                  [stamp |-> 0, whole |-> name \in Shipped, content |-> None]]
    /\ loading = None /\ cache = <<>>
    /\ runs = 0

NothingRuns == build = None /\ run = None /\ runs < MaxRuns
-----------------------------------------------------------------------------
(* build_state_splits *)
StartBuild(report) ==
    /\ NothingRuns
    /\ build' = [report |-> report, next |-> 1]
    /\ runs' = runs + 1
    /\ UNCHANGED <<splitFile, run, disk, loading, cache>>

(* One role: its file, or the end of the script if it has no states.       *)
WriteRole ==
    LET days == {day \in Days : build.report[day] = Roles[build.next]}
    IN  /\ build # None
        /\ IF days = {}
           THEN build' = None /\ UNCHANGED splitFile
           ELSE /\ splitFile' = [splitFile EXCEPT ![Roles[build.next]] = days]
                /\ build' = IF build.next = 3 THEN None
                            ELSE [build EXCEPT !.next = @ + 1]
        /\ UNCHANGED <<run, disk, loading, cache, runs>>
-----------------------------------------------------------------------------
(* Mutant: no EXPECTED_DAYS.                                               *)
AllPresent == \A i \in DOMAIN Roles : splitFile[Roles[i]] # None

(* _load_split, _load_split_frames *)
SplitsAsExpected ==
    \A i \in DOMAIN Roles : splitFile[Roles[i]] = ExpectedDays[Roles[i]]

NoBest == [weights |-> 0, score |-> -1, f1 |-> -1]

Training(script, todo, unsaved) ==
    [script |-> script, todo |-> todo, history |-> <<>>, best |-> NoBest,
     unsaved |-> unsaved, writing |-> None]

StartTraining(script) ==
    /\ NothingRuns
    /\ SplitsAsExpected
    /\ run' = Training(script, Jobs[script], <<>>)
    /\ runs' = runs + 1
    /\ UNCHANGED <<splitFile, build, disk, loading, cache>>

(* Each job saves its model before the next begins, except in              *)
(* train_world_model, which saves the first when both are trained.         *)
SavesLast == run.script = "world_model" /\ run.todo # <<>>

Trains ==
    /\ run # None /\ run.todo # <<>>
    /\ run.unsaved = <<>> \/ SavesLast

(* Better than the best so far.  train_multistep compares the mean PR-AUC, *)
(* the others break a tie by F1 (_choose_class_weight too).                *)
Improves(epoch) ==
    \/ epoch.score > run.best.score
    \/ /\ run.script # "multistep"
       /\ epoch.score = run.best.score /\ epoch.f1 > run.best.f1

CandidatesOf(script) == IF script = "baseline" THEN 2 ELSE Epochs

(* One epoch, and its validation.  The best state is a copy.               *)
TrainEpoch(result) ==
    LET epoch == [weights |-> Len(run.history) + 1,
                  score |-> result.score, f1 |-> result.f1]
    IN  /\ Trains
        /\ Len(run.history) < CandidatesOf(run.script)
        /\ run' = [run EXCEPT !.history = Append(@, epoch),
                              !.best = IF Improves(epoch) THEN epoch ELSE @]
        /\ UNCHANGED <<splitFile, build, disk, loading, cache, runs>>

(* Mutant: best_state refers to the weights, which train on.               *)
LatestState == run.history[Len(run.history)].weights

(* model.load_state_dict(best_state) *)
RestoredState == run.best.weights

(* The rest of a job: the restored weights are validated again, their      *)
(* thresholds selected, and the test split evaluated.                      *)
SelectBest ==
    LET chosen == [script     |-> run.script,
                   weights    |-> RestoredState,
                   thresholds |-> RestoredState,
                   score      |-> run.best.score,
                   history    |-> run.history,
                   fit        |-> splitFile["train"],
                   selected   |-> splitFile["validation"],
                   tested     |-> splitFile["test"]]
    IN  /\ Trains
        /\ Len(run.history) = CandidatesOf(run.script)
        /\ run' = Training(run.script, Tail(run.todo),
                           Append(run.unsaved,
                                  [name |-> Head(run.todo), content |-> chosen]))
        /\ UNCHANGED <<splitFile, build, disk, loading, cache, runs>>

MaySave ==
    /\ run # None /\ run.writing = None
    /\ run.unsaved # <<>> /\ ~ SavesLast

Touched(name, whole, content) ==
    [disk EXCEPT ![name] = [stamp |-> @.stamp + 1, whole |-> whole,
                            content |-> content]]

(* torch.save, joblib.dump and write_text truncate the file first.         *)
SaveBegins ==
    LET name == Head(run.unsaved).name
    IN  /\ MaySave
        /\ run' = [run EXCEPT !.writing = name]
        /\ disk' = Touched(name, FALSE, None)
        /\ UNCHANGED <<splitFile, build, loading, cache, runs>>

SaveEnds ==
    /\ run # None /\ run.writing # None
    /\ disk' = Touched(run.writing, TRUE, Head(run.unsaved).content)
    /\ run' = IF run.todo = <<>> THEN None
              ELSE Training(run.script, run.todo, <<>>)
    /\ UNCHANGED <<splitFile, build, loading, cache, runs>>

(* build_operating_policy: the scores of the K=5 checkpoint on the         *)
(* validation file, whatever days that holds, with a scaler of its own,    *)
(* decide the threshold of each mode.                                      *)
SelectedModes ==
    [script   |-> "policy",
     of       |-> disk["k5"].stamp,
     selected |-> splitFile["validation"]]

BuildPolicy ==
    /\ NothingRuns
    /\ splitFile["train"] # None /\ splitFile["validation"] # None
    /\ disk["k5"].whole
    /\ run' = Training("policy", <<>>,
                       <<[name |-> "policy", content |-> SelectedModes]>>)
    /\ runs' = runs + 1
    /\ UNCHANGED <<splitFile, build, disk, loading, cache>>

(* The script raises (no positive target, a non-finite loss, a missing     *)
(* metrics file) or is killed.                                             *)
ScriptDies ==
    /\ build # None \/ run # None
    /\ build' = None /\ run' = None
    /\ UNCHANGED <<splitFile, disk, loading, cache, runs>>
-----------------------------------------------------------------------------
(* _artifact_fingerprint of each file of the bundle. *)
Fingerprint == [i \in DOMAIN Bundle |-> disk[Bundle[i]].stamp]

IndexOf(key) == {i \in DOMAIN cache : cache[i].key = key}

(* A cached bundle is used, and becomes the most recently used. *)
CacheHit(key) ==
    \E i \in IndexOf(key) : cache' = Append(RemoveAt(cache, i), cache[i])

(* predict_network_state_sequence: the fingerprints are the key; without a *)
(* bundle under it the files are read.                                     *)
Predict ==
    /\ loading = None
    /\ IF IndexOf(Fingerprint) # {}
       THEN CacheHit(Fingerprint) /\ UNCHANGED loading
       ELSE /\ loading' = [key |-> Fingerprint, read |-> <<>>]
            /\ UNCHANGED cache
    /\ UNCHANGED <<splitFile, build, run, disk, runs>>

(* Mutant: the key is computed when the files have been read.              *)
KeyAfter(key) == Fingerprint

KeyOf(key) == key

Kept(bundles) ==
    IF Len(bundles) > MaxBundles THEN Tail(bundles) ELSE bundles

(* The next file.  One that is half written raises; nothing is cached.     *)
ReadNext ==
    LET name == Bundle[Len(loading.read) + 1]
        read == Append(loading.read, disk[name].stamp)
    IN  /\ loading # None
        /\ IF ~ disk[name].whole
           THEN loading' = None /\ UNCHANGED cache
           ELSE IF Len(read) < Len(Bundle)
           THEN loading' = [loading EXCEPT !.read = read] /\ UNCHANGED cache
           ELSE /\ loading' = None
                /\ cache' = Kept(Append(cache, [key |-> KeyOf(loading.key),
                                                read |-> read]))
        /\ UNCHANGED <<splitFile, build, run, disk, runs>>

ArtifactsNext ==
    \/ \E report \in Reports : StartBuild(report)
    \/ WriteRole
    \/ \E script \in Scripts : StartTraining(script)
    \/ \E result \in Validations : TrainEpoch(result)
    \/ SelectBest
    \/ SaveBegins
    \/ SaveEnds
    \/ BuildPolicy
    \/ ScriptDies
    \/ Predict
    \/ ReadNext

ArtifactsSpec == ArtifactsInit /\ [][ArtifactsNext]_vars
-----------------------------------------------------------------------------
Trained == {name \in Artifacts \ {"policy"} : disk[name].content # None}

(* How an epoch ranks, and the first of the epochs that no other beats.    *)
Rank(script, epoch) ==
    IF script = "multistep" THEN <<epoch.score, 0>> ELSE <<epoch.score, epoch.f1>>

Beats(r, s) == r[1] > s[1] \/ (r[1] = s[1] /\ r[2] > s[2])

IsFirstBest(script, history, i) ==
    /\ \A j \in DOMAIN history :
          ~ Beats(Rank(script, history[j]), Rank(script, history[i]))
    /\ \A j \in 1 .. i - 1 :
          Beats(Rank(script, history[i]), Rank(script, history[j]))

FirstBest(script, history) ==
    CHOOSE i \in DOMAIN history : IsFirstBest(script, history, i)

(* Every saved model is the first of the epochs with the best validation   *)
(* score in the history that is saved with it, its thresholds were         *)
(* selected for those weights, and they are the weights that were tested   *)
(* ("Checkpoint selection: mean validation PR-AUC across steps",           *)
(* train_multistep.py:557).                                                *)
SavedIsBest ==
    \A name \in Trained :
        LET saved == disk[name].content
            best  == FirstBest(saved.script, saved.history)
        IN  /\ saved.weights = best
            /\ saved.thresholds = best
            /\ saved.score = saved.history[best].score

(* No saved model was fitted or selected on a day it is tested on, however *)
(* often the split files were rebuilt from other reports, and wherever a   *)
(* rebuild stopped: the files of two reports may share days ("split_day_   *)
(* overlap": false is a constant of the report, build_state_splits.py:82). *)
NeverSawTheTestDay ==
    \A name \in Trained :
        LET saved == disk[name].content
        IN  /\ saved.tested # {}
            /\ (saved.fit \cup saved.selected) \cap saved.tested = {}
            /\ saved.fit \cap saved.selected = {}

(* The next prediction uses the files as they are: a bundle that is found  *)
(* under their fingerprints was read from them, even when a script         *)
(* replaced one of them while the bundle was read.                         *)
CacheServesDisk ==
    \A i \in DOMAIN cache :
        cache[i].key = Fingerprint => cache[i].read = Fingerprint
==============================================================================
