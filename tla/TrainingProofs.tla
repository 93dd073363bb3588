----------------------------- MODULE TrainingProofs -----------------------------
(***************************************************************************)
(* Proofs about what is trained and served: ModelArtifacts, the scripts    *)
(* that write the files of a model and the server that reads them, and     *)
(* ForecastDataset, the windows those scripts learn from.                  *)
(***************************************************************************)
EXTENDS ModelArtifacts, ForecastDataset, StateBufferProofs

LEMMA BundleFacts ==
    /\ DOMAIN Bundle = 1 .. 3
    /\ \A i \in 1 .. 3 : Bundle[i] \in Artifacts
    /\ Len(Bundle) = 3
BY DEF Bundle, Artifacts

(* The files keep a stamp, which only grows.                               *)
Stamped ==
    /\ disk = [name \in Artifacts |-> disk[name]]
    /\ \A name \in Artifacts : disk[name].stamp \in Nat

(* What is cached was read from files that changed only afterwards.        *)
GoodEntries ==
    {e \in [key : [1 .. 3 -> Nat], read : [1 .. 3 -> Nat]] :
        \A j \in 1 .. 3 : /\ e.key[j] <= e.read[j]
                          /\ e.read[j] <= disk[Bundle[j]].stamp}

(* The key is older than what has been read so far.                        *)
GoodLoading ==
    /\ loading.key \in [1 .. 3 -> Nat]
    /\ loading.read \in Seq(Nat) /\ Len(loading.read) < 3
    /\ \A j \in 1 .. 3 : loading.key[j] <= disk[Bundle[j]].stamp
    /\ \A j \in 1 .. Len(loading.read) :
           /\ loading.key[j] <= loading.read[j]
           /\ loading.read[j] <= disk[Bundle[j]].stamp

CacheInv ==
    /\ Stamped
    /\ cache \in Seq(GoodEntries)
    /\ loading # None => GoodLoading

LEMMA ReadLength ==
    ASSUME GoodLoading
    PROVE  /\ Len(loading.read) \in 0 .. 2 /\ Len(loading.read) + 1 \in 1 .. 3
           /\ \A j \in 1 .. Len(loading.read) :
                  j \in 1 .. 3 /\ loading.read[j] \in Nat
<1>1. loading.read \in Seq(Nat) /\ Len(loading.read) < 3
  BY DEF GoodLoading
<1>2. \A r \in Seq(Nat) :
          Len(r) \in Nat /\ \A j \in 1 .. Len(r) : r[j] \in Nat
  OBVIOUS
<1>3. /\ Len(loading.read) \in Nat
      /\ \A j \in 1 .. Len(loading.read) : loading.read[j] \in Nat
  BY <1>1, <1>2, Zenon
<1> DEFINE n == Len(loading.read)
<1> HIDE DEF n
<1>4. n \in Nat /\ n < 3
  BY <1>1, <1>3, Zenon DEF n
<1>5. n \in 0 .. 2 /\ n + 1 \in 1 .. 3 /\ \A j \in 1 .. n : j \in 1 .. 3
  BY <1>4
<1> QED
  BY <1>3, <1>5, Zenon DEF n

LEMMA CacheStarts == ArtifactsInit => CacheInv
BY DEF ArtifactsInit, CacheInv, Stamped

LEMMA TouchedFacts ==
    ASSUME Stamped, NEW name, NEW whole, NEW content,
           disk' = Touched(name, whole, content)
    PROVE  /\ Stamped'
           /\ \A n \in Artifacts : disk[n].stamp <= disk'[n].stamp
<1>1. disk' = [n \in Artifacts |-> disk'[n]]
  BY DEF Stamped, Touched
<1>2. \A n \in Artifacts : n # name => disk'[n] = disk[n]
  BY DEF Stamped, Touched
<1>3. name \in Artifacts => disk'[name].stamp = disk[name].stamp + 1
  BY DEF Stamped, Touched
<1> QED
  BY <1>1, <1>2, <1>3 DEF Stamped

LEMMA StampsGrow ==
    ASSUME Stamped, [ArtifactsNext]_vars
    PROVE  /\ Stamped'
           /\ \A n \in Artifacts : disk[n].stamp <= disk'[n].stamp
<1>1. CASE SaveBegins
  BY <1>1, TouchedFacts DEF SaveBegins
<1>2. CASE SaveEnds
  BY <1>2, TouchedFacts DEF SaveEnds
<1>3. CASE UNCHANGED disk
  BY <1>3 DEF Stamped
<1> QED
  BY <1>1, <1>2, <1>3
     DEF ArtifactsNext, StartBuild, WriteRole, StartTraining, TrainEpoch,
         SelectBest, BuildPolicy, ScriptDies, Predict, ReadNext, vars

(* A file that changes spoils no bundle that was read before.              *)
LEMMA CacheStep == CacheInv /\ [ArtifactsNext]_vars => CacheInv'
<1> SUFFICES ASSUME CacheInv, [ArtifactsNext]_vars
             PROVE  CacheInv'
  OBVIOUS
<1>1. Stamped' /\ \A n \in Artifacts : disk[n].stamp <= disk'[n].stamp
  BY StampsGrow DEF CacheInv
<1>2. /\ \A n \in Artifacts : disk[n].stamp \in Nat /\ disk'[n].stamp \in Nat
      /\ \A j \in 1 .. 3 : /\ disk[Bundle[j]].stamp \in Nat
                           /\ disk'[Bundle[j]].stamp \in Nat
                           /\ disk[Bundle[j]].stamp <= disk'[Bundle[j]].stamp
  BY <1>1, BundleFacts DEF CacheInv, Stamped
<1>3. GoodEntries \subseteq GoodEntries'
  BY <1>2 DEF GoodEntries
<1>4. cache \in Seq(GoodEntries')
  BY <1>3 DEF CacheInv
<1>5. CASE UNCHANGED <<loading, cache>>
  <2>1. ASSUME loading # None PROVE GoodLoading'
    <3>1. GoodLoading /\ loading' = loading
      BY <1>5, <2>1 DEF CacheInv
    <3>2. \A j \in 1 .. 3 : loading.key[j] \in Nat
      BY <3>1 DEF GoodLoading
    <3>3. ASSUME NEW j \in 1 .. 3
          PROVE  loading.key[j] <= disk'[Bundle[j]].stamp
      <4>1. loading.key[j] \in Nat /\ loading.key[j] <= disk[Bundle[j]].stamp
        BY <3>1, <3>2 DEF GoodLoading
      <4> QED
        BY <1>2, <4>1
    <3>4. ASSUME NEW j \in 1 .. Len(loading.read)
          PROVE  /\ loading.key[j] <= loading.read[j]
                 /\ loading.read[j] <= disk'[Bundle[j]].stamp
      <4>1. j \in 1 .. 3 /\ loading.read[j] \in Nat
        BY <3>1, ReadLength
      <4>2. /\ loading.key[j] <= loading.read[j]
            /\ loading.read[j] <= disk[Bundle[j]].stamp
        BY <3>1 DEF GoodLoading
      <4> QED
        BY <1>2, <4>1, <4>2
    <3>5. /\ loading.key \in [1 .. 3 -> Nat]
          /\ loading.read \in Seq(Nat) /\ Len(loading.read) < 3
      BY <3>1 DEF GoodLoading
    <3> QED
      BY <3>1, <3>3, <3>4, <3>5, Zenon DEF GoodLoading
  <2> QED
    BY <1>1, <1>4, <1>5, <2>1 DEF CacheInv
<1>6. ASSUME Predict PROVE CacheInv'
  <2>1. Fingerprint \in [1 .. 3 -> Nat]
        /\ \A j \in 1 .. 3 : Fingerprint[j] = disk[Bundle[j]].stamp
    BY <1>2, BundleFacts DEF Fingerprint
  <2>2. UNCHANGED disk
    BY <1>6 DEF Predict
  <2>3. CASE IndexOf(Fingerprint) # {}
    <3>1. PICK i \in IndexOf(Fingerprint) :
              cache' = Append(RemoveAt(cache, i), cache[i])
      BY <1>6, <2>3 DEF Predict, CacheHit
    <3>2. i \in 1 .. Len(cache) /\ cache \in Seq(GoodEntries')
      BY <1>4 DEF IndexOf, CacheInv
    <3>3. /\ SubSeq(cache, 1, i - 1) \in Seq(GoodEntries')
          /\ SubSeq(cache, i + 1, Len(cache)) \in Seq(GoodEntries')
          /\ cache[i] \in GoodEntries'
      BY <3>2
    <3>4. cache' \in Seq(GoodEntries')
      BY <3>1, <3>3 DEF RemoveAt
    <3>5. loading' = None
      BY <1>6, <2>3 DEF Predict
    <3> QED
      BY <1>1, <3>4, <3>5 DEF CacheInv
  <2>4. CASE IndexOf(Fingerprint) = {}
    <3>1. loading' = [key |-> Fingerprint, read |-> <<>>] /\ cache' = cache
      BY <1>6, <2>4 DEF Predict
    <3>2. GoodLoading'
      BY <1>2, <2>1, <2>2, <3>1 DEF GoodLoading
    <3> QED
      BY <1>1, <1>4, <3>1, <3>2 DEF CacheInv
  <2> QED
    BY <2>3, <2>4
<1>7. ASSUME ReadNext PROVE CacheInv'
  <2> DEFINE name == Bundle[Len(loading.read) + 1]
             read == Append(loading.read, disk[name].stamp)
  <2>1. GoodLoading /\ UNCHANGED disk
    BY <1>7 DEF ReadNext, CacheInv
  <2>2. Len(loading.read) \in 0 .. 2 /\ Len(loading.read) + 1 \in 1 .. 3
    BY <2>1, ReadLength
  <2>3. /\ read \in Seq(Nat) /\ Len(read) = Len(loading.read) + 1
        /\ \A j \in 1 .. Len(read) : /\ loading.key[j] <= read[j]
                                     /\ read[j] <= disk[Bundle[j]].stamp
    <3>1. /\ read \in Seq(Nat) /\ Len(read) = Len(loading.read) + 1
          /\ \A j \in 1 .. Len(loading.read) : read[j] = loading.read[j]
          /\ read[Len(loading.read) + 1] = disk[name].stamp
      BY <1>2, <2>1, <2>2 DEF GoodLoading
    <3>2. loading.key[Len(loading.read) + 1] <= disk[name].stamp
      BY <2>1, <2>2 DEF GoodLoading
    <3>3. disk[name].stamp \in Nat
      BY <1>2, <2>2
    <3> HIDE DEF name, read
    <3>4. ASSUME NEW j \in 1 .. Len(read)
          PROVE  loading.key[j] <= read[j] /\ read[j] <= disk[Bundle[j]].stamp
      <4>1. CASE j = Len(loading.read) + 1
        BY <3>1, <3>2, <3>3, <4>1 DEF name
      <4>2. CASE j # Len(loading.read) + 1
        <5>1. j \in 1 .. Len(loading.read)
          BY <2>2, <3>1, <4>2
        <5> QED
          BY <2>1, <3>1, <5>1 DEF GoodLoading
      <4> QED
        BY <4>1, <4>2
    <3> QED
      BY <3>1, <3>4
  <2>4. CASE loading' = None /\ UNCHANGED cache
    BY <1>1, <1>4, <2>4 DEF CacheInv
  <2>5. ASSUME loading' = [loading EXCEPT !.read = read], Len(read) < 3,
               UNCHANGED cache
        PROVE  CacheInv'
    <3> HIDE DEF read
    <3>1. loading'.key = loading.key
      BY <2>5
    <3>2. loading'.read = loading.read \/ loading'.read = read
      BY <2>5
    <3>3. GoodLoading'
      BY <2>1, <2>3, <2>5, <3>1, <3>2 DEF GoodLoading
    <3> QED
      BY <1>1, <1>4, <2>5, <3>3 DEF CacheInv
  <2>6. ASSUME loading' = None, Len(read) >= 3,
               cache' = Kept(Append(cache, [key |-> KeyOf(loading.key),
                                            read |-> read]))
        PROVE  CacheInv'
    <3> DEFINE entry == [key |-> loading.key, read |-> read]
    <3> HIDE DEF read
    <3>1. Len(read) = 3
      BY <2>2, <2>3, <2>6
    <3>2. read \in [1 .. 3 -> Nat]
      BY <2>3, <3>1, LenProperties
    <3>3. entry \in GoodEntries
      BY <2>1, <2>3, <3>1, <3>2 DEF GoodEntries, GoodLoading
    <3> HIDE DEF entry
    <3>4. /\ Append(cache, entry) \in Seq(GoodEntries')
          /\ Append(cache, entry) # <<>>
      BY <1>3, <1>4, <3>3
    <3>5. cache' = Kept(Append(cache, entry))
      BY <2>6 DEF KeyOf, entry
    <3>6. cache' \in Seq(GoodEntries')
      BY <3>4, <3>5 DEF Kept
    <3> QED
      BY <1>1, <2>6, <3>6 DEF CacheInv
  <2>7. Len(read) \in Nat
    BY <2>2, <2>3
  <2> QED
    BY <1>7, <2>4, <2>5, <2>6, <2>7, BundleFacts DEF ReadNext
<1> QED
  BY <1>5, <1>6, <1>7
     DEF ArtifactsNext, StartBuild, WriteRole, StartTraining, TrainEpoch,
         SelectBest, SaveBegins, SaveEnds, BuildPolicy, ScriptDies, vars

(* A prediction is made by the files as they are, however the scripts      *)
(* replaced them while their bundle was read: the fingerprints that are    *)
(* its key were taken before the first read (inference.py,                 *)
(* predict_network_state_sequence).                                        *)
THEOREM CachedBundlesAreCurrent == ArtifactsSpec => []CacheServesDisk
<1>1. CacheInv => CacheServesDisk
  <2> SUFFICES ASSUME CacheInv, NEW i \in DOMAIN cache,
                      cache[i].key = Fingerprint
               PROVE  cache[i].read = Fingerprint
    BY DEF CacheServesDisk
  <2>1. cache[i] \in GoodEntries
    BY DEF CacheInv
  <2>2. Fingerprint = [j \in 1 .. 3 |-> disk[Bundle[j]].stamp]
    BY BundleFacts DEF Fingerprint
  <2>3. /\ cache[i].read \in [1 .. 3 -> Nat]
        /\ \A j \in 1 .. 3 : /\ cache[i].key[j] <= cache[i].read[j]
                             /\ cache[i].read[j] <= disk[Bundle[j]].stamp
    BY <2>1 DEF GoodEntries
  <2>4. \A j \in 1 .. 3 : disk[Bundle[j]].stamp \in Nat
    BY BundleFacts DEF CacheInv, Stamped
  <2>5. \A j \in 1 .. 3 : cache[i].read[j] = disk[Bundle[j]].stamp
    BY <2>2, <2>3, <2>4
  <2> QED
    BY <2>2, <2>3, <2>5
<1> QED
  BY <1>1, CacheStarts, CacheStep, PTL DEF ArtifactsSpec
-----------------------------------------------------------------------------
TrainingScripts == {"baseline", "world_model", "lengths", "multistep"}

Models == {"preprocessor", "v1", "l5", "l20", "k1", "k5"}

Validated == [weights : Nat, score : Nat, f1 : Nat]

(* The order TrainEpoch keeps the best by is the one the ranks state.      *)
Better(script, e, f) ==
    \/ e.score > f.score
    \/ script # "multistep" /\ e.score = f.score /\ e.f1 > f.f1

LEMMA RanksByBetter ==
    ASSUME NEW script, NEW e, NEW f,
           e.score \in Int, e.f1 \in Int, f.score \in Int, f.f1 \in Int
    PROVE  Beats(Rank(script, e), Rank(script, f)) <=> Better(script, e, f)
BY DEF Beats, Rank, Better

LEMMA BetterIsAnOrder ==
    ASSUME NEW script, NEW x \in Validated, NEW y \in Validated,
           NEW z \in Validated
    PROVE  /\ ~ Better(script, x, x)
           /\ Better(script, x, y) => ~ Better(script, y, x)
           /\ Better(script, x, y) /\ ~ Better(script, z, y) =>
                  Better(script, x, z)
BY DEF Better, Validated

(* The epoch i is the first of the best of a history.                      *)
Leads(script, history, i) ==
    /\ i \in DOMAIN history
    /\ \A j \in DOMAIN history : ~ Better(script, history[j], history[i])
    /\ \A j \in 1 .. i - 1 : Better(script, history[i], history[j])

LEMMA LeadsRanks ==
    ASSUME NEW script, NEW history \in Seq(Validated), NEW i \in DOMAIN history
    PROVE  Leads(script, history, i) <=> IsFirstBest(script, history, i)
<1>1. \A j \in DOMAIN history : history[j] \in Validated
  OBVIOUS
<1>2. \A j, k \in DOMAIN history :
          Beats(Rank(script, history[j]), Rank(script, history[k]))
              <=> Better(script, history[j], history[k])
  <2> TAKE j, k \in DOMAIN history
  <2>1. /\ history[j].score \in Int /\ history[j].f1 \in Int
        /\ history[k].score \in Int /\ history[k].f1 \in Int
    BY <1>1, SMTT(30) DEF Validated
  <2> QED
    BY <2>1, RanksByBetter
<1>3. \A j \in 1 .. i - 1 : j \in DOMAIN history
  OBVIOUS
<1> QED
  BY <1>2, <1>3 DEF Leads, IsFirstBest

(* Only one epoch leads: of two, the earlier would beat the later.         *)
LEMMA OneLeads ==
    ASSUME NEW script, NEW history \in Seq(Validated), NEW i,
           Leads(script, history, i)
    PROVE  FirstBest(script, history) = i
<1>1. i \in DOMAIN history /\ IsFirstBest(script, history, i)
  BY LeadsRanks DEF Leads
<1>2. ASSUME NEW k \in DOMAIN history, IsFirstBest(script, history, k)
      PROVE  k = i
  <2>1. Leads(script, history, k)
    BY <1>2, LeadsRanks
  <2>2. i \in 1 .. Len(history) /\ k \in 1 .. Len(history)
    BY <1>1, <1>2
  <2>3. k < i => Better(script, history[i], history[k])
    BY <2>2 DEF Leads
  <2>4. i < k => Better(script, history[k], history[i])
    BY <2>1, <2>2 DEF Leads
  <2> QED
    BY <2>1, <2>2, <2>3, <2>4 DEF Leads
<1> QED
  BY <1>1, <1>2, Zenon DEF FirstBest

(* One more epoch leads exactly if it beats the one that led.              *)
LEMMA LeadsNext ==
    ASSUME NEW script, NEW history \in Seq(Validated), NEW i,
           Leads(script, history, i), NEW e \in Validated
    PROVE  IF Better(script, e, history[i])
           THEN Leads(script, Append(history, e), Len(history) + 1)
           ELSE Leads(script, Append(history, e), i)
<1> DEFINE n == Len(history)
           next == Append(history, e)
<1>1. /\ n \in Nat /\ DOMAIN history = 1 .. n /\ DOMAIN next = 1 .. n + 1
      /\ \A j \in 1 .. n : next[j] = history[j] /\ history[j] \in Validated
      /\ next[n + 1] = e
      /\ i \in 1 .. n
  BY DEF Leads
<1>2. /\ \A j \in 1 .. n : ~ Better(script, history[j], history[i])
      /\ \A j \in 1 .. i - 1 : Better(script, history[i], history[j])
  BY <1>1 DEF Leads
<1> HIDE DEF n, next
<1>3. ASSUME Better(script, e, history[i])
      PROVE  Leads(script, next, n + 1)
  <2>1. \A j \in 1 .. n : Better(script, e, history[j])
    BY <1>1, <1>2, <1>3, BetterIsAnOrder
  <2>2. \A j \in 1 .. n : ~ Better(script, history[j], e)
    BY <1>1, <2>1, BetterIsAnOrder
  <2>3. ~ Better(script, e, e)
    BY BetterIsAnOrder
  <2>4. \A j \in 1 .. n + 1 : ~ Better(script, next[j], next[n + 1])
    BY <1>1, <2>2, <2>3
  <2>5. \A j \in 1 .. (n + 1) - 1 : Better(script, next[n + 1], next[j])
    BY <1>1, <2>1
  <2> QED
    BY <1>1, <2>4, <2>5 DEF Leads
<1>4. ASSUME ~ Better(script, e, history[i])
      PROVE  Leads(script, next, i)
  <2>1. \A j \in 1 .. n + 1 : ~ Better(script, next[j], next[i])
    BY <1>1, <1>2, <1>4
  <2>2. \A j \in 1 .. i - 1 : Better(script, next[i], next[j])
    BY <1>1, <1>2
  <2> QED
    BY <1>1, <2>1, <2>2 DEF Leads
<1> QED
  BY <1>3, <1>4 DEF n, next

(* What a training may save, when it ran on the expected days: the leading *)
(* epoch of its history, with the thresholds selected for it.              *)
Selections ==
    {c \in [script : TrainingScripts, weights : Nat, thresholds : Nat,
            score : Nat, history : Seq(Validated),
            fit : SUBSET Days, selected : SUBSET Days, tested : SUBSET Days] :
        /\ Leads(c.script, c.history, c.weights)
        /\ c.thresholds = c.weights
        /\ c.score = c.history[c.weights].score
        /\ c.fit = ExpectedDays["train"]
        /\ c.selected = ExpectedDays["validation"]
        /\ c.tested = ExpectedDays["test"]}

Products == [name : Models \cup {"control"}, content : Selections]

(* The best epoch so far is the one that leads.                            *)
KeepsBest ==
    /\ run.history \in Seq(Validated)
    /\ IF run.history = <<>>
       THEN run.best = NoBest
       ELSE /\ Leads(run.script, run.history, run.best.weights)
            /\ run.best = run.history[run.best.weights]

TrainsWell ==
    /\ run.script \in TrainingScripts
    /\ SplitsAsExpected
    /\ run.todo \in Seq(Models \cup {"control"})
    /\ run.unsaved \in Seq(Products)
    /\ KeepsBest

WritesPolicy ==
    /\ run.script = "policy" /\ run.todo = <<>>
    /\ run.unsaved # <<>> /\ Head(run.unsaved).name = "policy"

IsRun ==
    run = [script |-> run.script, todo |-> run.todo,
           history |-> run.history, best |-> run.best,
           unsaved |-> run.unsaved, writing |-> run.writing]

GoodRun ==
    /\ IsRun
    /\ TrainsWell \/ WritesPolicy
    /\ run.writing # None => /\ run.unsaved # <<>>
                             /\ run.writing = Head(run.unsaved).name

GoodDisk ==
    \A name \in Models :
        disk[name].content # None => disk[name].content \in Selections

(* The splits are not rebuilt while a training runs.                       *)
SelectionInv ==
    /\ Stamped
    /\ build = None \/ run = None
    /\ run # None => GoodRun
    /\ GoodDisk

LEMMA SelectionStarts == ArtifactsInit => SelectionInv
<1> SUFFICES ASSUME ArtifactsInit
             PROVE  SelectionInv
  OBVIOUS
<1>1. Stamped
  BY CacheStarts DEF CacheInv
<1>2. \A name \in Models : disk[name].content = None
  BY DEF ArtifactsInit, Models, Artifacts
<1> QED
  BY <1>1, <1>2 DEF ArtifactsInit, SelectionInv, GoodDisk

LEMMA FreshTraining ==
    ASSUME NEW script \in TrainingScripts,
           NEW todo \in Seq(Models \cup {"control"}), NEW unsaved \in Seq(Products),
           SplitsAsExpected', run' = Training(script, todo, unsaved)
    PROVE  GoodRun'
<1>1. /\ run'.script = script /\ run'.todo = todo /\ run'.history = <<>>
      /\ run'.best = NoBest /\ run'.unsaved = unsaved /\ run'.writing = None
      /\ IsRun'
  BY DEF Training, IsRun
<1>2. KeepsBest'
  BY <1>1 DEF KeepsBest
<1> QED
  BY <1>1, <1>2 DEF GoodRun, TrainsWell

LEMMA JobsAreModels ==
    \A script \in TrainingScripts : Jobs[script] \in Seq(Models \cup {"control"})
<1>1. /\ Jobs["baseline"] = <<"preprocessor">>
      /\ Jobs["world_model"] = <<"v1", "control">>
      /\ Jobs["lengths"] = <<"l5", "l20">>
      /\ Jobs["multistep"] = <<"k1", "k5">>
  BY DEF Jobs
<1>2. \A x, y \in Models \cup {"control"} :
          /\ <<x>> \in Seq(Models \cup {"control"})
          /\ <<x, y>> \in Seq(Models \cup {"control"})
  OBVIOUS
<1>3. {"preprocessor", "v1", "control", "l5", "l20", "k1", "k5"}
          \subseteq Models \cup {"control"}
  BY DEF Models
<1> QED
  BY <1>1, <1>2, <1>3 DEF TrainingScripts

LEMMA SelectionStep == SelectionInv /\ [ArtifactsNext]_vars => SelectionInv'
<1> SUFFICES ASSUME SelectionInv, [ArtifactsNext]_vars
             PROVE  SelectionInv'
  OBVIOUS
<1>1. Stamped'
  BY StampsGrow DEF SelectionInv
<1>2. UNCHANGED disk => GoodDisk'
  BY DEF SelectionInv, GoodDisk
<1>3. CASE UNCHANGED <<run, disk, splitFile>> /\ (build' = None \/ run = None)
  <2>1. run # None => GoodRun'
    BY <1>3 DEF SelectionInv, GoodRun, IsRun, TrainsWell, WritesPolicy,
                KeepsBest, SplitsAsExpected
  <2> QED
    BY <1>1, <1>2, <1>3, <2>1 DEF SelectionInv
<1>4. ASSUME WriteRole PROVE SelectionInv'
  <2>1. run = None /\ run' = None /\ UNCHANGED disk
    BY <1>4 DEF WriteRole, SelectionInv
  <2> QED
    BY <1>1, <1>2, <2>1 DEF SelectionInv
<1>5. ASSUME NEW script \in Scripts, StartTraining(script)
      PROVE  SelectionInv'
  <2>1. script \in TrainingScripts
    BY ArtifactsAssumption DEF TrainingScripts
  <2>2. /\ SplitsAsExpected' /\ run' = Training(script, Jobs[script], <<>>)
        /\ build' = None /\ UNCHANGED disk
    BY <1>5 DEF StartTraining, SplitsAsExpected, NothingRuns
  <2>3. <<>> \in Seq(Products)
    OBVIOUS
  <2>4. GoodRun'
    BY <2>1, <2>2, <2>3, FreshTraining, JobsAreModels
  <2> QED
    BY <1>1, <1>2, <2>2, <2>4 DEF SelectionInv
<1>6. ASSUME NEW result \in Validations, TrainEpoch(result)
      PROVE  SelectionInv'
  <2> DEFINE epoch == [weights |-> Len(run.history) + 1,
                       score |-> result.score, f1 |-> result.f1]
  <2>1. /\ run # None /\ run.todo # <<>> /\ UNCHANGED <<disk, build, splitFile>>
        /\ run' = [run EXCEPT !.history = Append(@, epoch),
                              !.best = IF Improves(epoch) THEN epoch ELSE @]
    BY <1>6 DEF TrainEpoch, Trains
  <2>2. GoodRun /\ TrainsWell
    BY <2>1 DEF SelectionInv, GoodRun, WritesPolicy
  <2>3. run.history \in Seq(Validated) /\ Len(run.history) \in Nat
    BY <2>2 DEF TrainsWell, KeepsBest
  <2>4. epoch \in Validated /\ epoch.weights = Len(run.history) + 1
    BY <2>3, ArtifactsAssumption DEF Validated
  <2>5. Improves(epoch)
            <=> \/ epoch.score > run.best.score
                \/ /\ run.script # "multistep"
                   /\ epoch.score = run.best.score /\ epoch.f1 > run.best.f1
    BY DEF Improves
  <2> HIDE DEF epoch
  <2>6. /\ run'.history = Append(run.history, epoch)
        /\ run'.best = IF Improves(epoch) THEN epoch ELSE run.best
        /\ run'.script = run.script /\ run'.todo = run.todo
        /\ run'.unsaved = run.unsaved /\ run'.writing = run.writing
        /\ IsRun'
    BY <2>1, <2>2 DEF GoodRun, IsRun
  <2>7. run'.history \in Seq(Validated) /\ run'.history # <<>>
    BY <2>3, <2>4, <2>6
  <2>8. /\ Leads(run'.script, run'.history, run'.best.weights)
        /\ run'.best = run'.history[run'.best.weights]
    <3>1. CASE run.history = <<>>
      <4>1. run.best = NoBest
        BY <2>2, <3>1 DEF TrainsWell, KeepsBest
      <4>2. run'.best = epoch
        BY <2>4, <2>5, <2>6, <4>1 DEF NoBest, Validated
      <4>3. /\ DOMAIN run'.history = 1 .. 1 /\ run'.history[1] = epoch
            /\ epoch.weights = 1
        BY <2>4, <2>6, <3>1
      <4>4. ~ Better(run'.script, epoch, epoch)
        BY <2>4, BetterIsAnOrder
      <4> QED
        BY <4>2, <4>3, <4>4 DEF Leads
    <3>2. ASSUME run.history # <<>>
          PROVE  /\ Leads(run'.script, run'.history, run'.best.weights)
                 /\ run'.best = run'.history[run'.best.weights]
      <4> DEFINE i == run.best.weights
      <4>1. /\ Leads(run.script, run.history, i)
            /\ run.best = run.history[i]
        BY <2>2, <3>2 DEF TrainsWell, KeepsBest
      <4> HIDE DEF i
      <4>2. Improves(epoch) <=> Better(run.script, epoch, run.history[i])
        BY <2>5, <4>1 DEF Better
      <4>3. i \in 1 .. Len(run.history)
        BY <2>3, <4>1 DEF Leads
      <4>4. /\ run'.history[i] = run.history[i]
            /\ run'.history[Len(run.history) + 1] = epoch
        BY <2>3, <2>4, <2>6, <4>3
      <4>5. CASE Improves(epoch)
        BY <2>3, <2>4, <2>6, <4>1, <4>2, <4>4, <4>5, LeadsNext
      <4>6. CASE ~ Improves(epoch)
        <5>1. run'.best = run.best /\ run'.best.weights = i
          BY <2>6, <4>6 DEF i
        <5> QED
          BY <2>3, <2>4, <2>6, <4>1, <4>2, <4>4, <4>6, <5>1, LeadsNext
      <4> QED
        BY <4>5, <4>6
    <3> QED
      BY <3>1, <3>2
  <2>9. KeepsBest'
    BY <2>7, <2>8 DEF KeepsBest
  <2>10. TrainsWell'
    BY <2>1, <2>2, <2>6, <2>9 DEF TrainsWell, SplitsAsExpected
  <2>11. GoodRun'
    BY <2>2, <2>6, <2>10 DEF GoodRun
  <2> QED
    BY <1>1, <1>2, <2>1, <2>11 DEF SelectionInv

<1>7. ASSUME SelectBest PROVE SelectionInv'
  <2> DEFINE chosen == [script     |-> run.script,
                        weights    |-> run.best.weights,
                        thresholds |-> run.best.weights,
                        score      |-> run.best.score,
                        history    |-> run.history,
                        fit        |-> splitFile["train"],
                        selected   |-> splitFile["validation"],
                        tested     |-> splitFile["test"]]
             made == [name |-> Head(run.todo), content |-> chosen]
  <2>1. /\ run # None /\ run.todo # <<>> /\ UNCHANGED <<disk, build, splitFile>>
        /\ Len(run.history) = CandidatesOf(run.script)
        /\ run' = Training(run.script, Tail(run.todo),
                           Append(run.unsaved, made))
    BY <1>7 DEF SelectBest, Trains, RestoredState
  <2>2. GoodRun /\ TrainsWell
    BY <2>1 DEF SelectionInv, GoodRun, WritesPolicy
  <2>3. run.history # <<>>
    BY <2>1, ArtifactsAssumption DEF CandidatesOf
  <2>4. /\ run.history \in Seq(Validated)
        /\ Leads(run.script, run.history, run.best.weights)
        /\ run.best = run.history[run.best.weights]
    BY <2>2, <2>3 DEF TrainsWell, KeepsBest
  <2>5. /\ splitFile["train"] = ExpectedDays["train"]
        /\ splitFile["validation"] = ExpectedDays["validation"]
        /\ splitFile["test"] = ExpectedDays["test"]
    BY <2>2 DEF TrainsWell, SplitsAsExpected, Roles
  <2>6. \A role \in {"train", "validation", "test"} :
            ExpectedDays[role] \in SUBSET Days
    BY ArtifactsAssumption
  <2>7. run.best.weights \in Nat /\ run.best.score \in Nat
    <3>1. run.best.weights \in 1 .. Len(run.history)
      BY <2>4 DEF Leads
    <3>2. run.history[run.best.weights] \in Validated
      BY <2>4, <3>1
    <3>3. run.best.score \in Nat
      BY <2>4, <3>2, Zenon DEF Validated
    <3> QED
      BY <3>1, <3>3
  <2>8. run.script \in TrainingScripts
    BY <2>2 DEF TrainsWell
  <2>9. chosen \in Selections
    BY <2>4, <2>5, <2>6, <2>7, <2>8 DEF Selections
  <2>10. /\ Head(run.todo) \in Models \cup {"control"}
         /\ Tail(run.todo) \in Seq(Models \cup {"control"})
    BY <2>1, <2>2 DEF TrainsWell
  <2>11. made \in Products
    BY <2>9, <2>10 DEF Products
  <2> HIDE DEF made
  <2>12. Append(run.unsaved, made) \in Seq(Products)
    BY <2>2, <2>11 DEF TrainsWell
  <2>13. SplitsAsExpected'
    BY <2>1, <2>2 DEF TrainsWell, SplitsAsExpected
  <2>14. GoodRun'
    BY <2>1, <2>8, <2>10, <2>12, <2>13, FreshTraining
  <2> QED
    BY <1>1, <1>2, <2>1, <2>14 DEF SelectionInv
<1>8. ASSUME SaveBegins PROVE SelectionInv'
  <2> DEFINE name == Head(run.unsaved).name
  <2>1. /\ run # None /\ run.unsaved # <<>> /\ UNCHANGED <<splitFile, build>>
        /\ run' = [run EXCEPT !.writing = name]
        /\ disk' = Touched(name, FALSE, None)
    BY <1>8 DEF SaveBegins, MaySave
  <2>2. GoodRun
    BY <2>1 DEF SelectionInv
  <2> HIDE DEF name
  <2>3. /\ run'.script = run.script /\ run'.todo = run.todo
        /\ run'.history = run.history /\ run'.best = run.best
        /\ run'.unsaved = run.unsaved /\ run'.writing = name
        /\ IsRun'
    BY <2>1, <2>2 DEF GoodRun, IsRun
  <2>4. TrainsWell => TrainsWell'
    BY <2>1, <2>3 DEF TrainsWell, KeepsBest, SplitsAsExpected
  <2>5. WritesPolicy => WritesPolicy'
    BY <2>3 DEF WritesPolicy
  <2>6. GoodRun'
    BY <2>1, <2>2, <2>3, <2>4, <2>5 DEF GoodRun, name
  <2>7. GoodDisk'
    <3>1. ASSUME NEW n \in Models, disk'[n].content # None
          PROVE  disk'[n].content \in Selections
      <4>1. n \in Artifacts
        BY DEF Models, Artifacts
      <4>2. n # name
        BY <2>1, <3>1, <4>1 DEF Touched, SelectionInv, Stamped
      <4>3. disk'[n] = disk[n]
        BY <2>1, <4>1, <4>2 DEF Touched, SelectionInv, Stamped
      <4> QED
        BY <3>1, <4>3 DEF SelectionInv, GoodDisk
    <3> QED
      BY <3>1 DEF GoodDisk
  <2> QED
    BY <1>1, <2>1, <2>6, <2>7 DEF SelectionInv
<1>9. ASSUME SaveEnds PROVE SelectionInv'
  <2>1. /\ run # None /\ run.writing # None /\ UNCHANGED <<splitFile, build>>
        /\ disk' = Touched(run.writing, TRUE, Head(run.unsaved).content)
        /\ run' = IF run.todo = <<>> THEN None
                  ELSE Training(run.script, run.todo, <<>>)
    BY <1>9 DEF SaveEnds
  <2>2. GoodRun /\ run.unsaved # <<>> /\ run.writing = Head(run.unsaved).name
    BY <2>1 DEF SelectionInv, GoodRun
  <2>3. \/ run.writing = "policy"
        \/ Head(run.unsaved).content \in Selections
    <3>1. CASE TrainsWell
      <4>1. Head(run.unsaved) \in Products
        BY <2>2, <3>1 DEF TrainsWell
      <4> QED
        BY <4>1 DEF Products
    <3> QED
      BY <2>2, <3>1 DEF GoodRun, WritesPolicy
  <2>4. GoodDisk'
    <3>1. ASSUME NEW n \in Models, disk'[n].content # None
          PROVE  disk'[n].content \in Selections
      <4>1. n \in Artifacts /\ n # "policy"
        BY DEF Models, Artifacts
      <4>2. CASE n = run.writing
        <5>1. disk'[n].content = Head(run.unsaved).content
          BY <2>1, <4>1, <4>2 DEF Touched, SelectionInv, Stamped
        <5> QED
          BY <2>3, <4>1, <4>2, <5>1
      <4>3. CASE n # run.writing
        <5>1. disk'[n] = disk[n]
          BY <2>1, <4>1, <4>3 DEF Touched, SelectionInv, Stamped
        <5> QED
          BY <3>1, <5>1 DEF SelectionInv, GoodDisk
      <4> QED
        BY <4>2, <4>3
    <3> QED
      BY <3>1 DEF GoodDisk
  <2>5. run' # None => GoodRun'
    <3>1. ASSUME run.todo # <<>>
          PROVE  GoodRun'
      <4>1. TrainsWell
        BY <2>2, <3>1 DEF GoodRun, WritesPolicy
      <4>2. /\ run.script \in TrainingScripts /\ SplitsAsExpected'
            /\ run.todo \in Seq(Models \cup {"control"})
            /\ <<>> \in Seq(Products)
        BY <2>1, <4>1 DEF TrainsWell, SplitsAsExpected
      <4> QED
        BY <2>1, <3>1, <4>2, FreshTraining
    <3> QED
      BY <2>1, <3>1
  <2>6. build' = None \/ run' = None
    BY <2>1 DEF SelectionInv
  <2> QED
    BY <1>1, <2>4, <2>5, <2>6 DEF SelectionInv
<1>10. ASSUME BuildPolicy PROVE SelectionInv'
  <2>1. /\ build' = None /\ UNCHANGED disk
        /\ run' = Training("policy", <<>>,
                           <<[name |-> "policy", content |-> SelectedModes]>>)
    BY <1>10 DEF BuildPolicy, NothingRuns
  <2>2. /\ run'.script = "policy" /\ run'.todo = <<>> /\ run'.writing = None
        /\ run'.unsaved = <<[name |-> "policy", content |-> SelectedModes]>>
        /\ IsRun'
    BY <2>1 DEF Training, IsRun
  <2>3. run'.unsaved # <<>> /\ Head(run'.unsaved).name = "policy"
    BY <2>2
  <2>4. GoodRun'
    BY <2>2, <2>3 DEF GoodRun, WritesPolicy
  <2> QED
    BY <1>1, <1>2, <2>1, <2>4 DEF SelectionInv
<1>11. ASSUME ScriptDies PROVE SelectionInv'
  BY <1>1, <1>2, <1>11 DEF ScriptDies, SelectionInv
<1>12. ASSUME NEW report \in Reports, StartBuild(report)
       PROVE  SelectionInv'
  BY <1>1, <1>2, <1>12 DEF StartBuild, NothingRuns, SelectionInv
<1>13. CASE Predict \/ ReadNext \/ UNCHANGED vars
  BY <1>3, <1>13 DEF Predict, ReadNext, vars, SelectionInv
<1> QED
  BY <1>4, <1>5, <1>6, <1>7, <1>8, <1>9, <1>10, <1>11, <1>12, <1>13
     DEF ArtifactsNext

LEMMA TrainedContents ==
    ASSUME SelectionInv, NEW name \in Trained
    PROVE  disk[name].content \in Selections
<1>1. name \in Models /\ disk[name].content # None
  BY DEF Trained, Artifacts, Models
<1> QED
  BY <1>1 DEF SelectionInv, GoodDisk

LEMMA SelectionHolds == ArtifactsSpec => []SelectionInv
BY SelectionStarts, SelectionStep, PTL DEF ArtifactsSpec

(* However many scripts ran, and wherever they stopped, a saved model is   *)
(* the first of the epochs that ranked best on the validation split, with  *)
(* the thresholds that were selected for it (train_multistep.py,           *)
(* _train_one).                                                            *)
THEOREM BestEpochIsSaved == ArtifactsSpec => []SavedIsBest
<1>1. SelectionInv => SavedIsBest
  <2> SUFFICES ASSUME SelectionInv, NEW name \in Trained
               PROVE  LET saved == disk[name].content
                          best  == FirstBest(saved.script, saved.history)
                      IN  /\ saved.weights = best
                          /\ saved.thresholds = best
                          /\ saved.score = saved.history[best].score
    BY DEF SavedIsBest
  <2> DEFINE saved == disk[name].content
  <2>1. saved \in Selections
    BY TrainedContents
  <2> HIDE DEF saved
  <2>2. /\ saved.history \in Seq(Validated)
        /\ Leads(saved.script, saved.history, saved.weights)
        /\ saved.thresholds = saved.weights
        /\ saved.score = saved.history[saved.weights].score
    BY <2>1 DEF Selections
  <2>3. FirstBest(saved.script, saved.history) = saved.weights
    BY <2>2, OneLeads, Zenon
  <2> QED
    BY <2>2, <2>3 DEF saved
<1> QED
  BY <1>1, SelectionHolds, PTL

(* However the split files are rebuilt, a saved model was fitted and       *)
(* selected on days it was not tested on (train_multistep.py, _load_split_ *)
(* frames).                                                                *)
THEOREM TestDayStaysUnseen == ArtifactsSpec => []NeverSawTheTestDay
<1>1. SelectionInv => NeverSawTheTestDay
  <2> SUFFICES ASSUME SelectionInv, NEW name \in Trained
               PROVE  LET saved == disk[name].content
                      IN  /\ saved.tested # {}
                          /\ (saved.fit \cup saved.selected) \cap saved.tested = {}
                          /\ saved.fit \cap saved.selected = {}
    BY DEF NeverSawTheTestDay
  <2>1. disk[name].content \in Selections
    BY TrainedContents
  <2>2. ExpectedDays["test"] # {}
    BY ArtifactsAssumption
  <2>3. /\ ExpectedDays["train"] \cap ExpectedDays["test"] = {}
        /\ ExpectedDays["validation"] \cap ExpectedDays["test"] = {}
        /\ ExpectedDays["train"] \cap ExpectedDays["validation"] = {}
    <3>1. /\ Roles[1] = "train" /\ Roles[2] = "validation" /\ Roles[3] = "test"
      BY DEF Roles
    <3>2. \A i, j \in 1 .. 3 :
              i # j => ExpectedDays[Roles[i]] \cap ExpectedDays[Roles[j]] = {}
      BY ArtifactsAssumption
    <3>3. /\ ExpectedDays[Roles[1]] \cap ExpectedDays[Roles[3]] = {}
          /\ ExpectedDays[Roles[2]] \cap ExpectedDays[Roles[3]] = {}
          /\ ExpectedDays[Roles[1]] \cap ExpectedDays[Roles[2]] = {}
      BY <3>2
    <3> QED
      BY <3>1, <3>3
  <2> QED
    BY <2>1, <2>2, <2>3 DEF Selections
<1> QED
  BY <1>1, SelectionHolds, PTL

-----------------------------------------------------------------------------
(* ForecastDataset.                                                        *)
FlowRows == [day : CaptureDays, date : Nat, slot : DaySlots, attack : BOOLEAN]

LEMMA RolesAre ==
    /\ DOMAIN SplitRoles = 1 .. 3 /\ Len(SplitRoles) = 3
    /\ SplitRoles[1] = "train" /\ SplitRoles[2] = "validation"
    /\ SplitRoles[3] = "test"
    /\ \A i \in 1 .. 3 : SplitRoles[i] \in {"train", "validation", "test"}
BY DEF SplitRoles

LEMMA DaySlotsAreNat == DaySlots \subseteq Nat /\ SlotsPerDay \in Nat \ {0}
BY BufferAssumption DEF DaySlots

(* What a file holds when it is there: what its script makes of the file   *)
(* of the script before, which has not changed since.                      *)
DatasetInv ==
    /\ flows # NoFile => flows \in Captures
    /\ states # NoFile => flows # NoFile /\ states = StateTable(flows)
    /\ splits = [i \in 1 .. 3 |-> splits[i]]
    /\ \A i \in 1 .. 3 : splits[i] # NoFile =>
           states # NoFile /\ splits[i] = RoleRows(states, SplitRoles[i])
    /\ sequences # NoFile =>
           /\ states # NoFile
           /\ sequences = [i \in 1 .. 3 |->
                  BuildSequences(TrainingRows(RoleRows(states, SplitRoles[i])))]
    /\ batches # NoFile =>
           /\ states # NoFile
           /\ batches = [K \in Horizons |-> [i \in 1 .. 3 |->
                  BuildMultistep(RoleRows(states, SplitRoles[i]), K)]]
    /\ windows # NoFile =>
           /\ flows # NoFile
           /\ windows = [i \in 1 .. 3 |->
                  RowWindows(Sorted(SingleDay), BlockStarts, SplitRoles[i],
                             RowStride, 1)]

LEMMA DatasetStart == DatasetInit => DatasetInv
BY RolesAre DEF DatasetInit, DatasetInv

LEMMA DatasetSteps ==
    ASSUME DatasetInv, [DatasetNext]_dataVars
    PROVE  DatasetInv'
<1>1. CASE UNCHANGED dataVars
  BY <1>1 DEF dataVars, DatasetInv, SingleDay
<1>2. CASE PrepareMultiday
  BY <1>2 DEF PrepareMultiday, DatasetInv
<1>3. CASE BuildStates
  BY <1>3 DEF BuildStates, DatasetInv, SingleDay
<1>4. ASSUME NEW i \in DOMAIN SplitRoles, WriteSplit(i)
      PROVE  DatasetInv'
  <2>1. /\ i \in 1 .. 3 /\ states # NoFile
        /\ splits' = [splits EXCEPT ![i] = RoleRows(states, SplitRoles[i])]
        /\ UNCHANGED <<flows, states, sequences, batches, windows>>
    BY <1>4, RolesAre DEF WriteSplit
  <2>2. /\ splits' = [j \in 1 .. 3 |-> splits'[j]]
        /\ \A j \in 1 .. 3 : splits'[j] # NoFile =>
               states # NoFile /\ splits'[j] = RoleRows(states, SplitRoles[j])
    BY <2>1 DEF DatasetInv
  <2>3. SingleDay' = SingleDay
    BY <2>1 DEF SingleDay
  <2> QED
    BY <2>1, <2>2, <2>3 DEF DatasetInv
<1>5. CASE LoadSequences
  <2>1. /\ \A i \in 1 .. 3 : splits[i] # NoFile
        /\ sequences' = [i \in 1 .. 3 |-> BuildSequences(TrainingRows(splits[i]))]
        /\ UNCHANGED <<flows, states, splits, batches, windows>>
    BY <1>5, RolesAre DEF LoadSequences, Loadable
  <2>2. \A i \in 1 .. 3 : states # NoFile
                          /\ splits[i] = RoleRows(states, SplitRoles[i])
    BY <2>1 DEF DatasetInv
  <2>3. states # NoFile /\ SingleDay' = SingleDay
    BY <2>1, <2>2 DEF SingleDay
  <2> QED
    BY <2>1, <2>2, <2>3 DEF DatasetInv
<1>6. CASE LoadBatches
  <2>1. /\ \A i \in 1 .. 3 : splits[i] # NoFile
        /\ batches' = [K \in Horizons |-> [i \in 1 .. 3 |->
                          BuildMultistep(splits[i], K)]]
        /\ UNCHANGED <<flows, states, splits, sequences, windows>>
    BY <1>6, RolesAre DEF LoadBatches, Loadable
  <2>2. \A i \in 1 .. 3 : states # NoFile
                          /\ splits[i] = RoleRows(states, SplitRoles[i])
    BY <2>1 DEF DatasetInv
  <2>3. states # NoFile /\ SingleDay' = SingleDay
    BY <2>1, <2>2 DEF SingleDay
  <2> QED
    BY <2>1, <2>2, <2>3 DEF DatasetInv
<1>7. CASE BuildWindows
  <2>1. /\ flows # NoFile
        /\ windows' = [i \in 1 .. 3 |->
                  RowWindows(Sorted(SingleDay), BlockStarts, SplitRoles[i],
                             RowStride, 1)]
        /\ UNCHANGED <<flows, states, splits, sequences, batches>>
    BY <1>7, RolesAre DEF BuildWindows
  <2>2. SingleDay' = SingleDay
    BY <2>1 DEF SingleDay
  <2> QED
    BY <2>1, <2>2 DEF DatasetInv
<1> QED
  BY <1>1, <1>2, <1>3, <1>4, <1>5, <1>6, <1>7 DEF DatasetNext

-----------------------------------------------------------------------------
(* The rows of a role, and the rows of the single day in order of time.    *)
LEMMA RoleRowsFacts ==
    ASSUME NEW rows \in Seq(FlowRows), NEW role
    PROVE  RoleRows(rows, role) \in Seq(FlowRows)
<1> DEFINE D == {i \in DOMAIN rows : DayRole[rows[i].day] = role}
<1>1. /\ Len(rows) \in Nat /\ DOMAIN rows = 1 .. Len(rows)
      /\ \A i \in 1 .. Len(rows) : rows[i] \in FlowRows
  BY LenProperties
<1>2. IsFiniteSet(D) /\ D \in SUBSET (1 .. Len(rows)) /\ D \in SUBSET Int
  <2>1. IsFiniteSet(1 .. Len(rows))
    BY <1>1, FS_Interval
  <2>2. D \in SUBSET (1 .. Len(rows))
    BY <1>1
  <2> QED
    BY <1>1, <2>1, <2>2, FS_Subset
<1> HIDE DEF D
<1>3. Cardinality(D) \in Nat
  BY <1>2, FS_CardinalityType
<1>4. PICK at \in [1 .. Cardinality(D) -> D] :
          \A table : RowsAt(table, D) = [k \in 1 .. Cardinality(D) |-> table[at[k]]]
  BY <1>2, RowsAtFacts
<1>5. RoleRows(rows, role) = [k \in 1 .. Cardinality(D) |-> rows[at[k]]]
  BY <1>4 DEF RoleRows, D
<1>6. \A k \in 1 .. Cardinality(D) : rows[at[k]] \in FlowRows
  BY <1>1, <1>2
<1> QED
  BY <1>3, <1>5, <1>6, IsASeq

LEMMA SortedFacts ==
    ASSUME NEW rows \in Seq(FlowRows)
    PROVE  /\ Sorted(rows) \in Seq(FlowRows)
           /\ \A i, j \in 1 .. Len(Sorted(rows)) :
                  i < j => Sorted(rows)[i].slot <= Sorted(rows)[j].slot
<1> DEFINE n == Len(rows)
           keys == [i \in DOMAIN rows |-> rows[i].slot]
           o == StableOrder(keys)
           out == Sorted(rows)
<1>1. /\ n \in Nat /\ DOMAIN rows = 1 .. n
      /\ \A i \in 1 .. n : rows[i] \in FlowRows
  BY LenProperties
<1>2. \A i \in 1 .. n : rows[i].slot \in Nat
  BY <1>1, DaySlotsAreNat DEF FlowRows
<1>3. keys \in Seq(Int) /\ Len(keys) = n /\ \A i \in 1 .. n : keys[i] = rows[i].slot
  <2>1. keys = [i \in 1 .. n |-> rows[i].slot]
    BY <1>1
  <2>2. [i \in 1 .. n |-> rows[i].slot] \in Seq(Int)
    BY <1>1, <1>2, IsASeq
  <2>3. DOMAIN keys = 1 .. Len(keys) /\ Len(keys) \in Nat
    BY <2>1, <2>2, LenProperties
  <2> QED
    BY <1>1, <2>1, <2>2, <2>3
<1> HIDE DEF n, keys
<1>4. /\ o \in [1 .. n -> 1 .. n]
      /\ \A i, j \in 1 .. n : i < j =>
             keys[o[i]] < keys[o[j]] \/ (keys[o[i]] = keys[o[j]] /\ o[i] < o[j])
  BY <1>3, StableOrderFacts
<1>5. out = [i \in 1 .. n |-> rows[o[i]]]
  BY <1>1 DEF Sorted, keys
<1> HIDE DEF o, out
<1>6. \A i \in 1 .. n : o[i] \in 1 .. n /\ rows[o[i]] \in FlowRows
  BY <1>1, <1>4
<1>7. out \in Seq(FlowRows)
  BY <1>1, <1>5, <1>6, IsASeq
<1>8. Len(out) = n
  <2>1. DOMAIN out = 1 .. Len(out) /\ Len(out) \in Nat
    BY <1>7, LenProperties
  <2> QED
    BY <1>1, <1>5, <2>1
<1>9. ASSUME NEW i \in 1 .. n, NEW j \in 1 .. n, i < j
      PROVE  out[i].slot <= out[j].slot
  <2>1. keys[o[i]] < keys[o[j]] \/ keys[o[i]] = keys[o[j]]
    BY <1>4, <1>9
  <2>2. /\ out[i].slot = keys[o[i]] /\ out[j].slot = keys[o[j]]
        /\ out[i].slot \in Nat /\ out[j].slot \in Nat
    BY <1>2, <1>3, <1>5, <1>6
  <2> QED
    BY <2>1, <2>2
<1> QED
  BY <1>7, <1>8, <1>9 DEF out

(* A window of a block takes positions of the block in ascending order.    *)
LEMMA RowWindowsFacts ==
    ASSUME NEW rows \in Seq(FlowRows), NEW block,
           NEW window \in RowWindows(rows, BlockStarts, block, RowStride, 1)
    PROVE  /\ DOMAIN window.inputs = 1 .. SequenceLength
           /\ window.target \in 1 .. Len(rows)
           /\ BlockOf(rows[window.target], BlockStarts) = block
           /\ \A j \in 1 .. SequenceLength :
                  /\ window.inputs[j] \in 1 .. Len(rows)
                  /\ window.inputs[j] < window.target
                  /\ BlockOf(rows[window.inputs[j]], BlockStarts) = block
<1> DEFINE D == {i \in DOMAIN rows : BlockOf(rows[i], BlockStarts) = block}
           positions == RowsAt([i \in DOMAIN rows |-> i], D)
           n == Cardinality(D)
           available == Len(positions) - SequenceLength - 1 + 1
<1>1. Len(rows) \in Nat /\ DOMAIN rows = 1 .. Len(rows)
  BY LenProperties
<1>2. /\ IsFiniteSet(D) /\ D \in SUBSET Int
      /\ \A i \in D : i \in 1 .. Len(rows) /\ BlockOf(rows[i], BlockStarts) = block
  <2>1. IsFiniteSet(1 .. Len(rows))
    BY <1>1, FS_Interval
  <2>2. D \in SUBSET (1 .. Len(rows))
    BY <1>1
  <2>3. IsFiniteSet(D)
    BY <2>1, <2>2, FS_Subset
  <2> QED
    BY <1>1, <2>2, <2>3
<1> HIDE DEF D
<1>3. n \in Nat
  BY <1>2, FS_CardinalityType
<1>4. PICK at \in [1 .. n -> D] :
          /\ \A i, j \in 1 .. n : i < j => at[i] < at[j]
          /\ \A table : RowsAt(table, D) = [k \in 1 .. n |-> table[at[k]]]
  <2>1. \E at \in [1 .. Cardinality(D) -> D] :
            /\ \A i, j \in 1 .. Cardinality(D) : i < j => at[i] < at[j]
            /\ \A x \in D : \E i \in 1 .. Cardinality(D) : at[i] = x
            /\ \A table : RowsAt(table, D) =
                   [k \in 1 .. Cardinality(D) |-> table[at[k]]]
    BY <1>2, RowsAtFacts
  <2> QED
    BY <2>1
<1>5. positions = at /\ Len(positions) = n
  <2>1. \A k \in 1 .. n : at[k] \in DOMAIN rows
    BY <1>1, <1>2
  <2>2. positions = [k \in 1 .. n |-> at[k]]
    BY <1>4, <2>1, ZenonT(60)
  <2> QED
    BY <1>3, <1>4, <2>2
<1>6. PICK s \in 0 .. available - 1 :
          window = [inputs |-> [i \in 1 .. SequenceLength |-> positions[s + i]],
                    target |-> positions[s + SequenceLength + 1],
                    label |-> rows[positions[s + SequenceLength + 1]].attack]
  BY DEF RowWindows, D
<1>7. /\ SequenceLength \in Nat /\ s \in Nat
      /\ s + SequenceLength + 1 \in 1 .. n
      /\ \A j \in 1 .. SequenceLength :
             s + j \in 1 .. n /\ s + j < s + SequenceLength + 1
  BY <1>3, <1>5, <1>6, BufferAssumption
<1>8. /\ DOMAIN window.inputs = 1 .. SequenceLength
      /\ window.target = at[s + SequenceLength + 1]
      /\ \A j \in 1 .. SequenceLength : window.inputs[j] = at[s + j]
  BY <1>5, <1>6
<1> HIDE DEF positions, n, available
<1> QED
  BY <1>2, <1>4, <1>7, <1>8

(* A row that is in a block is in the time of the block.                   *)
LEMMA InBlock ==
    ASSUME NEW row \in FlowRows, NEW i \in 1 .. 3,
           BlockOf(row, BlockStarts) = SplitRoles[i]
    PROVE  row.slot \in BlockSlots[i]
<1> DEFINE starts == BlockStarts
<1>1. /\ row.slot \in Int
      /\ starts.train \in Int /\ starts.validation \in Int
      /\ starts.test \in Int /\ starts.end \in Int
  <2>1. row.slot \in Nat
    BY DaySlotsAreNat DEF FlowRows
  <2>2. row.slot \in Int
    BY <2>1
  <2>3. BlockStarts \in [train : Int, validation : Int, test : Int, end : Int]
    BY DatasetAssumption
  <2> QED
    BY <2>2, <2>3
<1>2. /\ BlockSlots[1] = starts.train .. starts.validation - 1
      /\ BlockSlots[2] = starts.validation .. starts.test - 1
      /\ BlockSlots[3] = starts.test .. starts.end
  BY DEF BlockSlots
<1>3. /\ row.slot >= starts.train /\ row.slot <= starts.end
      /\ i = 1 => row.slot < starts.validation
      /\ i = 2 => row.slot >= starts.validation /\ row.slot < starts.test
      /\ i = 3 => row.slot >= starts.validation /\ row.slot >= starts.test
  <2>1. SplitRoles[i] # "unassigned"
    BY RolesAre
  <2>2. ~ (row.slot < starts.train) /\ ~ (row.slot > starts.end)
    BY <2>1 DEF BlockOf
  <2>3. /\ i = 1 => row.slot < starts.validation
        /\ i = 2 => ~ (row.slot < starts.validation) /\ row.slot < starts.test
        /\ i = 3 => ~ (row.slot < starts.validation) /\ ~ (row.slot < starts.test)
    BY <2>2, RolesAre DEF BlockOf
  <2> HIDE DEF starts
  <2> QED
    BY <1>1, <2>2, <2>3
<1> HIDE DEF starts
<1>4. CASE i = 1
  BY <1>1, <1>2, <1>3, <1>4
<1>5. CASE i = 2
  BY <1>1, <1>2, <1>3, <1>5
<1>6. CASE i = 3
  BY <1>1, <1>2, <1>3, <1>6
<1> QED
  BY <1>4, <1>5, <1>6

LEMMA CapturesAreRows == \A capture \in Captures : capture \in Seq(FlowRows)
BY DatasetAssumption DEF FlowRows

(* RowWindowsLookAhead, for every capture file and any boundaries: the     *)
(* rows of a training, validation or test window and its target are in the *)
(* time of that block, and the target is not earlier than the rows         *)
(* (preprocessing/split.py, build_temporal_windows.py).                    *)
THEOREM RowWindowsAhead == DatasetSpec => []RowWindowsLookAhead
<1>1. DatasetInv => RowWindowsLookAhead
  <2> SUFFICES ASSUME DatasetInv, windows # NoFile,
                      NEW i \in 1 .. 3, NEW window \in windows[i]
               PROVE  LET rows == Sorted(SingleDay)
                      IN  /\ rows[window.target].slot \in BlockSlots[i]
                          /\ \A j \in DOMAIN window.inputs :
                                 /\ rows[window.inputs[j]].slot \in BlockSlots[i]
                                 /\ rows[window.inputs[j]].slot
                                        <= rows[window.target].slot
    BY RolesAre DEF RowWindowsLookAhead
  <2> DEFINE rows == Sorted(SingleDay)
  <2>1. /\ flows \in Captures
        /\ windows[i] = RowWindows(rows, BlockStarts, SplitRoles[i], RowStride, 1)
    BY DEF DatasetInv
  <2>2. SingleDay \in Seq(FlowRows)
    BY <2>1, CapturesAreRows, RoleRowsFacts DEF SingleDay
  <2>3. /\ rows \in Seq(FlowRows)
        /\ \A p, q \in 1 .. Len(rows) : p < q => rows[p].slot <= rows[q].slot
    BY <2>2, SortedFacts
  <2> HIDE DEF rows
  <2>4. /\ DOMAIN window.inputs = 1 .. SequenceLength
        /\ window.target \in 1 .. Len(rows)
        /\ BlockOf(rows[window.target], BlockStarts) = SplitRoles[i]
        /\ \A j \in 1 .. SequenceLength :
               /\ window.inputs[j] \in 1 .. Len(rows)
               /\ window.inputs[j] < window.target
               /\ BlockOf(rows[window.inputs[j]], BlockStarts) = SplitRoles[i]
    BY <2>1, <2>3, RowWindowsFacts
  <2>5. \A p \in 1 .. Len(rows) : rows[p] \in FlowRows
    BY <2>3, LenProperties
  <2>6. /\ rows[window.target].slot \in BlockSlots[i]
        /\ \A j \in 1 .. SequenceLength :
               rows[window.inputs[j]].slot \in BlockSlots[i]
    BY <2>4, <2>5, InBlock
  <2> QED
    BY <2>3, <2>4, <2>6 DEF rows
<1> QED
  BY <1>1, DatasetStart, DatasetSteps, PTL DEF DatasetSpec

-----------------------------------------------------------------------------
(* Tables of states.  A row is what the valid flows make of its place; a   *)
(* table is the rows of a set of places, in order of day and slot.         *)
Place == CaptureDays \X DaySlots

Row(valid, place) ==
    [day |-> place[1], slot |-> place[2],
     attack |-> AttackState(valid, place[1], place[2]),
     future |-> IF place[2] + 1 \in StateIndex(valid, place[1])
                THEN AttackState(valid, place[1], place[2] + 1) ELSE -1]

Table(valid, places) ==
    LET order == Arranged(places, Chronological(places))
    IN  [i \in 1 .. Cardinality(places) |-> Row(valid, order[i])]

Before(p, q) == p[1] < q[1] \/ (p[1] = q[1] /\ p[2] < q[2])

LEMMA PlaceFacts ==
    ASSUME NEW p \in Place
    PROVE  p[1] \in CaptureDays /\ p[1] \in Nat /\ p[2] \in DaySlots
           /\ p[2] \in Nat /\ p = <<p[1], p[2]>>
<1>1. CaptureDays \subseteq Nat
  <2>1. IsFiniteSet(CaptureDays) /\ CaptureDays = 1 .. Cardinality(CaptureDays)
    BY WindowsAssumption
  <2>2. Cardinality(CaptureDays) \in Nat
    BY <2>1, FS_CardinalityType
  <2> QED
    BY <2>1, <2>2
<1>2. p[1] \in CaptureDays /\ p[2] \in DaySlots /\ p = <<p[1], p[2]>>
  BY DEF Place
<1> QED
  BY <1>1, <1>2, DaySlotsAreNat

LEMMA ChronologicalOrders ==
    ASSUME NEW Q \in SUBSET Place
    PROVE  /\ IsStrictOrder(Q, Chronological(Q))
           /\ \A p, q \in Q : <<p, q>> \in Chronological(Q) <=> Before(p, q)
<1>1. \A p, q \in Q : <<p, q>> \in Chronological(Q) <=> Before(p, q)
  BY DEF Chronological, Before
<1>2. \A p \in Q : p[1] \in Nat /\ p[2] \in Nat /\ p = <<p[1], p[2]>>
  BY PlaceFacts
<1>3. \A p \in Q : ~ Before(p, p)
  BY <1>2 DEF Before
<1>4. ASSUME NEW p \in Q, NEW q \in Q, NEW r \in Q, Before(p, q), Before(q, r)
      PROVE  Before(p, r)
  <2>1. /\ p[1] \in Nat /\ q[1] \in Nat /\ r[1] \in Nat
        /\ p[2] \in Nat /\ q[2] \in Nat /\ r[2] \in Nat
    BY <1>2
  <2> QED
    BY <1>4, <2>1 DEF Before
<1>5. ASSUME NEW p \in Q, NEW q \in Q
      PROVE  p = q \/ Before(p, q) \/ Before(q, p)
  <2>1. /\ p[1] \in Nat /\ q[1] \in Nat /\ p[2] \in Nat /\ q[2] \in Nat
        /\ p = <<p[1], p[2]>> /\ q = <<q[1], q[2]>>
    BY <1>2
  <2>2. CASE p[1] = q[1] /\ p[2] = q[2]
    BY <2>1, <2>2
  <2>3. CASE ~ (p[1] = q[1] /\ p[2] = q[2])
    BY <2>1, <2>3 DEF Before
  <2> QED
    BY <2>2, <2>3
<1>6. IsStrictOrder(Q, Chronological(Q))
  BY <1>1, <1>3, <1>4, <1>5 DEF IsStrictOrder
<1> QED
  BY <1>1, <1>6

LEMMA PlacesFinite == \A Q \in SUBSET Place : IsFiniteSet(Q)
<1>1. IsFiniteSet(CaptureDays)
  BY WindowsAssumption
<1>2. IsFiniteSet(DaySlots)
  <2>1. 0 \in Int /\ SlotsPerDay - 1 \in Int
    BY BufferAssumption
  <2> QED
    BY <2>1, FS_Interval DEF DaySlots
<1>3. IsFiniteSet(Place)
  BY <1>1, <1>2, FS_Product DEF Place
<1> QED
  BY <1>3, FS_Subset

(* A table lists its places, each once, in order.                          *)
LEMMA TableFacts ==
    ASSUME NEW valid, NEW Q \in SUBSET Place
    PROVE  /\ Cardinality(Q) \in Nat
           /\ Table(valid, Q) =
                  [i \in 1 .. Cardinality(Q) |->
                      Row(valid, Arranged(Q, Chronological(Q))[i])]
           /\ Arranged(Q, Chronological(Q)) \in [1 .. Cardinality(Q) -> Q]
           /\ \A i, j \in 1 .. Cardinality(Q) : i < j =>
                  Before(Arranged(Q, Chronological(Q))[i],
                         Arranged(Q, Chronological(Q))[j])
           /\ \A p \in Q : \E i \in 1 .. Cardinality(Q) :
                  Arranged(Q, Chronological(Q))[i] = p
<1> DEFINE a == Arranged(Q, Chronological(Q))
<1>1. IsFiniteSet(Q)
  BY PlacesFinite
<1>2. IsStrictOrder(Q, Chronological(Q))
  BY ChronologicalOrders
<1>3. /\ Cardinality(Q) \in Nat
      /\ a \in [1 .. Cardinality(Q) -> Q]
      /\ \A i, j \in 1 .. Cardinality(Q) : i < j =>
             <<a[i], a[j]>> \in Chronological(Q)
      /\ \A p \in Q : \E i \in 1 .. Cardinality(Q) : a[i] = p
  BY <1>1, <1>2, ArrangedFacts
<1>4. Table(valid, Q) = [i \in 1 .. Cardinality(Q) |-> Row(valid, a[i])]
  BY DEF Table
<1> HIDE DEF a
<1>5. ASSUME NEW i \in 1 .. Cardinality(Q), NEW j \in 1 .. Cardinality(Q), i < j
      PROVE  Before(a[i], a[j])
  <2>1. a[i] \in Q /\ a[j] \in Q /\ <<a[i], a[j]>> \in Chronological(Q)
    BY <1>3, <1>5
  <2> QED
    BY <2>1, ChronologicalOrders
<1> QED
  BY <1>3, <1>4, <1>5 DEF a

(* Whatever lists the places in order is the table.                        *)
LEMMA TableUnique ==
    ASSUME NEW valid, NEW Q \in SUBSET Place, NEW n \in Nat,
           NEW e \in [1 .. n -> Q],
           \A i, j \in 1 .. n : i < j => Before(e[i], e[j]),
           \A p \in Q : \E i \in 1 .. n : e[i] = p
    PROVE  Table(valid, Q) = [i \in 1 .. n |-> Row(valid, e[i])]
<1>1. IsStrictOrder(Q, Chronological(Q))
  BY ChronologicalOrders
<1>2. ASSUME NEW i \in 1 .. n, NEW j \in 1 .. n, i < j
      PROVE  <<e[i], e[j]>> \in Chronological(Q)
  <2>1. e[i] \in Q /\ e[j] \in Q /\ Before(e[i], e[j])
    BY <1>2
  <2> QED
    BY <2>1, ChronologicalOrders
<1>3. Cardinality(Q) = n /\ Arranged(Q, Chronological(Q)) = e
  BY <1>1, <1>2, ArrangedUnique, ZenonT(60)
<1> QED
  BY <1>3 DEF Table

(* The rows of a table at the places of a smaller set are its table.       *)
LEMMA TableSelect ==
    ASSUME NEW valid, NEW Q \in SUBSET Place, NEW Z \in SUBSET Q,
           NEW D, D = {i \in 1 .. Cardinality(Q) :
                           Arranged(Q, Chronological(Q))[i] \in Z}
    PROVE  RowsAt(Table(valid, Q), D) = Table(valid, Z)
<1> DEFINE a == Arranged(Q, Chronological(Q))
           n == Cardinality(Q)
           m == Cardinality(D)
<1>1. /\ n \in Nat /\ Table(valid, Q) = [i \in 1 .. n |-> Row(valid, a[i])]
      /\ a \in [1 .. n -> Q]
      /\ \A i, j \in 1 .. n : i < j => Before(a[i], a[j])
      /\ \A p \in Q : \E i \in 1 .. n : a[i] = p
  BY TableFacts
<1> HIDE DEF a, n
<1>2. D = {i \in 1 .. n : a[i] \in Z}
  BY DEF a, n
<1>3. IsFiniteSet(D) /\ D \in SUBSET Int /\ D \in SUBSET (1 .. n)
  <2>1. IsFiniteSet(1 .. n)
    BY <1>1, FS_Interval
  <2>2. D \in SUBSET (1 .. n)
    BY <1>2
  <2> QED
    BY <1>1, <2>1, <2>2, FS_Subset
<1>4. m \in Nat
  BY <1>3, FS_CardinalityType
<1>5. PICK at \in [1 .. m -> D] :
          /\ \A i, j \in 1 .. m : i < j => at[i] < at[j]
          /\ \A x \in D : \E i \in 1 .. m : at[i] = x
          /\ \A rows : RowsAt(rows, D) = [k \in 1 .. m |-> rows[at[k]]]
  BY <1>3, RowsAtFacts
<1> HIDE DEF m
<1> DEFINE e == [k \in 1 .. m |-> a[at[k]]]
<1>6. \A k \in 1 .. m : at[k] \in 1 .. n /\ a[at[k]] \in Z
  BY <1>2, <1>5
<1>7. e \in [1 .. m -> Z]
  BY <1>6
<1>8. ASSUME NEW i \in 1 .. m, NEW j \in 1 .. m, i < j
      PROVE  Before(e[i], e[j])
  BY <1>1, <1>5, <1>6, <1>8
<1>9. ASSUME NEW p \in Z
      PROVE  \E i \in 1 .. m : e[i] = p
  <2>1. PICK x \in 1 .. n : a[x] = p
    BY <1>1
  <2>2. PICK i \in 1 .. m : at[i] = x
    BY <1>2, <1>5, <2>1
  <2> QED
    BY <2>1, <2>2
<1>10. Z \in SUBSET Place
  OBVIOUS
<1>11. RowsAt(Table(valid, Q), D) = [k \in 1 .. m |-> Row(valid, e[k])]
  BY <1>1, <1>5, <1>6
<1> HIDE DEF e
<1>12. Table(valid, Z) = [k \in 1 .. m |-> Row(valid, e[k])]
  <2>1. /\ \A i, j \in 1 .. m : i < j => Before(e[i], e[j])
        /\ \A p \in Z : \E i \in 1 .. m : e[i] = p
    BY <1>8, <1>9
  <2> QED
    BY ONLY <1>4, <1>7, <1>10, <2>1, TableUnique
<1> QED
  BY <1>11, <1>12

(* The table of an interval of a day.                                      *)
DayRows(valid, day, a, n) == [k \in 1 .. n |-> Row(valid, <<day, a + k - 1>>)]

LEMMA DayTable ==
    ASSUME NEW valid, NEW day \in CaptureDays, NEW a \in Nat, NEW b \in Int,
           a .. b \subseteq DaySlots, a <= b + 1
    PROVE  Table(valid, {day} \X (a .. b)) = DayRows(valid, day, a, b - a + 1)
<1> DEFINE n == b - a + 1
           Q == {day} \X (a .. b)
           e == [k \in 1 .. n |-> <<day, a + k - 1>>]
<1>1. n \in Nat
  OBVIOUS
<1>2. Q \in SUBSET Place
  BY DEF Place
<1>3. \A k \in 1 .. n : a + k - 1 \in a .. b
  OBVIOUS
<1>4. e \in [1 .. n -> Q]
  BY <1>3
<1>5. \A i, j \in 1 .. n : i < j => Before(e[i], e[j])
  BY DEF Before
<1>6. ASSUME NEW p \in Q
      PROVE  \E i \in 1 .. n : e[i] = p
  <2>1. p[1] = day /\ p[2] \in a .. b /\ p = <<p[1], p[2]>>
    OBVIOUS
  <2>2. p[2] - a + 1 \in 1 .. n /\ a + (p[2] - a + 1) - 1 = p[2]
    BY <2>1
  <2>3. e[p[2] - a + 1] = p
    BY <2>1, <2>2
  <2> QED
    BY <2>2, <2>3
<1>7. \A k \in 1 .. n : e[k] = <<day, a + k - 1>>
  OBVIOUS
<1> HIDE DEF e, Q, n
<1>8. Table(valid, Q) = [k \in 1 .. n |-> Row(valid, e[k])]
  BY <1>1, <1>2, <1>4, <1>5, <1>6, TableUnique
<1> QED
  BY <1>7, <1>8 DEF DayRows, Q, n

-----------------------------------------------------------------------------
(* The states of a day are an interval, from its first slot with a valid   *)
(* flow to its last.                                                       *)
Busy(valid, day) == {flow.slot : flow \in {f \in valid : f.day = day}}

LEMMA StateIndexFacts ==
    ASSUME NEW valid \in SUBSET FlowRows, NEW day
    PROVE  \E a \in Nat, b \in Int :
               /\ StateIndex(valid, day) = a .. b /\ a <= b + 1
               /\ a .. b \subseteq DaySlots
               /\ Busy(valid, day) \subseteq a .. b
               /\ a <= b => a \in Busy(valid, day) /\ b \in Busy(valid, day)
<1> DEFINE busy == Busy(valid, day)
<1>1. StateIndex(valid, day) = UNION {first .. last : first \in busy, last \in busy}
  BY DEF StateIndex, Busy
<1>2. busy \subseteq DaySlots /\ busy \in SUBSET Nat
  BY DaySlotsAreNat DEF Busy, FlowRows
<1> HIDE DEF busy
<1>3. CASE busy = {}
  <2>1. StateIndex(valid, day) = 0 .. -1 /\ 0 .. -1 = {}
    BY <1>1, <1>3
  <2>2. 0 \in Nat /\ -1 \in Int /\ 0 <= -1 + 1 /\ ~ (0 <= -1)
    OBVIOUS
  <2> QED
    BY <1>3, <2>1, <2>2 DEF busy
<1>4. CASE busy # {}
  <2>1. PICK a \in busy : \A y \in busy : a <= y
    BY <1>2, <1>4, LeastElement
  <2> DEFINE flipped == {SlotsPerDay - 1 - x : x \in busy}
  <2>2. flipped \in SUBSET Nat /\ flipped # {}
    BY <1>2, <1>4, DaySlotsAreNat DEF DaySlots
  <2>3. PICK y \in flipped : \A z \in flipped : y <= z
    BY <2>2, LeastElement
  <2>4. PICK b \in busy : y = SlotsPerDay - 1 - b
    BY <2>3
  <2>5. \A x \in busy : x <= b
    <3> SUFFICES ASSUME NEW x \in busy
                 PROVE  x <= b
      OBVIOUS
    <3>1. SlotsPerDay - 1 - b <= SlotsPerDay - 1 - x
      BY <2>3, <2>4
    <3> QED
      BY <1>2, <3>1, DaySlotsAreNat
  <2> HIDE DEF flipped
  <2>6. /\ a \in Nat /\ b \in Nat /\ a <= b /\ a \in DaySlots /\ b \in DaySlots
        /\ \A x \in busy : x \in Nat /\ a <= x /\ x <= b
    BY <1>2, <2>1, <2>5
  <2>7. a .. b \subseteq DaySlots
    <3>1. 0 <= a /\ b <= SlotsPerDay - 1 /\ SlotsPerDay \in Nat
      BY <2>6, DaySlotsAreNat DEF DaySlots
    <3> QED
      BY <2>6, <3>1 DEF DaySlots
  <2>8. busy \subseteq a .. b
    BY <2>6
  <2>9. StateIndex(valid, day) = a .. b
    <3>1. ASSUME NEW first \in busy, NEW last \in busy
          PROVE  first .. last \subseteq a .. b
      BY <2>6
    <3> DEFINE parts == {first .. last : first \in busy, last \in busy}
    <3>2. ASSUME NEW part \in parts
          PROVE  part \subseteq a .. b
      <4>1. PICK first \in busy, last \in busy : part = first .. last
        BY <3>2
      <4>2. first .. last \subseteq a .. b
        BY <3>1
      <4> QED
        BY <4>1, <4>2
    <3>3. a .. b \in parts
      BY <2>1, <2>4
    <3> HIDE DEF parts
    <3>4. UNION parts = a .. b
      BY <3>2, <3>3
    <3> QED
      BY <1>1, <3>4 DEF parts
  <2>10. b \in Int /\ a <= b + 1
    BY <2>6
  <2> QED
    BY <2>1, <2>4, <2>6, <2>7, <2>8, <2>9, <2>10 DEF busy
<1> QED
  BY <1>3, <1>4

LEMMA PlacesFacts ==
    ASSUME NEW valid \in SUBSET FlowRows
    PROVE  /\ Places(valid) \in SUBSET Place
           /\ \A p \in Place :
                  p \in Places(valid) <=> p[2] \in StateIndex(valid, p[1])
           /\ \A day \in CaptureDays : \A slot \in StateIndex(valid, day) :
                  <<day, slot>> \in Places(valid)
<1>1. \A day \in CaptureDays : StateIndex(valid, day) \subseteq DaySlots
  BY StateIndexFacts
<1>2. Places(valid) \in SUBSET Place
  BY <1>1 DEF Places, Place
<1>3. ASSUME NEW p \in Place
      PROVE  p \in Places(valid) <=> p[2] \in StateIndex(valid, p[1])
  <2>1. p[1] \in CaptureDays /\ p = <<p[1], p[2]>>
    BY PlaceFacts
  <2>2. p[2] \in StateIndex(valid, p[1]) => p \in {p[1]} \X StateIndex(valid, p[1])
    BY <2>1
  <2>3. p \in Places(valid) =>
            \E day \in CaptureDays : p \in {day} \X StateIndex(valid, day)
    BY DEF Places
  <2> QED
    BY <2>1, <2>2, <2>3 DEF Places
<1>4. \A day \in CaptureDays : \A slot \in StateIndex(valid, day) :
          <<day, slot>> \in Places(valid)
  BY DEF Places
<1> QED
  BY <1>2, <1>3, <1>4

(* A label comes from the slot after, which is the next row or is none of  *)
(* the day.                                                                *)
LEMMA NextPlace ==
    ASSUME NEW valid \in SUBSET FlowRows, NEW n \in Nat,
           NEW a \in [1 .. n -> Places(valid)],
           \A i, j \in 1 .. n : i < j => Before(a[i], a[j]),
           \A p \in Places(valid) : \E i \in 1 .. n : a[i] = p,
           NEW i \in 1 .. n
    PROVE  IF i # n /\ a[i + 1][1] = a[i][1]
           THEN a[i][2] + 1 \in StateIndex(valid, a[i][1])
                /\ a[i + 1][2] = a[i][2] + 1
           ELSE a[i][2] + 1 \notin StateIndex(valid, a[i][1])
<1> DEFINE p == a[i]
           next == <<p[1], p[2] + 1>>
<1>1. /\ p \in Places(valid) /\ p \in Place
      /\ p[1] \in CaptureDays /\ p[1] \in Nat /\ p[2] \in Nat
      /\ p[2] \in StateIndex(valid, p[1])
  BY PlacesFacts, PlaceFacts
<1>2. \A j \in 1 .. n : /\ a[j] \in Places(valid) /\ a[j] \in Place
                        /\ a[j][1] \in Nat /\ a[j][2] \in Nat
                        /\ a[j] = <<a[j][1], a[j][2]>>
                        /\ a[j][2] \in StateIndex(valid, a[j][1])
  BY PlacesFacts, PlaceFacts
<1> HIDE DEF p
<1>3. PICK lo \in Nat, hi \in Int : StateIndex(valid, p[1]) = lo .. hi
  <2>1. \E lo \in Nat, hi \in Int :
            /\ StateIndex(valid, p[1]) = lo .. hi /\ lo <= hi + 1
            /\ lo .. hi \subseteq DaySlots
            /\ Busy(valid, p[1]) \subseteq lo .. hi
            /\ lo <= hi => lo \in Busy(valid, p[1]) /\ hi \in Busy(valid, p[1])
    BY StateIndexFacts
  <2> QED
    BY <2>1
<1>4. \A j \in 1 .. n : i < j => Before(p, a[j])
  BY DEF p
<1>5. ASSUME p[2] + 1 \in StateIndex(valid, p[1])
      PROVE  i # n /\ a[i + 1] = next
  <2>1. next \in Places(valid)
    BY <1>1, <1>5, PlacesFacts
  <2>2. PICK k \in 1 .. n : a[k] = next
    BY <2>1
  <2>3. Before(p, a[k])
    BY <1>1, <2>2 DEF Before
  <2>4. i < k
    <3>1. CASE k = i
      BY <1>1, <2>3, <3>1 DEF Before, p
    <3>2. CASE k < i
      <4>1. Before(a[k], p)
        BY <3>2 DEF p
      <4> QED
        BY <1>1, <1>2, <2>2, <2>3, <4>1 DEF Before
    <3> QED
      BY <3>1, <3>2
  <2>5. i + 1 \in 1 .. n /\ i # n
    BY <2>4
  <2>6. Before(p, a[i + 1])
    BY <1>4, <2>5
  <2>7. CASE i + 1 = k
    BY <2>2, <2>5, <2>7
  <2>8. CASE i + 1 < k
    <3>1. Before(a[i + 1], next)
      BY <2>2, <2>5, <2>8
    <3>2. a[i + 1][1] \in Nat /\ a[i + 1][2] \in Nat
      BY <1>2, <2>5
    <3>3. next[1] = p[1] /\ next[2] = p[2] + 1
      OBVIOUS
    <3> HIDE DEF next
    <3>4. ~ (Before(p, a[i + 1]) /\ Before(a[i + 1], next))
      BY <1>1, <3>2, <3>3, SMTT(30) DEF Before
    <3> QED
      BY <2>6, <3>1, <3>4
  <2> QED
    BY <2>4, <2>5, <2>7, <2>8
<1>6. ASSUME i # n, a[i + 1][1] = p[1]
      PROVE  p[2] + 1 \in StateIndex(valid, p[1])
  <2>1. i + 1 \in 1 .. n /\ i < i + 1
    BY <1>6
  <2>2. Before(p, a[i + 1])
    BY <1>4, <2>1
  <2>3. a[i + 1][2] \in StateIndex(valid, p[1]) /\ a[i + 1][2] \in Nat
        /\ a[i + 1][1] \in Nat
    BY <1>2, <1>6, <2>1
  <2>4. p[2] < a[i + 1][2]
    BY <1>1, <1>6, <2>2 DEF Before
  <2> QED
    BY <1>1, <1>3, <2>3, <2>4
<1>7. IF i # n /\ a[i + 1][1] = p[1]
      THEN p[2] + 1 \in StateIndex(valid, p[1]) /\ a[i + 1][2] = p[2] + 1
      ELSE p[2] + 1 \notin StateIndex(valid, p[1])
  <2>1. next[1] = p[1] /\ next[2] = p[2] + 1
    OBVIOUS
  <2> HIDE DEF next
  <2> QED
    BY <1>5, <1>6, <2>1
<1> QED
  BY <1>7 DEF p

LEMMA StateTableIs ==
    ASSUME NEW capture \in Seq(FlowRows)
    PROVE  /\ ValidFlows(capture) \in SUBSET FlowRows
           /\ StateTable(capture) =
                  Table(ValidFlows(capture), Places(ValidFlows(capture)))
<1> DEFINE valid == ValidFlows(capture)
           P == Places(valid)
           a == Arranged(P, Chronological(P))
           n == Cardinality(P)
           rows == [i \in 1 .. n |->
                       [day |-> a[i][1], slot |-> a[i][2],
                        attack |-> AttackState(valid, a[i][1], a[i][2])]]
<1>1. valid \in SUBSET FlowRows
  <2>1. \A i \in DOMAIN capture : capture[i] \in FlowRows
    BY LenProperties
  <2> QED
    BY <2>1 DEF ValidFlows, Elements
<1>2. StateTable(capture) =
          [i \in DOMAIN rows |->
              [day |-> rows[i].day, slot |-> rows[i].slot,
               attack |-> rows[i].attack, future |-> FutureState(rows, i)]]
  BY DEF StateTable
<1> HIDE DEF valid
<1>3. P \in SUBSET Place
  BY <1>1, PlacesFacts
<1> HIDE DEF P
<1>4. /\ n \in Nat /\ Table(valid, P) = [i \in 1 .. n |-> Row(valid, a[i])]
      /\ a \in [1 .. n -> P]
      /\ \A i, j \in 1 .. n : i < j => Before(a[i], a[j])
      /\ \A p \in P : \E i \in 1 .. n : a[i] = p
  BY <1>3, TableFacts
<1> HIDE DEF a, n
<1>5. /\ DOMAIN rows = 1 .. n /\ Len(rows) = n
      /\ \A i \in 1 .. n :
             rows[i] = [day |-> a[i][1], slot |-> a[i][2],
                        attack |-> AttackState(valid, a[i][1], a[i][2])]
  BY <1>4
<1> HIDE DEF rows
<1>6. ASSUME NEW i \in 1 .. n
      PROVE  FutureState(rows, i) =
                 IF a[i][2] + 1 \in StateIndex(valid, a[i][1])
                 THEN AttackState(valid, a[i][1], a[i][2] + 1) ELSE -1
  <2>1. IF i # n /\ a[i + 1][1] = a[i][1]
        THEN a[i][2] + 1 \in StateIndex(valid, a[i][1])
             /\ a[i + 1][2] = a[i][2] + 1
        ELSE a[i][2] + 1 \notin StateIndex(valid, a[i][1])
    BY <1>1, <1>4, NextPlace DEF P
  <2>2. i # n => i + 1 \in 1 .. n
    BY <1>4
  <2>3. /\ rows[i].day = a[i][1]
        /\ i # n => rows[i + 1].day = a[i + 1][1]
                    /\ rows[i + 1].attack =
                           AttackState(valid, a[i + 1][1], a[i + 1][2])
    BY <1>5, <2>2
  <2> QED
    BY <1>5, <2>1, <2>3 DEF FutureState
<1>7. \A i \in 1 .. n :
          [day |-> rows[i].day, slot |-> rows[i].slot, attack |-> rows[i].attack,
           future |-> FutureState(rows, i)] = Row(valid, a[i])
  BY <1>5, <1>6 DEF Row
<1>8. StateTable(capture) = Table(valid, P)
  BY <1>2, <1>4, <1>5, <1>7
<1> QED
  BY <1>1, <1>8 DEF valid, P

-----------------------------------------------------------------------------
(* The files of the roles, and what training leaves of them, are tables.   *)
RolePlaces(valid, role) == {p \in Places(valid) : DayRole[p[1]] = role}

LearnPlaces(valid, role) ==
    {p \in RolePlaces(valid, role) : p[2] + 1 \in StateIndex(valid, p[1])}

LEMMA TableColumns ==
    ASSUME NEW valid, NEW Q \in SUBSET Place
    PROVE  /\ DOMAIN Table(valid, Q) = 1 .. Cardinality(Q)
           /\ \A i \in 1 .. Cardinality(Q) :
                  LET p == Arranged(Q, Chronological(Q))[i]
                  IN  /\ p \in Q
                      /\ Table(valid, Q)[i].day = p[1]
                      /\ Table(valid, Q)[i].future =
                             IF p[2] + 1 \in StateIndex(valid, p[1])
                             THEN AttackState(valid, p[1], p[2] + 1) ELSE -1
<1> DEFINE a == Arranged(Q, Chronological(Q))
<1>1. /\ Cardinality(Q) \in Nat
      /\ Table(valid, Q) = [i \in 1 .. Cardinality(Q) |-> Row(valid, a[i])]
      /\ a \in [1 .. Cardinality(Q) -> Q]
  BY TableFacts
<1> HIDE DEF a
<1>2. \A i \in 1 .. Cardinality(Q) :
          /\ a[i] \in Q
          /\ Table(valid, Q)[i].day = a[i][1]
          /\ Table(valid, Q)[i].future =
                 IF a[i][2] + 1 \in StateIndex(valid, a[i][1])
                 THEN AttackState(valid, a[i][1], a[i][2] + 1) ELSE -1
  BY <1>1 DEF Row
<1>3. DOMAIN Table(valid, Q) = 1 .. Cardinality(Q)
  BY <1>1
<1> QED
  BY <1>2, <1>3 DEF a

LEMMA RoleTable ==
    ASSUME NEW valid \in SUBSET FlowRows, NEW role
    PROVE  RoleRows(Table(valid, Places(valid)), role) =
               Table(valid, RolePlaces(valid, role))
<1> DEFINE P == Places(valid)
           T == Table(valid, P)
           a == Arranged(P, Chronological(P))
           Z == RolePlaces(valid, role)
           D == {i \in DOMAIN T : DayRole[T[i].day] = role}
<1>1. P \in SUBSET Place /\ Z \in SUBSET P
  BY PlacesFacts DEF RolePlaces
<1>2. /\ DOMAIN T = 1 .. Cardinality(P)
      /\ \A i \in 1 .. Cardinality(P) : a[i] \in P /\ T[i].day = a[i][1]
  BY <1>1, TableColumns
<1> HIDE DEF T, a
<1>3. D = {i \in 1 .. Cardinality(P) : a[i] \in Z}
  BY <1>2 DEF RolePlaces
<1> HIDE DEF P, Z
<1>4. RowsAt(T, D) = Table(valid, Z)
  BY <1>1, <1>3, TableSelect DEF T, a
<1> QED
  BY <1>4 DEF RoleRows, T, P, Z

LEMMA AttackBit == \A valid, day, slot : AttackState(valid, day, slot) \in {0, 1}
BY DEF AttackState, Bit

LEMMA LearnTable ==
    ASSUME NEW valid \in SUBSET FlowRows, NEW role
    PROVE  TrainingRows(Table(valid, RolePlaces(valid, role))) =
               Table(valid, LearnPlaces(valid, role))
<1> DEFINE P == RolePlaces(valid, role)
           T == Table(valid, P)
           a == Arranged(P, Chronological(P))
           Z == LearnPlaces(valid, role)
           D == {i \in DOMAIN T : FutureAvailable(T[i])}
<1>1. P \in SUBSET Place /\ Z \in SUBSET P
  BY PlacesFacts DEF RolePlaces, LearnPlaces
<1>2. /\ DOMAIN T = 1 .. Cardinality(P)
      /\ \A i \in 1 .. Cardinality(P) :
             /\ a[i] \in P
             /\ T[i].future = IF a[i][2] + 1 \in StateIndex(valid, a[i][1])
                              THEN AttackState(valid, a[i][1], a[i][2] + 1)
                              ELSE -1
  BY <1>1, TableColumns
<1> HIDE DEF T, a
<1>3. \A i \in 1 .. Cardinality(P) : FutureAvailable(T[i]) <=> a[i] \in Z
  <2> SUFFICES ASSUME NEW i \in 1 .. Cardinality(P)
               PROVE  FutureAvailable(T[i]) <=> a[i] \in Z
    OBVIOUS
  <2>1. AttackState(valid, a[i][1], a[i][2] + 1) # -1
    BY AttackBit
  <2>2. a[i] \in Z <=> a[i][2] + 1 \in StateIndex(valid, a[i][1])
    BY <1>2 DEF LearnPlaces
  <2> QED
    BY <1>2, <2>1, <2>2 DEF FutureAvailable
<1>4. D = {i \in 1 .. Cardinality(P) : a[i] \in Z}
  BY <1>2, <1>3
<1> HIDE DEF P, Z
<1>5. RowsAt(T, D) = Table(valid, Z)
  BY <1>1, <1>4, TableSelect DEF T, a
<1> QED
  BY <1>5 DEF TrainingRows, T, P, Z

LEMMA GroupTable ==
    ASSUME NEW valid, NEW Q \in SUBSET Place, NEW day
    PROVE  Group(Table(valid, Q), day) = Table(valid, {p \in Q : p[1] = day})
<1> DEFINE T == Table(valid, Q)
           a == Arranged(Q, Chronological(Q))
           Z == {p \in Q : p[1] = day}
           D == {i \in DOMAIN T : T[i].day = day}
<1>1. Z \in SUBSET Q
  OBVIOUS
<1>2. /\ DOMAIN T = 1 .. Cardinality(Q)
      /\ \A i \in 1 .. Cardinality(Q) : a[i] \in Q /\ T[i].day = a[i][1]
  BY TableColumns
<1> HIDE DEF T, a
<1>3. D = {i \in 1 .. Cardinality(Q) : a[i] \in Z}
  BY <1>2
<1> HIDE DEF Z
<1>4. RowsAt(T, D) = Table(valid, Z)
  BY <1>1, <1>3, TableSelect DEF T, a
<1> QED
  BY <1>4 DEF Group, T, Z

(* The states of a day in the file of its role, and those of them that     *)
(* have a label.                                                           *)
LEMMA DayGroups ==
    ASSUME NEW valid \in SUBSET FlowRows, NEW day \in CaptureDays, NEW role,
           NEW a \in Nat, NEW b \in Int, a <= b + 1, a .. b \subseteq DaySlots,
           StateIndex(valid, day) = a .. b, DayRole[day] = role
    PROVE  /\ Group(Table(valid, RolePlaces(valid, role)), day) =
                  DayRows(valid, day, a, b - a + 1)
           /\ Group(Table(valid, LearnPlaces(valid, role)), day) =
                  DayRows(valid, day, a, IF a <= b THEN b - a ELSE 0)
<1>1. /\ Places(valid) \in SUBSET Place
      /\ \A p \in Place : p \in Places(valid) <=> p[2] \in StateIndex(valid, p[1])
      /\ \A slot \in StateIndex(valid, day) : <<day, slot>> \in Places(valid)
  BY PlacesFacts
<1>2. /\ RolePlaces(valid, role) \in SUBSET Place
      /\ LearnPlaces(valid, role) \in SUBSET Place
  BY <1>1 DEF RolePlaces, LearnPlaces
<1>3. \A p \in Place : p = <<p[1], p[2]>>
  BY PlaceFacts
<1>4. {p \in RolePlaces(valid, role) : p[1] = day} = {day} \X (a .. b)
  <2>1. ASSUME NEW p \in RolePlaces(valid, role), p[1] = day
        PROVE  p \in {day} \X (a .. b)
    <3>1. p \in Place /\ p[2] \in a .. b /\ p = <<p[1], p[2]>>
      BY <1>1, <1>2, <1>3, <2>1 DEF RolePlaces
    <3> QED
      BY <2>1, <3>1
  <2>2. ASSUME NEW slot \in a .. b
        PROVE  <<day, slot>> \in RolePlaces(valid, role)
    <3>1. <<day, slot>> \in Places(valid) /\ <<day, slot>>[1] = day
      BY <1>1
    <3> QED
      BY <3>1 DEF RolePlaces
  <2> QED
    BY <2>1, <2>2
<1> DEFINE c == IF a <= b THEN b - 1 ELSE b
<1>5. c \in Int /\ a .. c \subseteq a .. b /\ a <= c + 1
      /\ c - a + 1 = IF a <= b THEN b - a ELSE 0
  OBVIOUS
<1>6. \A slot \in a .. b : slot + 1 \in a .. b <=> slot \in a .. c
  OBVIOUS
<1> HIDE DEF c
<1>7. {p \in LearnPlaces(valid, role) : p[1] = day} = {day} \X (a .. c)
  <2>1. {p \in LearnPlaces(valid, role) : p[1] = day} =
            {p \in {day} \X (a .. b) : p[2] + 1 \in a .. b}
    <3>1. {p \in LearnPlaces(valid, role) : p[1] = day} =
              {p \in {p \in RolePlaces(valid, role) : p[1] = day} :
                  p[2] + 1 \in StateIndex(valid, day)}
      BY DEF LearnPlaces
    <3> QED
      BY <1>4, <3>1
  <2>2. \A p \in {day} \X (a .. b) : p[2] \in a .. b /\ p[1] = day
                                     /\ p = <<p[1], p[2]>>
    OBVIOUS
  <2>3. {p \in {day} \X (a .. b) : p[2] + 1 \in a .. b} = {day} \X (a .. c)
    BY <1>5, <1>6, <2>2
  <2> QED
    BY <2>1, <2>3
<1>8. Table(valid, {day} \X (a .. b)) = DayRows(valid, day, a, b - a + 1)
  BY DayTable
<1>9. Table(valid, {day} \X (a .. c)) =
          DayRows(valid, day, a, c - a + 1)
  <2>1. a .. c \subseteq DaySlots
    BY <1>5
  <2> QED
    BY <1>5, <2>1, DayTable
<1> QED
  BY <1>2, <1>4, <1>5, <1>7, <1>8, <1>9, GroupTable

LEMMA OtherGroups ==
    ASSUME NEW valid \in SUBSET FlowRows, NEW day \in CaptureDays, NEW role,
           DayRole[day] # role
    PROVE  /\ Len(Group(Table(valid, RolePlaces(valid, role)), day)) = 0
           /\ Len(Group(Table(valid, LearnPlaces(valid, role)), day)) = 0
<1>1. /\ RolePlaces(valid, role) \in SUBSET Place
      /\ LearnPlaces(valid, role) \in SUBSET Place
  BY PlacesFacts DEF RolePlaces, LearnPlaces
<1>2. /\ {p \in RolePlaces(valid, role) : p[1] = day} = {}
      /\ {p \in LearnPlaces(valid, role) : p[1] = day} = {}
  BY DEF RolePlaces, LearnPlaces
<1>3. Len(Table(valid, {})) = 0
  <2>1. Cardinality({}) = 0
    BY FS_EmptySet
  <2>2. Table(valid, {}) = [i \in 1 .. 0 |->
                               Row(valid, Arranged({}, Chronological({}))[i])]
    BY <2>1 DEF Table
  <2> QED
    BY <2>2
<1> QED
  BY <1>1, <1>2, <1>3, GroupTable

-----------------------------------------------------------------------------
(* Windows.  The window that ends in a slot, the ends there are between    *)
(* the first flow of a day and its last, and what the two builders make of *)
(* the rows of a day.                                                      *)
DayWindow(valid, day, end, K) ==
    [inputs |-> [j \in 1 .. SequenceLength |->
        [day |-> day, slot |-> end - SequenceLength + j,
         attack |-> AttackState(valid, day, end - SequenceLength + j),
         future |-> AttackState(valid, day, end - SequenceLength + j + 1)]],
     targets |-> [k \in 1 .. K |-> AttackState(valid, day, end + k)]]

DayEnds(valid, day, K) ==
    {end \in DaySlots : \E a, b \in Busy(valid, day) :
        a <= end - SequenceLength + 1 /\ end + K <= b}

DayWindows(valid, day, K) ==
    {DayWindow(valid, day, end, K) : end \in DayEnds(valid, day, K)}

DayBatch(group, K) ==
    {[inputs |-> SubSeq(group, s, s + SequenceLength - 1),
      targets |-> [k \in 1 .. K |-> group[s + SequenceLength - 1 + k].attack]] :
        s \in 1 .. Len(group) - SequenceLength - K + 1}

DaySequences(group) ==
    {[inputs |-> SubSeq(group, s, s + SequenceLength - 1),
      targets |-> <<group[s + SequenceLength - 1].future>>] :
        s \in {s \in 1 .. Len(group) - SequenceLength + 1 :
                  FutureAvailable(group[s + SequenceLength - 1])}}

(* The states of a day are those from a to b.                              *)
Spans(valid, day, a, b) ==
    /\ StateIndex(valid, day) = a .. b /\ a <= b + 1
    /\ a .. b \subseteq DaySlots
    /\ Busy(valid, day) \subseteq a .. b
    /\ a <= b => a \in Busy(valid, day) /\ b \in Busy(valid, day)

LEMMA DaySpans ==
    ASSUME NEW valid \in SUBSET FlowRows, NEW day
    PROVE  \E a \in Nat, b \in Int : Spans(valid, day, a, b)
BY StateIndexFacts DEF Spans

DayStates(valid, day) == {Row(valid, <<day, slot>>) : slot \in Int}

AreDayRows(rows, valid, day, a, n) ==
    /\ rows \in Seq(DayStates(valid, day))
    /\ Len(rows) = n
    /\ \A i \in 1 .. n : rows[i] = Row(valid, <<day, a + i - 1>>)

LEMMA DayRowsFacts ==
    ASSUME NEW valid, NEW day, NEW a \in Nat, NEW n \in Nat
    PROVE  AreDayRows(DayRows(valid, day, a, n), valid, day, a, n)
<1> DEFINE S == DayStates(valid, day)
           out == DayRows(valid, day, a, n)
<1>1. out = [k \in 1 .. n |-> Row(valid, <<day, a + k - 1>>)]
  BY DEF DayRows
<1>2. ASSUME NEW k \in 1 .. n
      PROVE  out[k] \in S
  <2>1. a + k - 1 \in Int /\ out[k] = Row(valid, <<day, a + k - 1>>)
    BY <1>1
  <2> QED
    BY <2>1 DEF DayStates
<1> HIDE DEF S, out
<1>3. out \in Seq(S)
  <2>1. out = [k \in 1 .. n |-> out[k]]
    BY <1>1
  <2>2. [k \in 1 .. n |-> out[k]] \in Seq(S)
    BY <1>2, IsASeq
  <2> QED
    BY <2>1, <2>2
<1>4. Len(out) = n
  <2>1. DOMAIN out = 1 .. Len(out) /\ Len(out) \in Nat
    BY <1>3, LenProperties
  <2> QED
    BY <1>1, <2>1
<1> QED
  BY <1>1, <1>3, <1>4 DEF S, out, AreDayRows

(* A window from row s to row m, of a day of n rows that starts in slot a,  *)
(* ends in a slot that has a successor.                                    *)
Fits(valid, day, a, b, n, s, m, end) ==
    /\ a \in Nat /\ b \in Int /\ n \in Nat /\ s \in Nat
    /\ Spans(valid, day, a, b)
    /\ a + n - 1 <= b /\ 1 <= s /\ m <= n /\ end < b
    /\ m = s + SequenceLength - 1 /\ end = a + s + SequenceLength - 2

(* The rows from the s-th on are the inputs of the window that ends        *)
(* SequenceLength - 1 slots later.                                         *)
LEMMA InputsAre ==
    ASSUME NEW valid, NEW day, NEW a, NEW b, NEW n, NEW s, NEW m, NEW end, NEW K,
           Fits(valid, day, a, b, n, s, m, end)
    PROVE  SubSeq(DayRows(valid, day, a, n), s, m) =
               DayWindow(valid, day, end, K).inputs
<1> USE DEF Fits
<1> DEFINE rows == DayRows(valid, day, a, n)
           S == DayStates(valid, day)
<1>1. SequenceLength \in Nat /\ SequenceLength >= 1
  BY BufferAssumption
<1>2. /\ rows \in Seq(S) /\ Len(rows) = n
      /\ \A i \in 1 .. n : rows[i] = Row(valid, <<day, a + i - 1>>)
  <2>1. AreDayRows(rows, valid, day, a, n)
    BY DayRowsFacts
  <2> HIDE DEF rows
  <2> QED
    BY <2>1 DEF AreDayRows
<1> HIDE DEF rows, S
<1>3. \A i \in s .. m : i \in 1 .. n /\ rows[i] \in S
  <2>1. \A i \in 1 .. n : rows[i] \in S
    BY <1>2, LenProperties
  <2>2. \A i \in s .. m : i \in 1 .. n
    BY <1>1
  <2> QED
    BY <2>1, <2>2
<1>4. SubSeq(rows, s, m) = [j \in 1 .. SequenceLength |-> rows[s + j - 1]]
  <2>1. m - s + 1 = SequenceLength /\ s <= m /\ m \in Int
    BY <1>1
  <2>2. \A i \in s .. m : rows[i] \in S
    BY <1>3
  <2>3. /\ SubSeq(rows, s, m) \in Seq(S)
        /\ Len(SubSeq(rows, s, m)) = m - s + 1
        /\ \A j \in 1 .. m - s + 1 : SubSeq(rows, s, m)[j] = rows[s + j - 1]
    BY <2>1, <2>2, SubSeqProperties
  <2>4. DOMAIN SubSeq(rows, s, m) = 1 .. SequenceLength
    BY <2>1, <2>3, LenProperties
  <2>5. SubSeq(rows, s, m) =
            [j \in DOMAIN SubSeq(rows, s, m) |-> SubSeq(rows, s, m)[j]]
    BY <2>3, LenProperties
  <2> QED
    BY <2>1, <2>3, <2>4, <2>5
<1>5. ASSUME NEW j \in 1 .. SequenceLength
      PROVE  rows[s + j - 1] =
                 [day |-> day, slot |-> end - SequenceLength + j,
                  attack |-> AttackState(valid, day, end - SequenceLength + j),
                  future |-> AttackState(valid, day,
                                         end - SequenceLength + j + 1)]
  <2> DEFINE slot == a + s + j - 2
  <2>1. /\ s + j - 1 \in 1 .. n /\ slot = a + (s + j - 1) - 1
        /\ slot = end - SequenceLength + j /\ slot + 1 \in a .. b
    BY <1>1
  <2>2. rows[s + j - 1] = Row(valid, <<day, slot>>)
    BY <1>2, <2>1
  <2>3. slot + 1 \in StateIndex(valid, day)
    BY <2>1 DEF Spans
  <2> HIDE DEF slot
  <2>4. rows[s + j - 1] = [day |-> day, slot |-> slot,
                           attack |-> AttackState(valid, day, slot),
                           future |-> AttackState(valid, day, slot + 1)]
    BY <2>2, <2>3 DEF Row
  <2> QED
    BY <2>1, <2>4
<1>6. DayWindow(valid, day, end, K).inputs =
          [j \in 1 .. SequenceLength |->
              [day |-> day, slot |-> end - SequenceLength + j,
               attack |-> AttackState(valid, day, end - SequenceLength + j),
               future |-> AttackState(valid, day, end - SequenceLength + j + 1)]]
  BY DEF DayWindow
<1> QED
  BY <1>4, <1>5, <1>6 DEF rows

LEMMA EndsAre ==
    ASSUME NEW valid, NEW day, NEW a \in Nat, NEW b \in Int,
           Spans(valid, day, a, b), NEW K \in Nat \ {0}, NEW end \in Int
    PROVE  end \in DayEnds(valid, day, K) <=>
               a + SequenceLength - 1 <= end /\ end + K <= b
<1>1. SequenceLength \in Nat /\ SequenceLength >= 1
  BY BufferAssumption
<1>2. ASSUME end \in DayEnds(valid, day, K)
      PROVE  a + SequenceLength - 1 <= end /\ end + K <= b
  <2>1. PICK x, y \in Busy(valid, day) :
            x <= end - SequenceLength + 1 /\ end + K <= y
    BY <1>2 DEF DayEnds
  <2>2. x \in a .. b /\ y \in a .. b
    BY DEF Spans
  <2> QED
    BY <1>1, <2>1, <2>2
<1>3. ASSUME a + SequenceLength - 1 <= end, end + K <= b
      PROVE  end \in DayEnds(valid, day, K)
  <2>1. end \in a .. b /\ a <= b /\ a <= end - SequenceLength + 1
    BY <1>1, <1>3
  <2>2. end \in DaySlots /\ a \in Busy(valid, day) /\ b \in Busy(valid, day)
    BY <2>1 DEF Spans
  <2> QED
    BY <1>3, <2>1, <2>2 DEF DayEnds
<1> QED
  BY <1>2, <1>3

(* Both builders, on the rows of one day: one window for each end.         *)
LEMMA DayBatchIs ==
    ASSUME NEW valid, NEW day, NEW a \in Nat, NEW b \in Int,
           Spans(valid, day, a, b), NEW K \in Nat \ {0}
    PROVE  DayBatch(DayRows(valid, day, a, b - a + 1), K) =
               DayWindows(valid, day, K)
<1> DEFINE n == b - a + 1
           group == DayRows(valid, day, a, n)
           EndOf(s) == s + SequenceLength - 1
           W(end) == DayWindow(valid, day, end, K)
<1>1. SequenceLength \in Nat /\ SequenceLength >= 1
  BY BufferAssumption
<1>2. n \in Nat
  BY DEF Spans
<1>3. Len(group) = n
      /\ \A i \in 1 .. n : group[i] = Row(valid, <<day, a + i - 1>>)
  <2> HIDE DEF n
  <2>1. AreDayRows(group, valid, day, a, n)
    BY <1>2, DayRowsFacts
  <2> HIDE DEF group
  <2> QED
    BY <2>1 DEF AreDayRows
<1>4. ASSUME NEW s \in 1 .. n - SequenceLength - K + 1
      PROVE  [inputs |-> SubSeq(group, s, EndOf(s)),
              targets |-> [k \in 1 .. K |-> group[EndOf(s) + k].attack]] =
                 W(a + s + SequenceLength - 2)
  <2>1. s \in Nat /\ 1 <= s /\ EndOf(s) <= n /\ a + n - 1 <= b
        /\ a + s + SequenceLength - 2 < b
    BY <1>1
  <2>2. SubSeq(group, s, EndOf(s)) = W(a + s + SequenceLength - 2).inputs
    <3> DEFINE last == EndOf(s)
               end == a + s + SequenceLength - 2
    <3>1. Fits(valid, day, a, b, n, s, last, end)
      BY <1>2, <2>1 DEF Fits
    <3> HIDE DEF last, end, n
    <3>2. SubSeq(DayRows(valid, day, a, n), s, last) =
              DayWindow(valid, day, end, K).inputs
      BY <3>1, InputsAre
    <3> QED
      BY <3>2 DEF last, end
  <2>3. ASSUME NEW k \in 1 .. K
        PROVE  group[EndOf(s) + k].attack =
                   AttackState(valid, day, a + s + SequenceLength - 2 + k)
    <3>1. EndOf(s) + k \in 1 .. n
          /\ a + (EndOf(s) + k) - 1 = a + s + SequenceLength - 2 + k
      BY <1>1
    <3> HIDE DEF EndOf, group, n
    <3>2. group[EndOf(s) + k] =
              Row(valid, <<day, a + s + SequenceLength - 2 + k>>)
      BY <1>3, <3>1
    <3> QED
      BY <3>2 DEF Row
  <2> HIDE DEF group, EndOf, n
  <2>4. [k \in 1 .. K |-> group[EndOf(s) + k].attack] =
            W(a + s + SequenceLength - 2).targets
    BY <2>3 DEF DayWindow
  <2>5. W(a + s + SequenceLength - 2) =
            [inputs |-> W(a + s + SequenceLength - 2).inputs,
             targets |-> W(a + s + SequenceLength - 2).targets]
    BY DEF DayWindow
  <2> HIDE DEF W
  <2> QED
    BY <2>2, <2>4, <2>5
<1>5. DayBatch(group, K) =
          {W(a + s + SequenceLength - 2) : s \in 1 .. n - SequenceLength - K + 1}
  <2>1. DayBatch(group, K) =
            {[inputs |-> SubSeq(group, s, EndOf(s)),
              targets |-> [k \in 1 .. K |-> group[EndOf(s) + k].attack]] :
                 s \in 1 .. n - SequenceLength - K + 1}
    <3> HIDE DEF group, n
    <3> QED
      BY <1>3 DEF DayBatch
  <2> HIDE DEF group, W, n, EndOf
  <2> QED
    BY <1>4, <2>1
<1>6. ASSUME NEW s \in 1 .. n - SequenceLength - K + 1
      PROVE  a + s + SequenceLength - 2 \in DayEnds(valid, day, K)
  <2>1. /\ a + SequenceLength - 1 <= a + s + SequenceLength - 2
        /\ a + s + SequenceLength - 2 + K <= b
        /\ a + s + SequenceLength - 2 \in Int
    BY <1>1
  <2> QED
    BY <2>1, EndsAre
<1>7. ASSUME NEW end \in DayEnds(valid, day, K)
      PROVE  \E s \in 1 .. n - SequenceLength - K + 1 :
                 end = a + s + SequenceLength - 2
  <2>1. end \in Int
    BY DaySlotsAreNat DEF DayEnds
  <2>2. a + SequenceLength - 1 <= end /\ end + K <= b
    BY <2>1, EndsAre
  <2>3. end - a - SequenceLength + 2 \in 1 .. n - SequenceLength - K + 1
        /\ end = a + (end - a - SequenceLength + 2) + SequenceLength - 2
    BY <1>1, <2>1, <2>2
  <2> QED
    BY <2>3
<1> HIDE DEF n, group, W
<1>8. DayBatch(group, K) = {W(end) : end \in DayEnds(valid, day, K)}
  BY <1>5, <1>6, <1>7
<1> QED
  BY <1>8 DEF n, group, W, DayWindows

LEMMA DaySequencesAre ==
    ASSUME NEW valid, NEW day, NEW a \in Nat, NEW b \in Int,
           Spans(valid, day, a, b)
    PROVE  DaySequences(DayRows(valid, day, a, IF a <= b THEN b - a ELSE 0)) =
               DayWindows(valid, day, 1)
<1> DEFINE n == IF a <= b THEN b - a ELSE 0
           group == DayRows(valid, day, a, n)
           EndOf(s) == s + SequenceLength - 1
           W(end) == DayWindow(valid, day, end, 1)
<1>1. SequenceLength \in Nat /\ SequenceLength > 1
  BY BufferAssumption
<1>2. n \in Nat
  BY DEF Spans
<1>3. Len(group) = n
      /\ \A i \in 1 .. n : group[i] = Row(valid, <<day, a + i - 1>>)
  <2> HIDE DEF n
  <2>1. AreDayRows(group, valid, day, a, n)
    BY <1>2, DayRowsFacts
  <2> HIDE DEF group
  <2> QED
    BY <2>1 DEF AreDayRows
<1>4. ASSUME NEW s \in 1 .. n - SequenceLength + 1
      PROVE  /\ group[EndOf(s)].future =
                    AttackState(valid, day, a + s + SequenceLength - 2 + 1)
             /\ FutureAvailable(group[EndOf(s)])
             /\ [inputs |-> SubSeq(group, s, EndOf(s)),
                 targets |-> <<group[EndOf(s)].future>>] =
                    W(a + s + SequenceLength - 2)
  <2>1. s \in Nat /\ 1 <= s /\ EndOf(s) <= n /\ a + n - 1 <= b
        /\ a + s + SequenceLength - 2 < b
    BY <1>1
  <2>2. SubSeq(group, s, EndOf(s)) = W(a + s + SequenceLength - 2).inputs
    <3> DEFINE last == EndOf(s)
               end == a + s + SequenceLength - 2
    <3>1. Fits(valid, day, a, b, n, s, last, end)
      BY <1>2, <2>1 DEF Fits
    <3> HIDE DEF last, end, n
    <3>2. SubSeq(DayRows(valid, day, a, n), s, last) =
              DayWindow(valid, day, end, 1).inputs
      BY <3>1, InputsAre
    <3> QED
      BY <3>2 DEF last, end
  <2>3. group[EndOf(s)].future =
            AttackState(valid, day, a + s + SequenceLength - 2 + 1)
    <3>1. /\ EndOf(s) \in 1 .. n
          /\ a + EndOf(s) - 1 = a + s + SequenceLength - 2
          /\ a + s + SequenceLength - 2 + 1 \in a .. b
      BY <1>1, <2>1
    <3> HIDE DEF EndOf, group, n
    <3>2. group[EndOf(s)] = Row(valid, <<day, a + s + SequenceLength - 2>>)
      BY <1>3, <3>1
    <3>3. a + s + SequenceLength - 2 + 1 \in StateIndex(valid, day)
      BY <3>1 DEF Spans
    <3> QED
      BY <3>2, <3>3 DEF Row
  <2>4. AttackState(valid, day, a + s + SequenceLength - 2 + 1) # -1
    BY AttackBit
  <2> HIDE DEF group, EndOf, n
  <2>5. <<group[EndOf(s)].future>> = W(a + s + SequenceLength - 2).targets
    <3>1. <<group[EndOf(s)].future>> = [k \in 1 .. 1 |-> group[EndOf(s)].future]
      OBVIOUS
    <3>2. \A k \in 1 .. 1 : a + s + SequenceLength - 2 + k =
                                a + s + SequenceLength - 2 + 1
      OBVIOUS
    <3>3. [k \in 1 .. 1 |-> group[EndOf(s)].future] =
              [k \in 1 .. 1 |->
                  AttackState(valid, day, a + s + SequenceLength - 2 + k)]
      BY <2>3, <3>2
    <3> QED
      BY <3>1, <3>3 DEF DayWindow
  <2>6. W(a + s + SequenceLength - 2) =
            [inputs |-> W(a + s + SequenceLength - 2).inputs,
             targets |-> W(a + s + SequenceLength - 2).targets]
    BY DEF DayWindow
  <2>7. FutureAvailable(group[EndOf(s)])
    BY <2>3, <2>4 DEF FutureAvailable
  <2> HIDE DEF W
  <2> QED
    BY <2>2, <2>3, <2>5, <2>6, <2>7
<1>5. DaySequences(group) =
          {W(a + s + SequenceLength - 2) : s \in 1 .. n - SequenceLength + 1}
  <2>1. DaySequences(group) =
            {[inputs |-> SubSeq(group, s, EndOf(s)),
              targets |-> <<group[EndOf(s)].future>>] :
                 s \in {s \in 1 .. n - SequenceLength + 1 :
                           FutureAvailable(group[EndOf(s)])}}
    <3> HIDE DEF group, n
    <3> QED
      BY <1>3 DEF DaySequences
  <2> HIDE DEF group, W, n, EndOf
  <2>2. {s \in 1 .. n - SequenceLength + 1 : FutureAvailable(group[EndOf(s)])} =
            1 .. n - SequenceLength + 1
    BY <1>4
  <2> QED
    BY <1>4, <2>1, <2>2
<1>6. ASSUME NEW s \in 1 .. n - SequenceLength + 1
      PROVE  a + s + SequenceLength - 2 \in DayEnds(valid, day, 1)
  <2>1. /\ a + SequenceLength - 1 <= a + s + SequenceLength - 2
        /\ a + s + SequenceLength - 2 + 1 <= b
        /\ a + s + SequenceLength - 2 \in Int
    BY <1>1
  <2> QED
    BY <2>1, EndsAre
<1>7. ASSUME NEW end \in DayEnds(valid, day, 1)
      PROVE  \E s \in 1 .. n - SequenceLength + 1 :
                 end = a + s + SequenceLength - 2
  <2>1. end \in Int
    BY DaySlotsAreNat DEF DayEnds
  <2>2. a + SequenceLength - 1 <= end /\ end + 1 <= b
    BY <2>1, EndsAre
  <2>3. end - a - SequenceLength + 2 \in 1 .. n - SequenceLength + 1
        /\ end = a + (end - a - SequenceLength + 2) + SequenceLength - 2
    BY <1>1, <2>1, <2>2
  <2> QED
    BY <2>3
<1> HIDE DEF n, group, W
<1>8. DaySequences(group) = {W(end) : end \in DayEnds(valid, day, 1)}
  BY <1>5, <1>6, <1>7
<1> QED
  BY <1>8 DEF n, group, W, DayWindows

-----------------------------------------------------------------------------
(* The windows of a role, and the two ways to build them.                  *)
RoleWindows(valid, role, K) ==
    UNION {DayWindows(valid, day, K) :
           day \in {d \in CaptureDays : DayRole[d] = role}}

LEMMA BatchesOfRole ==
    ASSUME NEW valid \in SUBSET FlowRows, NEW role, NEW K \in Nat \ {0}
    PROVE  BuildMultistep(Table(valid, RolePlaces(valid, role)), K) =
               RoleWindows(valid, role, K)
<1> DEFINE T == Table(valid, RolePlaces(valid, role))
           Part(day) == DayBatch(Group(T, day), K)
<1>1. BuildMultistep(T, K) = UNION {Part(day) : day \in CaptureDays}
  BY DEF BuildMultistep, DayBatch
<1>2. ASSUME NEW day \in CaptureDays, DayRole[day] = role
      PROVE  Part(day) = DayWindows(valid, day, K)
  <2>1. PICK a \in Nat, b \in Int : Spans(valid, day, a, b)
    BY DaySpans
  <2>2. Group(T, day) = DayRows(valid, day, a, b - a + 1)
    BY <1>2, <2>1, DayGroups DEF Spans
  <2>3. DayBatch(DayRows(valid, day, a, b - a + 1), K) = DayWindows(valid, day, K)
    BY <2>1, DayBatchIs
  <2> QED
    BY <2>2, <2>3
<1>3. ASSUME NEW day \in CaptureDays, DayRole[day] # role
      PROVE  Part(day) = {}
  <2>1. Len(Group(T, day)) = 0
    BY <1>3, OtherGroups
  <2>2. 1 .. 0 - SequenceLength - K + 1 = {}
    BY BufferAssumption
  <2> HIDE DEF T
  <2> QED
    BY <2>1, <2>2 DEF DayBatch
<1> HIDE DEF Part, T
<1>4. UNION {Part(day) : day \in CaptureDays} = RoleWindows(valid, role, K)
  BY <1>2, <1>3 DEF RoleWindows
<1> QED
  BY <1>1, <1>4 DEF T

LEMMA SequencesOfRole ==
    ASSUME NEW valid \in SUBSET FlowRows, NEW role
    PROVE  BuildSequences(Table(valid, LearnPlaces(valid, role))) =
               RoleWindows(valid, role, 1)
<1> DEFINE T == Table(valid, LearnPlaces(valid, role))
           Part(day) == DaySequences(Group(T, day))
<1>1. BuildSequences(T) = UNION {Part(day) : day \in CaptureDays}
  BY DEF BuildSequences, DaySequences
<1>2. ASSUME NEW day \in CaptureDays, DayRole[day] = role
      PROVE  Part(day) = DayWindows(valid, day, 1)
  <2>1. PICK a \in Nat, b \in Int : Spans(valid, day, a, b)
    BY DaySpans
  <2>2. Group(T, day) = DayRows(valid, day, a, IF a <= b THEN b - a ELSE 0)
    BY <1>2, <2>1, DayGroups DEF Spans
  <2>3. DaySequences(DayRows(valid, day, a, IF a <= b THEN b - a ELSE 0)) =
            DayWindows(valid, day, 1)
    BY <2>1, DaySequencesAre
  <2> QED
    BY <2>2, <2>3
<1>3. ASSUME NEW day \in CaptureDays, DayRole[day] # role
      PROVE  Part(day) = {}
  <2>1. Len(Group(T, day)) = 0
    BY <1>3, OtherGroups
  <2>2. 1 .. 0 - SequenceLength + 1 = {}
    BY BufferAssumption
  <2> HIDE DEF T
  <2> QED
    BY <2>1, <2>2 DEF DaySequences
<1> HIDE DEF Part, T
<1>4. UNION {Part(day) : day \in CaptureDays} = RoleWindows(valid, role, 1)
  BY <1>2, <1>3 DEF RoleWindows
<1> QED
  BY <1>1, <1>4 DEF T

(* What the loaders hold, said of the flows.                               *)
LEMMA LoadedWindows ==
    ASSUME DatasetInv
    PROVE  /\ batches # NoFile =>
                  \A K \in Horizons, i \in 1 .. 3 :
                      batches[K][i] =
                          RoleWindows(ValidFlows(flows), SplitRoles[i], K)
           /\ sequences # NoFile =>
                  \A i \in 1 .. 3 :
                      sequences[i] =
                          RoleWindows(ValidFlows(flows), SplitRoles[i], 1)
           /\ batches # NoFile \/ sequences # NoFile =>
                  ValidFlows(flows) \in SUBSET FlowRows
<1> DEFINE valid == ValidFlows(flows)
<1>1. ASSUME states # NoFile
      PROVE  /\ valid \in SUBSET FlowRows
             /\ states = Table(valid, Places(valid))
  <2>1. flows \in Captures /\ states = StateTable(flows)
    BY <1>1 DEF DatasetInv
  <2>2. flows \in Seq(FlowRows)
    BY <2>1, CapturesAreRows
  <2> QED
    BY <2>1, <2>2, StateTableIs
<1>2. batches # NoFile \/ sequences # NoFile => states # NoFile
  BY DEF DatasetInv
<1>3. /\ batches # NoFile =>
             batches = [K \in Horizons |-> [i \in 1 .. 3 |->
                           BuildMultistep(RoleRows(states, SplitRoles[i]), K)]]
      /\ sequences # NoFile =>
             sequences = [i \in 1 .. 3 |->
                  BuildSequences(TrainingRows(RoleRows(states, SplitRoles[i])))]
  BY DEF DatasetInv
<1> HIDE DEF valid
<1>4. ASSUME batches # NoFile, NEW K \in Horizons, NEW i \in 1 .. 3
      PROVE  batches[K][i] = RoleWindows(valid, SplitRoles[i], K)
  <2>1. batches[K][i] = BuildMultistep(RoleRows(states, SplitRoles[i]), K)
    BY <1>3, <1>4
  <2>2. /\ valid \in SUBSET FlowRows
        /\ states = Table(valid, Places(valid))
    BY <1>1, <1>2, <1>4
  <2>3. RoleRows(states, SplitRoles[i]) =
            Table(valid, RolePlaces(valid, SplitRoles[i]))
    BY <2>2, RoleTable
  <2>4. K \in Nat \ {0}
    BY DatasetAssumption
  <2> QED
    BY <2>1, <2>2, <2>3, <2>4, BatchesOfRole
<1>5. ASSUME sequences # NoFile, NEW i \in 1 .. 3
      PROVE  sequences[i] = RoleWindows(valid, SplitRoles[i], 1)
  <2>1. sequences[i] =
            BuildSequences(TrainingRows(RoleRows(states, SplitRoles[i])))
    BY <1>3, <1>5
  <2>2. /\ valid \in SUBSET FlowRows
        /\ states = Table(valid, Places(valid))
    BY <1>1, <1>2, <1>5
  <2>3. RoleRows(states, SplitRoles[i]) =
            Table(valid, RolePlaces(valid, SplitRoles[i]))
    BY <2>2, RoleTable
  <2>4. TrainingRows(RoleRows(states, SplitRoles[i])) =
            Table(valid, LearnPlaces(valid, SplitRoles[i]))
    BY <2>2, <2>3, LearnTable
  <2> QED
    BY <2>1, <2>2, <2>4, SequencesOfRole
<1> QED
  BY <1>1, <1>2, <1>4, <1>5 DEF valid

(* The valid flows are those the invariant speaks of.                      *)
LEMMA ObservedFlows ==
    ASSUME NEW day
    PROVE  /\ Busy(ValidFlows(flows), day) = Observed(day)
           /\ \A slot : AttackState(ValidFlows(flows), day, slot) =
                            Bit(UnderAttack(day, slot))
<1>1. ValidFlows(flows) = {f \in Elements(flows) : f.date = f.day}
  BY DEF ValidFlows, Flagged
<1>2. {f \in ValidFlows(flows) : f.day = day} =
          {f \in Elements(flows) : f.date = f.day /\ f.day = day}
  BY <1>1
<1>3. ASSUME NEW slot
      PROVE  AttackState(ValidFlows(flows), day, slot) = Bit(UnderAttack(day, slot))
  BY <1>1 DEF AttackState, UnderAttack, Bit
<1> QED
  BY <1>2, <1>3 DEF Busy, Observed

(* OneStepAgrees, for every capture: the labels shifted back, with the     *)
(* last row of each day dropped (train_world_model), and the labels read   *)
(* one row ahead (train_multistep) give the same windows.                  *)
THEOREM OneStepAgreesAlways == DatasetSpec => []OneStepAgrees
<1>1. DatasetInv => OneStepAgrees
  BY LoadedWindows, RolesAre, DatasetAssumption DEF OneStepAgrees
<1> QED
  BY <1>1, DatasetStart, DatasetSteps, PTL DEF DatasetSpec

(* WindowsTellTheFuture, for every capture, every assignment of days to    *)
(* roles and every horizon: the windows train_multistep learns from are    *)
(* exactly the runs of consecutive slots of a day of the role whose next K *)
(* slots lie before the last flow, with the labels of those slots.         *)
THEOREM WindowsTellTheFutureAlways == DatasetSpec => []WindowsTellTheFuture
<1>1. DatasetInv => WindowsTellTheFuture
  <2> SUFFICES ASSUME DatasetInv, batches # NoFile,
                      NEW K \in Horizons, NEW i \in 1 .. 3
               PROVE
            LET ends == {end \in CaptureDays \X DaySlots :
                    /\ DayRole[end[1]] = SplitRoles[i]
                    /\ \E a, b \in Observed(end[1]) :
                          a <= end[2] - SequenceLength + 1 /\ end[2] + K <= b}
            IN  batches[K][i] =
                    {[inputs |-> [j \in 1 .. SequenceLength |->
                        LET slot == end[2] - SequenceLength + j
                        IN  [day |-> end[1], slot |-> slot,
                             attack |-> Bit(UnderAttack(end[1], slot)),
                             future |-> Bit(UnderAttack(end[1], slot + 1))]],
                      targets |-> [k \in 1 .. K |->
                        Bit(UnderAttack(end[1], end[2] + k))]] : end \in ends}
    BY RolesAre DEF WindowsTellTheFuture
  <2> DEFINE valid == ValidFlows(flows)
             role == SplitRoles[i]
             ends == {end \in CaptureDays \X DaySlots :
                    /\ DayRole[end[1]] = role
                    /\ \E a, b \in Observed(end[1]) :
                          a <= end[2] - SequenceLength + 1 /\ end[2] + K <= b}
             Told(end) ==
                [inputs |-> [j \in 1 .. SequenceLength |->
                    LET slot == end[2] - SequenceLength + j
                    IN  [day |-> end[1], slot |-> slot,
                         attack |-> Bit(UnderAttack(end[1], slot)),
                         future |-> Bit(UnderAttack(end[1], slot + 1))]],
                 targets |-> [k \in 1 .. K |->
                    Bit(UnderAttack(end[1], end[2] + k))]]
  <2>1. batches[K][i] = RoleWindows(valid, role, K)
    BY LoadedWindows
  <2>2. ASSUME NEW end
        PROVE  Told(end) = DayWindow(valid, end[1], end[2], K)
    BY ObservedFlows DEF DayWindow
  <2>3. ASSUME NEW end \in CaptureDays \X DaySlots
        PROVE  end \in ends <=>
                   DayRole[end[1]] = role /\ end[2] \in DayEnds(valid, end[1], K)
    BY ObservedFlows DEF DayEnds
  <2> HIDE DEF valid, role, Told, ends
  <2>4. ASSUME NEW window \in RoleWindows(valid, role, K)
        PROVE  \E end \in ends : window = Told(end)
    <3>1. PICK day \in CaptureDays : DayRole[day] = role
                                     /\ window \in DayWindows(valid, day, K)
      BY <2>4 DEF RoleWindows
    <3>2. PICK slot \in DayEnds(valid, day, K) :
              window = DayWindow(valid, day, slot, K)
      BY <3>1 DEF DayWindows
    <3>3. slot \in DaySlots
      BY <3>2 DEF DayEnds
    <3>4. <<day, slot>> \in CaptureDays \X DaySlots
          /\ <<day, slot>>[1] = day /\ <<day, slot>>[2] = slot
      BY <3>3
    <3> QED
      BY <2>2, <2>3, <3>1, <3>2, <3>4
  <2>5. ASSUME NEW end \in ends
        PROVE  Told(end) \in RoleWindows(valid, role, K)
    <3>1. end \in CaptureDays \X DaySlots
      BY DEF ends
    <3>2. /\ end[1] \in CaptureDays /\ DayRole[end[1]] = role
          /\ end[2] \in DayEnds(valid, end[1], K)
      BY <2>3, <3>1
    <3>3. Told(end) \in DayWindows(valid, end[1], K)
      BY <2>2, <3>2 DEF DayWindows
    <3> QED
      BY <3>2, <3>3 DEF RoleWindows
  <2>6. batches[K][i] = {Told(end) : end \in ends}
    BY <2>1, <2>4, <2>5
  <2> QED
    BY <2>6 DEF Told, ends, role
<1> QED
  BY <1>1, DatasetStart, DatasetSteps, PTL DEF DatasetSpec
================================================================================
