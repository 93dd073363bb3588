-------------------------- MODULE SensorAccessProofs --------------------------
(***************************************************************************)
(* Proofs about SensorAccess, for any limits, any number of sensors and    *)
(* any failures: credentials are good once, and bad for good; and the      *)
(* request window lets no more through than it should.                     *)
(*                                                                         *)
(* What is said of credentials is said of both copies of the registry, the *)
(* one in memory and the one in the file.  A step changes the one in       *)
(* memory; then it writes the file, so that the two are equal, or it fails *)
(* to, and then nobody is told.  A restart makes memory the file's copy.   *)
(***************************************************************************)
EXTENDS SensorAccess, FiniteSetTheorems, TLAPS

Memory == [enrollments |-> enrollments, sensors |-> sensors]

DataInv(data) ==
    IsData(data) /\ OneSensorEach(data) /\ KeepsDisabled(data) /\ KeepsUp(data)

(* The requests still in the window are the last ones served; all before   *)
(* them have left the window.                                              *)
WindowInv(s) ==
    /\ History(s) \in Seq(Nat) /\ ServedSince(s) \in Seq(Nat)
    /\ Len(History(s)) <= RateLimit
    /\ Len(History(s)) <= Len(ServedSince(s))
    /\ \A i \in 1 .. Len(History(s)) :
          History(s)[i] =
              ServedSince(s)[Len(ServedSince(s)) - Len(History(s)) + i]
    /\ \A i \in 1 .. Len(ServedSince(s)) - Len(History(s)) :
          ServedSince(s)[i] < now - Minute
    /\ \A i \in 1 .. Len(ServedSince(s)) - RateLimit :
          ServedSince(s)[i + RateLimit] - ServedSince(s)[i] > Minute

AccessInv ==
    /\ AccessTypeOK
    /\ DataInv(Memory) /\ DataInv(registryFile)
    /\ \A s \in SensorIds : WindowInv(s)

LEMMA InvImplies ==
    ASSUME AccessInv
    PROVE  AccessTypeOK /\ RedeemedOnce /\ RevokedForGood /\ OnlyNewestToken
           /\ RateBounded
<1>1. \A data \in Copies : DataInv(data)
  BY DEF AccessInv, Copies, Memory
<1>2. RateBounded
  <2> SUFFICES ASSUME NEW s \in DOMAIN served,
                      NEW i \in 1 .. Len(served[s]) - RateLimit
               PROVE  served[s][i + RateLimit] - served[s][i] > Minute
    BY DEF RateBounded
  <2>1. s \in SensorIds /\ ServedSince(s) = served[s]
    BY DEF AccessInv, AccessTypeOK, RequestsTypeOK, ServedSince
  <2>2. WindowInv(s)
    BY <2>1 DEF AccessInv
  <2> QED
    BY <2>1, <2>2 DEF WindowInv
<1> QED
  BY <1>1, <1>2
     DEF AccessInv, DataInv, RedeemedOnce, RevokedForGood, OnlyNewestToken

(***************************************************************************)
(* The request window.                                                     *)
(***************************************************************************)

(* What _check_rate takes away is a stretch at the head.                   *)
LEMMA ExpiredIsPrefix ==
    ASSUME NEW s, History(s) \in Seq(Nat)
    PROVE  /\ Cardinality(Expired(s)) \in 0 .. Len(History(s))
           /\ \A i \in 1 .. Cardinality(Expired(s)) : i \in Expired(s)
<1> DEFINE n == Len(History(s))
           E == Expired(s)
<1>0. n \in Nat
  OBVIOUS
<1>1. /\ E \subseteq 1 .. n
      /\ \A i \in E : \A j \in 1 .. i : j \in E
  BY <1>0 DEF Expired
<1> HIDE DEF n, E
<1>2. IsFiniteSet(1 .. n) /\ Cardinality(1 .. n) = n
  BY <1>0, FS_Interval
<1>3. IsFiniteSet(E) /\ Cardinality(E) <= n /\ Cardinality(E) \in Nat
  <2>1. IsFiniteSet(E) /\ Cardinality(E) <= Cardinality(1 .. n)
    BY <1>1, <1>2, FS_Subset
  <2> QED
    BY <1>2, <2>1, FS_CardinalityType
<1>4. ASSUME NEW i \in 1 .. Cardinality(E), i \notin E
      PROVE  FALSE
  <2>1. E \subseteq 1 .. i - 1
    <3> SUFFICES ASSUME NEW j \in E, j >= i
                 PROVE  FALSE
      BY <1>0, <1>1, <1>3
    <3>1. i \in 1 .. j
      BY <1>0, <1>1, <1>3
    <3> QED
      BY <1>1, <1>4, <3>1
  <2>2. i \in Nat /\ i - 1 \in Nat
    BY <1>3
  <2>3. IsFiniteSet(1 .. i - 1) /\ Cardinality(1 .. i - 1) = i - 1
    BY <2>2, FS_Interval
  <2>4. Cardinality(E) <= i - 1
    BY <2>1, <2>3, FS_Subset
  <2> QED
    BY <1>3, <2>2, <2>4
<1> QED
  BY <1>3, <1>4 DEF E, n

LEMMA RecentInWindow ==
    ASSUME NEW s, WindowInv(s), now \in Nat, RateLimit \in Nat, Minute \in Nat
    PROVE  /\ Recent(s) \in Seq(Nat)
           /\ Len(Recent(s)) <= Len(History(s))
           /\ \A i \in 1 .. Len(Recent(s)) :
                 Recent(s)[i] =
                     ServedSince(s)[Len(ServedSince(s)) - Len(Recent(s)) + i]
           /\ \A i \in 1 .. Len(ServedSince(s)) - Len(Recent(s)) :
                 ServedSince(s)[i] < now - Minute
<1> DEFINE h == History(s)
           v == ServedSince(s)
           k == Cardinality(Expired(s))
           n == Len(h)
           m == Len(v)
<1>1. h \in Seq(Nat) /\ v \in Seq(Nat) /\ n \in Nat /\ m \in Nat /\ n <= m
  BY DEF WindowInv
<1>2. k \in 0 .. n /\ \A i \in 1 .. k : i \in Expired(s)
  BY <1>1, ExpiredIsPrefix
<1>3. \A i \in 1 .. n : h[i] = v[m - n + i]
  BY DEF WindowInv
<1>4. \A i \in 1 .. m - n : v[i] < now - Minute
  BY DEF WindowInv
<1>5. \A i \in 1 .. k : i \in 1 .. n /\ ~(h[i] >= now - Minute)
  <2> SUFFICES ASSUME NEW i \in 1 .. k
               PROVE  i \in 1 .. n /\ ~(h[i] >= now - Minute)
    OBVIOUS
  <2>1. i \in Expired(s) /\ i \in 1 .. i
    BY <1>2
  <2> QED
    BY <2>1 DEF Expired, InWindow
<1>6. Recent(s) = SubSeq(h, k + 1, n)
  BY DEF Recent
<1> HIDE DEF h, v, k, n, m
<1>7. /\ Recent(s) \in Seq(Nat) /\ Len(Recent(s)) = n - k
      /\ \A i \in 1 .. n - k : Recent(s)[i] = h[k + i]
  <2>1. n = Len(h)
    BY DEF n
  <2> QED
    BY <1>1, <1>2, <1>6, <2>1
<1>8. \A i \in 1 .. n - k : Recent(s)[i] = v[m - (n - k) + i]
  <2> SUFFICES ASSUME NEW i \in 1 .. n - k
               PROVE  Recent(s)[i] = v[m - (n - k) + i]
    OBVIOUS
  <2>1. k + i \in 1 .. n /\ m - n + (k + i) = m - (n - k) + i
    BY <1>1, <1>2
  <2>2. Recent(s)[i] = h[k + i]
    BY <1>7
  <2> QED
    BY <1>3, <2>1, <2>2
<1>9. \A i \in 1 .. m - (n - k) : v[i] < now - Minute
  <2> SUFFICES ASSUME NEW i \in 1 .. m - (n - k), ~(i \in 1 .. m - n)
               PROVE  v[i] < now - Minute
    BY <1>4
  <2> DEFINE j == i - (m - n)
  <2>1. j \in 1 .. k /\ m - n + j = i
    BY <1>1, <1>2
  <2>2. j \in 1 .. n /\ ~(h[j] >= now - Minute)
    BY <1>5, <2>1
  <2>3. h[j] = v[i]
    BY <1>3, <2>1, <2>2
  <2>4. h[j] \in Nat
    BY <1>1, <2>2 DEF n
  <2> QED
    BY <2>2, <2>3, <2>4
<1> QED
  BY <1>1, <1>2, <1>7, <1>8, <1>9 DEF h, v, k, n, m

LEMMA WindowTaken ==
    ASSUME AccessInv, NEW s \in SensorIds, TakeSlot(s), Serve(s),
           UNCHANGED <<now, origin>>
    PROVE  RequestsTypeOK' /\ \A r \in SensorIds' : WindowInv(r)'
<1> DEFINE h == Recent(s)
           v == ServedSince(s)
<1>0. /\ now \in Nat /\ RateLimit \in Nat \ {0} /\ Minute \in Nat
      /\ SensorIds' = SensorIds
      /\ RequestsTypeOK
  BY RegistryAssumption DEF AccessInv, AccessTypeOK, RegistryTypeOK, SensorIds
<1>1. /\ h \in Seq(Nat) /\ Len(h) < RateLimit
      /\ \A i \in 1 .. Len(h) : h[i] = v[Len(v) - Len(h) + i]
      /\ \A i \in 1 .. Len(v) - Len(h) : v[i] < now - Minute
      /\ v \in Seq(Nat) /\ Len(h) <= Len(v)
      /\ \A i \in 1 .. Len(v) - RateLimit : v[i + RateLimit] - v[i] > Minute
  <2>1. WindowInv(s)
    BY DEF AccessInv
  <2>2. Len(h) < RateLimit
    BY DEF TakeSlot, WithinRate
  <2>3. /\ h \in Seq(Nat) /\ Len(h) <= Len(History(s))
        /\ \A i \in 1 .. Len(h) : h[i] = v[Len(v) - Len(h) + i]
        /\ \A i \in 1 .. Len(v) - Len(h) : v[i] < now - Minute
    BY <1>0, <2>1, RecentInWindow
  <2>4. /\ v \in Seq(Nat) /\ History(s) \in Seq(Nat)
        /\ Len(History(s)) <= Len(v)
        /\ \A i \in 1 .. Len(v) - RateLimit : v[i + RateLimit] - v[i] > Minute
    BY <2>1 DEF WindowInv
  <2>5. Len(h) <= Len(v)
    BY <2>3, <2>4
  <2> QED
    BY <2>2, <2>3, <2>4, <2>5
<1>2. History(s)' = Append(h, now) /\ ServedSince(s)' = Append(v, now)
  BY DEF TakeSlot, Serve, With, History, ServedSince
<1>3. ASSUME NEW r \in SensorIds, r # s
      PROVE  History(r)' = History(r) /\ ServedSince(r)' = ServedSince(r)
  BY <1>3 DEF TakeSlot, Serve, With, History, ServedSince
<1>4. WindowInv(s)'
  <2> HIDE DEF h, v
  <2> DEFINE g == Append(h, now)
             w == Append(v, now)
  <2>1. /\ g \in Seq(Nat) /\ Len(g) = Len(h) + 1
        /\ w \in Seq(Nat) /\ Len(w) = Len(v) + 1
        /\ \A i \in 1 .. Len(h) : g[i] = h[i]
        /\ \A i \in 1 .. Len(v) : w[i] = v[i]
        /\ g[Len(h) + 1] = now /\ w[Len(v) + 1] = now
    BY <1>0, <1>1
  <2> HIDE DEF g, w
  <2>2. Len(h) \in Nat /\ Len(v) \in Nat
    BY <1>1
  <2>3. Len(g) <= RateLimit /\ Len(g) <= Len(w)
    BY <1>0, <1>1, <2>1, <2>2
  <2>4. ASSUME NEW i \in 1 .. Len(g)
        PROVE  g[i] = w[Len(w) - Len(g) + i]
    <3>1. Len(w) - Len(g) = Len(v) - Len(h)
      BY <2>1, <2>2
    <3>2. CASE i = Len(h) + 1
      BY <2>1, <2>2, <3>1, <3>2
    <3>3. CASE i \in 1 .. Len(h)
      <4>1. Len(v) - Len(h) + i \in 1 .. Len(v)
        BY <1>1, <2>2, <3>3
      <4>2. h[i] = v[Len(v) - Len(h) + i]
        BY <1>1, <3>3
      <4> QED
        BY <2>1, <3>1, <3>3, <4>1, <4>2
    <3> QED
      BY <2>1, <2>2, <3>2, <3>3
  <2>5. ASSUME NEW i \in 1 .. Len(w) - Len(g)
        PROVE  w[i] < now - Minute
    <3>1. i \in 1 .. Len(v) - Len(h) /\ i \in 1 .. Len(v)
      BY <1>1, <2>1, <2>2
    <3>2. v[i] < now - Minute
      BY <1>1, <3>1
    <3> QED
      BY <2>1, <3>1, <3>2
  <2>6. ASSUME NEW i \in 1 .. Len(w) - RateLimit
        PROVE  w[i + RateLimit] - w[i] > Minute
    <3>1. i \in 1 .. Len(v) - RateLimit \/ i = Len(v) - RateLimit + 1
      BY <1>0, <2>1, <2>2
    <3>2. CASE i \in 1 .. Len(v) - RateLimit
      <4>1. i \in 1 .. Len(v) /\ i + RateLimit \in 1 .. Len(v)
        BY <1>0, <2>2, <3>2
      <4>2. v[i + RateLimit] - v[i] > Minute
        BY <1>1, <3>2
      <4> QED
        BY <2>1, <4>1, <4>2
    <3>3. CASE i = Len(v) - RateLimit + 1
      <4>1. /\ i \in 1 .. Len(v) - Len(h) /\ i \in 1 .. Len(v)
            /\ i + RateLimit = Len(v) + 1
        BY <1>0, <1>1, <2>2, <3>3
      <4>2. v[i] < now - Minute
        BY <1>1, <4>1
      <4>3. v[i] \in Nat
        BY <1>1, <4>1
      <4>4. w[i] = v[i] /\ w[i + RateLimit] = now
        BY <2>1, <4>1
      <4> QED
        BY <1>0, <4>2, <4>3, <4>4
    <3> QED
      BY <3>1, <3>2, <3>3
  <2>7. /\ History(s)' = g /\ ServedSince(s)' = w /\ now' = now
    BY <1>2 DEF g, w
  <2> QED
    BY <2>1, <2>3, <2>4, <2>5, <2>6, <2>7 DEF WindowInv
<1>5. ASSUME NEW r \in SensorIds, r # s
      PROVE  WindowInv(r)'
  BY <1>3, <1>5 DEF WindowInv, AccessInv
<1>6. RequestsTypeOK'
  <2>1. /\ DOMAIN requestTimes' = DOMAIN requestTimes \cup {s}
        /\ DOMAIN served' = DOMAIN served \cup {s}
    BY DEF TakeSlot, Serve, With
  <2>2. \A r \in DOMAIN requestTimes' :
            requestTimes'[r] \in Seq(Nat) /\ Len(requestTimes'[r]) <= RateLimit
    <3>1. \A r \in DOMAIN requestTimes' :
              requestTimes'[r] = IF r = s THEN Append(h, now)
                                 ELSE requestTimes[r]
      BY DEF TakeSlot, With
    <3>2. Append(h, now) \in Seq(Nat) /\ Len(Append(h, now)) <= RateLimit
      BY <1>0, <1>1
    <3> QED
      BY <1>0, <2>1, <3>1, <3>2 DEF RequestsTypeOK
  <2>3. \A r \in DOMAIN served' : served'[r] \in Seq(Nat)
    <3>1. \A r \in DOMAIN served' :
              served'[r] = IF r = s THEN Append(v, now) ELSE served[r]
      BY DEF Serve, With
    <3>2. Append(v, now) \in Seq(Nat)
      BY <1>0, <1>1
    <3> QED
      BY <1>0, <2>1, <3>1, <3>2 DEF RequestsTypeOK
  <2> QED
    BY <1>0, <2>1, <2>2, <2>3 DEF RequestsTypeOK
<1> QED
  BY <1>0, <1>4, <1>5, <1>6

LEMMA WindowRefused ==
    ASSUME AccessInv, NEW s \in SensorIds, RateExceeded(s), UNCHANGED served
    PROVE  RequestsTypeOK' /\ \A r \in SensorIds' : WindowInv(r)'
<1>0. /\ now \in Nat /\ RateLimit \in Nat \ {0} /\ Minute \in Nat
      /\ SensorIds' = SensorIds /\ now' = now
      /\ RequestsTypeOK
  BY RegistryAssumption
     DEF AccessInv, AccessTypeOK, RegistryTypeOK, SensorIds, RateExceeded
<1>1. History(s)' = Recent(s) /\ ServedSince(s)' = ServedSince(s)
  BY DEF RateExceeded, With, History, ServedSince
<1>2. ASSUME NEW r \in SensorIds, r # s
      PROVE  History(r)' = History(r) /\ ServedSince(r)' = ServedSince(r)
  BY <1>2 DEF RateExceeded, With, History, ServedSince
<1>3. WindowInv(s)
  BY DEF AccessInv
<1>4. /\ Recent(s) \in Seq(Nat)
      /\ Len(Recent(s)) <= Len(History(s))
      /\ \A i \in 1 .. Len(Recent(s)) :
            Recent(s)[i] =
                ServedSince(s)[Len(ServedSince(s)) - Len(Recent(s)) + i]
      /\ \A i \in 1 .. Len(ServedSince(s)) - Len(Recent(s)) :
            ServedSince(s)[i] < now - Minute
  BY <1>0, <1>3, RecentInWindow
<1>5. /\ Len(Recent(s)) <= RateLimit
      /\ Len(Recent(s)) <= Len(ServedSince(s))
  BY <1>0, <1>3, <1>4 DEF WindowInv
<1>6. WindowInv(s)'
  BY <1>0, <1>1, <1>3, <1>4, <1>5 DEF WindowInv
<1>7. ASSUME NEW r \in SensorIds, r # s
      PROVE  WindowInv(r)'
  BY <1>0, <1>2, <1>7 DEF WindowInv, AccessInv
<1>8. RequestsTypeOK'
  <2>1. /\ DOMAIN requestTimes' = DOMAIN requestTimes \cup {s}
        /\ \A r \in DOMAIN requestTimes' :
              requestTimes'[r] = IF r = s THEN Recent(s) ELSE requestTimes[r]
    BY DEF RateExceeded, With
  <2> QED
    BY <1>0, <1>4, <1>5, <2>1 DEF RequestsTypeOK
<1> QED
  BY <1>0, <1>6, <1>7, <1>8

(* The clock goes on and sensors register; a new one has asked nothing.    *)
LEMMA WindowKept ==
    ASSUME AccessInv, UNCHANGED <<requestTimes, served>>,
           now' \in {now, now + 1},
           \/ UNCHANGED origin
           \/ \E e \in 1 .. enrollmentCount : origin' = Append(origin, e)
    PROVE  RequestsTypeOK' /\ \A r \in SensorIds' : WindowInv(r)'
<1>1. /\ now \in Nat /\ RateLimit \in Nat \ {0} /\ Minute \in Nat
      /\ origin \in Seq(1 .. enrollmentCount) /\ RequestsTypeOK
  BY RegistryAssumption DEF AccessInv, AccessTypeOK, RegistryTypeOK
<1>2. SensorIds \subseteq SensorIds'
  BY <1>1 DEF SensorIds
<1>3. ASSUME NEW r
      PROVE  /\ History(r)' = History(r) /\ ServedSince(r)' = ServedSince(r)
             /\ r \notin SensorIds =>
                    History(r) = <<>> /\ ServedSince(r) = <<>>
  BY <1>1 DEF History, ServedSince, RequestsTypeOK
<1>4. ASSUME NEW r \in SensorIds
      PROVE  WindowInv(r)'
  <2>1. WindowInv(r)
    BY DEF AccessInv
  <2>2. \A i \in 1 .. Len(ServedSince(r)) - Len(History(r)) :
            ServedSince(r)[i] < now' - Minute
    <3> SUFFICES ASSUME NEW i \in 1 .. Len(ServedSince(r)) - Len(History(r))
                 PROVE  ServedSince(r)[i] < now' - Minute
      OBVIOUS
    <3>1. ServedSince(r)[i] < now - Minute /\ ServedSince(r)[i] \in Nat
      BY <2>1 DEF WindowInv
    <3> QED
      BY <1>1, <3>1
  <2> QED
    BY <1>3, <2>1, <2>2 DEF WindowInv
<1>5. ASSUME NEW r \in SensorIds', r \notin SensorIds
      PROVE  WindowInv(r)'
  <2>1. History(r)' = <<>> /\ ServedSince(r)' = <<>>
    BY <1>3, <1>5
  <2> QED
    BY <1>1, <2>1 DEF WindowInv
<1>6. RequestsTypeOK'
  BY <1>1, <1>2 DEF RequestsTypeOK
<1> QED
  BY <1>4, <1>5, <1>6

(***************************************************************************)
(* The two copies of the registry.                                         *)
(***************************************************************************)

LEMMA DataTypes ==
    ASSUME AccessInv
    PROVE  /\ now \in Nat /\ enrollmentCount \in Nat /\ tokenCount \in Nat
           /\ origin \in Seq(1 .. enrollmentCount)
           /\ held \subseteq SensorIds \X (1 .. tokenCount)
           /\ revoked \subseteq SensorIds
           /\ Lifetime \in Nat \ {0} /\ Never \notin Nat
  BY RegistryAssumption
     DEF AccessInv, AccessTypeOK, RegistryTypeOK, AnswersTypeOK

(* A copy that does not change stays good while the counters go up, as     *)
(* long as nobody is told anything.                                        *)
LEMMA CopyKept ==
    ASSUME AccessInv, NEW data, DataInv(data),
           UNCHANGED <<held, revoked>>,
           tokenCount' \in {tokenCount, tokenCount + 1},
           enrollmentCount' \in {enrollmentCount, enrollmentCount + 1},
           \/ UNCHANGED origin
           \/ \E e \in 1 .. enrollmentCount : origin' = Append(origin, e)
    PROVE  DataInv(data)'
<1>1. /\ now \in Nat /\ enrollmentCount \in Nat /\ tokenCount \in Nat
      /\ origin \in Seq(1 .. enrollmentCount)
  BY DataTypes
<1>2. /\ SensorIds \subseteq SensorIds'
      /\ \A s \in SensorIds : origin'[s] = origin[s]
      /\ 1 .. tokenCount \subseteq 1 .. tokenCount'
      /\ 1 .. enrollmentCount \subseteq 1 .. enrollmentCount'
  BY <1>1 DEF SensorIds
<1>3. IsData(data)'
  <2>1. SensorRecord \subseteq SensorRecord'
    BY <1>2 DEF SensorRecord
  <2> QED
    BY <1>2, <2>1 DEF DataInv, IsData
<1>4. OneSensorEach(data)'
  BY <1>2 DEF DataInv, IsData, OneSensorEach
<1>5. KeepsDisabled(data)' /\ KeepsUp(data)'
  BY DEF DataInv, KeepsDisabled, KeepsUp
<1> QED
  BY <1>3, <1>4, <1>5 DEF DataInv

LEMMA Written ==
    ASSUME DataInv(Memory)', Save
    PROVE  DataInv(registryFile)'
<1>1. registryFile' = Memory'
  BY DEF Save, Memory
<1> QED
  BY <1>1 DEF DataInv, IsData, OneSensorEach, KeepsDisabled, KeepsUp

LEMMA UnexpiredType ==
    ASSUME AccessInv
    PROVE  /\ DOMAIN Unexpired \subseteq DOMAIN enrollments
           /\ \A e \in DOMAIN Unexpired : Unexpired[e] = enrollments[e]
           /\ DOMAIN enrollments \subseteq 1 .. enrollmentCount
           /\ \A e \in DOMAIN enrollments : enrollments[e] \in Nat
<1>1. IsData(Memory)
  BY DEF AccessInv, DataInv
<1> QED
  BY <1>1 DEF Unexpired, Restrict, IsData, Memory

LEMMA EnrollmentData ==
    ASSUME AccessInv, CreateEnrollment, UNCHANGED <<held, revoked>>
    PROVE  DataInv(Memory)'
<1> DEFINE n == enrollmentCount + 1
<1>1. /\ now \in Nat /\ enrollmentCount \in Nat /\ tokenCount \in Nat
      /\ origin \in Seq(1 .. enrollmentCount) /\ Lifetime \in Nat
  BY DataTypes
<1>2. DataInv(Memory)
  BY DEF AccessInv
<1>3. UNCHANGED <<sensors, origin, tokenCount>> /\ enrollmentCount' = n
  BY DEF CreateEnrollment
<1>4. /\ DOMAIN enrollments' = DOMAIN Unexpired \cup {n}
      /\ \A e \in DOMAIN enrollments' :
            enrollments'[e] = IF e = n THEN now + Lifetime ELSE Unexpired[e]
  BY DEF CreateEnrollment, With
<1>5. IsData(Memory)'
  <2>1. /\ DOMAIN enrollments' \subseteq 1 .. n
        /\ \A e \in DOMAIN enrollments' : enrollments'[e] \in Nat
    BY <1>1, <1>4, UnexpiredType
  <2>2. SensorRecord' = SensorRecord /\ SensorIds' = SensorIds
    BY <1>3 DEF SensorRecord, SensorIds
  <2> QED
    BY <1>2, <1>3, <2>1, <2>2 DEF IsData, DataInv, Memory
<1>6. OneSensorEach(Memory)'
  <2>1. \A s \in DOMAIN sensors : origin[s] \in 1 .. enrollmentCount
    BY <1>1, <1>2 DEF DataInv, IsData, Memory, SensorIds
  <2>2. \A s \in DOMAIN sensors : origin[s] \notin DOMAIN enrollments'
    BY <1>1, <1>2, <1>4, <2>1, UnexpiredType
       DEF DataInv, OneSensorEach, Memory
  <2> QED
    BY <1>2, <1>3, <2>2 DEF DataInv, OneSensorEach, Memory
<1>7. KeepsDisabled(Memory)' /\ KeepsUp(Memory)'
  BY <1>2, <1>3 DEF DataInv, KeepsDisabled, KeepsUp, Memory
<1> QED
  BY <1>5, <1>6, <1>7 DEF DataInv

(* The new sensor takes the enrollment with it.                            *)
LEMMA RegisterData ==
    ASSUME AccessInv, NEW e, Register(e), UNCHANGED revoked,
           held' \in {held, held \cup {<<Len(origin) + 1, tokenCount + 1>>}}
    PROVE  DataInv(Memory)'
<1> DEFINE n == Len(origin) + 1
           t == tokenCount + 1
<1>1. /\ now \in Nat /\ enrollmentCount \in Nat /\ tokenCount \in Nat
      /\ origin \in Seq(1 .. enrollmentCount) /\ Never \notin Nat
      /\ held \subseteq SensorIds \X (1 .. tokenCount)
  BY DataTypes
<1>2. DataInv(Memory)
  BY DEF AccessInv
<1>3. /\ e \in DOMAIN Unexpired
      /\ tokenCount' = t /\ origin' = Append(origin, e)
      /\ UNCHANGED enrollmentCount
  BY DEF Register
<1>4. /\ DOMAIN enrollments' = DOMAIN Unexpired \ {e}
      /\ \A f \in DOMAIN enrollments' : enrollments'[f] = Unexpired[f]
  BY DEF Register, Consumed, Restrict
<1>5. /\ DOMAIN sensors' = DOMAIN sensors \cup {n}
      /\ \A s \in DOMAIN sensors' :
            sensors'[s] = IF s = n THEN NewSensor ELSE sensors[s]
  BY DEF Register, With
<1>6. /\ e \in 1 .. enrollmentCount /\ e \in DOMAIN enrollments
      /\ DOMAIN enrollments' \subseteq DOMAIN enrollments
  BY <1>3, <1>4, UnexpiredType
<1>7. /\ SensorIds' = SensorIds \cup {n} /\ n \notin SensorIds
      /\ \A s \in SensorIds : origin'[s] = origin[s]
      /\ origin'[n] = e
  BY <1>1, <1>3, <1>6 DEF SensorIds
<1>8. DOMAIN sensors \subseteq SensorIds
  BY <1>2 DEF DataInv, IsData, Memory
<1>9. IsData(Memory)'
  <2>1. /\ DOMAIN enrollments' \subseteq 1 .. enrollmentCount
        /\ \A f \in DOMAIN enrollments' : enrollments'[f] \in Nat
    BY <1>4, UnexpiredType
  <2>2. SensorRecord \subseteq SensorRecord' /\ NewSensor \in SensorRecord'
    BY <1>1, <1>3 DEF SensorRecord, NewSensor
  <2>3. \A s \in DOMAIN sensors : sensors[s] \in SensorRecord
    BY <1>2 DEF DataInv, IsData, Memory
  <2>4. \A s \in DOMAIN sensors' : sensors'[s] \in SensorRecord'
    BY <1>5, <2>2, <2>3
  <2> QED
    BY <1>3, <1>5, <1>7, <1>8, <2>1, <2>4 DEF IsData, Memory
<1>10. OneSensorEach(Memory)'
  <2>1. \A s \in DOMAIN sensors : origin[s] \notin DOMAIN enrollments
    BY <1>2 DEF DataInv, OneSensorEach, Memory
  <2>2. \A r, s \in DOMAIN sensors : origin[r] = origin[s] => r = s
    BY <1>2 DEF DataInv, OneSensorEach, Memory
  <2>3. \A r, s \in DOMAIN sensors' : origin'[r] = origin'[s] => r = s
    BY <1>5, <1>6, <1>7, <1>8, <2>1, <2>2
  <2>4. \A s \in DOMAIN sensors' : origin'[s] \notin DOMAIN enrollments'
    BY <1>4, <1>5, <1>6, <1>7, <1>8, <2>1
  <2> QED
    BY <2>3, <2>4 DEF OneSensorEach, Memory
<1>11. KeepsDisabled(Memory)'
  BY <1>2, <1>5, <1>7, <1>8 DEF DataInv, KeepsDisabled, Memory
<1>12. KeepsUp(Memory)'
  <2>1. \A pair \in held : /\ pair[1] \in DOMAIN sensors
                           /\ sensors[pair[1]].token >= pair[2]
    BY <1>2 DEF DataInv, KeepsUp, Memory
  <2>2. \A pair \in held : /\ pair[1] \in DOMAIN sensors'
                           /\ sensors'[pair[1]].token >= pair[2]
    BY <1>5, <1>7, <1>8, <2>1
  <2>3. n \in DOMAIN sensors' /\ sensors'[n].token >= t
    BY <1>1, <1>5 DEF NewSensor
  <2> QED
    BY <2>2, <2>3 DEF KeepsUp, Memory
<1> QED
  BY <1>9, <1>10, <1>11, <1>12 DEF DataInv

LEMMA RefusedData ==
    ASSUME AccessInv, NEW e, RegisterRefused(e), UNCHANGED <<held, revoked>>
    PROVE  DataInv(Memory)'
<1>1. DataInv(Memory)
  BY DEF AccessInv
<1>2. /\ UNCHANGED <<sensors, origin, tokenCount, enrollmentCount>>
      /\ enrollments' = Unexpired
  BY DEF RegisterRefused
<1>3. SensorRecord' = SensorRecord /\ SensorIds' = SensorIds
  BY <1>2 DEF SensorRecord, SensorIds
<1>4. IsData(Memory)'
  BY <1>1, <1>2, <1>3, UnexpiredType DEF DataInv, IsData, Memory
<1>5. OneSensorEach(Memory)'
  BY <1>1, <1>2, UnexpiredType DEF DataInv, OneSensorEach, Memory
<1>6. KeepsDisabled(Memory)' /\ KeepsUp(Memory)'
  BY <1>1, <1>2 DEF DataInv, KeepsDisabled, KeepsUp, Memory
<1> QED
  BY <1>4, <1>5, <1>6 DEF DataInv

(* One sensor's record changes: it stays disabled if it was, its token may *)
(* become the newest, and what is told of it is true of the new record.    *)
LEMMA RecordData ==
    ASSUME AccessInv, NEW s \in DOMAIN sensors, NEW new,
           new \in SensorRecord', sensors[s].disabled => new.disabled,
           new.token >= sensors[s].token,
           sensors' = [sensors EXCEPT ![s] = new],
           UNCHANGED <<enrollments, enrollmentCount, origin>>,
           tokenCount' \in {tokenCount, tokenCount + 1},
           held' \in {held, held \cup {<<s, new.token>>}},
           \/ UNCHANGED revoked
           \/ revoked' = revoked \cup {s} /\ new.disabled
    PROVE  DataInv(Memory)'
<1>1. /\ tokenCount \in Nat
      /\ held \subseteq SensorIds \X (1 .. tokenCount)
  BY DataTypes
<1>2. DataInv(Memory)
  BY DEF AccessInv
<1>3. SensorRecord \subseteq SensorRecord' /\ SensorIds' = SensorIds
  BY <1>1 DEF SensorRecord, SensorIds
<1>4. /\ DOMAIN sensors' = DOMAIN sensors
      /\ \A r \in DOMAIN sensors : r # s => sensors'[r] = sensors[r]
      /\ sensors'[s] = new
  OBVIOUS
<1>5. IsData(Memory)'
  BY <1>2, <1>3, <1>4 DEF DataInv, IsData, Memory
<1>6. OneSensorEach(Memory)'
  BY <1>2, <1>4 DEF DataInv, OneSensorEach, Memory
<1>7. KeepsDisabled(Memory)'
  BY <1>2, <1>4 DEF DataInv, KeepsDisabled, Memory
<1>8. KeepsUp(Memory)'
  <2>1. \A pair \in held : /\ pair[1] \in DOMAIN sensors /\ pair[2] \in Nat
                           /\ sensors[pair[1]].token >= pair[2]
    BY <1>1, <1>2 DEF DataInv, KeepsUp, Memory
  <2>2. new.token \in Nat /\ sensors[s].token \in Nat
    BY <1>1, <1>2 DEF DataInv, IsData, Memory, SensorRecord
  <2>3. \A pair \in held : /\ pair[1] \in DOMAIN sensors'
                           /\ sensors'[pair[1]].token >= pair[2]
    BY <1>4, <2>1, <2>2
  <2> QED
    BY <1>4, <2>2, <2>3 DEF KeepsUp, Memory
<1> QED
  BY <1>5, <1>6, <1>7, <1>8 DEF DataInv

(***************************************************************************)
(* The steps.                                                              *)
(***************************************************************************)
LEMMA Assembled ==
    ASSUME DataInv(Memory)', DataInv(registryFile)',
           now' \in Nat, enrollmentCount' \in Nat, tokenCount' \in Nat,
           origin' \in Seq(1 .. enrollmentCount'),
           RequestsTypeOK', \A s \in SensorIds' : WindowInv(s)',
           AnswersTypeOK', RuntimesBounded'
    PROVE  AccessInv'
  BY DEF AccessInv, AccessTypeOK, RegistryTypeOK, Copies, DataInv, Memory

LEMMA RuntimesFinite ==
    ASSUME AccessInv
    PROVE  /\ IsFiniteSet(SensorIds)
           /\ runtimes \subseteq SensorIds
           /\ IsFiniteSet(runtimes) /\ Cardinality(runtimes) \in Nat
           /\ Cardinality(runtimes) <= MaxSensors /\ MaxSensors \in Nat \ {0}
<1>1. origin \in Seq(1 .. enrollmentCount)
  BY DataTypes
<1>2. IsFiniteSet(SensorIds)
  BY <1>1, FS_Interval DEF SensorIds
<1>3. /\ runtimes \subseteq SensorIds
      /\ Cardinality(runtimes) <= MaxSensors
  BY DEF AccessInv, AccessTypeOK, RuntimesBounded
<1>4. IsFiniteSet(runtimes)
  BY <1>2, <1>3, FS_Subset
<1>5. Cardinality(runtimes) \in Nat
  BY <1>4, FS_CardinalityType
<1> QED
  BY <1>2, <1>3, <1>4, <1>5, AccessAssumption

LEMMA ViewBounded ==
    ASSUME AccessInv, NEW s \in SensorIds, View(s), UNCHANGED origin
    PROVE  RuntimesBounded'
<1>1. SensorIds' = SensorIds
  BY DEF SensorIds
<1>2. CASE s \in runtimes \/ ~HasRoom(s)
  <2>1. runtimes' = runtimes
    BY <1>2 DEF View
  <2> QED
    BY <1>1, <2>1, RuntimesFinite DEF RuntimesBounded
<1>3. CASE s \notin runtimes /\ HasRoom(s)
  <2>1. /\ runtimes' = runtimes \cup {s}
        /\ Cardinality(runtimes) < MaxSensors
    BY <1>3 DEF View, HasRoom
  <2>2. Cardinality(runtimes \cup {s}) = Cardinality(runtimes) + 1
    BY <1>3, RuntimesFinite, FS_AddElement
  <2> QED
    BY <1>1, <2>1, <2>2, RuntimesFinite DEF RuntimesBounded
<1> QED
  BY <1>2, <1>3

LEMMA RuntimesKept ==
    ASSUME AccessInv, UNCHANGED runtimes, SensorIds \subseteq SensorIds'
    PROVE  RuntimesBounded'
  BY RuntimesFinite DEF RuntimesBounded

(* The copies after one of the three endings of a change.                  *)
LEMMA FileAfter ==
    ASSUME AccessInv, DataInv(Memory)',
           \/ Save
           \/ /\ SaveFails
              /\ UNCHANGED <<held, revoked>>
              /\ tokenCount' \in {tokenCount, tokenCount + 1}
              /\ enrollmentCount' \in {enrollmentCount, enrollmentCount + 1}
              /\ \/ UNCHANGED origin
                 \/ \E e \in 1 .. enrollmentCount : origin' = Append(origin, e)
    PROVE  DataInv(registryFile)'
<1>1. CASE Save
  BY <1>1, Written
<1>2. CASE ~Save
  <2>1. DataInv(registryFile)
    BY DEF AccessInv
  <2>2. registryFile' = registryFile
    BY <1>2 DEF SaveFails
  <2>3. ASSUME NEW data, data = registryFile
        PROVE  DataInv(data)'
    <3>1. DataInv(data)
      BY <2>1, <2>3
    <3> QED
      BY <1>2, <3>1, CopyKept
  <2> QED
    BY <1>2, <2>1, <2>2, <2>3
       DEF SaveFails, DataInv, IsData, OneSensorEach, KeepsDisabled, KeepsUp
<1> QED
  BY <1>1, <1>2

LEMMA FaultsType ==
    ASSUME AccessInv, Fault \/ UNCHANGED faultsLeft
    PROVE  faultsLeft' \in Nat
<1>1. faultsLeft \in Nat
  BY DEF AccessInv, AccessTypeOK, AnswersTypeOK
<1> QED
  BY <1>1 DEF Fault

LEMMA IssueStep ==
    ASSUME AccessInv, IssueEnrollment
    PROVE  AccessInv'
<1>1. /\ CreateEnrollment
      /\ UNCHANGED <<runtimes, inFlight, held, revoked, served>>
      /\ Save \/ SaveFails
      /\ Fault \/ UNCHANGED faultsLeft
      /\ offered' \in {offered, offered \cup {enrollmentCount + 1}}
  BY DEF IssueEnrollment, NotSaved, NotAnswered, Answered
<1>2. /\ UNCHANGED <<now, requestTimes, tokenCount, origin>>
      /\ enrollmentCount' = enrollmentCount + 1
  BY <1>1 DEF CreateEnrollment
<1>3. /\ now \in Nat /\ enrollmentCount \in Nat /\ tokenCount \in Nat
      /\ origin \in Seq(1 .. enrollmentCount)
  BY DataTypes
<1>4. DataInv(Memory)'
  BY <1>1, EnrollmentData
<1>5. DataInv(registryFile)'
  BY <1>1, <1>2, <1>4, FileAfter
<1>6. RequestsTypeOK' /\ \A s \in SensorIds' : WindowInv(s)'
  BY <1>1, <1>2, WindowKept
<1>7. SensorIds' = SensorIds
  BY <1>2 DEF SensorIds
<1>8. AnswersTypeOK'
  <2>1. faultsLeft' \in Nat
    BY <1>1, FaultsType
  <2>2. AnswersTypeOK
    BY DEF AccessInv, AccessTypeOK
  <2> QED
    BY <1>1, <1>2, <1>3, <1>7, <2>1, <2>2 DEF AnswersTypeOK
<1>9. RuntimesBounded'
  BY <1>1, <1>7, RuntimesKept
<1>10. origin' \in Seq(1 .. enrollmentCount')
  BY <1>2, <1>3
<1> QED
  BY <1>2, <1>3, <1>4, <1>5, <1>6, <1>8, <1>9, <1>10, Assembled

LEMMA RegisterStep ==
    ASSUME AccessInv, NEW e \in offered, RegisterSensor(e)
    PROVE  AccessInv'
<1> DEFINE pair == <<Len(origin) + 1, tokenCount + 1>>
<1>1. /\ Register(e)
      /\ UNCHANGED <<runtimes, inFlight, offered, revoked, served>>
      /\ Save \/ (SaveFails /\ UNCHANGED held)
      /\ Fault \/ UNCHANGED faultsLeft
      /\ held' \in {held, held \cup {pair}}
  BY DEF RegisterSensor, NotSaved, NotAnswered, Answered
<1>2. /\ UNCHANGED <<now, requestTimes, enrollmentCount>>
      /\ tokenCount' = tokenCount + 1
      /\ origin' = Append(origin, e)
      /\ e \in DOMAIN Unexpired
  BY <1>1 DEF Register
<1>3. /\ now \in Nat /\ enrollmentCount \in Nat /\ tokenCount \in Nat
      /\ origin \in Seq(1 .. enrollmentCount)
  BY DataTypes
<1>4. e \in 1 .. enrollmentCount
  BY <1>2, UnexpiredType
<1>5. DataInv(Memory)'
  BY <1>1, RegisterData
<1>6. DataInv(registryFile)'
  BY <1>1, <1>2, <1>4, <1>5, FileAfter
<1>7. RequestsTypeOK' /\ \A s \in SensorIds' : WindowInv(s)'
  BY <1>1, <1>2, <1>4, WindowKept
<1>8. SensorIds' = SensorIds \cup {Len(origin) + 1}
  BY <1>2, <1>3, <1>4 DEF SensorIds
<1>9. AnswersTypeOK'
  <2>1. faultsLeft' \in Nat
    BY <1>1, FaultsType
  <2>2. AnswersTypeOK
    BY DEF AccessInv, AccessTypeOK
  <2>3. held' \subseteq SensorIds' \X (1 .. tokenCount')
    BY <1>1, <1>2, <1>3, <1>8, <2>2 DEF AnswersTypeOK
  <2> QED
    BY <1>1, <1>2, <1>8, <2>1, <2>2, <2>3 DEF AnswersTypeOK
<1>10. RuntimesBounded'
  BY <1>1, <1>8, RuntimesKept
<1>11. origin' \in Seq(1 .. enrollmentCount')
  BY <1>2, <1>3, <1>4
<1> QED
  BY <1>2, <1>3, <1>5, <1>6, <1>7, <1>9, <1>10, <1>11, Assembled

LEMMA RefusedStep ==
    ASSUME AccessInv, NEW e \in offered, RegistrationRefused(e)
    PROVE  AccessInv'
<1>1. /\ RegisterRefused(e)
      /\ UNCHANGED <<runtimes, inFlight, offered, held, revoked, served>>
      /\ Save \/ SaveFails
      /\ Fault \/ UNCHANGED faultsLeft
  BY DEF RegistrationRefused, NotSaved, Answered, answers
<1>2. UNCHANGED <<now, requestTimes, enrollmentCount, tokenCount, origin>>
  BY <1>1 DEF RegisterRefused
<1>3. /\ now \in Nat /\ enrollmentCount \in Nat /\ tokenCount \in Nat
      /\ origin \in Seq(1 .. enrollmentCount)
  BY DataTypes
<1>4. DataInv(Memory)'
  BY <1>1, RefusedData
<1>5. DataInv(registryFile)'
  BY <1>1, <1>2, <1>4, FileAfter
<1>6. RequestsTypeOK' /\ \A s \in SensorIds' : WindowInv(s)'
  BY <1>1, <1>2, WindowKept
<1>7. SensorIds' = SensorIds
  BY <1>2 DEF SensorIds
<1>8. AnswersTypeOK'
  <2>1. faultsLeft' \in Nat
    BY <1>1, FaultsType
  <2>2. AnswersTypeOK
    BY DEF AccessInv, AccessTypeOK
  <2> QED
    BY <1>1, <1>2, <1>7, <2>1, <2>2 DEF AnswersTypeOK
<1>9. RuntimesBounded'
  BY <1>1, <1>7, RuntimesKept
<1> QED
  BY <1>2, <1>3, <1>4, <1>5, <1>6, <1>8, <1>9, Assembled

(* What the record of an enabled sensor is.                                *)
LEMMA RecordType ==
    ASSUME AccessInv, NEW s \in DOMAIN sensors
    PROVE  /\ s \in SensorIds /\ sensors[s] \in SensorRecord
           /\ sensors[s].token \in 1 .. tokenCount
           /\ sensors[s] = [disabled |-> sensors[s].disabled,
                            token |-> sensors[s].token,
                            seen |-> sensors[s].seen,
                            sequence |-> sensors[s].sequence]
           /\ sensors[s].disabled \in BOOLEAN /\ sensors[s].sequence \in Nat
<1>1. IsData(Memory)
  BY DEF AccessInv, DataInv
<1> QED
  BY <1>1 DEF IsData, Memory, SensorRecord

LEMMA RotateStep ==
    ASSUME AccessInv, NEW s \in DOMAIN sensors, RotateCredential(s)
    PROVE  AccessInv'
<1> DEFINE t == tokenCount + 1
           new == [sensors[s] EXCEPT !.token = t]
<1>1. /\ Rotate(s)
      /\ UNCHANGED <<inFlight, offered, revoked, served>>
      /\ Save \/ (SaveFails /\ UNCHANGED held)
      /\ Fault \/ UNCHANGED faultsLeft
      /\ held' \in {held, held \cup {<<s, t>>}}
      /\ View(s) \/ UNCHANGED runtimes
  BY DEF RotateCredential, NotSaved, NotAnswered, Answered
<1>2. /\ UNCHANGED <<now, enrollments, requestTimes, enrollmentCount, origin>>
      /\ tokenCount' = t
      /\ sensors' = [sensors EXCEPT ![s].token = t]
  BY <1>1 DEF Rotate
<1>3. /\ now \in Nat /\ enrollmentCount \in Nat /\ tokenCount \in Nat
      /\ origin \in Seq(1 .. enrollmentCount)
      /\ held \subseteq SensorIds \X (1 .. tokenCount)
  BY DataTypes
<1>4. /\ s \in SensorIds /\ SensorIds' = SensorIds
      /\ sensors[s] \in SensorRecord
      /\ sensors[s].token \in 1 .. tokenCount
  BY <1>2, RecordType DEF SensorIds
<1>5. DataInv(Memory)'
  <2>1. /\ new \in SensorRecord' /\ new.token = t
        /\ new.disabled = sensors[s].disabled
    <3>1. t \in 1 .. tokenCount'
      BY <1>2, <1>3
    <3>2. SensorRecord' = [disabled : BOOLEAN, token : 1 .. tokenCount',
                           seen : Nat \cup {Never}, sequence : Nat]
      BY DEF SensorRecord
    <3> HIDE DEF t
    <3> QED
      BY <1>4, <3>1, <3>2 DEF SensorRecord
  <2>2. sensors' = [sensors EXCEPT ![s] = new]
    BY <1>2
  <2>3. /\ new.token >= sensors[s].token
        /\ held' \in {held, held \cup {<<s, new.token>>}}
    BY <1>1, <1>3, <1>4, <2>1
  <2> HIDE DEF new
  <2>4. tokenCount' \in {tokenCount, tokenCount + 1} /\ UNCHANGED revoked
    BY <1>1, <1>2
  <2> QED
    BY <1>2, <2>1, <2>2, <2>3, <2>4, RecordData
<1>6. DataInv(registryFile)'
  BY <1>1, <1>2, <1>5, FileAfter
<1>7. RequestsTypeOK' /\ \A r \in SensorIds' : WindowInv(r)'
  BY <1>1, <1>2, WindowKept
<1>8. AnswersTypeOK'
  <2>1. faultsLeft' \in Nat
    BY <1>1, FaultsType
  <2>2. AnswersTypeOK
    BY DEF AccessInv, AccessTypeOK
  <2>3. held' \subseteq SensorIds' \X (1 .. tokenCount')
    BY <1>1, <1>2, <1>3, <1>4
  <2> QED
    BY <1>1, <1>2, <1>4, <2>1, <2>2, <2>3 DEF AnswersTypeOK
<1>9. RuntimesBounded'
  BY <1>1, <1>2, <1>4, ViewBounded, RuntimesKept
<1> QED
  BY <1>2, <1>3, <1>5, <1>6, <1>7, <1>8, <1>9, Assembled

LEMMA DisableStep ==
    ASSUME AccessInv, NEW s \in DOMAIN sensors, DisableSensor(s)
    PROVE  AccessInv'
<1> DEFINE new == [sensors[s] EXCEPT !.disabled = TRUE]
<1>1. /\ Disable(s)
      /\ UNCHANGED <<inFlight, offered, held, served>>
      /\ Save \/ (SaveFails /\ UNCHANGED revoked)
      /\ Fault \/ UNCHANGED faultsLeft
      /\ revoked' \in {revoked, revoked \cup {s}}
      /\ View(s) \/ UNCHANGED runtimes
  BY DEF DisableSensor, NotSaved, NotAnswered, Answered
<1>2. /\ UNCHANGED <<now, enrollments, requestTimes, enrollmentCount,
                     tokenCount, origin>>
      /\ sensors' = [sensors EXCEPT ![s].disabled = TRUE]
  BY <1>1 DEF Disable
<1>3. /\ now \in Nat /\ enrollmentCount \in Nat /\ tokenCount \in Nat
      /\ origin \in Seq(1 .. enrollmentCount)
  BY DataTypes
<1>4. /\ s \in SensorIds /\ SensorIds' = SensorIds
      /\ sensors[s] \in SensorRecord
      /\ sensors[s].token \in 1 .. tokenCount
  BY <1>2, RecordType DEF SensorIds
<1>5. DataInv(Memory)'
  <2>1. /\ new \in SensorRecord' /\ new.token = sensors[s].token
        /\ new.disabled
    BY <1>2, <1>4 DEF SensorRecord
  <2>2. sensors' = [sensors EXCEPT ![s] = new]
    BY <1>2
  <2>3. /\ new.token >= sensors[s].token
        /\ held' \in {held, held \cup {<<s, new.token>>}}
        /\ UNCHANGED revoked \/ (revoked' = revoked \cup {s} /\ new.disabled)
    BY <1>1, <1>3, <1>4, <2>1
  <2> HIDE DEF new
  <2>4. tokenCount' \in {tokenCount, tokenCount + 1}
    BY <1>2
  <2> QED
    BY <1>2, <2>1, <2>2, <2>3, <2>4, RecordData
<1>6. DataInv(registryFile)'
  BY <1>1, <1>2, <1>5, FileAfter
<1>7. RequestsTypeOK' /\ \A r \in SensorIds' : WindowInv(r)'
  BY <1>1, <1>2, WindowKept
<1>8. AnswersTypeOK'
  <2>1. faultsLeft' \in Nat
    BY <1>1, FaultsType
  <2>2. AnswersTypeOK
    BY DEF AccessInv, AccessTypeOK
  <2> QED
    BY <1>1, <1>2, <1>4, <2>1, <2>2 DEF AnswersTypeOK
<1>9. RuntimesBounded'
  BY <1>1, <1>2, <1>4, ViewBounded, RuntimesKept
<1> QED
  BY <1>2, <1>3, <1>5, <1>6, <1>7, <1>8, <1>9, Assembled

(* A request that the registry accepts: a heartbeat or a delivery.         *)
LEMMA SeenStep ==
    ASSUME AccessInv, NEW s \in DOMAIN sensors, NEW n \in Nat,
           TakeSlot(s), Serve(s),
           sensors' = [sensors EXCEPT ![s].seen = now, ![s].sequence = n],
           UNCHANGED <<now, enrollments, enrollmentCount, tokenCount, origin>>,
           NotSaved \/ NotAnswered \/ Answered,
           View(s) \/ UNCHANGED runtimes,
           inFlight' \subseteq inFlight, UNCHANGED answers
    PROVE  AccessInv'
<1> DEFINE new == [sensors[s] EXCEPT !.seen = now, !.sequence = n]
<1>1. /\ Save \/ SaveFails
      /\ Fault \/ UNCHANGED faultsLeft
      /\ UNCHANGED <<offered, held, revoked>>
  BY DEF NotSaved, NotAnswered, Answered, answers
<1>2. /\ now \in Nat /\ enrollmentCount \in Nat /\ tokenCount \in Nat
      /\ origin \in Seq(1 .. enrollmentCount)
  BY DataTypes
<1>3. /\ s \in SensorIds /\ SensorIds' = SensorIds
      /\ sensors[s] \in SensorRecord
      /\ sensors[s].token \in 1 .. tokenCount
  BY RecordType DEF SensorIds
<1>4. DataInv(Memory)'
  <2>1. /\ new \in SensorRecord' /\ new.token = sensors[s].token
        /\ new.disabled = sensors[s].disabled
    BY <1>2, <1>3 DEF SensorRecord
  <2>2. sensors' = [sensors EXCEPT ![s] = new]
    OBVIOUS
  <2>3. /\ new.token >= sensors[s].token
        /\ held' \in {held, held \cup {<<s, new.token>>}}
    BY <1>1, <1>2, <1>3, <2>1
  <2> HIDE DEF new
  <2>4. tokenCount' \in {tokenCount, tokenCount + 1}
    OBVIOUS
  <2> QED
    BY <1>1, <2>1, <2>2, <2>3, <2>4, RecordData
<1>5. DataInv(registryFile)'
  BY <1>1, <1>4, FileAfter
<1>6. RequestsTypeOK' /\ \A r \in SensorIds' : WindowInv(r)'
  BY <1>3, WindowTaken
<1>7. AnswersTypeOK'
  <2>1. faultsLeft' \in Nat
    BY <1>1, FaultsType
  <2>2. AnswersTypeOK
    BY DEF AccessInv, AccessTypeOK
  <2> QED
    BY <1>1, <1>3, <2>1, <2>2 DEF AnswersTypeOK
<1>8. RuntimesBounded'
  BY <1>3, ViewBounded, RuntimesKept
<1> QED
  BY <1>2, <1>4, <1>5, <1>6, <1>7, <1>8, Assembled

(* A step that leaves the registry's data and the request windows alone.   *)
LEMMA QuietStep ==
    ASSUME AccessInv,
           UNCHANGED <<registryData, registryFile, enrollmentCount, tokenCount,
                       origin, answers>>,
           now' \in {now, now + 1},
           RequestsTypeOK', \A s \in SensorIds' : WindowInv(s)',
           inFlight' \subseteq SensorIds,
           Fault \/ UNCHANGED faultsLeft, RuntimesBounded'
    PROVE  AccessInv'
<1>1. /\ now \in Nat /\ enrollmentCount \in Nat /\ tokenCount \in Nat
      /\ origin \in Seq(1 .. enrollmentCount)
  BY DataTypes
<1>2. /\ UNCHANGED <<sensors, enrollments, held, revoked, offered>>
      /\ SensorIds' = SensorIds /\ SensorRecord' = SensorRecord
  BY DEF registryData, answers, SensorIds, SensorRecord
<1>3. DataInv(Memory) /\ DataInv(registryFile)
  BY DEF AccessInv
<1>4. DataInv(Memory)'
  BY <1>2, <1>3
     DEF DataInv, IsData, OneSensorEach, KeepsDisabled, KeepsUp, Memory
<1>5. DataInv(registryFile)'
  BY <1>2, <1>3 DEF DataInv, IsData, OneSensorEach, KeepsDisabled, KeepsUp
<1>6. AnswersTypeOK'
  <2>1. faultsLeft' \in Nat
    BY FaultsType
  <2>2. AnswersTypeOK
    BY DEF AccessInv, AccessTypeOK
  <2> QED
    BY <1>2, <2>1, <2>2 DEF AnswersTypeOK
<1>7. now' \in Nat
  BY <1>1
<1> QED
  BY <1>1, <1>4, <1>5, <1>6, <1>7, Assembled

LEMMA HeartbeatStep ==
    ASSUME AccessInv, NEW s \in inFlight, Heartbeat(s)
    PROVE  AccessInv'
<1>1. inFlight' \subseteq inFlight /\ UNCHANGED answers
  BY DEF Heartbeat
<1>2. CASE /\ AcceptHeartbeat(s)
           /\ \/ (NotSaved \/ NotAnswered) /\ UNCHANGED runtimes
              \/ Answered /\ View(s)
           /\ Serve(s)
  <2>1. s \in DOMAIN sensors /\ TakeSlot(s)
    BY <1>2 DEF AcceptHeartbeat
  <2>2. sensors[s].sequence \in Nat /\ sensors[s] \in SensorRecord
    BY <2>1, RecordType
  <2>3. /\ UNCHANGED <<now, enrollments, enrollmentCount, tokenCount, origin>>
        /\ sensors' = [sensors EXCEPT ![s].seen = now,
                                      ![s].sequence = sensors[s].sequence]
    BY <1>2, <2>2 DEF AcceptHeartbeat, SensorRecord
  <2>4. /\ NotSaved \/ NotAnswered \/ Answered
        /\ View(s) \/ UNCHANGED runtimes
        /\ Serve(s)
    BY <1>2
  <2> QED
    BY <1>1, <1>2, <2>1, <2>2, <2>3, <2>4, SeenStep
<1>3. CASE /\ s \in DOMAIN sensors
           /\ RateExceeded(s)
           /\ UNCHANGED <<runtimes, served, faultsLeft>>
  <2>1. s \in SensorIds
    BY <1>3, RecordType
  <2>2. RequestsTypeOK' /\ \A r \in SensorIds' : WindowInv(r)'
    BY <1>3, <2>1, WindowRefused
  <2>3. /\ UNCHANGED <<registryData, registryFile, enrollmentCount, tokenCount,
                       origin, now>>
    BY <1>3 DEF RateExceeded
  <2>4. inFlight' \subseteq SensorIds
    BY <1>1 DEF AccessInv, AccessTypeOK, AnswersTypeOK
  <2>5. RuntimesBounded'
    BY <1>3, <2>3, RuntimesKept DEF SensorIds
  <2> QED
    BY <1>1, <1>3, <2>2, <2>3, <2>4, <2>5, QuietStep
<1> QED
  BY <1>2, <1>3 DEF Heartbeat

LEMMA TelemetryStep ==
    ASSUME AccessInv, NEW s, NEW t, Telemetry(s, t) \/ TelemetryRefused(s, t)
    PROVE  AccessInv'
<1>1. s \in DOMAIN sensors /\ s \in SensorIds /\ sensors[s].sequence \in Nat
  <2>1. s \in DOMAIN sensors
    BY DEF Telemetry, TelemetryRefused, Authenticates, IsEnabled
  <2> QED
    BY <2>1, RecordType
<1>2. inFlight \subseteq SensorIds
  BY DEF AccessInv, AccessTypeOK, AnswersTypeOK
<1>3. CASE Telemetry(s, t)
  <2> DEFINE n == sensors[s].sequence + 1
  <2>1. /\ TakeSlot(s) /\ Serve(s) /\ View(s)
        /\ NotSaved \/ Answered
        /\ UNCHANGED <<inFlight, answers, now, enrollments, enrollmentCount,
                       tokenCount, origin>>
        /\ sensors' = [sensors EXCEPT ![s].seen = now, ![s].sequence = @ + 1]
    BY <1>3 DEF Telemetry, AcceptTelemetry
  <2>2. n \in Nat
    BY <1>1
  <2>3. sensors' = [sensors EXCEPT ![s].seen = now, ![s].sequence = n]
    BY <1>1, <2>1
  <2> HIDE DEF n
  <2> QED
    BY <1>1, <1>2, <2>1, <2>2, <2>3, SeenStep
<1>4. CASE TelemetryRefused(s, t)
  <2>1. /\ RateExceeded(s)
        /\ UNCHANGED <<runtimes, inFlight, answers, served, faultsLeft>>
    BY <1>4 DEF TelemetryRefused
  <2>2. RequestsTypeOK' /\ \A r \in SensorIds' : WindowInv(r)'
    BY <1>1, <2>1, WindowRefused
  <2>3. UNCHANGED <<registryData, registryFile, enrollmentCount, tokenCount,
                    origin, now>>
    BY <2>1 DEF RateExceeded
  <2>4. RuntimesBounded'
    BY <2>1, <2>3, RuntimesKept DEF SensorIds
  <2> QED
    BY <1>2, <2>1, <2>2, <2>3, <2>4, QuietStep
<1> QED
  BY <1>3, <1>4

(* ListSensors and ViewSensor only allocate runtimes.                      *)
LEMMA ViewsStep ==
    ASSUME AccessInv, ListSensors \/ (\E s \in DOMAIN sensors : ViewSensor(s))
    PROVE  AccessInv'
<1>1. UNCHANGED <<registryVars, inFlight, answers, served, faultsLeft>>
  BY DEF ListSensors, ViewSensor
<1>2. /\ UNCHANGED <<registryData, registryFile, enrollmentCount, tokenCount,
                     origin, now, requestTimes>>
      /\ SensorIds' = SensorIds
  BY <1>1 DEF registryVars, SensorIds
<1>3. RequestsTypeOK' /\ \A r \in SensorIds' : WindowInv(r)'
  BY <1>1, <1>2, WindowKept
<1>4. RuntimesBounded'
  <2>1. CASE ListSensors
    <3>1. PICK viewed \in SUBSET (DOMAIN sensors \ runtimes) :
             /\ Cardinality(runtimes \cup viewed) <= MaxSensors
             /\ runtimes' = runtimes \cup viewed
      BY <2>1 DEF ListSensors
    <3>2. DOMAIN sensors \subseteq SensorIds
      BY RecordType
    <3> QED
      BY <1>2, <3>1, <3>2, RuntimesFinite DEF RuntimesBounded
  <2>2. CASE \E s \in DOMAIN sensors : ViewSensor(s)
    <3>1. PICK s \in DOMAIN sensors : View(s)
      BY <2>2 DEF ViewSensor
    <3>2. s \in SensorIds
      BY RecordType
    <3> QED
      BY <1>2, <3>1, <3>2, ViewBounded
  <2> QED
    BY <2>1, <2>2
<1>5. inFlight' \subseteq SensorIds
  BY <1>1 DEF AccessInv, AccessTypeOK, AnswersTypeOK
<1> QED
  BY <1>1, <1>2, <1>3, <1>4, <1>5, QuietStep

LEMMA AuthenticateStep ==
    ASSUME AccessInv, NEW s, NEW t, AuthenticateHeartbeat(s, t)
    PROVE  AccessInv'
<1>1. /\ s \in DOMAIN sensors
      /\ inFlight' = inFlight \cup {s}
      /\ UNCHANGED <<registryVars, runtimes, answers, served, faultsLeft>>
  BY DEF AuthenticateHeartbeat, Authenticates, IsEnabled
<1>2. /\ UNCHANGED <<registryData, registryFile, enrollmentCount, tokenCount,
                     origin, now, requestTimes>>
      /\ SensorIds' = SensorIds
  BY <1>1 DEF registryVars, SensorIds
<1>3. RequestsTypeOK' /\ \A r \in SensorIds' : WindowInv(r)'
  BY <1>1, <1>2, WindowKept
<1>4. RuntimesBounded'
  BY <1>1, <1>2, RuntimesKept
<1>5. inFlight' \subseteq SensorIds
  BY <1>1, RecordType DEF AccessInv, AccessTypeOK, AnswersTypeOK
<1> QED
  BY <1>1, <1>2, <1>3, <1>4, <1>5, QuietStep

(* The request window and the history of one process's life start again.   *)
LEMMA RestartStep ==
    ASSUME AccessInv, Restart
    PROVE  AccessInv'
<1>1. /\ Fault /\ UNCHANGED <<offered, held, revoked>>
      /\ runtimes' = {} /\ inFlight' = {} /\ served' = <<>>
      /\ enrollments' = registryFile.enrollments
      /\ sensors' = registryFile.sensors
      /\ requestTimes' = <<>>
      /\ UNCHANGED <<now, registryFile, enrollmentCount, tokenCount, origin>>
  BY DEF Restart, Load, answers
<1>2. SensorIds' = SensorIds /\ SensorRecord' = SensorRecord
  BY <1>1 DEF SensorIds, SensorRecord
<1>3. DataInv(registryFile)
  BY DEF AccessInv
<1>4. DataInv(registryFile)'
  BY <1>1, <1>2, <1>3
     DEF DataInv, IsData, OneSensorEach, KeepsDisabled, KeepsUp
<1>5. DataInv(Memory)'
  BY <1>1, <1>2, <1>3
     DEF DataInv, IsData, OneSensorEach, KeepsDisabled, KeepsUp, Memory
<1>6. RequestsTypeOK'
  BY <1>1 DEF RequestsTypeOK
<1>7. ASSUME NEW r
      PROVE  WindowInv(r)'
  <2>1. History(r)' = <<>> /\ ServedSince(r)' = <<>>
    BY <1>1 DEF History, ServedSince
  <2> QED
    BY <2>1, RegistryAssumption DEF WindowInv
<1>8. AnswersTypeOK'
  BY <1>1, <1>2, FaultsType DEF AccessInv, AccessTypeOK, AnswersTypeOK
<1>9. RuntimesBounded'
  BY <1>1, FS_EmptySet, AccessAssumption DEF RuntimesBounded
<1> QED
  BY <1>1, <1>4, <1>5, <1>6, <1>7, <1>8, <1>9, DataTypes, Assembled

LEMMA TickStep ==
    ASSUME AccessInv, Tick \/ UNCHANGED accessVars
    PROVE  AccessInv'
<1>1. /\ UNCHANGED <<registryData, requestTimes, registryFile, enrollmentCount,
                     tokenCount, origin, runtimes, inFlight, answers, served,
                     faultsLeft>>
      /\ now' \in {now, now + 1}
  BY DEF Tick, accessVars, registryVars
<1>2. SensorIds' = SensorIds
  BY <1>1 DEF SensorIds
<1>3. RequestsTypeOK' /\ \A r \in SensorIds' : WindowInv(r)'
  BY <1>1, WindowKept
<1>4. RuntimesBounded'
  BY <1>1, <1>2, RuntimesKept
<1>5. inFlight' \subseteq SensorIds
  BY <1>1 DEF AccessInv, AccessTypeOK, AnswersTypeOK
<1> QED
  BY <1>1, <1>3, <1>4, <1>5, QuietStep

LEMMA AccessInvInit ==
    ASSUME AccessInit
    PROVE  AccessInv
<1>1. /\ now = 0 /\ enrollmentCount = 0 /\ tokenCount = 0 /\ origin = <<>>
      /\ enrollments = <<>> /\ sensors = <<>> /\ requestTimes = <<>>
      /\ registryFile = Memory
      /\ runtimes = {} /\ inFlight = {} /\ offered = {} /\ held = {}
      /\ revoked = {} /\ served = <<>> /\ faultsLeft = MaxFaults
  BY DEF AccessInit, RegistryInit, Memory
<1>2. DataInv(Memory)
  <2>1. DOMAIN Memory.enrollments = {} /\ DOMAIN Memory.sensors = {}
    BY <1>1 DEF Memory
  <2> QED
    BY <1>1, <2>1 DEF DataInv, IsData, OneSensorEach, KeepsDisabled, KeepsUp
<1>3. SensorIds = {} /\ origin \in Seq(1 .. enrollmentCount)
  BY <1>1 DEF SensorIds
<1>4. RegistryTypeOK
  BY <1>1, <1>2, <1>3 DEF RegistryTypeOK, Copies, DataInv, Memory
<1>5. RequestsTypeOK
  BY <1>1 DEF RequestsTypeOK
<1>6. AnswersTypeOK
  BY <1>1, AccessAssumption DEF AnswersTypeOK
<1>7. RuntimesBounded
  BY <1>1, FS_EmptySet, AccessAssumption DEF RuntimesBounded
<1> QED
  BY <1>1, <1>2, <1>3, <1>4, <1>5, <1>6, <1>7 DEF AccessInv, AccessTypeOK

LEMMA AccessInvStep ==
    ASSUME AccessInv, [AccessNext]_accessVars
    PROVE  AccessInv'
<1>1. CASE IssueEnrollment
  BY <1>1, IssueStep
<1>2. CASE \E e \in offered : RegisterSensor(e) \/ RegistrationRefused(e)
  BY <1>2, RegisterStep, RefusedStep
<1>3. CASE \E s \in DOMAIN sensors :
              RotateCredential(s) \/ DisableSensor(s) \/ ViewSensor(s)
  BY <1>3, RotateStep, DisableStep, ViewsStep
<1>4. CASE ListSensors
  BY <1>4, ViewsStep
<1>5. CASE SensorRequest
  BY <1>5, HeartbeatStep, AuthenticateStep, TelemetryStep DEF SensorRequest
<1>6. CASE Restart
  BY <1>6, RestartStep
<1>7. CASE Tick \/ UNCHANGED accessVars
  BY <1>7, TickStep
<1> QED
  BY <1>1, <1>2, <1>3, <1>4, <1>5, <1>6, <1>7 DEF AccessNext

(***************************************************************************)
(* The theorems.                                                           *)
(***************************************************************************)
LEMMA AccessInvariant == AccessSpec => []AccessInv
<1>1. AccessInit => AccessInv
  BY AccessInvInit
<1>2. AccessInv /\ [AccessNext]_accessVars => AccessInv'
  BY AccessInvStep
<1> QED
  BY <1>1, <1>2, PTL DEF AccessSpec

(* The types, and the limits of the request windows and of the runtimes.   *)
THEOREM AccessTypeCorrect == AccessSpec => []AccessTypeOK
<1>1. AccessInv => AccessTypeOK
  BY InvImplies
<1> QED
  BY <1>1, AccessInvariant, PTL

(* An enrollment is redeemed for one sensor at the most, whatever writes   *)
(* fail and whenever the service restarts.                                 *)
THEOREM EnrollmentsRedeemedOnce == AccessSpec => []RedeemedOnce
<1>1. AccessInv => RedeemedOnce
  BY InvImplies
<1> QED
  BY <1>1, AccessInvariant, PTL

(* A sensor reported as disabled stays disabled in memory and on disk.     *)
THEOREM RevokedStaysRevoked == AccessSpec => []RevokedForGood
<1>1. AccessInv => RevokedForGood
  BY InvImplies
<1> QED
  BY <1>1, AccessInvariant, PTL

(* No token older than one that was given out is good, in memory or on     *)
(* disk.                                                                   *)
THEOREM NewestTokenOnly == AccessSpec => []OnlyNewestToken
<1>1. AccessInv => OnlyNewestToken
  BY InvImplies
<1> QED
  BY <1>1, AccessInvariant, PTL

(* The request window lets no more than the limit through in any minute.   *)
THEOREM RateIsBounded == AccessSpec => []RateBounded
<1>1. AccessInv => RateBounded
  BY InvImplies
<1> QED
  BY <1>1, AccessInvariant, PTL


(***************************************************************************)
(* A disabled sensor is quiet.  A restart must not raise its sequence      *)
(* number, so the file never is ahead of memory.                           *)
(***************************************************************************)
FileBehind ==
    \A s \in DOMAIN registryFile.sensors :
        /\ s \in DOMAIN sensors
        /\ registryFile.sensors[s].sequence <= sensors[s].sequence

NoneLost ==
    \A s \in DOMAIN sensors :
        s \in DOMAIN sensors' /\ sensors[s].sequence <= sensors'[s].sequence

LEMMA Sequences ==
    ASSUME AccessInv
    PROVE  /\ \A s \in DOMAIN sensors : sensors[s].sequence \in Nat
           /\ \A s \in DOMAIN registryFile.sensors :
                 registryFile.sensors[s].sequence \in Nat
<1>1. IsData(Memory) /\ IsData(registryFile)
  BY DEF AccessInv, DataInv
<1> QED
  BY <1>1 DEF IsData, Memory, SensorRecord

(* What every step but Restart does to the two copies.                     *)
LEMMA ChangeStep ==
    ASSUME AccessInv, AccessNext, ~Restart
    PROVE  (Save \/ SaveFails) /\ NoneLost
<1>1. \A s \in DOMAIN sensors : sensors[s].sequence \in Nat
  BY Sequences
<1>2. CASE IssueEnrollment
  BY <1>1, <1>2
     DEF IssueEnrollment, CreateEnrollment, NotSaved, NotAnswered, Answered,
         NoneLost
<1>3. ASSUME NEW e \in offered, RegisterSensor(e)
      PROVE  (Save \/ SaveFails) /\ NoneLost
  <2>1. Len(origin) + 1 \notin DOMAIN sensors
    <3>1. DOMAIN sensors \subseteq SensorIds
      BY RecordType
    <3> QED
      BY <3>1, DataTypes DEF SensorIds
  <2>2. sensors' = With(sensors, Len(origin) + 1, NewSensor)
    BY <1>3 DEF RegisterSensor, Register
  <2>3. \A s \in DOMAIN sensors :
           s \in DOMAIN sensors' /\ sensors'[s] = sensors[s]
    BY <2>1, <2>2 DEF With
  <2> QED
    BY <1>1, <1>3, <2>3
       DEF RegisterSensor, NotSaved, NotAnswered, Answered, NoneLost
<1>4. ASSUME NEW e \in offered, RegistrationRefused(e)
      PROVE  (Save \/ SaveFails) /\ NoneLost
  BY <1>1, <1>4
     DEF RegistrationRefused, RegisterRefused, NotSaved, Answered, NoneLost
<1>5. ASSUME NEW s \in DOMAIN sensors, RotateCredential(s)
      PROVE  (Save \/ SaveFails) /\ NoneLost
  <2>1. sensors' = [sensors EXCEPT ![s].token = tokenCount + 1]
    BY <1>5 DEF RotateCredential, Rotate
  <2>2. sensors'[s].sequence = sensors[s].sequence
    BY <2>1, RecordType DEF SensorRecord
  <2>3. \A r \in DOMAIN sensors :
           r \in DOMAIN sensors' /\ (r # s => sensors'[r] = sensors[r])
    BY <2>1
  <2> QED
    BY <1>1, <1>5, <2>2, <2>3
       DEF RotateCredential, NotSaved, NotAnswered, Answered, NoneLost
<1>6. ASSUME NEW s \in DOMAIN sensors, DisableSensor(s)
      PROVE  (Save \/ SaveFails) /\ NoneLost
  <2>1. sensors' = [sensors EXCEPT ![s].disabled = TRUE]
    BY <1>6 DEF DisableSensor, Disable
  <2>2. sensors'[s].sequence = sensors[s].sequence
    BY <2>1, RecordType DEF SensorRecord
  <2>3. \A r \in DOMAIN sensors :
           r \in DOMAIN sensors' /\ (r # s => sensors'[r] = sensors[r])
    BY <2>1
  <2> QED
    BY <1>1, <1>6, <2>2, <2>3
       DEF DisableSensor, NotSaved, NotAnswered, Answered, NoneLost
<1>7. ASSUME ListSensors \/ Tick \/ (\E s \in DOMAIN sensors : ViewSensor(s))
      PROVE  (Save \/ SaveFails) /\ NoneLost
  BY <1>1, <1>7
     DEF ListSensors, Tick, ViewSensor, registryVars, registryData, SaveFails,
         NoneLost
<1>8. ASSUME NEW s, RateExceeded(s)
      PROVE  (Save \/ SaveFails) /\ NoneLost
  BY <1>1, <1>8 DEF RateExceeded, registryData, SaveFails, NoneLost
<1>9. ASSUME NEW s, AcceptHeartbeat(s), NotSaved \/ NotAnswered \/ Answered
      PROVE  (Save \/ SaveFails) /\ NoneLost
  <2>1. s \in DOMAIN sensors /\ sensors' = [sensors EXCEPT ![s].seen = now]
    BY <1>9 DEF AcceptHeartbeat
  <2>2. sensors'[s].sequence = sensors[s].sequence
    BY <2>1, RecordType DEF SensorRecord
  <2>3. \A r \in DOMAIN sensors :
           r \in DOMAIN sensors' /\ (r # s => sensors'[r] = sensors[r])
    BY <2>1
  <2> QED
    BY <1>1, <1>9, <2>2, <2>3 DEF NotSaved, NotAnswered, Answered, NoneLost
<1>10. ASSUME NEW s, AcceptTelemetry(s), NotSaved \/ Answered
       PROVE  (Save \/ SaveFails) /\ NoneLost
  <2>1. /\ s \in DOMAIN sensors
        /\ sensors' = [sensors EXCEPT ![s].seen = now, ![s].sequence = @ + 1]
    BY <1>10 DEF AcceptTelemetry
  <2>2. sensors'[s].sequence = sensors[s].sequence + 1
    BY <2>1, RecordType DEF SensorRecord
  <2>3. \A r \in DOMAIN sensors :
           r \in DOMAIN sensors' /\ (r # s => sensors'[r] = sensors[r])
    BY <2>1
  <2> QED
    BY <1>1, <1>10, <2>1, <2>2, <2>3 DEF NotSaved, Answered, NoneLost
<1>11. CASE SensorRequest
  <2>1. ASSUME NEW s \in inFlight, Heartbeat(s)
        PROVE  (Save \/ SaveFails) /\ NoneLost
    BY <1>8, <1>9, <2>1 DEF Heartbeat
  <2>2. ASSUME NEW s, NEW t, AuthenticateHeartbeat(s, t)
        PROVE  (Save \/ SaveFails) /\ NoneLost
    BY <1>1, <2>2
       DEF AuthenticateHeartbeat, registryVars, registryData, SaveFails,
           NoneLost
  <2>3. ASSUME NEW s, NEW t, Telemetry(s, t)
        PROVE  (Save \/ SaveFails) /\ NoneLost
    BY <1>10, <2>3 DEF Telemetry
  <2>4. ASSUME NEW s, NEW t, TelemetryRefused(s, t)
        PROVE  (Save \/ SaveFails) /\ NoneLost
    BY <1>8, <2>4 DEF TelemetryRefused
  <2> QED
    BY <1>11, <2>1, <2>2, <2>3, <2>4 DEF SensorRequest
<1> QED
  BY <1>2, <1>3, <1>4, <1>5, <1>6, <1>7, <1>11 DEF AccessNext

LEMMA FileBehindStep ==
    ASSUME AccessInv, FileBehind, [AccessNext]_accessVars
    PROVE  FileBehind'
<1>1. AccessInv'
  BY AccessInvStep
<1>2. /\ \A s \in DOMAIN sensors' : sensors'[s].sequence \in Nat
      /\ \A s \in DOMAIN sensors : sensors[s].sequence \in Nat
      /\ \A s \in DOMAIN registryFile.sensors :
            registryFile.sensors[s].sequence \in Nat
  <2>1. IsData(Memory)'
    BY <1>1 DEF AccessInv, DataInv
  <2> QED
    BY <2>1, Sequences DEF IsData, Memory, SensorRecord
<1>3. CASE Restart
  BY <1>2, <1>3 DEF Restart, Load, FileBehind
<1>4. CASE AccessNext /\ ~Restart
  <2>1. (Save \/ SaveFails) /\ NoneLost
    BY <1>4, ChangeStep
  <2>2. CASE Save
    BY <1>2, <2>2 DEF Save, FileBehind
  <2>3. CASE SaveFails
    BY <1>2, <2>1, <2>3 DEF SaveFails, FileBehind, NoneLost
  <2> QED
    BY <2>1, <2>2, <2>3
<1>5. CASE UNCHANGED accessVars
  BY <1>5 DEF accessVars, registryVars, registryData, FileBehind
<1> QED
  BY <1>3, <1>4, <1>5

Quiet(s) ==
    /\ s \in inFlight' => s \in inFlight
    /\ sensors'[s].sequence <= sensors[s].sequence
    /\ \/ sensors'[s].seen \in {sensors[s].seen, registryFile.sensors[s].seen}
       \/ s \in inFlight /\ s \notin inFlight'

LEMMA RevokedStep ==
    ASSUME AccessInv, FileBehind, AccessNext, NEW s \in revoked
    PROVE  Quiet(s)
<1>1. /\ s \in DOMAIN sensors /\ sensors[s].disabled
      /\ s \in DOMAIN registryFile.sensors
  BY DEF AccessInv, DataInv, KeepsDisabled, Memory
<1>2. sensors[s].sequence \in Nat /\ s \in SensorIds
  BY <1>1, RecordType
<1>3. ASSUME UNCHANGED <<sensors, inFlight>>
      PROVE  Quiet(s)
  BY <1>2, <1>3 DEF Quiet
<1>4. CASE IssueEnrollment
  BY <1>3, <1>4 DEF IssueEnrollment, CreateEnrollment
<1>5. ASSUME NEW e \in offered, RegisterSensor(e)
      PROVE  Quiet(s)
  <2>1. s # Len(origin) + 1
    BY <1>2, DataTypes DEF SensorIds
  <2>2. sensors'[s] = sensors[s]
    BY <1>1, <1>5, <2>1 DEF RegisterSensor, Register, With
  <2> QED
    BY <1>2, <1>5, <2>2 DEF RegisterSensor, Quiet
<1>6. ASSUME NEW e \in offered, RegistrationRefused(e)
      PROVE  Quiet(s)
  BY <1>3, <1>6 DEF RegistrationRefused, RegisterRefused
<1>7. ASSUME NEW r \in DOMAIN sensors, RotateCredential(r)
      PROVE  Quiet(s)
  <2>1. r # s
    BY <1>1, <1>7 DEF RotateCredential, Rotate, IsEnabled
  <2>2. sensors'[s] = sensors[s]
    BY <1>1, <1>7, <2>1 DEF RotateCredential, Rotate
  <2> QED
    BY <1>2, <1>7, <2>2 DEF RotateCredential, Quiet
<1>8. ASSUME NEW r \in DOMAIN sensors, DisableSensor(r)
      PROVE  Quiet(s)
  <2>1. sensors' = [sensors EXCEPT ![r].disabled = TRUE]
    BY <1>8 DEF DisableSensor, Disable
  <2>2. /\ sensors'[s].sequence = sensors[s].sequence
        /\ sensors'[s].seen = sensors[s].seen
    BY <1>1, <2>1, RecordType DEF SensorRecord
  <2> QED
    BY <1>2, <1>8, <2>2 DEF DisableSensor, Quiet
<1>9. ASSUME ListSensors \/ Tick \/ (\E r \in DOMAIN sensors : ViewSensor(r))
      PROVE  Quiet(s)
  BY <1>3, <1>9 DEF ListSensors, Tick, ViewSensor, registryVars, registryData
<1>10. CASE SensorRequest
  <2>1. ASSUME NEW r \in inFlight, Heartbeat(r)
        PROVE  Quiet(s)
    <3>1. inFlight' = inFlight \ {r}
      BY <2>1 DEF Heartbeat
    <3>2. CASE AcceptHeartbeat(r)
      <4>1. /\ r \in DOMAIN sensors
            /\ sensors' = [sensors EXCEPT ![r].seen = now]
        BY <3>2 DEF AcceptHeartbeat
      <4>2. /\ sensors'[s].sequence = sensors[s].sequence
            /\ r # s => sensors'[s].seen = sensors[s].seen
        BY <1>1, <4>1, RecordType DEF SensorRecord
      <4> QED
        BY <1>2, <2>1, <3>1, <4>2 DEF Quiet
    <3>3. CASE RateExceeded(r)
      BY <1>2, <3>1, <3>3 DEF RateExceeded, registryData, Quiet
    <3> QED
      BY <2>1, <3>2, <3>3 DEF Heartbeat
  <2>2. ASSUME NEW r, NEW t, AuthenticateHeartbeat(r, t)
        PROVE  Quiet(s)
    <3>1. r # s
      BY <1>1, <2>2 DEF AuthenticateHeartbeat, Authenticates, IsEnabled
    <3> QED
      BY <1>2, <2>2, <3>1
         DEF AuthenticateHeartbeat, registryVars, registryData, Quiet
  <2>3. ASSUME NEW r, NEW t, Telemetry(r, t)
        PROVE  Quiet(s)
    <3>1. r # s
      BY <1>1, <2>3 DEF Telemetry, Authenticates, IsEnabled
    <3>2. sensors'[s] = sensors[s]
      BY <1>1, <2>3, <3>1 DEF Telemetry, AcceptTelemetry
    <3> QED
      BY <1>2, <2>3, <3>2 DEF Telemetry, Quiet
  <2>4. ASSUME NEW r, NEW t, TelemetryRefused(r, t)
        PROVE  Quiet(s)
    BY <1>3, <2>4 DEF TelemetryRefused, RateExceeded, registryData
  <2> QED
    BY <1>10, <2>1, <2>2, <2>3, <2>4 DEF SensorRequest
<1>11. CASE Restart
  <2>1. sensors' = registryFile.sensors /\ inFlight' = {}
    BY <1>11 DEF Restart, Load
  <2> QED
    BY <1>1, <2>1 DEF FileBehind, Quiet
<1> QED
  BY <1>4, <1>5, <1>6, <1>7, <1>8, <1>9, <1>10, <1>11 DEF AccessNext

(* A sensor reported as disabled delivers nothing, opens no new heartbeat, *)
(* and shows a sign of life only by one that was already let in.           *)
THEOREM RevokedIsQuiet == AccessSpec => RevokedGoesQuiet
<1>1. AccessInit => FileBehind
  BY DEF AccessInit, RegistryInit, FileBehind
<1>2. AccessInv /\ FileBehind /\ [AccessNext]_accessVars => FileBehind'
  BY FileBehindStep
<1>3. AccessInv /\ FileBehind /\ [AccessNext]_accessVars =>
          [\A s \in revoked :
              /\ s \in inFlight' => s \in inFlight
              /\ sensors'[s].sequence <= sensors[s].sequence
              /\ \/ sensors'[s].seen \in
                       {sensors[s].seen, registryFile.sensors[s].seen}
                 \/ s \in inFlight /\ s \notin inFlight']_accessVars
  BY RevokedStep DEF Quiet
<1> QED
  BY <1>1, <1>2, <1>3, AccessInvariant, PTL DEF AccessSpec, RevokedGoesQuiet

===============================================================================
