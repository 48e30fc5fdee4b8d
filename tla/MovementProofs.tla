---------------------------- MODULE MovementProofs -----------------------------
(***************************************************************************)
(* The rules of movement.py and the stays of stays.py, for any history of  *)
(* an AirTag, any positions, fixes, places and settings.                   *)
(*                                                                         *)
(* The recursive functions of the model are reasoned about by sets of      *)
(* numbers: what holds of 0 and is handed on holds of every number         *)
(* (Counting), so a recursion by a step function has a solution            *)
(* (RecursionTo) and a definition by recursion satisfies its equation.     *)
(***************************************************************************)
EXTENDS MovementRules, Stays, Counting, SequenceTheorems

Reports == [t : Nat, pos : Positions, acc : Nat \cup {None}, conf : 1 .. 3 \cup {None}]

Histories == Seq(Reports)

Eff(r) == Radius(EffectiveAccuracy(r))

LEMMA EffectiveRadius ==
    ASSUME NEW r, r.acc \in Nat \cup {None}
    PROVE  Eff(r) \in Nat /\ Radius(r.acc) \in Nat /\ Radius(r.acc) =< Eff(r)
<1>1. CASE r.acc = None
  BY <1>1 DEF Eff, Radius, EffectiveAccuracy
<1>2. CASE r.acc \in Nat /\ r.acc # None
  <2> DEFINE a == r.acc
             e == (a * ConfidenceAccuracyFactor(r.conf)) \div 2
  <2>1. ConfidenceAccuracyFactor(r.conf) \in {2, 3, 4}
    BY DEF ConfidenceAccuracyFactor
  <2>2. e \in {(a * 2) \div 2, (a * 3) \div 2, (a * 4) \div 2}
    BY <2>1
  <2>3. e \in Nat /\ a =< e
    <3> HIDE DEF e
    <3> QED BY <1>2, <2>2
  <2>4. EffectiveAccuracy(r) = e /\ e # None
    BY <1>2, <2>3, ReportAssumption DEF EffectiveAccuracy
  <2> QED BY <1>2, <2>3, <2>4 DEF Eff, Radius
<1> QED BY <1>1, <1>2

LEMMA SeparationBetween ==
    ASSUME NEW r \in Reports, NEW s \in Reports
    PROVE  /\ Separation(r, s) \in Nat
           /\ Separation(r, s) = IF Abs(r.pos - s.pos) =< Eff(r) + Eff(s) THEN 0
                                 ELSE Abs(r.pos - s.pos) - (Eff(r) + Eff(s))
<1>1. r.pos \in Int /\ s.pos \in Int
  BY ReportAssumption DEF Reports
<1>2. Eff(r) \in Nat /\ Eff(s) \in Nat
  BY EffectiveRadius DEF Reports
<1>3. Abs(r.pos - s.pos) \in Nat
  BY <1>1 DEF Abs
<1> QED BY <1>2, <1>3 DEF Separation, AccuracyAdjustedDistance, HaversineDistance, Eff

(* The walk of the anchor is the function its definition describes.        *)
WalkStep(prior, i, j) ==
    IF i = 1 \/ IsObjectDisplaced(prior[i - 1], prior[i], Cfg) THEN i ELSE j

LEMMA TheWalk ==
    ASSUME NEW prior \in Histories, prior # <<>>
    PROVE  \E walk : /\ StillstandAnchor(prior, Cfg) = prior[walk[Len(prior)]]
                     /\ \A i \in 1 .. Len(prior) : walk[i] = WalkStep(prior, i, walk[i - 1])
<1> DEFINE n == Len(prior)
           V == 1 .. n
           first == 1
           Steps(f) == [i \in 1 .. n |-> IF i = 1 \/ IsObjectDisplaced(prior[i - 1], prior[i], Cfg)
                                         THEN i ELSE f[i - 1]]
           walk == CHOOSE f : f = Steps(f)
           G == [i \in 1 .. n |-> [j \in V |-> WalkStep(prior, i, j)]]
<1>1. n \in Nat /\ first \in V
  BY DEF Histories
<1>2. G \in [1 .. n -> [V -> V]]
  BY DEF WalkStep
<1>3. \A i \in 1 .. n, j \in V : G[i][j] = WalkStep(prior, i, j)
  BY DEF WalkStep
<1>4. PICK f : Follows(f, n, V, first, G)
  <2> HIDE DEF n, V, first, G
  <2> QED BY <1>1, <1>2, RecursionTo
<1>5. \E g : g = Steps(g)
  <2> DEFINE g == [i \in 1 .. n |-> f[i]]
  <2>1. \A i \in 1 .. n : f[i] = WalkStep(prior, i, f[i - 1])
    <3> SUFFICES ASSUME NEW i \in 1 .. n PROVE f[i] = WalkStep(prior, i, f[i - 1])
      OBVIOUS
    <3> HIDE DEF n, V, first, G
    <3>1. f[i - 1] \in V
      BY <1>1, <1>4 DEF Follows
    <3> QED BY <1>3, <1>4, <3>1 DEF Follows
  <2>2. \A i \in 1 .. n : g[i] = WalkStep(prior, i, g[i - 1])
    BY <1>1, <2>1 DEF WalkStep
  <2>3. g = Steps(g)
    <3>1. \A i \in 1 .. n : Steps(g)[i] = g[i]
      <4> HIDE DEF g
      <4> QED BY <2>2 DEF WalkStep
    <3> QED BY <3>1
  <2> QED BY <2>3
<1>6. walk = Steps(walk)
  <2> HIDE DEF Steps
  <2> QED BY <1>5
<1>7. \A i \in 1 .. n : walk[i] = WalkStep(prior, i, walk[i - 1])
  <2> HIDE DEF walk
  <2> QED BY <1>6 DEF WalkStep
<1>8. StillstandAnchor(prior, Cfg) = prior[walk[n]]
  BY DEF StillstandAnchor
<1> QED BY <1>7, <1>8

(* k starts the streak of reports that lie still up to the i-th.           *)
Still(s, k, i) == \A j \in k .. i - 1 : ~IsObjectDisplaced(s[j], s[j + 1], Cfg)

StartsStreak(s, k, i) == k \in 1 .. i /\ Still(s, k, i) /\ \A m \in 1 .. k - 1 : ~Still(s, m, i)

LEMMA AnchorOfAStreak ==
    ASSUME NEW prior \in Histories, prior # <<>>
    PROVE  \E k : StillstandAnchor(prior, Cfg) = prior[k] /\ StartsStreak(prior, k, Len(prior))
<1>1. PICK walk : /\ StillstandAnchor(prior, Cfg) = prior[walk[Len(prior)]]
                  /\ \A i \in 1 .. Len(prior) : walk[i] = WalkStep(prior, i, walk[i - 1])
  BY TheWalk
<1> DEFINE n == Len(prior)
           S == {0} \cup {i \in 1 .. n : StartsStreak(prior, walk[i], i)}
<1>2. n \in Nat /\ n > 0
  BY DEF Histories
<1>3. \A i \in 1 .. n : i - 1 \in S => i \in S
  <2> SUFFICES ASSUME NEW i \in 1 .. n, i - 1 \in S PROVE StartsStreak(prior, walk[i], i)
    OBVIOUS
  <2>1. CASE i = 1 \/ IsObjectDisplaced(prior[i - 1], prior[i], Cfg)
    <3>1. walk[i] = i
      BY <1>1, <2>1 DEF WalkStep
    <3>2. Still(prior, i, i)
      BY DEF Still
    <3>3. \A m \in 1 .. i - 1 : ~Still(prior, m, i)
      <4> SUFFICES ASSUME NEW m \in 1 .. i - 1 PROVE ~Still(prior, m, i)
        OBVIOUS
      <4>1. i - 1 \in m .. i - 1 /\ (i - 1) + 1 = i /\ i # 1
        OBVIOUS
      <4> QED BY <2>1, <4>1 DEF Still
    <3> QED BY <3>1, <3>2, <3>3 DEF StartsStreak
  <2>2. CASE ~(i = 1 \/ IsObjectDisplaced(prior[i - 1], prior[i], Cfg))
    <3> DEFINE k == walk[i - 1]
    <3>1. walk[i] = k
      BY <1>1, <2>2 DEF WalkStep
    <3>2. StartsStreak(prior, k, i - 1)
      BY <2>2
    <3> HIDE DEF k
    <3>3. \A m \in 1 .. i - 1 : Still(prior, m, i) <=> Still(prior, m, i - 1)
      <4> SUFFICES ASSUME NEW m \in 1 .. i - 1
                   PROVE  Still(prior, m, i) <=> Still(prior, m, i - 1)
        OBVIOUS
      <4>1. \A j : j \in m .. i - 1 <=> (j \in m .. (i - 1) - 1 \/ j = i - 1)
        OBVIOUS
      <4>2. (i - 1) + 1 = i
        OBVIOUS
      <4> QED BY <2>2, <4>1, <4>2 DEF Still
    <3> QED BY <3>1, <3>2, <3>3 DEF StartsStreak
  <2> QED BY <2>1, <2>2
<1>4. n \in S
  <2> HIDE DEF S, n
  <2>1. 0 \in S
    BY DEF S
  <2>2. 0 .. n \subseteq S
    BY <1>2, <1>3, <2>1, CountingTo
  <2> QED BY <1>2, <2>2
<1> QED BY <1>1, <1>2, <1>4

(* The trusted reports are some of the reports.                            *)
TrustStep(reports, i, kept) ==
    IF IsLowConfidence(reports[i], Cfg) THEN kept ELSE Append(kept, reports[i])

LEMMA TrustedAreReports ==
    ASSUME NEW reports \in Histories
    PROVE  TrustedReports(reports, Cfg) \in Seq({reports[i] : i \in 1 .. Len(reports)})
<1> DEFINE n == Len(reports)
           V == Seq({reports[i] : i \in 1 .. n})
           first == <<>>
           Steps(f) == [i \in 0 .. n |->
                          IF i = 0 THEN <<>>
                          ELSE IF IsLowConfidence(reports[i], Cfg) THEN f[i - 1]
                          ELSE Append(f[i - 1], reports[i])]
           kept == CHOOSE f : f = Steps(f)
           G == [i \in 1 .. n |-> [v \in V |-> TrustStep(reports, i, v)]]
<1>1. n \in Nat /\ first \in V
  BY DEF Histories
<1>2. \A i \in 1 .. n, v \in V : TrustStep(reports, i, v) \in V
  BY DEF TrustStep
<1>3. G \in [1 .. n -> [V -> V]] /\ \A i \in 1 .. n, v \in V : G[i][v] = TrustStep(reports, i, v)
  <2> HIDE DEF V, n
  <2> QED BY <1>2
<1>4. PICK g : Follows(g, n, V, first, G)
  <2> HIDE DEF n, V, first, G
  <2> QED BY <1>1, <1>3, RecursionTo
<1>5. \A f : Steps(f) = [i \in 0 .. n |-> IF i = 0 THEN first ELSE TrustStep(reports, i, f[i - 1])]
  BY DEF TrustStep
<1>6. g = [i \in 0 .. n |-> IF i = 0 THEN first ELSE TrustStep(reports, i, g[i - 1])]
  <2> HIDE DEF n, V, first, G
  <2>1. g \in [0 .. n -> V] /\ g[0] = first
    BY <1>4 DEF Follows
  <2>2. \A i \in 1 .. n : g[i] = TrustStep(reports, i, g[i - 1])
    <3> SUFFICES ASSUME NEW i \in 1 .. n PROVE g[i] = TrustStep(reports, i, g[i - 1])
      OBVIOUS
    <3>1. g[i - 1] \in V
      BY <1>1, <2>1
    <3> QED BY <1>3, <1>4, <3>1 DEF Follows
  <2> QED BY <1>1, <2>1, <2>2
<1>7. kept = [i \in 0 .. n |-> IF i = 0 THEN first ELSE TrustStep(reports, i, kept[i - 1])]
  <2> HIDE DEF Steps, n, first
  <2>1. g = Steps(g)
    BY <1>5, <1>6
  <2>2. kept = Steps(kept)
    BY <2>1
  <2> QED BY <1>5, <2>2
<1>8. kept[n] \in V
  <2> DEFINE S == {i \in 0 .. n : kept[i] \in V}
  <2> HIDE DEF kept, n, V, first
  <2>1. 0 \in S /\ \A i \in 1 .. n : i - 1 \in S => i \in S
    BY <1>1, <1>2, <1>7
  <2>2. 0 .. n \subseteq S
    <3> HIDE DEF S
    <3> QED BY <1>1, <2>1, CountingTo
  <2> QED BY <1>1, <2>2
<1>9. TrustedReports(reports, Cfg) = kept[n]
  BY DEF TrustedReports
<1> QED BY <1>8, <1>9
-----------------------------------------------------------------------------
Ordered(s) == \A i, j \in DOMAIN s : i < j => s[i].t < s[j].t

TrailInv == trail \in Histories /\ Ordered(trail)

LEMMA TrailInvInit == TrailInit => TrailInv
BY DEF TrailInit, TrailInv, Histories, Ordered

LEMMA InsertShape ==
    ASSUME NEW s \in Histories, NEW r \in Reports, NEW k \in 1 .. Len(s) + 1
    PROVE  /\ Len(s) \in Nat /\ DOMAIN s = 1 .. Len(s)
           /\ InsertAt(s, k, r) \in Histories
           /\ Len(InsertAt(s, k, r)) = Len(s) + 1
           /\ DOMAIN InsertAt(s, k, r) = 1 .. Len(s) + 1
           /\ \A i \in 1 .. k - 1 : InsertAt(s, k, r)[i] = s[i]
           /\ InsertAt(s, k, r)[k] = r
           /\ \A i \in k + 1 .. Len(s) + 1 : InsertAt(s, k, r)[i] = s[i - 1]
<1> DEFINE front == SubSeq(s, 1, k - 1)
           back == SubSeq(s, k, Len(s))
<1>1. /\ Len(s) \in Nat /\ DOMAIN s = 1 .. Len(s) /\ s \in Seq(Reports)
  BY DEF Histories
<1>2. /\ front \in Seq(Reports) /\ Len(front) = k - 1
      /\ \A i \in 1 .. k - 1 : front[i] = s[i]
  BY <1>1
<1>3. /\ back \in Seq(Reports) /\ Len(back) = Len(s) - k + 1
      /\ \A i \in 1 .. Len(s) - k + 1 : back[i] = s[k + i - 1]
  BY <1>1
<1>4. InsertAt(s, k, r) = (front \o <<r>>) \o back
  BY DEF InsertAt
<1> HIDE DEF front, back
<1> DEFINE upto == front \o <<r>>
<1>5. /\ upto \in Seq(Reports) /\ Len(upto) = k
      /\ \A i \in 1 .. k - 1 : upto[i] = s[i]
      /\ upto[k] = r
  BY <1>2
<1> HIDE DEF upto
<1> DEFINE all == upto \o back
<1>6. /\ all \in Seq(Reports) /\ Len(all) = Len(s) + 1 /\ DOMAIN all = 1 .. Len(s) + 1
      /\ \A i \in 1 .. k : all[i] = upto[i]
      /\ \A i \in k + 1 .. Len(s) + 1 : all[i] = back[i - k]
  BY <1>1, <1>3, <1>5
<1>7. \A i \in k + 1 .. Len(s) + 1 : back[i - k] = s[i - 1]
  <2> SUFFICES ASSUME NEW i \in k + 1 .. Len(s) + 1 PROVE back[i - k] = s[i - 1]
    OBVIOUS
  <2>1. i - k \in 1 .. Len(s) - k + 1 /\ k + (i - k) - 1 = i - 1
    BY <1>1
  <2> QED BY <1>3, <2>1
<1>8. InsertAt(s, k, r) = all
  BY <1>4 DEF upto
<1> HIDE DEF all
<1>9. (\A i \in 1 .. k - 1 : all[i] = s[i]) /\ all[k] = r
  BY <1>1, <1>5, <1>6
<1> QED BY <1>1, <1>6, <1>7, <1>8, <1>9 DEF Histories

(* One step of the trail: one report more, in its place, or nothing left.  *)
InsertedAt(k, r) ==
    /\ trail' = InsertAt(trail, k, r)
    /\ \A i \in DOMAIN trail : IF i < k THEN trail[i].t < r.t ELSE r.t < trail[i].t

LEMMA OneReport ==
    [TrailNext]_trail =>
        \/ UNCHANGED trail
        \/ trail' = <<>>
        \/ \E k \in 1 .. Len(trail) + 1, r \in Reports : InsertedAt(k, r)
<1> SUFFICES ASSUME InsertReport
             PROVE  \E k \in 1 .. Len(trail) + 1, r \in Reports : InsertedAt(k, r)
  BY DEF TrailNext, DeleteAirtag
<1>1. PICK t \in Timestamps, pos \in Positions, fix \in Fixes, k \in 1 .. Len(trail) + 1 :
         /\ \A i \in DOMAIN trail : IF i < k THEN trail[i].t < t ELSE t < trail[i].t
         /\ trail' = InsertAt(trail, k, [t |-> t, pos |-> pos, acc |-> fix.acc, conf |-> fix.conf])
  BY Zenon DEF InsertReport
<1> DEFINE report == [t |-> t, pos |-> pos, acc |-> fix.acc, conf |-> fix.conf]
<1>2. report \in Reports /\ report.t = t
  BY ReportAssumption DEF Reports
<1>3. trail' = InsertAt(trail, k, report)
  BY <1>1
<1> HIDE DEF report
<1> QED BY <1>1, <1>2, <1>3 DEF InsertedAt

LEMMA TrailInvStep == TrailInv /\ [TrailNext]_trail => TrailInv'
<1> SUFFICES ASSUME TrailInv, [TrailNext]_trail PROVE TrailInv'
  OBVIOUS
<1>1. CASE UNCHANGED trail
  BY <1>1 DEF TrailInv
<1>2. CASE trail' = <<>>
  BY <1>2 DEF TrailInv, Histories, Ordered
<1>3. ASSUME NEW k \in 1 .. Len(trail) + 1, NEW r \in Reports, InsertedAt(k, r) PROVE TrailInv'
  <2> DEFINE n == Len(trail)
             longer == InsertAt(trail, k, r)
  <2>1. /\ n \in Nat /\ DOMAIN trail = 1 .. n /\ longer \in Histories /\ DOMAIN longer = 1 .. n + 1
        /\ \A i \in 1 .. k - 1 : longer[i] = trail[i]
        /\ longer[k] = r
        /\ \A i \in k + 1 .. n + 1 : longer[i] = trail[i - 1]
    BY InsertShape DEF TrailInv
  <2>2. \A i \in 1 .. n : IF i < k THEN trail[i].t < r.t ELSE r.t < trail[i].t
    BY <1>3, <2>1 DEF InsertedAt
  <2>3. \A i, j \in 1 .. n : i < j => trail[i].t < trail[j].t
    BY <2>1 DEF TrailInv, Ordered
  <2>4. trail' = longer
    BY <1>3 DEF InsertedAt
  <2> HIDE DEF n, longer
  <2>5. ASSUME NEW i \in 1 .. n + 1, NEW j \in 1 .. n + 1, i < j
        PROVE  longer[i].t < longer[j].t
    <3>1. CASE j < k
      <4>1. i \in 1 .. k - 1 /\ j \in 1 .. k - 1 /\ i \in 1 .. n /\ j \in 1 .. n
        BY <2>1, <2>5, <3>1 DEF n
      <4> QED BY <2>1, <2>3, <2>5, <4>1
    <3>2. CASE j = k
      <4>1. i \in 1 .. k - 1 /\ i \in 1 .. n
        BY <2>1, <2>5, <3>2 DEF n
      <4> QED BY <2>1, <2>2, <3>2, <4>1
    <3>3. CASE j > k /\ i = k
      <4>1. j \in k + 1 .. n + 1 /\ j - 1 \in 1 .. n /\ ~(j - 1 < k)
        BY <2>1, <2>5, <3>3
      <4> QED BY <2>1, <2>2, <3>3, <4>1
    <3>4. CASE j > k /\ i < k
      <4>1. i \in 1 .. k - 1 /\ j \in k + 1 .. n + 1 /\ i \in 1 .. n /\ j - 1 \in 1 .. n /\ i < j - 1
        BY <2>1, <2>5, <3>4
      <4> QED BY <2>1, <2>3, <4>1
    <3>5. CASE j > k /\ i > k
      <4>1. i \in k + 1 .. n + 1 /\ j \in k + 1 .. n + 1 /\ i - 1 \in 1 .. n /\ j - 1 \in 1 .. n /\ i - 1 < j - 1
        BY <2>1, <2>5, <3>5
      <4> QED BY <2>1, <2>3, <4>1
    <3> QED BY <3>1, <3>2, <3>3, <3>4, <3>5
  <2> QED BY <2>1, <2>4, <2>5 DEF TrailInv, Ordered
<1> QED BY <1>1, <1>2, <1>3, OneReport

(* The newest report and the trusted ones among those before it.           *)
LEMMA TheTrusted ==
    ASSUME TrailInv, trail # <<>>
    PROVE  /\ Len(trail) \in Nat /\ Len(trail) > 0
           /\ Newest \in Reports
           /\ TrustedReports(Earlier, Cfg) \in Histories
           /\ \A i \in 1 .. Len(TrustedReports(Earlier, Cfg)) :
                 \E j \in DOMAIN trail : TrustedReports(Earlier, Cfg)[i] = trail[j]
<1> DEFINE n == Len(trail)
           trusted == TrustedReports(Earlier, Cfg)
<1>1. n \in Nat /\ n > 0 /\ DOMAIN trail = 1 .. n /\ \A i \in 1 .. n : trail[i] \in Reports
  BY DEF TrailInv, Histories
<1>2. Earlier \in Histories /\ Len(Earlier) = n - 1 /\ \A i \in 1 .. n - 1 : Earlier[i] = trail[i]
  BY <1>1 DEF Earlier, TrailInv, Histories
<1> DEFINE members == {Earlier[i] : i \in 1 .. Len(Earlier)}
<1>3. trusted \in Seq(members)
  <2> HIDE DEF n
  <2> QED BY <1>2, TrustedAreReports
<1>4. members \subseteq Reports /\ \A r \in members : \E j \in 1 .. n : r = trail[j]
  BY <1>1, <1>2
<1> HIDE DEF trusted, members
<1>5. \A i \in 1 .. Len(trusted) : trusted[i] \in members
  BY <1>3
<1>6. trusted \in Seq(Reports)
  BY <1>3, <1>4
<1> QED BY <1>1, <1>4, <1>5, <1>6 DEF Newest, Histories, trusted

LEMMA StreakInv == TrailInv => AnchorStartsTheStreak
BY AnchorOfAStreak DEF TrailInv, AnchorStartsTheStreak, StartsStreak, Still

LEMMA NoiseInv == TrailInv => NoiseNeverAlerts
<1> SUFFICES ASSUME TrailInv, trail # <<>>,
                    NEW p \in Positions, \A i \in DOMAIN trail : CouldBeAt(trail[i], p)
             PROVE  Reason(Newest) = None
  BY DEF NoiseNeverAlerts
<1> DEFINE prior == TrustedReports(Earlier, Cfg)
           last == prior[Len(prior)]
<1> SUFFICES ASSUME prior # <<>> PROVE Reason(Newest) = None
  BY DEF Reason, EvaluateMovement
<1>1. prior \in Histories /\ Len(prior) \in 1 .. Len(prior) /\ Newest \in Reports
  BY TheTrusted DEF Histories
<1>2. last \in Reports /\ CouldBeAt(last, p) /\ CouldBeAt(Newest, p)
  <2>1. Len(trail) \in DOMAIN trail
    BY TheTrusted DEF TrailInv, Histories
  <2>2. \E j \in DOMAIN trail : last = trail[j]
    BY <1>1, TheTrusted
  <2> QED BY <1>1, <2>1, <2>2 DEF Newest, Histories
<1> HIDE DEF prior, last
<1>3. Separation(Newest, last) = 0
  <2>1. p \in Int /\ Newest.pos \in Int /\ last.pos \in Int
    BY <1>1, <1>2, ReportAssumption DEF Reports
  <2>2. /\ Eff(Newest) \in Nat /\ Eff(last) \in Nat
        /\ Abs(Newest.pos - p) =< Eff(Newest) /\ Abs(last.pos - p) =< Eff(last)
    <3>1. \A r \in Reports : CouldBeAt(r, p) => Abs(r.pos - p) =< Eff(r)
      <4> SUFFICES ASSUME NEW r \in Reports, CouldBeAt(r, p) PROVE Abs(r.pos - p) =< Eff(r)
        OBVIOUS
      <4>1. Eff(r) \in Nat /\ Radius(r.acc) \in Nat /\ Radius(r.acc) =< Eff(r) /\ r.pos - p \in Int
        <5>1. r.acc \in Nat \cup {None} /\ r.pos \in Int
          BY ReportAssumption DEF Reports
        <5> QED BY <2>1, <5>1, EffectiveRadius
      <4>2. Abs(r.pos - p) \in Int
        BY <4>1 DEF Abs
      <4>3. Abs(r.pos - p) =< Radius(r.acc)
        BY DEF CouldBeAt, HaversineDistance
      <4> QED BY <4>1, <4>2, <4>3
    <3> QED BY <1>1, <1>2, <3>1, EffectiveRadius DEF Reports
  <2>3. Abs(Newest.pos - last.pos) =< Eff(Newest) + Eff(last)
    BY <2>1, <2>2 DEF Abs
  <2> QED BY <1>1, <1>2, <2>3, SeparationBetween
<1>4. ~(0 > Cfg.distanceThreshold) /\ ~(0 > Cfg.stillstandMovement)
  BY CfgAssumption
<1> QED BY <1>3, <1>4 DEF Reason, EvaluateMovement, prior, last

LEMMA RestInv == TrailInv => LeavingARestAlerts
<1> DEFINE rest == TrustedReports(Earlier, Cfg)
           n == Len(rest)
<1> SUFFICES ASSUME TrailInv, trail # <<>>, n > 0,
                    \A i \in 1 .. n : rest[i].pos = rest[n].pos,
                    Newest.t - rest[1].t >= Cfg.stillstandTime,
                    Separation(Newest, rest[n]) > Cfg.stillstandMovement
             PROVE  Reason(Newest) # None
  BY DEF LeavingARestAlerts
<1>1. rest \in Histories /\ n \in Nat /\ rest # <<>>
  BY TheTrusted DEF Histories
<1>2. PICK k : StillstandAnchor(rest, Cfg) = rest[k] /\ StartsStreak(rest, k, n)
  BY <1>1, AnchorOfAStreak
<1>3. Still(rest, 1, n)
  <2> SUFFICES ASSUME NEW j \in 1 .. n - 1 PROVE ~IsObjectDisplaced(rest[j], rest[j + 1], Cfg)
    BY DEF Still
  <2>1. j \in 1 .. n /\ j + 1 \in 1 .. n
    BY <1>1
  <2>2. rest[j] \in Reports /\ rest[j + 1] \in Reports /\ rest[j].pos = rest[j + 1].pos
    BY <1>1, <2>1 DEF Histories
  <2> HIDE DEF rest
  <2>3. Separation(rest[j], rest[j + 1]) = 0
    <3>1. rest[j].pos \in Int
      BY <2>2, ReportAssumption DEF Reports
    <3>2. Abs(rest[j].pos - rest[j + 1].pos) = 0
      BY <2>2, <3>1 DEF Abs
    <3>3. Eff(rest[j]) \in Nat /\ Eff(rest[j + 1]) \in Nat
      BY <2>2, EffectiveRadius DEF Reports
    <3>4. 0 =< Eff(rest[j]) + Eff(rest[j + 1])
      BY <3>3
    <3> QED BY <2>2, <3>2, <3>4, SeparationBetween
  <2> QED BY <2>3, CfgAssumption DEF IsObjectDisplaced
<1>4. k = 1
  BY <1>1, <1>2, <1>3 DEF StartsStreak
<1>5. Newest.t - StillstandAnchor(rest, Cfg).t >= Cfg.stillstandTime
  BY <1>2, <1>4
<1> HIDE DEF rest
<1> QED BY <1>1, <1>5, ReasonAssumption DEF Reason, EvaluateMovement, rest

LEMMA ReunionInv == TrailInv => AwayIsNotReunited
<1> SUFFICES ASSUME TrailInv, NEW i \in DOMAIN trail, NEW j \in DOMAIN trail,
                    IsAway(trail[i], trail[j], Cfg), AlreadyReunited(trail[i], trail[j], Cfg)
             PROVE  FALSE
  BY DEF AwayIsNotReunited
<1>1. trail[i] \in Reports /\ trail[j] \in Reports
  BY DEF TrailInv, Histories
<1> QED BY <1>1, SeparationBetween, CfgAssumption DEF IsAway, AlreadyReunited

(* A larger radius leaves less of a distance.                              *)
LEMMA BlurSeparatesLess ==
    ASSUME NEW r \in Reports, NEW s \in Reports,
           NEW x \in Nat \cup {None}, NEW y \in Nat \cup {None}, Radius(x) =< Radius(y)
    PROVE  Separation(Blurred(r, y), s) =< Separation(Blurred(r, x), s)
<1> DEFINE rx == Blurred(r, x)
           ry == Blurred(r, y)
<1>1. /\ rx \in Reports /\ rx.acc = x /\ rx.pos = r.pos /\ rx.conf = r.conf
      /\ ry \in Reports /\ ry.acc = y /\ ry.pos = r.pos /\ ry.conf = r.conf
  BY DEF Blurred, Reports
<1> HIDE DEF rx, ry
<1>2. Eff(rx) \in Nat /\ Eff(ry) \in Nat /\ Eff(s) \in Nat /\ Radius(x) \in Nat /\ Radius(y) \in Nat
  <2>1. rx.acc \in Nat \cup {None} /\ ry.acc \in Nat \cup {None} /\ s.acc \in Nat \cup {None}
    BY <1>1 DEF Reports
  <2> QED BY <1>1, <2>1, EffectiveRadius
<1>3. Eff(rx) =< Eff(ry)
  <2>1. CASE x = None
    <3>1. Eff(rx) = 0
      BY <1>1, <2>1 DEF Eff, Radius, EffectiveAccuracy
    <3> QED BY <1>2, <3>1
  <2>2. CASE y = None
    <3>1. Radius(x) = 0
      BY <1>2, <2>2 DEF Radius
    <3>2. x = None \/ x = 0
      BY <3>1 DEF Radius
    <3>3. Eff(rx) = 0
      <4>1. CASE x = None
        BY <1>1, <4>1 DEF Eff, Radius, EffectiveAccuracy
      <4>2. CASE x = 0 /\ x # None
        <5>1. EffectiveAccuracy(rx) = (0 * ConfidenceAccuracyFactor(r.conf)) \div 2
          BY <1>1, <4>2 DEF EffectiveAccuracy
        <5>2. (0 * ConfidenceAccuracyFactor(r.conf)) \div 2 = 0
          BY DEF ConfidenceAccuracyFactor
        <5> QED BY <5>1, <5>2, ReportAssumption DEF Eff, Radius
      <4> QED BY <3>2, <4>1, <4>2
    <3> QED BY <1>2, <3>3
  <2>3. CASE x \in Nat /\ y \in Nat /\ x # None /\ y # None
    <3> DEFINE c == ConfidenceAccuracyFactor(r.conf)
               ex == (x * c) \div 2
               ey == (y * c) \div 2
    <3>1. c \in {2, 3, 4}
      BY DEF ConfidenceAccuracyFactor
    <3>2. x =< y
      BY <2>3 DEF Radius
    <3>3. EffectiveAccuracy(rx) = ex /\ EffectiveAccuracy(ry) = ey
      BY <1>1, <2>3 DEF EffectiveAccuracy
    <3> HIDE DEF c
    <3>4. ex \in Nat /\ ey \in Nat /\ ex =< ey
      <4>1. CASE c = 2
        BY <2>3, <3>2, <4>1
      <4>2. CASE c = 3
        BY <2>3, <3>2, <4>2
      <4>3. CASE c = 4
        BY <2>3, <3>2, <4>3
      <4> QED BY <3>1, <4>1, <4>2, <4>3
    <3> HIDE DEF ex, ey
    <3> QED BY <3>3, <3>4, ReportAssumption DEF Eff, Radius
  <2> QED BY <2>1, <2>2, <2>3
<1>4. r.pos \in Int /\ s.pos \in Int /\ Abs(r.pos - s.pos) \in Nat
  <2>1. r.pos \in Int /\ s.pos \in Int
    BY ReportAssumption DEF Reports
  <2> QED BY <2>1 DEF Abs
<1>5. /\ Separation(rx, s) = IF Abs(r.pos - s.pos) =< Eff(rx) + Eff(s) THEN 0
                             ELSE Abs(r.pos - s.pos) - (Eff(rx) + Eff(s))
      /\ Separation(ry, s) = IF Abs(r.pos - s.pos) =< Eff(ry) + Eff(s) THEN 0
                             ELSE Abs(r.pos - s.pos) - (Eff(ry) + Eff(s))
  BY <1>1, SeparationBetween
<1>6. Separation(ry, s) =< Separation(rx, s)
  <2> DEFINE d == Abs(r.pos - s.pos)
             sx == Separation(rx, s)
             sy == Separation(ry, s)
  <2>1. /\ d \in Nat
        /\ sx = IF d =< Eff(rx) + Eff(s) THEN 0 ELSE d - (Eff(rx) + Eff(s))
        /\ sy = IF d =< Eff(ry) + Eff(s) THEN 0 ELSE d - (Eff(ry) + Eff(s))
    BY <1>4, <1>5
  <2> HIDE DEF d, sx, sy
  <2>2. sy =< sx
    BY <1>2, <1>3, <2>1
  <2> QED BY <2>2 DEF sx, sy
<1> QED BY <1>6 DEF rx, ry

LEMMA BlurInv == TrailInv => BlurNeverAlerts
<1> SUFFICES ASSUME TrailInv, trail # <<>>,
                    NEW x \in {fix.acc : fix \in Fixes}, NEW y \in {fix.acc : fix \in Fixes},
                    Radius(x) =< Radius(y), Reason(Blurred(Newest, x)) = None
             PROVE  Reason(Blurred(Newest, y)) = None
  BY DEF BlurNeverAlerts
<1> DEFINE prior == TrustedReports(Earlier, Cfg)
           last == prior[Len(prior)]
           stillFor == Newest.t - StillstandAnchor(prior, Cfg).t
           dx == Separation(Blurred(Newest, x), last)
           dy == Separation(Blurred(Newest, y), last)
<1> SUFFICES ASSUME prior # <<>> PROVE Reason(Blurred(Newest, y)) = None
  BY DEF Reason, EvaluateMovement
<1>1. prior \in Histories /\ last \in Reports /\ Newest \in Reports
  BY TheTrusted DEF Histories
<1>2. x \in Nat \cup {None} /\ y \in Nat \cup {None}
  BY ReportAssumption
<1>3. /\ Blurred(Newest, x) \in Reports /\ Blurred(Newest, x).t = Newest.t
      /\ Blurred(Newest, y) \in Reports /\ Blurred(Newest, y).t = Newest.t
  BY <1>1, <1>2 DEF Blurred, Reports
<1>4. dy =< dx /\ dx \in Nat /\ dy \in Nat
  BY <1>1, <1>2, <1>3, BlurSeparatesLess, SeparationBetween
<1>5. /\ Reason(Blurred(Newest, x)) =
           IF dx > Cfg.distanceThreshold THEN "distance_threshold"
           ELSE IF dx > Cfg.stillstandMovement /\ stillFor >= Cfg.stillstandTime
                THEN "stillstand_movement" ELSE None
      /\ Reason(Blurred(Newest, y)) =
           IF dy > Cfg.distanceThreshold THEN "distance_threshold"
           ELSE IF dy > Cfg.stillstandMovement /\ stillFor >= Cfg.stillstandTime
                THEN "stillstand_movement" ELSE None
  <2> HIDE DEF prior
  <2> QED BY <1>3 DEF Reason, EvaluateMovement, prior
<1> DEFINE longStill == stillFor >= Cfg.stillstandTime
<1> HIDE DEF dx, dy, longStill
<1>6. ~(dx > Cfg.distanceThreshold) /\ ~(dx > Cfg.stillstandMovement /\ longStill)
  BY <1>5, ReasonAssumption DEF longStill
<1>7. ~(dy > Cfg.distanceThreshold) /\ ~(dy > Cfg.stillstandMovement /\ longStill)
  BY <1>4, <1>6, CfgAssumption
<1> QED BY <1>5, <1>7 DEF longStill

(* For any history of an AirTag, any fixes and any settings, a rest is     *)
(* measured from where it began, nothing that fits in the error margins    *)
(* alerts, more blur makes no more alerts, what ends a rest alerts, and no *)
(* alert is taken back by the reading that raised it                       *)
(* (movement.py:67-75, 136-243).                                           *)
THEOREM AlertsTellMovement == TrailSpec => []AlertsTellMovementFromNoise
<1>1. TrailInv => AlertsTellMovementFromNoise
  BY StreakInv, NoiseInv, BlurInv, RestInv, ReunionInv DEF AlertsTellMovementFromNoise
<1> QED BY <1>1, TrailInvInit, TrailInvStep, PTL DEF TrailSpec
-----------------------------------------------------------------------------
(* FlattenSeq concatenates from left to right.                             *)
Concatenates(p, ss, R) ==
    /\ p \in [0 .. Len(ss) -> Seq(R)]
    /\ p[0] = <<>>
    /\ \A i \in 1 .. Len(ss) : p[i] = p[i - 1] \o ss[i]
    /\ FlattenSeq(ss) = p[Len(ss)]

LEMMA Flattened ==
    ASSUME NEW R, NEW ss \in Seq(Seq(R))
    PROVE  \E p : Concatenates(p, ss, R)
<1> DEFINE n == Len(ss)
           V == Seq(R)
           first == <<>>
           G == [i \in 1 .. n |-> [v \in V |-> v \o ss[i]]]
           Steps(f) == [i \in 1 .. n |-> IF i = 1 THEN ss[i] ELSE f[i - 1] \o ss[i]]
           flatten == CHOOSE f : f = Steps(f)
<1>1. n \in Nat /\ first \in V /\ \A i \in 1 .. n : ss[i] \in V
  OBVIOUS
<1>2. \A u, v \in V : u \o v \in V /\ first \o v = v
  BY ConcatProperties, ConcatEmptySeq
<1>3. G \in [1 .. n -> [V -> V]] /\ \A i \in 1 .. n, v \in V : G[i][v] = v \o ss[i]
  <2> HIDE DEF V, n
  <2> QED BY <1>1, <1>2
<1>4. PICK g : Follows(g, n, V, first, G)
  <2> HIDE DEF n, V, first, G
  <2> QED BY <1>1, <1>3, RecursionTo
<1>5. /\ g \in [0 .. n -> V] /\ g[0] = first
      /\ \A i \in 1 .. n : g[i] = g[i - 1] \o ss[i]
  <2> HIDE DEF n, V, first, G
  <2>1. g \in [0 .. n -> V] /\ g[0] = first
    BY <1>4 DEF Follows
  <2>2. \A i \in 1 .. n : g[i] = g[i - 1] \o ss[i]
    <3> SUFFICES ASSUME NEW i \in 1 .. n PROVE g[i] = g[i - 1] \o ss[i]
      OBVIOUS
    <3>1. g[i - 1] \in V
      BY <1>1, <2>1
    <3> QED BY <1>3, <1>4, <3>1 DEF Follows
  <2> QED BY <2>1, <2>2
<1>6. CASE n = 0
  <2>1. FlattenSeq(ss) = g[n]
    BY <1>5, <1>6 DEF FlattenSeq
  <2>2. Concatenates(g, ss, R)
    BY <1>5, <2>1 DEF Concatenates
  <2> QED BY <2>2
<1>7. CASE n > 0
  <2> DEFINE h == [i \in 1 .. n |-> g[i]]
  <2>1. h = Steps(h)
    <3> SUFFICES ASSUME NEW i \in 1 .. n
                 PROVE  g[i] = IF i = 1 THEN ss[i] ELSE h[i - 1] \o ss[i]
      OBVIOUS
    <3> HIDE DEF n, V, first
    <3>1. CASE i = 1
      <4>1. g[i] = g[i - 1] \o ss[i]
        BY <1>5
      <4>2. i - 1 = 0
        BY <3>1
      <4>3. g[i] = first \o ss[i]
        BY <1>5, <4>1, <4>2, Zenon
      <4> QED BY <1>1, <1>2, <3>1, <4>3
    <3>2. CASE i # 1
      <4>1. i - 1 \in 1 .. n
        BY <1>1, <3>2
      <4>2. h[i - 1] = g[i - 1]
        BY <4>1
      <4> QED BY <1>5, <3>2, <4>2
    <3> QED BY <3>1, <3>2
  <2>2. flatten = Steps(flatten)
    <3> HIDE DEF Steps, h
    <3> QED BY <2>1
  <2>3. FlattenSeq(ss) = flatten[n]
    BY <1>7 DEF FlattenSeq
  <2> HIDE DEF flatten, V, first, n
  <2> DEFINE S == {0} \cup {i \in 1 .. n : flatten[i] = g[i]}
  <2>4. 0 \in S /\ \A i \in 1 .. n : i - 1 \in S => i \in S
    <3> SUFFICES ASSUME NEW i \in 1 .. n, i - 1 \in S PROVE flatten[i] = g[i]
      OBVIOUS
    <3>1. CASE i = 1
      <4>1. g[i] = g[i - 1] \o ss[i]
        BY <1>5
      <4>2. i - 1 = 0
        BY <3>1
      <4>3. g[i] = first \o ss[i]
        BY <1>5, <4>1, <4>2, Zenon
      <4>4. flatten[i] = ss[i]
        BY <2>2, <3>1
      <4> QED BY <1>1, <1>2, <4>3, <4>4
    <3>2. CASE i # 1
      <4>1. flatten[i - 1] = g[i - 1]
        BY <3>2
      <4> QED BY <1>5, <2>2, <3>2, <4>1
    <3> QED BY <3>1, <3>2
  <2>5. 0 .. n \subseteq S
    <3> HIDE DEF S
    <3> QED BY <1>1, <2>4, CountingTo
  <2>6. flatten[n] = g[n]
    BY <1>1, <1>7, <2>5
  <2>7. Concatenates(g, ss, R)
    BY <1>5, <2>3, <2>6 DEF Concatenates, n, V, first
  <2> QED BY <2>7
<1> QED BY <1>1, <1>6, <1>7

LEMMA FlattenAppend ==
    ASSUME NEW R, NEW ss \in Seq(Seq(R)), NEW s \in Seq(R)
    PROVE  /\ FlattenSeq(Append(ss, s)) = FlattenSeq(ss) \o s
           /\ FlattenSeq(ss) \in Seq(R)
<1> DEFINE n == Len(ss)
           tt == Append(ss, s)
<1>1. /\ n \in Nat /\ tt \in Seq(Seq(R)) /\ Len(tt) = n + 1 /\ tt[n + 1] = s
      /\ \A i \in 1 .. n : tt[i] = ss[i]
  OBVIOUS
<1>2. PICK p : Concatenates(p, ss, R)
  BY Flattened
<1> HIDE DEF tt
<1>3. PICK q : Concatenates(q, tt, R)
  BY <1>1, Flattened
<1> DEFINE S == {i \in 0 .. n : p[i] = q[i]}
<1>4. 0 \in S /\ \A i \in 1 .. n : i - 1 \in S => i \in S
  <2>1. \A i \in 1 .. n : i \in 1 .. n + 1
    BY <1>1
  <2>2. p[0] = q[0] /\ \A i \in 1 .. n : p[i] = p[i - 1] \o ss[i] /\ q[i] = q[i - 1] \o ss[i]
    BY <1>1, <1>2, <1>3, <2>1 DEF Concatenates
  <2> HIDE DEF n
  <2>3. \A i \in 1 .. n : p[i - 1] = q[i - 1] => p[i] = q[i]
    BY <2>2, Zenon
  <2> QED BY <1>1, <2>2, <2>3
<1>5. 0 .. n \subseteq S
  <2> HIDE DEF S, n
  <2> QED BY <1>1, <1>4, CountingTo
<1>6. p[n] = q[n] /\ p[n] \in Seq(R)
  <2>1. p \in [0 .. n -> Seq(R)] /\ n \in 0 .. n
    BY <1>1, <1>2 DEF Concatenates
  <2> HIDE DEF n
  <2> QED BY <1>5, <2>1
<1>7. q[n + 1] = q[n] \o s
  <2>1. n + 1 \in 1 .. n + 1 /\ (n + 1) - 1 = n
    BY <1>1
  <2> QED BY <1>1, <1>3, <2>1 DEF Concatenates
<1>8. FlattenSeq(ss) = p[n] /\ FlattenSeq(tt) = q[n + 1]
  BY <1>1, <1>2, <1>3 DEF Concatenates
<1> QED BY <1>6, <1>7, <1>8 DEF tt

(* What one more point makes of the stays before it.                       *)
Stay == [points : Histories, anchor : Reports]

Join(stays, point) ==
    IF /\ stays # <<>>
       /\ HaversineDistance(stays[Len(stays)].anchor.pos, point.pos) =< ClusterRadius
    THEN [stays EXCEPT ![Len(stays)].points = Append(@, point)]
    ELSE Append(stays, [points |-> <<point>>, anchor |-> point])

LEMMA JoinIsStays ==
    ASSUME NEW stays \in Seq(Stay), NEW point \in Reports
    PROVE  Join(stays, point) \in Seq(Stay)
<1>1. [points |-> <<point>>, anchor |-> point] \in Stay
  BY DEF Stay, Histories
<1>2. CASE stays # <<>>
  <2> DEFINE n == Len(stays)
             longer == [stays[n] EXCEPT !.points = Append(@, point)]
  <2>1. n \in 1 .. n /\ n \in Nat /\ stays[n] \in Stay
    BY <1>2
  <2>2. longer \in Stay
    <3>1. Append(stays[n].points, point) \in Histories
      BY <2>1 DEF Stay, Histories
    <3> HIDE DEF n
    <3> QED BY <2>1, <3>1 DEF Stay
  <2>3. [stays EXCEPT ![n] = longer] \in Seq(Stay)
    <3> HIDE DEF longer
    <3> QED BY <2>1, <2>2, ExceptSeq
  <2>4. [stays EXCEPT ![n].points = Append(@, point)] = [stays EXCEPT ![n] = longer]
    OBVIOUS
  <2> QED BY <1>1, <2>3, <2>4 DEF Join
<1>3. CASE stays = <<>>
  BY <1>1, <1>3 DEF Join
<1> QED BY <1>2, <1>3

Clusters(st, points) ==
    /\ st \in [0 .. Len(points) -> Seq(Stay)]
    /\ st[0] = <<>>
    /\ \A i \in 1 .. Len(points) : st[i] = Join(st[i - 1], points[i])
    /\ ClusterByProximity(points) = st[Len(points)]

LEMMA Clustered ==
    ASSUME NEW points \in Histories
    PROVE  \E st : Clusters(st, points)
<1> DEFINE n == Len(points)
           V == Seq(Stay)
           first == <<>>
           G == [i \in 1 .. n |-> [v \in V |-> Join(v, points[i])]]
           Steps(f) ==
             [i \in 0 .. n |->
                IF i = 0 THEN <<>>
                ELSE IF /\ f[i - 1] # <<>>
                        /\ HaversineDistance(f[i - 1][Len(f[i - 1])].anchor.pos, points[i].pos) =< ClusterRadius
                     THEN [f[i - 1] EXCEPT ![Len(f[i - 1])].points = Append(@, points[i])]
                     ELSE Append(f[i - 1], [points |-> <<points[i]>>, anchor |-> points[i]])]
           stays == CHOOSE f : f = Steps(f)
<1>1. n \in Nat /\ first \in V /\ \A i \in 1 .. n : points[i] \in Reports
  BY DEF Histories
<1>2. \A i \in 1 .. n, v \in V : Join(v, points[i]) \in V
  BY <1>1, JoinIsStays
<1>3. G \in [1 .. n -> [V -> V]] /\ \A i \in 1 .. n, v \in V : G[i][v] = Join(v, points[i])
  <2> HIDE DEF V, n
  <2> QED BY <1>2
<1>4. PICK g : Follows(g, n, V, first, G)
  <2> HIDE DEF n, V, first, G
  <2> QED BY <1>1, <1>3, RecursionTo
<1>5. \A f : Steps(f) = [i \in 0 .. n |-> IF i = 0 THEN first ELSE Join(f[i - 1], points[i])]
  BY DEF Join
<1>6. g = [i \in 0 .. n |-> IF i = 0 THEN first ELSE Join(g[i - 1], points[i])]
  <2> HIDE DEF n, V, first, G
  <2>1. g \in [0 .. n -> V] /\ g[0] = first
    BY <1>4 DEF Follows
  <2>2. \A i \in 1 .. n : g[i] = Join(g[i - 1], points[i])
    <3> SUFFICES ASSUME NEW i \in 1 .. n PROVE g[i] = Join(g[i - 1], points[i])
      OBVIOUS
    <3>1. g[i - 1] \in V
      BY <1>1, <2>1
    <3> QED BY <1>3, <1>4, <3>1 DEF Follows
  <2> QED BY <1>1, <2>1, <2>2
<1>7. stays = [i \in 0 .. n |-> IF i = 0 THEN first ELSE Join(stays[i - 1], points[i])]
  <2> HIDE DEF Steps, n, first
  <2>1. g = Steps(g)
    BY <1>5, <1>6
  <2>2. stays = Steps(stays)
    BY <2>1
  <2> QED BY <1>5, <2>2
<1>8. \A i \in 0 .. n : stays[i] \in V
  <2> DEFINE S == {i \in 0 .. n : stays[i] \in V}
  <2> HIDE DEF stays, n, V, first
  <2>1. 0 \in S /\ \A i \in 1 .. n : i - 1 \in S => i \in S
    BY <1>1, <1>2, <1>7
  <2>2. 0 .. n \subseteq S
    <3> HIDE DEF S
    <3> QED BY <1>1, <2>1, CountingTo
  <2> QED BY <2>2
<1>9. ClusterByProximity(points) = stays[n]
  BY DEF ClusterByProximity
<1> HIDE DEF stays, Steps, G
<1>10. stays \in [0 .. n -> V] /\ stays[0] = first /\ \A i \in 1 .. n : stays[i] = Join(stays[i - 1], points[i])
  <2> HIDE DEF n, V, first
  <2> QED BY <1>1, <1>7, <1>8
<1>11. Clusters(stays, points)
  BY <1>9, <1>10 DEF Clusters
<1> QED BY <1>11

(* The stays of the first k points are the same, whatever follows.         *)
LEMMA SamePrefix ==
    ASSUME NEW points \in Histories, NEW more \in Histories,
           NEW p, NEW q, Clusters(p, points), Clusters(q, more),
           NEW k \in Nat, k =< Len(points), k =< Len(more),
           \A i \in 1 .. k : more[i] = points[i]
    PROVE  p[k] = q[k]
<1> DEFINE S == {i \in 0 .. k : p[i] = q[i]}
<1>1. 0 \in S /\ \A i \in 1 .. k : i - 1 \in S => i \in S
  <2>1. \A i \in 1 .. k : i \in 1 .. Len(points) /\ i \in 1 .. Len(more)
    BY DEF Histories
  <2>2. p[0] = q[0] /\ \A i \in 1 .. k : p[i] = Join(p[i - 1], points[i]) /\ q[i] = Join(q[i - 1], points[i])
    BY <2>1 DEF Clusters
  <2>3. \A i \in 1 .. k : p[i - 1] = q[i - 1] => p[i] = q[i]
    BY <2>2, Zenon
  <2> QED BY <2>2, <2>3
<1>2. 0 .. k \subseteq S
  <2> HIDE DEF S
  <2> QED BY <1>1, CountingTo
<1> QED BY <1>2

Near(stays, point) ==
    /\ stays # <<>>
    /\ HaversineDistance(stays[Len(stays)].anchor.pos, point.pos) =< ClusterRadius

Lengthened(stays, point, joined) ==
    /\ Len(stays) \in Nat /\ Len(stays) > 0 /\ Len(joined) = Len(stays)
    /\ \A i \in 1 .. Len(stays) - 1 : joined[i] = stays[i]
    /\ joined[Len(stays)].anchor = stays[Len(stays)].anchor
    /\ joined[Len(stays)].points = Append(stays[Len(stays)].points, point)

Started(stays, point, joined) ==
    /\ Len(stays) \in Nat /\ Len(joined) = Len(stays) + 1
    /\ \A i \in 1 .. Len(stays) : joined[i] = stays[i]
    /\ joined[Len(stays) + 1].anchor = point
    /\ joined[Len(stays) + 1].points = <<point>>

(* A point near the anchor of the last stay lengthens that stay, any other *)
(* starts one.                                                             *)
LEMMA JoinShape ==
    ASSUME NEW stays \in Seq(Stay), NEW point \in Reports
    PROVE  IF Near(stays, point) THEN Lengthened(stays, point, Join(stays, point))
                                 ELSE Started(stays, point, Join(stays, point))
<1> DEFINE n == Len(stays)
<1>1. CASE Near(stays, point)
  <2>1. n \in Nat /\ n > 0 /\ stays[n] \in Stay
    BY <1>1 DEF Near
  <2> DEFINE longer == [stays[n] EXCEPT !.points = Append(@, point)]
  <2>2. longer.anchor = stays[n].anchor /\ longer.points = Append(stays[n].points, point)
    BY <2>1 DEF Stay
  <2>3. Join(stays, point) = [stays EXCEPT ![n] = longer]
    BY <1>1 DEF Join, Near
  <2> HIDE DEF longer
  <2>4. /\ Join(stays, point)[n] = longer /\ Len(Join(stays, point)) = n
        /\ \A i \in 1 .. n - 1 : Join(stays, point)[i] = stays[i]
    BY <2>1, <2>3
  <2> QED BY <1>1, <2>1, <2>2, <2>4 DEF Lengthened
<1>2. CASE ~Near(stays, point)
  <2> DEFINE new == [points |-> <<point>>, anchor |-> point]
  <2>1. Join(stays, point) = Append(stays, new)
    BY <1>2 DEF Join, Near
  <2>2. new.anchor = point /\ new.points = <<point>>
    OBVIOUS
  <2> HIDE DEF new
  <2>3. /\ n \in Nat /\ Len(Join(stays, point)) = n + 1
        /\ \A i \in 1 .. n : Join(stays, point)[i] = stays[i]
        /\ Join(stays, point)[n + 1] = new
    BY <2>1
  <2> QED BY <1>2, <2>2, <2>3 DEF Started
<1> QED BY <1>1, <1>2

LEMMA JoinKeepsThePoints ==
    ASSUME NEW stays \in Seq(Stay), NEW point \in Reports
    PROVE  Points(Join(stays, point)) = Append(Points(stays), point)
<1> DEFINE n == Len(stays)
           joined == Join(stays, point)
           PointsOf(ss) == [i \in DOMAIN ss |-> ss[i].points]
<1>1. n \in Nat /\ joined \in Seq(Stay) /\ \A i \in 1 .. n : stays[i].points \in Seq(Reports)
  <2>1. \A i \in 1 .. n : stays[i] \in Stay
    OBVIOUS
  <2>2. \A s \in Stay : s.points \in Seq(Reports)
    BY DEF Stay, Histories
  <2>3. joined \in Seq(Stay) /\ n \in Nat
    BY JoinIsStays
  <2> HIDE DEF n, joined
  <2> QED BY <2>1, <2>2, <2>3
<1>2. \A ss \in Seq(Stay) : PointsOf(ss) \in Seq(Seq(Reports)) /\ Len(PointsOf(ss)) = Len(ss)
  <2> SUFFICES ASSUME NEW ss \in Seq(Stay)
               PROVE  PointsOf(ss) \in Seq(Seq(Reports)) /\ Len(PointsOf(ss)) = Len(ss)
    OBVIOUS
  <2>1. DOMAIN ss = 1 .. Len(ss) /\ Len(ss) \in Nat /\ \A i \in 1 .. Len(ss) : ss[i].points \in Seq(Reports)
    <3>1. \A i \in 1 .. Len(ss) : ss[i] \in Stay
      OBVIOUS
    <3>2. \A s \in Stay : s.points \in Seq(Reports)
      BY DEF Stay, Histories
    <3> QED BY <3>1, <3>2
  <2> QED BY <2>1
<1>3. <<point>> \in Seq(Reports)
  OBVIOUS
<1>4. CASE ~Near(stays, point)
  <2>1. PointsOf(joined) = Append(PointsOf(stays), <<point>>)
    <3>1. /\ Len(joined) = n + 1 /\ \A i \in 1 .. n : joined[i] = stays[i]
          /\ joined[n + 1].points = <<point>>
      BY <1>4, JoinShape DEF Started
    <3>2. DOMAIN joined = 1 .. n + 1 /\ DOMAIN stays = 1 .. n
      BY <1>1, <3>1
    <3>3. Append(PointsOf(stays), <<point>>) \in Seq(Seq(Reports))
      BY <1>2, <1>3
    <3> HIDE DEF joined
    <3> QED BY <1>1, <1>2, <3>1, <3>2, <3>3
  <2>2. FlattenSeq(Append(PointsOf(stays), <<point>>)) = FlattenSeq(PointsOf(stays)) \o <<point>>
    <3> HIDE DEF PointsOf
    <3> QED BY <1>2, <1>3, FlattenAppend
  <2>3. FlattenSeq(PointsOf(stays)) \in Seq(Reports)
    <3> HIDE DEF PointsOf
    <3> QED BY <1>2, <1>3, FlattenAppend
  <2>4. FlattenSeq(PointsOf(stays)) \o <<point>> = Append(FlattenSeq(PointsOf(stays)), point)
    BY <2>3, AppendIsConcat
  <2> QED BY <2>1, <2>2, <2>4 DEF Points
<1>5. CASE Near(stays, point)
  <2> DEFINE front == [i \in 1 .. n - 1 |-> stays[i].points]
             last == stays[n].points
  <2>1. /\ n > 0 /\ Len(joined) = n /\ \A i \in 1 .. n - 1 : joined[i] = stays[i]
        /\ joined[n].points = Append(last, point)
    BY <1>5, JoinShape DEF Lengthened
  <2>2. front \in Seq(Seq(Reports)) /\ Len(front) = n - 1
    BY <1>1, <2>1
  <2>3. last \in Seq(Reports) /\ Append(last, point) \in Seq(Reports)
    BY <1>1, <2>1
  <2>4. DOMAIN joined = 1 .. n /\ DOMAIN stays = 1 .. n
    BY <1>1, <2>1
  <2>5. PointsOf(stays) = Append(front, last) /\ PointsOf(joined) = Append(front, Append(last, point))
    <3> HIDE DEF joined, n
    <3> QED BY <1>1, <1>2, <2>1, <2>2, <2>3, <2>4
  <2> HIDE DEF front, last
  <2>6. /\ FlattenSeq(Append(front, last)) = FlattenSeq(front) \o last
        /\ FlattenSeq(Append(front, Append(last, point))) = FlattenSeq(front) \o Append(last, point)
        /\ FlattenSeq(front) \in Seq(Reports)
    BY <2>2, <2>3, FlattenAppend
  <2> DEFINE past == FlattenSeq(front)
  <2> HIDE DEF past
  <2>7. past \o Append(last, point) = Append(past \o last, point)
    <3>1. past \in Seq(Reports)
      BY <2>6 DEF past
    <3> QED BY <2>3, <3>1
  <2> QED BY <2>5, <2>6, <2>7 DEF Points, past
<1> QED BY <1>4, <1>5

(* The stays are each held together by the anchor they start with, and     *)
(* each out of reach of the one before it.                                 *)
HeldTogether(stay) ==
    /\ stay.anchor = stay.points[1]
    /\ \A j \in DOMAIN stay.points :
         HaversineDistance(stay.anchor.pos, stay.points[j].pos) =< ClusterRadius

WellSplit(stays) ==
    /\ \A i \in DOMAIN stays : stays[i].points # <<>> /\ HeldTogether(stays[i])
    /\ \A i \in 1 .. Len(stays) - 1 :
         HaversineDistance(stays[i].anchor.pos, stays[i + 1].anchor.pos) > ClusterRadius

LEMMA JoinKeepsTheSplit ==
    ASSUME NEW stays \in Seq(Stay), NEW point \in Reports, WellSplit(stays)
    PROVE  WellSplit(Join(stays, point))
<1> DEFINE n == Len(stays)
           joined == Join(stays, point)
<1>1. /\ n \in Nat /\ DOMAIN stays = 1 .. n /\ joined \in Seq(Stay)
      /\ \A i \in 1 .. n : stays[i] \in Stay
  BY JoinIsStays
<1>2. DOMAIN joined = 1 .. Len(joined)
  BY <1>1
<1>3. point.pos \in Int /\ \A i \in 1 .. n : stays[i].anchor.pos \in Int
  <2>1. \A s \in Stay : s.anchor \in Reports
    BY DEF Stay
  <2>2. \A r \in Reports : r.pos \in Int
    BY ReportAssumption DEF Reports
  <2> QED BY <1>1, <2>1, <2>2
<1>4. CASE Near(stays, point)
  <2>1. /\ n > 0 /\ Len(joined) = n /\ \A i \in 1 .. n - 1 : joined[i] = stays[i]
        /\ joined[n].anchor = stays[n].anchor
        /\ joined[n].points = Append(stays[n].points, point)
    BY <1>4, JoinShape DEF Lengthened
  <2>2. HaversineDistance(stays[n].anchor.pos, point.pos) =< ClusterRadius
    BY <1>4 DEF Near
  <2>3. stays[n].points # <<>> /\ HeldTogether(stays[n])
    BY <1>1, <2>1 DEF WellSplit
  <2> HIDE DEF n, joined
  <2>4. joined[n].points # <<>> /\ HeldTogether(joined[n])
    <3> DEFINE points == stays[n].points
               longer == Append(points, point)
    <3>1. points \in Seq(Reports)
      <4>1. stays[n] \in Stay
        BY <1>1, <2>1
      <4> QED BY <4>1 DEF Stay, Histories
    <3>2. points # <<>> /\ stays[n].anchor = points[1]
      BY <2>3 DEF HeldTogether
    <3>3. \A j \in DOMAIN points : HaversineDistance(stays[n].anchor.pos, points[j].pos) =< ClusterRadius
      BY <2>3 DEF HeldTogether
    <3> HIDE DEF points
    <3>4. /\ longer # <<>> /\ longer[1] = points[1]
          /\ \A j \in DOMAIN longer : (j \in DOMAIN points /\ longer[j] = points[j]) \/ longer[j] = point
      BY <3>1, <3>2
    <3> HIDE DEF longer
    <3>5. joined[n].points = longer
      BY <2>1 DEF longer, points
    <3>6. \A j \in DOMAIN longer : HaversineDistance(stays[n].anchor.pos, longer[j].pos) =< ClusterRadius
      BY <2>2, <3>3, <3>4
    <3> QED BY <2>1, <3>2, <3>4, <3>5, <3>6 DEF HeldTogether
  <2>5. \A i \in 1 .. n : joined[i].points # <<>> /\ HeldTogether(joined[i])
    <3>1. \A i \in 1 .. n : i = n \/ i \in 1 .. n - 1
      BY <1>1
    <3> QED BY <1>1, <2>1, <2>4, <3>1 DEF WellSplit
  <2>6. \A i \in 1 .. n : joined[i].anchor = stays[i].anchor
    <3>1. \A i \in 1 .. n : i = n \/ i \in 1 .. n - 1
      BY <1>1
    <3> QED BY <2>1, <3>1
  <2>7. \A i \in 1 .. n - 1 : HaversineDistance(joined[i].anchor.pos, joined[i + 1].anchor.pos) > ClusterRadius
    <3>1. \A i \in 1 .. n - 1 : i \in 1 .. n /\ i + 1 \in 1 .. n
      BY <1>1
    <3>2. \A i \in 1 .. n - 1 : HaversineDistance(stays[i].anchor.pos, stays[i + 1].anchor.pos) > ClusterRadius
      BY DEF WellSplit, n
    <3> QED BY <2>6, <3>1, <3>2
  <2> QED BY <1>2, <2>1, <2>5, <2>7 DEF WellSplit, joined
<1>5. CASE ~Near(stays, point)
  <2>1. /\ Len(joined) = n + 1 /\ \A i \in 1 .. n : joined[i] = stays[i]
        /\ joined[n + 1].anchor = point /\ joined[n + 1].points = <<point>>
    BY <1>5, JoinShape DEF Started
  <2>2. n > 0 => HaversineDistance(stays[n].anchor.pos, point.pos) > ClusterRadius
    <3> SUFFICES ASSUME n > 0 PROVE HaversineDistance(stays[n].anchor.pos, point.pos) > ClusterRadius
      OBVIOUS
    <3>1. ~(HaversineDistance(stays[n].anchor.pos, point.pos) =< ClusterRadius)
      BY <1>5 DEF Near
    <3>2. stays[n].anchor.pos \in Int
      BY <1>1, <1>3
    <3> HIDE DEF n
    <3>3. HaversineDistance(stays[n].anchor.pos, point.pos) \in Int
      BY <1>3, <3>2 DEF HaversineDistance, Abs
    <3> QED BY <3>1, <3>3, PlaceAssumption
  <2> HIDE DEF n, joined
  <2>3. joined[n + 1].points # <<>> /\ HeldTogether(joined[n + 1])
    <3>1. HaversineDistance(point.pos, point.pos) =< ClusterRadius
      BY <1>3, PlaceAssumption DEF HaversineDistance, Abs
    <3>2. <<point>> # <<>> /\ <<point>>[1] = point /\ DOMAIN <<point>> = {1}
      OBVIOUS
    <3> QED BY <2>1, <3>1, <3>2 DEF HeldTogether
  <2>4. \A i \in 1 .. n + 1 : joined[i].points # <<>> /\ HeldTogether(joined[i])
    <3>1. \A i \in 1 .. n + 1 : i = n + 1 \/ i \in 1 .. n
      BY <1>1
    <3> QED BY <1>1, <2>1, <2>3, <3>1 DEF WellSplit
  <2>5. \A i \in 1 .. n : HaversineDistance(joined[i].anchor.pos, joined[i + 1].anchor.pos) > ClusterRadius
    <3> SUFFICES ASSUME NEW i \in 1 .. n
                 PROVE  HaversineDistance(joined[i].anchor.pos, joined[i + 1].anchor.pos) > ClusterRadius
      OBVIOUS
    <3>1. CASE i = n
      BY <1>1, <2>1, <2>2, <3>1
    <3>2. CASE i \in 1 .. n - 1
      <4>1. i + 1 \in 1 .. n
        BY <1>1, <3>2
      <4>2. HaversineDistance(stays[i].anchor.pos, stays[i + 1].anchor.pos) > ClusterRadius
        BY <3>2 DEF WellSplit, n
      <4> QED BY <2>1, <4>1, <4>2
    <3> QED BY <1>1, <3>1, <3>2
  <2>6. (n + 1) - 1 = n
    BY <1>1
  <2> QED BY <1>2, <2>1, <2>4, <2>5, <2>6 DEF WellSplit, joined
<1> QED BY <1>4, <1>5

LEMMA NoStays == Points(<<>>) = <<>> /\ WellSplit(<<>>)
<1>1. Points(<<>>) = <<>>
  <2>1. [i \in DOMAIN <<>> |-> <<>>[i].points] = <<>>
    OBVIOUS
  <2>2. Len(<<>>) = 0
    OBVIOUS
  <2> QED BY <2>1, <2>2 DEF Points, FlattenSeq
<1>2. WellSplit(<<>>)
  BY DEF WellSplit
<1> QED BY <1>1, <1>2

(* The stays are of all the points, and well split.                        *)
LEMMA StaysOfAHistory ==
    ASSUME NEW points \in Histories
    PROVE  /\ ClusterByProximity(points) \in Seq(Stay)
           /\ Points(ClusterByProximity(points)) = points
           /\ WellSplit(ClusterByProximity(points))
<1> DEFINE n == Len(points)
<1>1. PICK st : Clusters(st, points)
  BY Clustered
<1>2. /\ n \in Nat /\ \A i \in 1 .. n : points[i] \in Reports
      /\ points = SubSeq(points, 1, n) /\ SubSeq(points, 1, 0) = <<>>
      /\ \A i \in 1 .. n : SubSeq(points, 1, i) = Append(SubSeq(points, 1, i - 1), points[i])
  <2>1. points \in Seq(Reports) /\ n \in Nat
    BY DEF Histories
  <2>2. ASSUME NEW i \in 1 .. n
        PROVE  SubSeq(points, 1, i) = Append(SubSeq(points, 1, i - 1), points[i])
    BY <2>1
  <2> QED BY <2>1, <2>2
<1>3. /\ st \in [0 .. n -> Seq(Stay)] /\ st[0] = <<>>
      /\ \A i \in 1 .. n : st[i] = Join(st[i - 1], points[i])
      /\ ClusterByProximity(points) = st[n]
  BY <1>1 DEF Clusters
<1> DEFINE S == {i \in 0 .. n : Points(st[i]) = SubSeq(points, 1, i) /\ WellSplit(st[i])}
<1> HIDE DEF n
<1>4. 0 \in S
  BY <1>2, <1>3, NoStays
<1>5. \A i \in 1 .. n : i - 1 \in S => i \in S
  <2> SUFFICES ASSUME NEW i \in 1 .. n, i - 1 \in S PROVE i \in S
    OBVIOUS
  <2>1. i - 1 \in 0 .. n /\ i \in 0 .. n
    BY <1>2
  <2>2. st[i - 1] \in Seq(Stay) /\ points[i] \in Reports /\ st[i] = Join(st[i - 1], points[i])
    BY <1>2, <1>3, <2>1
  <2>3. Points(st[i - 1]) = SubSeq(points, 1, i - 1) /\ WellSplit(st[i - 1])
    OBVIOUS
  <2>4. Points(st[i]) = Append(SubSeq(points, 1, i - 1), points[i])
    BY <2>2, <2>3, JoinKeepsThePoints
  <2>5. WellSplit(st[i])
    BY <2>2, <2>3, JoinKeepsTheSplit
  <2> QED BY <1>2, <2>1, <2>4, <2>5
<1>6. 0 .. n \subseteq S
  <2> HIDE DEF S
  <2> QED BY <1>2, <1>4, <1>5, CountingTo
<1> QED BY <1>2, <1>3, <1>6

(* The stays of some points are begun by those of the first of them: the   *)
(* last goes on, those before it are as they were.                         *)
Begins(past, stays) ==
    /\ Len(past) =< Len(stays)
    /\ \A i \in 1 .. Len(past) : /\ stays[i].anchor = past[i].anchor
                                 /\ i < Len(past) => stays[i] = past[i]

LEMMA JoinBegins ==
    ASSUME NEW past \in Seq(Stay), NEW stays \in Seq(Stay), NEW point \in Reports,
           Begins(past, stays)
    PROVE  /\ Begins(past, Join(stays, point))
           /\ \A i \in 1 .. Len(Join(stays, point)) :
                 \/ i \in 1 .. Len(stays) /\ Join(stays, point)[i].anchor = stays[i].anchor
                 \/ i = Len(stays) + 1 /\ Join(stays, point)[i].anchor = point
<1> DEFINE n == Len(stays)
           joined == Join(stays, point)
<1>1. n \in Nat /\ Len(past) \in Nat /\ Len(past) =< n
  BY DEF Begins
<1>2. \A i \in 1 .. Len(past) : /\ i \in 1 .. n
                                /\ stays[i].anchor = past[i].anchor
                                /\ i < Len(past) => stays[i] = past[i] /\ i \in 1 .. n - 1
  BY <1>1 DEF Begins
<1>3. CASE Near(stays, point)
  <2>1. /\ n > 0 /\ Len(joined) = n
        /\ \A i \in 1 .. n - 1 : joined[i] = stays[i]
        /\ joined[n].anchor = stays[n].anchor
    BY <1>3, JoinShape DEF Lengthened
  <2> HIDE DEF n, joined
  <2>2. \A i \in 1 .. n : joined[i].anchor = stays[i].anchor
    <3>1. \A i \in 1 .. n : i = n \/ i \in 1 .. n - 1
      BY <1>1
    <3> QED BY <2>1, <3>1
  <2>3. Begins(past, joined)
    BY <1>1, <1>2, <2>1, <2>2 DEF Begins
  <2> QED BY <2>1, <2>2, <2>3 DEF n, joined
<1>4. CASE ~Near(stays, point)
  <2>1. /\ Len(joined) = n + 1
        /\ \A i \in 1 .. n : joined[i] = stays[i]
        /\ joined[n + 1].anchor = point
    BY <1>4, JoinShape DEF Started
  <2> HIDE DEF n, joined
  <2>2. Begins(past, joined)
    BY <1>1, <1>2, <2>1 DEF Begins
  <2>3. \A i \in 1 .. n + 1 : i \in 1 .. n \/ i = n + 1
    BY <1>1
  <2> QED BY <2>1, <2>2, <2>3 DEF n, joined
<1> QED BY <1>3, <1>4

(* Those of the first k points begin those of all, and the stays after     *)
(* them are anchored at later points.                                      *)
LEMMA ClustersBegin ==
    ASSUME NEW points \in Histories, NEW st, Clusters(st, points),
           NEW k \in Nat, k =< Len(points)
    PROVE  /\ st[k] \in Seq(Stay) /\ st[Len(points)] \in Seq(Stay)
           /\ Begins(st[k], st[Len(points)])
           /\ \A i \in 1 .. Len(st[Len(points)]) :
                 i =< Len(st[k]) \/ \E m \in k + 1 .. Len(points) : st[Len(points)][i].anchor = points[m]
<1> DEFINE n == Len(points)
           past == st[k]
           Later(j) == \A i \in 1 .. Len(st[j]) :
                          i =< Len(past) \/ \E m \in k + 1 .. n : st[j][i].anchor = points[m]
           S == {j \in 0 .. n : j >= k => Begins(past, st[j]) /\ Later(j)}
<1>1. /\ n \in Nat /\ k =< n /\ \A i \in 1 .. n : points[i] \in Reports
      /\ \A i \in 0 .. n : st[i] \in Seq(Stay)
      /\ \A i \in 1 .. n : st[i] = Join(st[i - 1], points[i])
  <2>1. n \in Nat /\ \A i \in 1 .. n : points[i] \in Reports
    BY DEF Histories
  <2>2. st \in [0 .. n -> Seq(Stay)] /\ \A i \in 1 .. n : st[i] = Join(st[i - 1], points[i])
    BY DEF Clusters
  <2> HIDE DEF n
  <2> QED BY <2>1, <2>2 DEF n
<1>2. past \in Seq(Stay)
  BY <1>1
<1> HIDE DEF past, n
<1>3. Begins(past, past) /\ Later(k)
  <2>1. Len(past) \in Nat
    BY <1>2
  <2>2. Begins(past, past)
    BY <2>1 DEF Begins
  <2>3. \A i \in 1 .. Len(past) : i =< Len(past)
    BY <2>1
  <2> QED BY <2>2, <2>3 DEF past
<1>4. 0 \in S
  <2>1. 0 >= k => k = 0
    OBVIOUS
  <2> HIDE DEF Later
  <2> QED BY <1>1, <1>3, <2>1 DEF past
<1>5. \A i \in 1 .. n : i - 1 \in S => i \in S
  <2> SUFFICES ASSUME NEW i \in 1 .. n, i - 1 \in S, i >= k
               PROVE  Begins(past, st[i]) /\ Later(i)
    <3>1. \A i \in 1 .. n : i \in 0 .. n
      BY <1>1
    <3> HIDE DEF Later
    <3> QED BY <3>1
  <2>1. CASE i = k
    <3> HIDE DEF Later
    <3> QED BY <1>3, <2>1 DEF past
  <2>2. CASE i > k
    <3>1. i - 1 \in 0 .. n /\ i - 1 >= k /\ i \in k + 1 .. n
      BY <1>1, <2>2
    <3>2. Begins(past, st[i - 1]) /\ Later(i - 1)
      <4> HIDE DEF Later
      <4> QED BY <3>1
    <3>3. st[i - 1] \in Seq(Stay) /\ points[i] \in Reports /\ st[i] = Join(st[i - 1], points[i])
      BY <1>1, <3>1
    <3> DEFINE old == st[i - 1]
               joined == Join(old, points[i])
    <3>4. /\ Begins(past, joined)
          /\ \A h \in 1 .. Len(joined) : \/ h \in 1 .. Len(old) /\ joined[h].anchor = old[h].anchor
                                         \/ joined[h].anchor = points[i]
      <4> HIDE DEF Later
      <4> QED BY <1>2, <3>2, <3>3, JoinBegins
    <3>5. Later(i)
      <4> SUFFICES ASSUME NEW h \in 1 .. Len(joined)
                   PROVE  h =< Len(past) \/ \E m \in k + 1 .. n : joined[h].anchor = points[m]
        BY <3>3
      <4> HIDE DEF joined
      <4>1. CASE joined[h].anchor = points[i]
        BY <3>1, <4>1
      <4>2. CASE h \in 1 .. Len(old) /\ joined[h].anchor = old[h].anchor
        <5>1. h =< Len(past) \/ \E m \in k + 1 .. n : old[h].anchor = points[m]
          BY <3>2, <4>2
        <5> QED BY <4>2, <5>1
      <4> QED BY <3>4, <4>1, <4>2
    <3> HIDE DEF Later
    <3> QED BY <3>3, <3>4, <3>5
  <2> QED BY <2>1, <2>2, <1>1
<1>6. 0 .. n \subseteq S
  <2> HIDE DEF S
  <2> QED BY <1>1, <1>4, <1>5, CountingTo
<1>7. n \in 0 .. n /\ n >= k
  BY <1>1
<1>8. Begins(past, st[n]) /\ Later(n)
  <2> HIDE DEF Later
  <2> QED BY <1>6, <1>7
<1> QED BY <1>1, <1>2, <1>7, <1>8 DEF past, n

LEMMA InnerPlaceInv == TrailInv => InnerPlaceWins
<1> SUFFICES ASSUME TrailInv, NEW i \in DOMAIN trail, NEW p \in Places, NEW q \in Places,
                    HaversineDistance(trail[i].pos, p.pos) =< p.radius
             PROVE  /\ MatchPlaces(trail[i].pos, Places) # {}
                    /\ HaversineDistance(p.pos, q.pos) + p.radius < q.radius
                         => q \notin MatchPlaces(trail[i].pos, Places)
  BY DEF InnerPlaceWins
<1> DEFINE matches == {x \in Places : HaversineDistance(trail[i].pos, x.pos) =< x.radius}
           radii == {x.radius : x \in matches}
<1>1. p \in matches /\ \A x \in Places : x.radius \in Nat /\ x.pos \in Int
  BY PlaceAssumption
<1>2. radii \subseteq Nat /\ radii # {}
  BY <1>1
<1>3. PICK least \in radii : \A other \in radii : ~ (<<other, least>> \in OpToRel(<, Nat))
  BY <1>2, NatLessThanWellFounded, WFMin
<1>4. \A other \in radii : ~ (other < least)
  BY <1>2, <1>3 DEF OpToRel
<1>5. PICK x \in matches : x.radius = least
  OBVIOUS
<1>6. \A y \in matches : x.radius =< y.radius
  <2> SUFFICES ASSUME NEW y \in matches PROVE x.radius =< y.radius
    OBVIOUS
  <2>1. y.radius \in radii /\ x.radius \in Nat /\ y.radius \in Nat
    BY <1>1
  <2> QED BY <1>4, <1>5, <2>1
<1>7. MatchPlaces(trail[i].pos, Places) = {y \in matches : \A z \in matches : y.radius =< z.radius}
  BY DEF MatchPlaces
<1>8. x \in MatchPlaces(trail[i].pos, Places)
  BY <1>6, <1>7
<1>9. ASSUME HaversineDistance(p.pos, q.pos) + p.radius < q.radius
      PROVE  q \notin MatchPlaces(trail[i].pos, Places)
  <2>1. HaversineDistance(p.pos, q.pos) \in Nat
    BY <1>1 DEF HaversineDistance, Abs
  <2>2. p.radius \in Nat /\ q.radius \in Nat
    BY <1>1
  <2>3. p.radius < q.radius
    BY <1>9, <2>1, <2>2
  <2>4. ~ (q.radius =< p.radius)
    BY <2>2, <2>3
  <2> HIDE DEF matches
  <2> QED BY <1>1, <1>7, <2>4
<1> QED BY <1>8, <1>9

(* For any trail, cluster radius and places, the stays split the trail     *)
(* into consecutive runs, losing, repeating and reordering nothing, each   *)
(* held together by its anchor; and the inner of two nested places wins    *)
(* (stays.py:38-69).                                                       *)
THEOREM StaysAreTheTrail == TrailSpec => []StaysTellTheTrail
<1>1. TrailInv => StaysTellTheTrail
  BY StaysOfAHistory, InnerPlaceInv
     DEF TrailInv, StaysTellTheTrail, StaysPartitionTheTrail, WellSplit, HeldTogether
<1> QED BY <1>1, TrailInvInit, TrailInvStep, PTL DEF TrailSpec

(* For any trail and cluster radius, a report, also a late one, leaves the *)
(* stays that were over before its time as they are, and the one that had  *)
(* begun its anchor (stays.py:48-58).                                      *)
THEOREM ThePastIsFinal == TrailSpec => PastStaysAreFinal
<1>1. ASSUME TrailInv, [TrailNext]_trail,
             NEW r \in ToSet(trail') \ ToSet(trail),
             NEW i \in DOMAIN ClusterByProximity(trail),
             ClusterByProximity(trail)[i].anchor.t < r.t
      PROVE  /\ ClusterByProximity(trail')[i].anchor = ClusterByProximity(trail)[i].anchor
             /\ (/\ i < Len(ClusterByProximity(trail))
                 /\ ClusterByProximity(trail)[i + 1].anchor.t < r.t)
                  => ClusterByProximity(trail')[i] = ClusterByProximity(trail)[i]
  <2>1. trail' # trail /\ trail' # <<>>
    BY DEF ToSet
  <2>2. PICK k \in 1 .. Len(trail) + 1, s \in Reports : InsertedAt(k, s)
    BY <1>1, <2>1, OneReport
  <2> DEFINE n == Len(trail)
             longer == InsertAt(trail, k, s)
  <2>3. /\ n \in Nat /\ DOMAIN trail = 1 .. n /\ trail \in Histories /\ longer \in Histories
        /\ trail' = longer /\ Len(longer) = n + 1 /\ DOMAIN longer = 1 .. n + 1
        /\ \A j \in 1 .. k - 1 : longer[j] = trail[j]
        /\ longer[k] = s
        /\ \A j \in k + 1 .. n + 1 : longer[j] = trail[j - 1]
        /\ \A j \in 1 .. n : j < k \/ s.t < trail[j].t
        /\ \A j \in 1 .. n : trail[j].t \in Nat
        /\ s.t \in Nat
    <3>1. trail \in Histories
      BY <1>1 DEF TrailInv
    <3>2. \A j \in 1 .. n : trail[j] \in Reports
      BY <3>1 DEF Histories
    <3>3. \A x \in Reports : x.t \in Nat
      BY DEF Reports
    <3> QED BY <2>2, <3>1, <3>2, <3>3, InsertShape DEF InsertedAt
  <2> HIDE DEF n, longer
  <2>4. r = s
    <3>1. PICK j \in 1 .. n + 1 : r = longer[j]
      BY <2>3 DEF ToSet
    <3>2. \A h \in 1 .. n : r # trail[h]
      BY <2>3 DEF ToSet
    <3>3. j < k => j \in 1 .. k - 1 /\ j \in 1 .. n
      BY <2>3 DEF n
    <3>4. j > k => j \in k + 1 .. n + 1 /\ j - 1 \in 1 .. n
      BY <2>3
    <3> QED BY <2>3, <3>1, <3>2, <3>3, <3>4
  <2>5. PICK p : Clusters(p, trail)
    BY <2>3, Clustered
  <2>6. PICK q : Clusters(q, longer)
    BY <2>3, Clustered
  <2> DEFINE past == p[k - 1]
             before == p[n]
             after == q[n + 1]
  <2>7. k - 1 \in Nat /\ k - 1 =< n /\ k - 1 =< n + 1 /\ (k - 1) + 1 = k
    BY <2>3 DEF n
  <2>8. past = q[k - 1]
    <3> DEFINE h == k - 1
    <3>1. /\ h \in Nat /\ h =< Len(trail) /\ h =< Len(longer)
          /\ \A j \in 1 .. h : longer[j] = trail[j]
      BY <2>3, <2>7 DEF n
    <3> HIDE DEF h
    <3>2. p[h] = q[h]
      BY <2>3, <2>5, <2>6, <3>1, SamePrefix
    <3> QED BY <3>2 DEF h
  <2>9. /\ past \in Seq(Stay) /\ before \in Seq(Stay) /\ Begins(past, before)
        /\ \A j \in 1 .. Len(before) :
              j =< Len(past) \/ \E m \in k .. n : before[j].anchor = trail[m]
    BY <2>3, <2>5, <2>7, ClustersBegin DEF n
  <2>10. Begins(past, after)
    BY <2>3, <2>6, <2>7, <2>8, ClustersBegin
  <2>11. ClusterByProximity(trail) = before /\ ClusterByProximity(trail') = after
    BY <2>3, <2>5, <2>6 DEF Clusters, n
  <2> HIDE DEF past, before, after
  <2>12. ASSUME NEW j \in 1 .. Len(before), before[j].anchor.t < r.t
         PROVE  j \in 1 .. Len(past)
    <3>1. \A m \in k .. n : m \in 1 .. n /\ ~(m < k)
      BY <2>3
    <3>2. \A m \in k .. n : ~(trail[m].t < r.t)
      BY <2>3, <2>4, <3>1
    <3>3. Len(past) \in Nat
      BY <2>9
    <3> QED BY <2>9, <2>12, <3>2, <3>3
  <2>13. i \in 1 .. Len(before) /\ Len(before) \in Nat /\ Len(past) \in Nat
    BY <2>9, <2>11
  <2>14. i \in 1 .. Len(past)
    BY <1>1, <2>11, <2>12, <2>13
  <2>15. after[i].anchor = before[i].anchor
    BY <2>9, <2>10, <2>14 DEF Begins
  <2>16. ASSUME i < Len(before), before[i + 1].anchor.t < r.t
         PROVE  after[i] = before[i]
    <3>1. i + 1 \in 1 .. Len(before)
      BY <2>13, <2>16
    <3>2. i + 1 \in 1 .. Len(past)
      BY <2>12, <2>16, <3>1
    <3>3. i < Len(past)
      BY <2>13, <3>2
    <3> QED BY <2>9, <2>10, <2>14, <3>3 DEF Begins
  <2> QED BY <2>11, <2>15, <2>16
<1>2. TrailInv /\ [TrailNext]_trail =>
        [LET before == ClusterByProximity(trail)
             after == ClusterByProximity(trail')
         IN  \A r \in ToSet(trail') \ ToSet(trail) : \A i \in DOMAIN before :
                before[i].anchor.t < r.t =>
                   /\ after[i].anchor = before[i].anchor
                   /\ (i < Len(before) /\ before[i + 1].anchor.t < r.t) => after[i] = before[i]]_trail
  BY <1>1, Zenon
<1> QED BY <1>2, TrailInvInit, TrailInvStep, PTL DEF TrailSpec, PastStaysAreFinal
=============================================================================
