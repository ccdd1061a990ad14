---------------------------- MODULE DiagnosisProofs ----------------------------
(***************************************************************************)
(* Theorems about Diagnosis: the type invariant, that a track record moves *)
(* the ranking by no more than its weight, and that what runs without a    *)
(* human has earned it.                                                    *)
(***************************************************************************)
EXTENDS Diagnosis, FiniteSetTheorems, TLAPS

LEMMA OneIs == One = 10000
BY DEF One

LEMMA Within == ASSUME NEW x \in 0 .. One PROVE x \in Nat /\ x <= 10000 /\ x <= One
BY DEF One

LEMMA Into == ASSUME NEW x \in Nat, x <= 10000 PROVE x \in 0 .. One
BY DEF One

LEMMA Bounds == MaxIncidents \in Nat /\ MaxChanges \in Nat /\ MaxFaults \in Nat
BY DiagnosisAssumption

LEMMA Numbers == SuppressAt \in Nat /\ MinSamples \in Nat
<1>1. SuppressAt \in 0 .. One /\ MinSamples \in Nat
  BY DiagnosisAssumption
<1>2. QED
  BY ONLY <1>1, OneIs

LEMMA Given ==
  /\ IsFiniteSet(Books) /\ None \notin Books
  /\ "rollback-deploy" \in Books /\ "restart-pod" \in Books /\ "scale-service" \in Books
  /\ NoFit \notin Fits
  /\ Deployments \subseteq Settings /\ Registries \subseteq [Books -> Modes]
BY DiagnosisAssumption

LEMMA FaultsType == ASSUME DiagnosisTypeOK PROVE faults \in Nat
<1>1. faults \in 0 .. MaxFaults
  BY DEF DiagnosisTypeOK
<1>2. QED
  BY ONLY <1>1

------------------------------------------------------------------------------
(* Arithmetic.                                                             *)

LEMMA MaxOfTwo ==
  ASSUME NEW a \in Int, NEW b \in Int
  PROVE  Max({a, b}) \in {a, b} /\ Max({a, b}) >= a /\ Max({a, b}) >= b
<1>1. \E x \in {a, b} : \A y \in {a, b} : x >= y
  OBVIOUS
<1>2. Max({a, b}) \in {a, b} /\ \A y \in {a, b} : Max({a, b}) >= y
  BY <1>1 DEF Max
<1>3. QED
  BY <1>2

LEMMA MinOfTwo ==
  ASSUME NEW a \in Int, NEW b \in Int
  PROVE  Min({a, b}) \in {a, b} /\ Min({a, b}) <= a /\ Min({a, b}) <= b
<1>1. \E x \in {a, b} : \A y \in {a, b} : x =< y
  OBVIOUS
<1>2. Min({a, b}) \in {a, b} /\ \A y \in {a, b} : Min({a, b}) =< y
  BY <1>1 DEF Min
<1>3. QED
  BY <1>2

LEMMA TimesGrows ==
  ASSUME NEW a \in Nat, NEW b \in Nat, NEW c \in Nat, b <= c
  PROVE  a * b <= a * c
<1>1. PICK d \in Nat : c = b + d
  <2>1. c - b \in Nat /\ c = b + (c - b)
    OBVIOUS
  <2>2. QED
    BY <2>1
<1>2. a * c = a * b + a * d
  BY <1>1
<1>3. a * b \in Nat /\ a * d \in Nat
  OBVIOUS
<1>4. QED
  BY <1>2, <1>3

LEMMA ShareRange ==
  ASSUME NEW good \in Nat, NEW all \in Nat, all # 0, good <= all
  PROVE  (good * One) \div all \in 0 .. One
<1>1. good * One \in Nat /\ good * One <= all * One
  BY DEF One
<1>2. PICK q : q = (good * One) \div all
  OBVIOUS
<1>3. q \in Int /\ all * q <= good * One /\ good * One < all * q + all
  BY <1>1, <1>2
<1>4. q >= 0
  <2>1. SUFFICES ASSUME q <= -1 PROVE FALSE
    BY <1>3
  <2>2. all * q <= -all
    BY <1>3, <2>1
  <2>3. QED
    BY <1>1, <1>3, <2>2
<1>5. q <= One
  <2>1. SUFFICES ASSUME q >= One + 1 PROVE FALSE
    BY <1>3 DEF One
  <2>2. all * q >= all * (One + 1)
    BY <1>3, <2>1, <1>4, TimesGrows DEF One
  <2>3. all * (One + 1) = all * One + all
    BY DEF One
  <2>4. good * One \in Int /\ all * One \in Int /\ all * q \in Int /\ all > 0
    BY <1>3 DEF One
  <2>5. QED
    BY ONLY all \in Nat, <1>1, <1>3, <2>2, <2>3, <2>4
<1>6. QED
  BY <1>2, <1>3, <1>4, <1>5

------------------------------------------------------------------------------
(* Sums over the playbooks, and rows that are waiting.                     *)

Units(f) == UNION {{b} \X (1 .. f[b]) : b \in Books}

LEMMA UnitsFinite ==
  ASSUME NEW f \in [Books -> Nat]
  PROVE  IsFiniteSet(Units(f)) /\ Cardinality(Units(f)) \in Nat
<1> DEFINE g == [b \in Books |-> {b} \X (1 .. f[b])]
           S == {{b} \X (1 .. f[b]) : b \in Books}
<1>1. g \in Surjection(Books, S)
  BY DEF Surjection
<1>2. IsFiniteSet(S)
  BY <1>1, FS_Surjection, Given
<1>3. ASSUME NEW b \in Books PROVE IsFiniteSet({b} \X (1 .. f[b]))
  <2>1. f[b] \in Int
    OBVIOUS
  <2>2. IsFiniteSet({b})
    BY FS_Singleton
  <2>3. IsFiniteSet(1 .. f[b])
    BY <2>1, FS_Interval
  <2>4. QED
    BY <2>2, <2>3, FS_Product
<1>4. \A T \in S : IsFiniteSet(T)
  BY <1>3
<1>5. IsFiniteSet(UNION S)
  BY <1>2, <1>4, FS_UNION
<1>6. QED
  BY <1>5, FS_CardinalityType DEF Units

LEMMA SumBump ==
  ASSUME NEW f \in [Books -> Nat], NEW g \in [Books -> Nat], NEW b \in Books,
         g[b] = f[b] + 1, \A c \in Books \ {b} : g[c] = f[c]
  PROVE  Sum(g) = Sum(f) + 1
<1> DEFINE u == <<b, f[b] + 1>>
<1>1. u \notin Units(f)
  BY DEF Units
<1>2. Units(g) = Units(f) \cup {u}
  <2>1. Units(f) \cup {u} \subseteq Units(g)
    <3>1. ASSUME NEW c \in Books, NEW i \in 1 .. f[c] PROVE <<c, i>> \in Units(g)
      <4>1. i \in 1 .. g[c]
        OBVIOUS
      <4>2. <<c, i>> \in {c} \X (1 .. g[c])
        BY <4>1
      <4>3. QED
        BY <4>2 DEF Units
    <3>2. u \in {b} \X (1 .. g[b])
      OBVIOUS
    <3>3. u \in Units(g)
      BY <3>2 DEF Units
    <3>4. \A x \in Units(f) : \E c \in Books : \E i \in 1 .. f[c] : x = <<c, i>>
      BY DEF Units
    <3>5. QED
      BY <3>1, <3>3, <3>4
  <2>2. Units(g) \subseteq Units(f) \cup {u}
    <3>1. ASSUME NEW c \in Books, NEW i \in 1 .. g[c] PROVE <<c, i>> \in Units(f) \cup {u}
      <4>1. CASE i \in 1 .. f[c]
        <5>1. <<c, i>> \in {c} \X (1 .. f[c])
          BY <4>1
        <5>2. QED
          BY <5>1 DEF Units
      <4>2. CASE i \notin 1 .. f[c]
        <5>1. c = b /\ i = f[b] + 1
          BY <4>2
        <5>2. QED
          BY <5>1
      <4>3. QED
        BY <4>1, <4>2
    <3>2. \A x \in Units(g) : \E c \in Books : \E i \in 1 .. g[c] : x = <<c, i>>
      BY DEF Units
    <3>3. QED
      BY <3>1, <3>2
  <2>3. QED
    BY <2>1, <2>2
<1>3. Cardinality(Units(f) \cup {u}) = Cardinality(Units(f)) + 1
  BY <1>1, UnitsFinite, FS_AddElement
<1>4. Sum(f) = Cardinality(Units(f)) /\ Sum(g) = Cardinality(Units(g))
  BY DEF Sum, Units
<1>5. QED
  BY <1>2, <1>3, <1>4

LEMMA SumNothing ==
  ASSUME NEW f \in [Books -> Nat], \A b \in Books : f[b] = 0 PROVE Sum(f) = 0
<1>1. Units(f) = {}
  BY DEF Units
<1>2. QED
  BY <1>1, FS_EmptySet DEF Sum, Units

LEMMA SumType == ASSUME NEW f \in [Books -> Nat] PROVE Sum(f) \in Nat
BY UnitsFinite DEF Sum, Units

(* How many entries of a queue are of a kind.                              *)
Places(q, kind) == {i \in 1 .. Len(q) : q[i] \in kind}
Waiting(q, kind) == Cardinality(Places(q, kind))

LEMMA PlacesFinite ==
  ASSUME NEW S, NEW q \in Seq(S), NEW kind
  PROVE  IsFiniteSet(Places(q, kind)) /\ Waiting(q, kind) \in Nat
<1>1. IsFiniteSet(1 .. Len(q))
  BY FS_Interval
<1>2. QED
  BY <1>1, FS_Subset, FS_CardinalityType DEF Places, Waiting

LEMMA WaitingAppend ==
  ASSUME NEW S, NEW q \in Seq(S), NEW x \in S, NEW kind
  PROVE  Waiting(Append(q, x), kind) = Waiting(q, kind) + IF x \in kind THEN 1 ELSE 0
<1>1. /\ Len(q) \in Nat /\ Len(Append(q, x)) = Len(q) + 1
      /\ Append(q, x)[Len(q) + 1] = x /\ \A i \in 1 .. Len(q) : Append(q, x)[i] = q[i]
  OBVIOUS
<1>2. CASE x \in kind
  <2>1. Places(Append(q, x), kind) = Places(q, kind) \cup {Len(q) + 1}
    BY <1>1, <1>2 DEF Places
  <2>2. Len(q) + 1 \notin Places(q, kind)
    BY <1>1 DEF Places
  <2>3. QED
    BY <1>2, <2>1, <2>2, PlacesFinite, FS_AddElement DEF Waiting
<1>3. CASE x \notin kind
  <2>1. Places(Append(q, x), kind) = Places(q, kind)
    BY <1>1, <1>3 DEF Places
  <2>2. QED
    BY <1>3, <2>1, PlacesFinite DEF Waiting
<1>4. QED
  BY <1>2, <1>3

LEMMA WaitingTail ==
  ASSUME NEW S, NEW q \in Seq(S), q # <<>>, NEW kind
  PROVE  Waiting(q, kind) = Waiting(Tail(q), kind) + IF Head(q) \in kind THEN 1 ELSE 0
<1>1. /\ Len(q) \in Nat \ {0} /\ Len(Tail(q)) = Len(q) - 1 /\ Tail(q) \in Seq(S)
      /\ Head(q) = q[1] /\ \A i \in 1 .. Len(q) - 1 : Tail(q)[i] = q[i + 1]
  OBVIOUS
<1> DEFINE rest == Places(q, kind) \ {1}
           f == [i \in Places(Tail(q), kind) |-> i + 1]
<1>2. f \in Bijection(Places(Tail(q), kind), rest)
  <2>1. f \in Injection(Places(Tail(q), kind), rest)
    BY <1>1 DEF Places, Injection, IsInjective
  <2>2. \A j \in rest : j - 1 \in Places(Tail(q), kind) /\ f[j - 1] = j
    BY <1>1 DEF Places
  <2>3. QED
    BY <2>1, <2>2 DEF Bijection, Injection, Surjection
<1>3. Cardinality(rest) = Waiting(Tail(q), kind)
  <2>1. IsFiniteSet(Places(Tail(q), kind))
    BY <1>1, PlacesFinite
  <2>2. ExistsBijection(Places(Tail(q), kind), rest)
    BY <1>2 DEF ExistsBijection
  <2>3. QED
    BY <2>1, <2>2, FS_Bijection DEF Waiting
<1>4. Cardinality(rest) = IF 1 \in Places(q, kind) THEN Waiting(q, kind) - 1 ELSE Waiting(q, kind)
  BY PlacesFinite, FS_RemoveElement DEF Waiting
<1>5. 1 \in Places(q, kind) <=> Head(q) \in kind
  BY <1>1 DEF Places
<1>6. QED
  BY <1>1, <1>3, <1>4, <1>5, PlacesFinite

------------------------------------------------------------------------------
(* The ranking.                                                            *)

LEMMA RuleType ==
  ASSUME NEW sign, NEW signs, NEW confidence \in 0 .. One, NEW book \in Books
  PROVE  Rule(sign, confidence, book, signs) \in Seq(Hypotheses)
<1>1. <<[book |-> book, confidence |-> confidence]>> \in Seq(Hypotheses)
  BY DEF Hypotheses
<1>2. <<>> \in Seq(Hypotheses)
  OBVIOUS
<1>3. QED
  BY <1>1, <1>2 DEF Rule

LEMMA FiredType ==
  ASSUME NEW signs PROVE Fired(signs) \in Seq(Hypotheses)
<1> DEFINE r1 == Rule("deploy", 8000, "rollback-deploy", signs)
           r2 == Rule("down", 7000, "restart-pod", signs)
           r3 == Rule("memory", 6500, "restart-pod", signs)
           r4 == Rule("saturation", 6000, "scale-service", signs)
           r5 == Rule("latency", 5500, "scale-service", signs)
           r6 == Rule("db_pool", 6200, "restart-pod", signs)
           r7 == Rule("error", 5800, "restart-pod", signs)
           hits == r1 \o r2 \o r3 \o r4 \o r5 \o r6 \o r7
<1>1. /\ "rollback-deploy" \in Books /\ "restart-pod" \in Books /\ "scale-service" \in Books
      /\ {8000, 7000, 6500, 6000, 5500, 6200, 5800, 2000} \subseteq 0 .. One
  BY Given, OneIs
<1>2. /\ r1 \in Seq(Hypotheses) /\ r2 \in Seq(Hypotheses) /\ r3 \in Seq(Hypotheses)
      /\ r4 \in Seq(Hypotheses) /\ r5 \in Seq(Hypotheses) /\ r6 \in Seq(Hypotheses)
      /\ r7 \in Seq(Hypotheses)
  BY <1>1, RuleType
<1>3. <<Fallback>> \in Seq(Hypotheses)
  BY <1>1 DEF Fallback, Hypotheses
<1>4. Fired(signs) = IF hits = <<>> THEN <<Fallback>> ELSE hits
  BY DEF Fired
<1> HIDE DEF r1, r2, r3, r4, r5, r6, r7
<1>5. hits \in Seq(Hypotheses)
  BY <1>2
<1>6. QED
  BY <1>3, <1>4, <1>5

LEMMA FitRange ==
  ASSUME NEW f \in Fits PROVE Max({0, f}) \in 0 .. One
<1>1. f \in -One .. One
  BY DiagnosisAssumption
<1>2. f \in Int /\ f <= 10000 /\ One = 10000
  BY <1>1 DEF One
<1>3. PICK m : m = Max({0, f})
  OBVIOUS
<1>4. m \in {0, f} /\ m >= 0
  BY <1>2, <1>3, MaxOfTwo
<1>5. m \in Nat /\ m <= 10000
  BY ONLY <1>2, <1>4
<1>6. m \in 0 .. One
  BY ONLY <1>5, Into
<1>7. QED
  BY ONLY <1>3, <1>6

LEMMA ScoredType ==
  ASSUME NEW hyps \in Seq(Hypotheses), NEW fit \in [DOMAIN hyps -> Fits \cup {NoFit}]
  PROVE  Scored(hyps, fit) \in Seq(Hypotheses)
<1>1. ASSUME NEW i \in DOMAIN hyps PROVE Scored(hyps, fit)[i] \in Hypotheses
  <2>1. hyps[i] \in Hypotheses /\ fit[i] \in Fits \cup {NoFit}
    OBVIOUS
  <2>2. CASE fit[i] # NoFit
    <3>1. Max({0, fit[i]}) \in 0 .. One
      BY <2>1, <2>2, FitRange
    <3>2. [hyps[i] EXCEPT !.confidence = Max({0, fit[i]})] \in Hypotheses
      BY <2>1, <3>1 DEF Hypotheses
    <3>3. QED
      BY <2>1, <3>2 DEF Scored
  <2>3. CASE fit[i] = NoFit
    BY <2>1, <2>3 DEF Scored
  <2>4. QED
    BY <2>2, <2>3
<1>2. DOMAIN Scored(hyps, fit) = 1 .. Len(hyps) /\ DOMAIN hyps = 1 .. Len(hyps) /\ Len(hyps) \in Nat
  BY DEF Scored
<1>3. Scored(hyps, fit) \in [1 .. Len(hyps) -> Hypotheses]
  BY <1>1, <1>2 DEF Scored
<1>4. QED
  BY <1>2, <1>3

LEMMA BoostRange ==
  ASSUME NEW hyp \in Hypotheses, NEW shares \in [Books -> 0 .. One]
  PROVE  Boost(hyp, shares) \in Nat /\ Boost(hyp, shares) <= 1500
<1>1. hyp.book \in Books \cup {None}
  BY DEF Hypotheses
<1>2. CASE hyp.book = None
  BY ONLY <1>2 DEF Boost
<1>3. CASE hyp.book # None
  <2>1. PICK share : share = shares[hyp.book] /\ share \in 0 .. One
    BY <1>1, <1>3
  <2>2. share \in Nat /\ share <= 10000
    BY ONLY <2>1, Within
  <2>3. (15 * share) \div 100 \in Nat /\ (15 * share) \div 100 <= 1500
    BY ONLY <2>2
  <2>4. Boost(hyp, shares) = (15 * share) \div 100
    BY ONLY <1>3, <2>1 DEF Boost
  <2>5. QED
    BY ONLY <2>3, <2>4
<1>4. QED
  BY <1>2, <1>3

LEMMA ScoreRange ==
  ASSUME NEW hyp \in Hypotheses, NEW shares \in [Books -> 0 .. One]
  PROVE  /\ hyp.confidence \in Nat /\ Score(hyp, shares) \in Nat
         /\ hyp.confidence <= Score(hyp, shares)
         /\ Score(hyp, shares) <= hyp.confidence + 1500
<1>1. PICK c : c = hyp.confidence
  OBVIOUS
<1>2. c \in 0 .. One
  BY <1>1 DEF Hypotheses
<1>3. c \in Nat /\ c <= One /\ One \in Nat
  <2>1. c \in Nat /\ c <= One
    BY ONLY <1>2, Within
  <2>2. One \in Nat
    BY ONLY OneIs
  <2>3. QED
    BY ONLY <2>1, <2>2
<1>4. PICK boost : boost = Boost(hyp, shares)
  OBVIOUS
<1>5. boost \in Nat /\ boost <= 1500
  BY <1>4, BoostRange
<1>6. PICK score : score = Score(hyp, shares)
  OBVIOUS
<1>7. score = Min({One, c + boost})
  BY ONLY <1>1, <1>4, <1>6 DEF Score
<1>8. c + boost \in Int /\ One \in Int
  BY ONLY <1>3, <1>5
<1>9. score \in {One, c + boost} /\ score <= One /\ score <= c + boost
  BY ONLY <1>7, <1>8, MinOfTwo
<1>10. score \in Nat /\ c <= score /\ score <= c + 1500
  <2>1. score \in Nat
    BY ONLY <1>3, <1>5, <1>9
  <2>2. c <= score
    BY ONLY <1>3, <1>5, <1>9
  <2>3. score <= c + 1500
    BY ONLY <1>3, <1>5, <1>9, <2>1
  <2>4. QED
    BY ONLY <2>1, <2>2, <2>3
<1>11. QED
  BY ONLY <1>1, <1>3, <1>6, <1>10

LEMMA RankedType ==
  ASSUME NEW hyps \in Seq(Hypotheses), NEW shares \in [Books -> 0 .. One],
         NEW r \in Ranked(hyps, shares)
  PROVE  /\ r \in Seq(Hypotheses)
         /\ \A i, j \in DOMAIN r : i < j => r[j].confidence - r[i].confidence <= 1500
<1>1. PICK f \in Injection(DOMAIN hyps, DOMAIN hyps) :
        /\ r = [i \in DOMAIN hyps |-> hyps[f[i]]]
        /\ \A i, j \in DOMAIN hyps : i < j =>
             Score(hyps[f[i]], shares) >= Score(hyps[f[j]], shares)
  <2>1. PICK f \in Injection(DOMAIN hyps, DOMAIN hyps) :
          /\ r = [i \in DOMAIN hyps |-> hyps[f[i]]]
          /\ \A i, j \in DOMAIN hyps : i < j =>
               LET a == Score(hyps[f[i]], shares)
                   b == Score(hyps[f[j]], shares)
               IN  a > b \/ a = b
    BY DEF Ranked
  <2>2. f \in [DOMAIN hyps -> DOMAIN hyps]
    BY ONLY <2>1, f \in Injection(DOMAIN hyps, DOMAIN hyps) DEF Injection
  <2>3. \A i \in DOMAIN hyps : Score(hyps[f[i]], shares) \in Nat
    BY <2>2, ScoreRange
  <2>4. \A i, j \in DOMAIN hyps : i < j =>
          Score(hyps[f[i]], shares) >= Score(hyps[f[j]], shares)
    BY <2>1, <2>3
  <2>5. QED
    BY <2>1, <2>4
<1>2. f \in [DOMAIN hyps -> DOMAIN hyps]
  BY ONLY <1>1, f \in Injection(DOMAIN hyps, DOMAIN hyps) DEF Injection
<1>3. DOMAIN hyps = 1 .. Len(hyps) /\ Len(hyps) \in Nat /\ DOMAIN r = DOMAIN hyps
  BY <1>1
<1>4. \A i \in DOMAIN hyps : r[i] = hyps[f[i]] /\ hyps[f[i]] \in Hypotheses
  BY <1>1, <1>2
<1>5. r \in Seq(Hypotheses)
  <2>1. r \in [1 .. Len(hyps) -> Hypotheses]
    BY <1>1, <1>3, <1>4
  <2>2. QED
    BY <1>3, <2>1
<1>6. ASSUME NEW i \in DOMAIN r, NEW j \in DOMAIN r, i < j
      PROVE  r[j].confidence - r[i].confidence <= 1500
  <2>1. Score(r[i], shares) >= Score(r[j], shares) /\ r[i] \in Hypotheses /\ r[j] \in Hypotheses
    BY <1>1, <1>3, <1>4, <1>6
  <2> DEFINE ci == r[i].confidence
             cj == r[j].confidence
             si == Score(r[i], shares)
             sj == Score(r[j], shares)
  <2>2. ci \in Nat /\ si \in Nat /\ si <= ci + 1500
    BY <2>1, ScoreRange
  <2>3. cj \in Nat /\ sj \in Nat /\ cj <= sj
    BY <2>1, ScoreRange
  <2>4. si >= sj
    BY <2>1
  <2> HIDE DEF ci, cj, si, sj
  <2>5. cj - ci <= 1500
    BY ONLY <2>2, <2>3, <2>4
  <2>6. QED
    BY <2>5 DEF ci, cj
<1>7. QED
  BY <1>5, <1>6

------------------------------------------------------------------------------
(* Types.  A share is one only because no more rows worked than there are. *)

RowsAddUp == \A s \in Signatures, b \in Books : records[s][b].good <= records[s][b].all

TypeInv == DiagnosisTypeOK /\ RowsAddUp

LEMMA RowsType ==
  ASSUME DiagnosisTypeOK, NEW s \in Signatures, NEW b \in Books
  PROVE  /\ records[s][b] \in Counts
         /\ records[s][b].all \in Nat /\ records[s][b].good \in Nat
         /\ records[s][b].real \in Nat /\ records[s][b].worked \in Nat
         /\ fixed[s][b] \in Nat
<1>1. records[s][b] \in Counts /\ fixed[s][b] \in Nat
  BY DEF DiagnosisTypeOK
<1>2. QED
  BY <1>1 DEF Counts

LEMMA SharesType ==
  ASSUME TypeInv, NEW s \in Signatures, NEW b \in Books
  PROVE  Reliability(s, b) \in 0 .. One
<1>1. PICK good, all : good = records[s][b].good /\ all = records[s][b].all
  OBVIOUS
<1>2. good \in Nat /\ all \in Nat /\ good <= all
  BY <1>1, RowsType DEF TypeInv, RowsAddUp
<1>3. Reliability(s, b) = IF all = 0 THEN 0 ELSE (good * One) \div all
  BY <1>1 DEF Reliability
<1>4. CASE all = 0
  BY ONLY <1>3, <1>4, OneIs
<1>5. CASE all # 0
  <2>1. (good * One) \div all \in 0 .. One
    BY ONLY <1>2, <1>5, ShareRange
  <2>2. QED
    BY ONLY <1>3, <1>5, <2>1
<1>6. QED
  BY <1>4, <1>5

LEMMA HandType ==
  ASSUME DiagnosisTypeOK, hand.stage \in {"select", "quiet", "run"}
  PROVE  /\ hand \in Hands /\ hand.sig \in Signatures
         /\ hand.stage = "select" => hand.book \in Books \cup {None} /\ hand.quiet \in BOOLEAN
         /\ hand.stage # "select" => hand.book \in Books /\ hand.mode \in Modes
         /\ hand.stage = "run" => hand.waived \in BOOLEAN
<1>1. hand \in Hands
  BY DEF DiagnosisTypeOK, Idle
<1>2. CASE hand \in [stage : {"select"}, sig : Signatures, quiet : BOOLEAN, book : Books \cup {None}]
  BY <1>1, <1>2
<1>3. CASE hand \in [stage : {"quiet"}, sig : Signatures, book : Books, mode : Modes]
  BY <1>1, <1>3
<1>4. CASE hand \in [stage : {"run"}, sig : Signatures, book : Books, mode : Modes,
                     waived : BOOLEAN]
  BY <1>1, <1>4
<1>5. QED
  BY <1>1, <1>2, <1>3, <1>4 DEF Hands

LEMMA TypeInit == Init => TypeInv
<1> SUFFICES ASSUME Init PROVE TypeInv
  OBVIOUS
<1>1. settings \in Settings /\ registry \in [Books -> Modes]
  BY Given DEF Init
<1>2. NoRows \in Counts /\ NoRows.good = 0 /\ NoRows.all = 0
  BY DEF NoRows, Counts
<1>3. records \in [Signatures -> [Books -> Counts]]
  BY <1>2 DEF Init
<1>4. RowsAddUp
  BY <1>2 DEF Init, RowsAddUp
<1>5. table \in [Signatures -> [Books -> 0 .. One]]
  BY OneIs DEF Init
<1>6. fixed \in [Signatures -> [Books -> Nat]]
  BY DEF Init
<1>7. /\ detected \in Seq(Situations) /\ diagnosed \in Seq(Diagnoses) /\ outcomes \in Seq(Rows)
      /\ ranking \in Seq(Hypotheses) /\ (ranking # <<>> => detected # <<>>)
  BY DEF Init
<1>8. /\ incidents \in 0 .. MaxIncidents /\ changes \in 0 .. MaxChanges /\ faults \in 0 .. MaxFaults
      /\ quieted \subseteq Signatures /\ hand \in Hands \cup {Idle}
  BY Bounds DEF Init
<1>9. QED
  BY <1>1, <1>3, <1>4, <1>5, <1>6, <1>7, <1>8 DEF TypeInv, DiagnosisTypeOK

LEMMA RefreshType ==
  ASSUME TypeInv, RefreshReliability PROVE TypeInv'
<1>1. quieted' \subseteq Signatures
  BY DEF RefreshReliability
<1>2. UNCHANGED <<settings, stores, table, topics, ranking, hand, history>>
  BY DEF RefreshReliability
<1>3. QED
  BY <1>1, <1>2 DEF TypeInv, DiagnosisTypeOK, RowsAddUp, stores, topics, history

LEMMA EmitType ==
  ASSUME TypeInv, NEW sig \in Signatures, Emit(sig) PROVE TypeInv'
<1>1. UNCHANGED <<settings, stores, views, diagnosed, outcomes, ranking, hand, fixed, changes, faults>>
  BY DEF Emit
<1>2. incidents' \in 0 .. MaxIncidents
  <2>1. incidents \in 0 .. MaxIncidents /\ incidents < MaxIncidents /\ incidents' = incidents + 1
    BY DEF Emit, TypeInv, DiagnosisTypeOK
  <2>2. MaxIncidents \in Nat
    BY Bounds
  <2>3. QED
    BY ONLY <2>1, <2>2
<1>3. detected' \in Seq(Situations) /\ (detected # <<>> => detected' # <<>>)
  <2>1. (sig \in quieted) \in BOOLEAN
    OBVIOUS
  <2>2. [sig |-> sig, quiet |-> sig \in quieted] \in Situations
    BY <2>1, Zenon DEF Situations
  <2>3. PICK x \in Situations : x = [sig |-> sig, quiet |-> sig \in quieted]
    BY <2>2
  <2>4. detected' = detected \/ detected' = Append(detected, x)
    BY <2>3 DEF Emit
  <2>5. detected \in Seq(Situations)
    BY DEF TypeInv, DiagnosisTypeOK
  <2>6. QED
    BY <2>4, <2>5
<1>4. QED
  BY <1>1, <1>2, <1>3 DEF TypeInv, DiagnosisTypeOK, RowsAddUp, stores, views

LEMMA RankStep ==
  ASSUME TypeInv, RankHypotheses
  PROVE  /\ detected # <<>> /\ UNCHANGED <<settings, stores, quieted, topics, hand, history>>
         /\ table' \in [Signatures -> [Books -> 0 .. One]]
         /\ ranking' \in Seq(Hypotheses)
         /\ \A i, j \in DOMAIN ranking' :
              i < j => ranking'[j].confidence - ranking'[i].confidence <= 1500
<1> DEFINE sig == Head(detected).sig
<1>1. detected # <<>> /\ UNCHANGED <<settings, stores, quieted, topics, hand, history>>
  BY DEF RankHypotheses
<1>2. sig \in Signatures
  <2>1. detected \in Seq(Situations)
    BY DEF TypeInv, DiagnosisTypeOK
  <2>2. Head(detected) \in Situations
    BY <1>1, <2>1
  <2>3. QED
    BY <2>2 DEF Situations
<1> HIDE DEF sig
<1>3. PICK deployed \in SUBSET {"deploy"} :
        \E hyps \in {Scored(Fired(Signs[sig] \cup deployed), fit) :
                       fit \in [DOMAIN Fired(Signs[sig] \cup deployed) ->
                                  IF settings.embedding THEN Fits \cup {NoFit} ELSE {NoFit}]} :
          /\ \/ table' = table
             \/ table' = [s \in Signatures |-> [b \in Books |-> Reliability(s, b)]]
          /\ ranking' \in Ranked(hyps, table'[sig])
  BY DEF RankHypotheses, sig
<1> DEFINE fired == Fired(Signs[sig] \cup deployed)
<1>4. PICK fit \in [DOMAIN fired -> IF settings.embedding THEN Fits \cup {NoFit} ELSE {NoFit}] :
          /\ \/ table' = table
             \/ table' = [s \in Signatures |-> [b \in Books |-> Reliability(s, b)]]
          /\ ranking' \in Ranked(Scored(fired, fit), table'[sig])
  BY <1>3
<1>5. fired \in Seq(Hypotheses)
  BY FiredType
<1> HIDE DEF fired
<1>6. fit \in [DOMAIN fired -> Fits \cup {NoFit}]
  BY <1>4
<1>7. Scored(fired, fit) \in Seq(Hypotheses)
  BY <1>5, <1>6, ScoredType
<1>8. table' \in [Signatures -> [Books -> 0 .. One]]
  <2>1. CASE table' = table
    BY <2>1 DEF TypeInv, DiagnosisTypeOK
  <2>2. CASE table' = [s \in Signatures |-> [b \in Books |-> Reliability(s, b)]]
    <3>1. \A s \in Signatures : [b \in Books |-> Reliability(s, b)] \in [Books -> 0 .. One]
      BY SharesType
    <3>2. QED
      BY ONLY <2>2, <3>1
  <2>3. QED
    BY <1>4, <2>1, <2>2
<1>9. table'[sig] \in [Books -> 0 .. One]
  BY ONLY <1>2, <1>8
<1>10. QED
  BY <1>1, <1>4, <1>7, <1>8, <1>9, RankedType

LEMMA RankType ==
  ASSUME TypeInv, RankHypotheses PROVE TypeInv'
<1>1. /\ detected # <<>> /\ UNCHANGED <<settings, stores, quieted, topics, hand, history>>
      /\ table' \in [Signatures -> [Books -> 0 .. One]] /\ ranking' \in Seq(Hypotheses)
  BY RankStep
<1>2. QED
  BY <1>1 DEF TypeInv, DiagnosisTypeOK, RowsAddUp, stores, topics, history

LEMMA SelectType ==
  ASSUME TypeInv, SelectRunbook PROVE TypeInv'
<1>1. /\ ranking # <<>> /\ ranking' = <<>> /\ detected' = Tail(detected) /\ detected # <<>>
      /\ UNCHANGED <<settings, stores, views, outcomes, hand, history>>
  BY DEF SelectRunbook, TypeInv, DiagnosisTypeOK
<1>2. detected \in Seq(Situations) /\ ranking \in Seq(Hypotheses) /\ diagnosed \in Seq(Diagnoses)
  BY DEF TypeInv, DiagnosisTypeOK
<1>3. Tail(detected) \in Seq(Situations) /\ Head(detected) \in Situations
  BY <1>1, <1>2
<1>4. ranking[1] \in Hypotheses
  BY <1>1, <1>2
<1>5. ranking[1].book \in Books \cup {None}
  BY <1>4 DEF Hypotheses
<1>6. \A fit : Matches(fit) \subseteq Books
  BY DEF Matches
<1>7. PICK book \in Books \cup {None} :
        diagnosed' = Append(diagnosed, [sig |-> Head(detected).sig,
                                        quiet |-> Head(detected).quiet, book |-> book])
  BY <1>5, <1>6 DEF SelectRunbook
<1>8. [sig |-> Head(detected).sig, quiet |-> Head(detected).quiet, book |-> book] \in Diagnoses
  BY <1>3 DEF Situations, Diagnoses
<1>9. diagnosed' \in Seq(Diagnoses)
  BY <1>2, <1>7, <1>8
<1>10. ranking' \in Seq(Hypotheses)
  BY <1>1
<1>11. QED
  BY <1>1, <1>3, <1>9, <1>10 DEF TypeInv, DiagnosisTypeOK, RowsAddUp, stores, views, history

LEMMA TakeType ==
  ASSUME TypeInv, TakeDiagnosis PROVE TypeInv'
<1>1. /\ diagnosed # <<>> /\ diagnosed' = Tail(diagnosed)
      /\ UNCHANGED <<settings, stores, views, detected, outcomes, ranking, history>>
      /\ hand' = [stage |-> "select", sig |-> Head(diagnosed).sig,
                  quiet |-> Head(diagnosed).quiet, book |-> Head(diagnosed).book]
  BY DEF TakeDiagnosis
<1>2. diagnosed \in Seq(Diagnoses)
  BY DEF TypeInv, DiagnosisTypeOK
<1>3. Tail(diagnosed) \in Seq(Diagnoses) /\ Head(diagnosed) \in Diagnoses
  BY <1>1, <1>2
<1>4. hand' \in Hands
  BY <1>1, <1>3 DEF Diagnoses, Hands
<1>5. QED
  BY <1>1, <1>3, <1>4 DEF TypeInv, DiagnosisTypeOK, RowsAddUp, stores, views, history

LEMMA HandShapes ==
  ASSUME NEW s \in Signatures, NEW b \in Books, NEW m \in Modes, NEW w \in BOOLEAN
  PROVE  /\ [stage |-> "quiet", sig |-> s, book |-> b, mode |-> m] \in Hands
         /\ [stage |-> "run", sig |-> s, book |-> b, mode |-> m, waived |-> w] \in Hands
<1>1. [stage |-> "quiet", sig |-> s, book |-> b, mode |-> m]
        \in [stage : {"quiet"}, sig : Signatures, book : Books, mode : Modes]
  OBVIOUS
<1>2. [stage |-> "run", sig |-> s, book |-> b, mode |-> m, waived |-> w]
        \in [stage : {"run"}, sig : Signatures, book : Books, mode : Modes, waived : BOOLEAN]
  OBVIOUS
<1>3. QED
  BY ONLY <1>1, <1>2, Zenon DEF Hands

LEMMA ChooseType ==
  ASSUME TypeInv, Escalate \/ SelectPlaybook \/ QuietDecision PROVE TypeInv'
<1>1. UNCHANGED <<settings, stores, views, topics, ranking, history>>
  BY DEF Escalate, SelectPlaybook, QuietDecision
<1>2. DiagnosisTypeOK
  BY DEF TypeInv
<1>3. hand' \in Hands \cup {Idle}
  <2>1. CASE Escalate
    BY <2>1 DEF Escalate
  <2>2. CASE SelectPlaybook
    <3>1. hand.stage = "select" /\ Registered(hand.book)
      BY <2>2 DEF SelectPlaybook
    <3>2. hand.sig \in Signatures /\ hand.book \in Books
      BY <1>2, <3>1, HandType DEF Registered
    <3>3. PICK mode \in Modes : mode = registry[hand.book]
      BY <1>2, <3>2 DEF DiagnosisTypeOK
    <3>4. \/ hand' = [stage |-> "quiet", sig |-> hand.sig, book |-> hand.book, mode |-> mode]
          \/ hand' = [stage |-> "run", sig |-> hand.sig, book |-> hand.book, mode |-> mode,
                      waived |-> FALSE]
      BY <2>2, <3>3 DEF SelectPlaybook
    <3>5. hand' \in Hands
      BY ONLY <3>2, <3>3, <3>4, HandShapes, FALSE \in BOOLEAN
    <3>6. QED
      BY <3>5
  <2>3. CASE QuietDecision
    <3>1. hand.stage = "quiet"
      BY <2>3 DEF QuietDecision
    <3>2. hand.sig \in Signatures /\ hand.book \in Books /\ hand.mode \in Modes
      BY <1>2, <3>1, HandType
    <3>3. PICK readable \in BOOLEAN :
            hand' = [stage |-> "run", sig |-> hand.sig, book |-> hand.book, mode |-> hand.mode,
                     waived |-> readable /\ QuietEligible(hand.sig, hand.book)]
      BY <2>3 DEF QuietDecision
    <3>4. PICK waived \in BOOLEAN : waived = (readable /\ QuietEligible(hand.sig, hand.book))
      <4>1. (readable /\ QuietEligible(hand.sig, hand.book)) \in BOOLEAN
        BY ONLY TRUE
      <4>2. QED
        BY <4>1, Zenon
    <3>5. hand' = [stage |-> "run", sig |-> hand.sig, book |-> hand.book, mode |-> hand.mode,
                   waived |-> waived]
      BY ONLY <3>3, <3>4
    <3>6. QED
      BY <3>2, <3>5, HandShapes
  <2>4. QED
    BY <2>1, <2>2, <2>3
<1>4. QED
  BY <1>1, <1>3 DEF TypeInv, DiagnosisTypeOK, RowsAddUp, stores, views, topics, history

(* What a run that ends puts on the topic.                                 *)
LEMMA RunStep ==
  ASSUME DiagnosisTypeOK, Refuse \/ Block \/ Execute
  PROVE  /\ UNCHANGED <<settings, stores, views, detected, diagnosed, ranking, incidents,
                        changes, faults>>
         /\ hand' = Idle
         /\ \E s \in Signatures, b \in Books, real \in BOOLEAN, worked \in BOOLEAN :
              /\ outcomes' = Append(outcomes, [sig |-> s, book |-> b, real |-> real,
                                               worked |-> worked])
              /\ \/ ~worked /\ fixed' = fixed
                 \/ /\ worked
                    /\ fixed' = IF real THEN [fixed EXCEPT ![s][b] = @ + 1] ELSE fixed
<1>1. hand.stage = "run"
  BY DEF Refuse, Block, Execute
<1>2. hand.sig \in Signatures /\ hand.book \in Books
  BY <1>1, HandType
<1>3. (settings.executor = "k8s") \in BOOLEAN
  BY ONLY TRUE
<1>4. PICK k8s \in BOOLEAN : k8s = (settings.executor = "k8s")
  BY ONLY <1>3, Zenon
<1>5. CASE Refuse
  BY <1>2, <1>5 DEF Refuse, Finish
<1>6. CASE Block
  <2>1. Finish(k8s, FALSE) /\ fixed' = fixed
    BY <1>4, <1>6 DEF Block
  <2>2. QED
    BY <1>2, <2>1 DEF Finish
<1>7. CASE Execute
  <2>1. PICK worked \in BOOLEAN :
          /\ Finish(k8s, worked)
          /\ fixed' = IF k8s /\ worked THEN [fixed EXCEPT ![hand.sig][hand.book] = @ + 1]
                                       ELSE fixed
    BY <1>4, <1>7 DEF Execute
  <2>2. CASE worked
    BY <1>2, <2>1, <2>2 DEF Finish
  <2>3. CASE ~worked
    BY <1>2, <2>1, <2>3 DEF Finish
  <2>4. QED
    BY <2>2, <2>3
<1>8. QED
  BY <1>5, <1>6, <1>7

LEMMA RunType ==
  ASSUME TypeInv, Refuse \/ Block \/ Execute PROVE TypeInv'
<1>1. DiagnosisTypeOK
  BY DEF TypeInv
<1>2. /\ UNCHANGED <<settings, stores, views, detected, diagnosed, ranking, incidents,
                     changes, faults>>
      /\ hand' = Idle
  BY <1>1, RunStep
<1>3. PICK s \in Signatures, b \in Books, real \in BOOLEAN, worked \in BOOLEAN :
        /\ outcomes' = Append(outcomes, [sig |-> s, book |-> b, real |-> real, worked |-> worked])
        /\ fixed' \in {fixed, [fixed EXCEPT ![s][b] = @ + 1]}
  BY <1>1, RunStep
<1>4. outcomes \in Seq(Rows) /\ fixed \in [Signatures -> [Books -> Nat]]
  BY <1>1 DEF DiagnosisTypeOK
<1>5. [sig |-> s, book |-> b, real |-> real, worked |-> worked] \in Rows
  BY DEF Rows
<1>6. outcomes' \in Seq(Rows)
  BY <1>3, <1>4, <1>5
<1>7. fixed' \in [Signatures -> [Books -> Nat]]
  <2>1. CASE fixed' = fixed
    BY <1>4, <2>1
  <2>2. CASE fixed' = [fixed EXCEPT ![s][b] = @ + 1]
    <3>1. fixed[s] \in [Books -> Nat] /\ fixed[s][b] + 1 \in Nat
      BY <1>4
    <3>2. [fixed[s] EXCEPT ![b] = @ + 1] \in [Books -> Nat]
      BY <3>1
    <3>3. fixed' = [fixed EXCEPT ![s] = [fixed[s] EXCEPT ![b] = @ + 1]]
      BY <2>2
    <3>4. QED
      BY ONLY <1>4, <3>2, <3>3
  <2>3. QED
    BY <1>3, <2>1, <2>2
<1>8. QED
  BY <1>2, <1>6, <1>7 DEF TypeInv, DiagnosisTypeOK, RowsAddUp, stores, views

(* What a label changes: one row more, of the outcome that is first.       *)
LEMMA LabelStep ==
  ASSUME DiagnosisTypeOK, LabelOutcome
  PROVE  \E s \in Signatures, b \in Books, real \in BOOLEAN, worked \in BOOLEAN :
           /\ outcomes # <<>>
           /\ Head(outcomes) = [sig |-> s, book |-> b, real |-> real, worked |-> worked]
           /\ records' = [records EXCEPT ![s] = [records[s] EXCEPT ![b] =
                [all |-> records[s][b].all + 1,
                 good |-> records[s][b].good + One01(worked),
                 real |-> records[s][b].real + One01(real),
                 worked |-> records[s][b].worked + One01(real /\ worked)]]]
           /\ \/ outcomes' = Tail(outcomes) /\ faults' = faults
              \/ outcomes' = outcomes /\ faults' = faults + 1 /\ faults < MaxFaults
           /\ UNCHANGED <<settings, registry, views, detected, diagnosed, ranking, hand,
                          fixed, incidents, changes>>
<1>1. outcomes \in Seq(Rows) /\ outcomes # <<>>
  BY DEF DiagnosisTypeOK, LabelOutcome
<1>2. Head(outcomes) \in Rows
  BY <1>1
<1>3. PICK s \in Signatures, b \in Books, real \in BOOLEAN, worked \in BOOLEAN :
        Head(outcomes) = [sig |-> s, book |-> b, real |-> real, worked |-> worked]
  BY <1>2 DEF Rows
<1>4. Head(outcomes).sig = s /\ Head(outcomes).book = b
  BY <1>3
<1>5. Head(outcomes).real = real /\ Head(outcomes).worked = worked
  <2>1. /\ [sig |-> s, book |-> b, real |-> real, worked |-> worked].real = real
        /\ [sig |-> s, book |-> b, real |-> real, worked |-> worked].worked = worked
    BY ONLY Zenon
  <2>2. QED
    BY ONLY <1>3, <2>1, Zenon
<1>6. records' = [records EXCEPT ![s][b] =
           [all |-> @.all + 1,
            good |-> @.good + One01(worked),
            real |-> @.real + One01(real),
            worked |-> @.worked + One01(real /\ worked)]]
  BY <1>4, <1>5 DEF LabelOutcome
<1>7. records' = [records EXCEPT ![s] = [records[s] EXCEPT ![b] =
                [all |-> records[s][b].all + 1,
                 good |-> records[s][b].good + One01(worked),
                 real |-> records[s][b].real + One01(real),
                 worked |-> records[s][b].worked + One01(real /\ worked)]]]
  BY <1>6
<1>8. /\ \/ outcomes' = Tail(outcomes) /\ faults' = faults
         \/ outcomes' = outcomes /\ faults' = faults + 1 /\ faults < MaxFaults
      /\ UNCHANGED <<settings, registry, views, detected, diagnosed, ranking, hand,
                     fixed, incidents, changes>>
  BY DEF LabelOutcome
<1>9. QED
  BY <1>1, <1>3, <1>7, <1>8

LEMMA CountType == ASSUME NEW c PROVE One01(c) \in Nat
BY DEF One01

LEMMA LabelType ==
  ASSUME TypeInv, LabelOutcome PROVE TypeInv'
<1>1. DiagnosisTypeOK
  BY DEF TypeInv
<1>2. PICK s \in Signatures, b \in Books, real \in BOOLEAN, worked \in BOOLEAN :
        /\ outcomes # <<>>
        /\ records' = [records EXCEPT ![s] = [records[s] EXCEPT ![b] =
             [all |-> records[s][b].all + 1,
              good |-> records[s][b].good + One01(worked),
              real |-> records[s][b].real + One01(real),
              worked |-> records[s][b].worked + One01(real /\ worked)]]]
        /\ \/ outcomes' = Tail(outcomes) /\ faults' = faults
           \/ outcomes' = outcomes /\ faults' = faults + 1 /\ faults < MaxFaults
        /\ UNCHANGED <<settings, registry, views, detected, diagnosed, ranking, hand,
                       fixed, incidents, changes>>
  BY <1>1, LabelStep
<1>3. PICK all, good, reals, wins :
        /\ all = records[s][b].all + 1 /\ good = records[s][b].good + One01(worked)
        /\ reals = records[s][b].real + One01(real)
        /\ wins = records[s][b].worked + One01(real /\ worked)
  OBVIOUS
<1>4. all \in Nat /\ good \in Nat /\ reals \in Nat /\ wins \in Nat /\ good <= all
  <2>1. One01(worked) \in 0 .. 1
    BY DEF One01
  <2>2. records[s][b].good <= records[s][b].all
    BY DEF TypeInv, RowsAddUp
  <2>3. PICK g0, a0, r0, w0, c1, c2, c3 :
          /\ a0 = records[s][b].all /\ g0 = records[s][b].good /\ r0 = records[s][b].real
          /\ w0 = records[s][b].worked /\ c1 = One01(worked) /\ c2 = One01(real)
          /\ c3 = One01(real /\ worked)
    OBVIOUS
  <2>4. a0 \in Nat /\ g0 \in Nat /\ r0 \in Nat /\ w0 \in Nat
    BY <1>1, <2>3, RowsType
  <2>5. c1 \in 0 .. 1 /\ c2 \in Nat /\ c3 \in Nat /\ g0 <= a0
    BY <2>1, <2>2, <2>3, CountType
  <2>6. all = a0 + 1 /\ good = g0 + c1 /\ reals = r0 + c2 /\ wins = w0 + c3
    BY <1>3, <2>3
  <2>7. QED
    BY ONLY <2>4, <2>5, <2>6
<1>5. PICK row \in Counts : row = [all |-> all, good |-> good, real |-> reals, worked |-> wins]
  BY ONLY <1>4 DEF Counts
<1>6. row.good = good /\ row.all = all
  BY ONLY <1>5
<1>7. records' = [records EXCEPT ![s] = [records[s] EXCEPT ![b] = row]]
  BY <1>2, <1>3, <1>5
<1>8. records \in [Signatures -> [Books -> Counts]]
  BY <1>1 DEF DiagnosisTypeOK
<1>9. records' \in [Signatures -> [Books -> Counts]]
  <2>1. [records[s] EXCEPT ![b] = row] \in [Books -> Counts]
    BY <1>8
  <2>2. QED
    BY ONLY <1>7, <1>8, <2>1
<1>10. RowsAddUp'
  <2>1. SUFFICES ASSUME NEW s1 \in Signatures, NEW b1 \in Books
                 PROVE records'[s1][b1].good <= records'[s1][b1].all
    BY DEF RowsAddUp
  <2>2. records'[s1][b1] = row \/ records'[s1][b1] = records[s1][b1]
    BY <1>7, <1>8
  <2>3. QED
    BY <1>4, <1>6, <2>2 DEF TypeInv, RowsAddUp
<1>11. outcomes' \in Seq(Rows)
  <2>1. outcomes \in Seq(Rows) /\ outcomes # <<>>
    BY <1>1, <1>2 DEF DiagnosisTypeOK
  <2>2. Tail(outcomes) \in Seq(Rows)
    BY <2>1
  <2>3. QED
    BY <1>2, <2>1, <2>2
<1>12. faults' \in 0 .. MaxFaults
  <2>1. faults \in 0 .. MaxFaults /\ MaxFaults \in Nat
    BY <1>1, Bounds DEF DiagnosisTypeOK
  <2>2. faults' = faults \/ (faults' = faults + 1 /\ faults < MaxFaults)
    BY <1>2
  <2>3. QED
    BY ONLY <2>1, <2>2
<1>13. QED
  BY <1>2, <1>9, <1>10, <1>11, <1>12 DEF TypeInv, DiagnosisTypeOK, views

LEMMA GovernType ==
  ASSUME TypeInv, NEW book \in Books, NEW mode \in Modes, Govern(book, mode) PROVE TypeInv'
<1>1. /\ UNCHANGED <<settings, records, views, topics, ranking, hand, fixed, incidents, faults>>
      /\ changes < MaxChanges /\ changes' = changes + 1
      /\ registry' = [registry EXCEPT ![book] = mode]
  BY DEF Govern
<1>2. registry' \in [Books -> Modes]
  BY <1>1 DEF TypeInv, DiagnosisTypeOK
<1>3. changes' \in 0 .. MaxChanges
  <2>1. changes \in 0 .. MaxChanges /\ MaxChanges \in Nat
    BY Bounds DEF TypeInv, DiagnosisTypeOK
  <2>2. QED
    BY ONLY <1>1, <2>1
<1>4. QED
  BY <1>1, <1>2, <1>3 DEF TypeInv, DiagnosisTypeOK, RowsAddUp, views, topics

LEMMA SwitchType ==
  ASSUME TypeInv, SwitchExecutor PROVE TypeInv'
<1>1. /\ UNCHANGED <<stores, views, topics, ranking, hand, history>>
      /\ settings' = [settings EXCEPT !.executor = "k8s"]
  BY DEF SwitchExecutor
<1>2. settings' \in Settings
  <2>1. settings \in [embedding : BOOLEAN, drop : BOOLEAN, skip : BOOLEAN,
                      executor : {"dry_run", "k8s"}]
    BY DEF TypeInv, DiagnosisTypeOK, Settings
  <2>2. settings' \in [embedding : BOOLEAN, drop : BOOLEAN, skip : BOOLEAN,
                      executor : {"dry_run", "k8s"}]
    BY ONLY <1>1, <2>1
  <2>3. QED
    BY <2>2 DEF Settings
<1>3. QED
  BY <1>1, <1>2 DEF TypeInv, DiagnosisTypeOK, RowsAddUp, stores, views, topics, history

LEMMA TypeStep == TypeInv /\ [Next]_vars => TypeInv'
<1> SUFFICES ASSUME TypeInv, [Next]_vars PROVE TypeInv'
  OBVIOUS
<1>1. CASE RefreshReliability
  BY <1>1, RefreshType
<1>2. CASE \E s \in Signatures : Emit(s)
  BY <1>2, EmitType
<1>3. CASE RankHypotheses
  BY <1>3, RankType
<1>4. CASE SelectRunbook
  BY <1>4, SelectType
<1>5. CASE TakeDiagnosis
  BY <1>5, TakeType
<1>6. CASE Escalate \/ SelectPlaybook \/ QuietDecision
  BY <1>6, ChooseType
<1>7. CASE Refuse \/ Block \/ Execute
  BY <1>7, RunType
<1>8. CASE LabelOutcome
  BY <1>8, LabelType
<1>9. CASE \E b \in Books, m \in Modes : Govern(b, m)
  BY <1>9, GovernType
<1>10. CASE SwitchExecutor
  BY <1>10, SwitchType
<1>11. CASE UNCHANGED vars
  BY <1>11 DEF TypeInv, DiagnosisTypeOK, RowsAddUp, vars, stores, views, topics, history
<1>12. QED
  BY <1>1, <1>2, <1>3, <1>4, <1>5, <1>6, <1>7, <1>8, <1>9, <1>10, <1>11 DEF Next

LEMMA TypeHolds == Spec => []TypeInv
BY TypeInit, TypeStep, PTL DEF Spec

(* Every queue, record, view and ranking of the learning loop is of its    *)
(* type in every reachable state: above all, the shares rca keeps of the   *)
(* records stay between nothing and all (rank.py:164-174), which is what   *)
(* the weight of a track record is a fraction of.                          *)
THEOREM TypeCorrect == Spec => []DiagnosisTypeOK
BY TypeHolds, PTL DEF TypeInv

------------------------------------------------------------------------------
(* The weight of a track record.                                           *)

LEMMA BoundStep == TypeInv /\ BoostIsBounded /\ [Next]_vars => BoostIsBounded'
<1> SUFFICES ASSUME TypeInv, BoostIsBounded, [Next]_vars PROVE BoostIsBounded'
  OBVIOUS
<1>1. CASE RankHypotheses
  BY <1>1, RankStep DEF BoostIsBounded
<1>2. CASE SelectRunbook
  <2>1. ranking' = <<>>
    BY <1>2 DEF SelectRunbook
  <2>2. DOMAIN ranking' = {}
    BY <2>1
  <2>3. QED
    BY <2>2 DEF BoostIsBounded
<1>3. CASE ranking' = ranking
  BY <1>3 DEF BoostIsBounded
<1>4. RankHypotheses \/ SelectRunbook \/ ranking' = ranking
  BY DEF Next, RefreshReliability, Emit, TakeDiagnosis, Escalate, SelectPlaybook,
    QuietDecision, Refuse, Block, Execute, Finish, LabelOutcome, Govern, SwitchExecutor, vars
<1>5. QED
  BY <1>1, <1>2, <1>3, <1>4

(* Whatever the similarities, the shares and the order the rules fired in, *)
(* a cause is never ranked over one that is ahead of it by more than the   *)
(* weight a track record carries (rank.py:26-30, 201-228).                 *)
THEOREM BoostIsBoundedHolds == Spec => []BoostIsBounded
<1>1. Init => BoostIsBounded
  BY DEF Init, BoostIsBounded
<1>2. QED
  BY <1>1, TypeHolds, BoundStep, PTL DEF Spec

------------------------------------------------------------------------------
(* What runs unattended has earned it: a ledger of the runs that worked.   *)
(* Those recorded and those that wait for a label are no more than there   *)
(* were, but for one for each outcome labelled twice: of one playbook, and *)
(* of a signature's playbooks together, whose repeats are not counted      *)
(* playbook by playbook.                                                   *)

Won(x) == x.real /\ x.worked
OwnWins(s, b) == {x \in Rows : Won(x) /\ x.sig = s /\ x.book = b}
Wins(s) == {x \in Rows : Won(x) /\ x.sig = s}
Worked(recs, s) == [b \in Books |-> recs[s][b].worked]

OwnLedger(recs, q, runs, repeats) ==
  \A s \in Signatures : \A b \in Books :
    recs[s][b].worked + Waiting(q, OwnWins(s, b)) <= runs[s][b] + repeats

SumLedger(recs, q, runs, repeats) ==
  \A s \in Signatures :
    Sum(Worked(recs, s)) + Waiting(q, Wins(s)) <= Sum(runs[s]) + repeats

LedgerInv ==
  /\ OwnLedger(records, outcomes, fixed, faults)
  /\ SumLedger(records, outcomes, fixed, faults)

LEMMA WorkedType ==
  ASSUME NEW recs \in [Signatures -> [Books -> Counts]], NEW s \in Signatures
  PROVE  /\ Worked(recs, s) \in [Books -> Nat] /\ Sum(Worked(recs, s)) \in Nat
         /\ \A b \in Books : recs[s][b].worked \in Nat
<1>1. \A b \in Books : recs[s][b] \in Counts
  OBVIOUS
<1>2. \A b \in Books : recs[s][b].worked \in Nat
  BY <1>1 DEF Counts
<1>3. Worked(recs, s) \in [Books -> Nat]
  BY <1>2 DEF Worked
<1>4. QED
  BY <1>2, <1>3, SumType

LEMMA BumpOne ==
  ASSUME NEW f \in [Signatures -> [Books -> Nat]], NEW s \in Signatures, NEW b \in Books,
         NEW g, g = [f EXCEPT ![s] = [f[s] EXCEPT ![b] = @ + 1]]
  PROVE  \A s1 \in Signatures, b1 \in Books :
           g[s1][b1] = IF s1 = s /\ b1 = b THEN f[s1][b1] + 1 ELSE f[s1][b1]
OBVIOUS

LEMMA BumpSums ==
  ASSUME NEW f \in [Signatures -> [Books -> Nat]], NEW s \in Signatures, NEW b \in Books
  PROVE  \A s1 \in Signatures :
           Sum([f EXCEPT ![s] = [f[s] EXCEPT ![b] = @ + 1]][s1]) =
             IF s1 = s THEN Sum(f[s1]) + 1 ELSE Sum(f[s1])
<1> DEFINE g == [f EXCEPT ![s] = [f[s] EXCEPT ![b] = @ + 1]]
<1>1. f[s] \in [Books -> Nat] /\ f[s][b] + 1 \in Nat
  OBVIOUS
<1>2. PICK h : h = [f[s] EXCEPT ![b] = @ + 1]
  OBVIOUS
<1>3. h \in [Books -> Nat] /\ h[b] = f[s][b] + 1 /\ \A c \in Books \ {b} : h[c] = f[s][c]
  BY <1>1, <1>2
<1>4. Sum(h) = Sum(f[s]) + 1
  BY <1>1, <1>3, SumBump
<1>5. \A s1 \in Signatures : g[s1] = IF s1 = s THEN h ELSE f[s1]
  BY <1>2
<1>6. \A s1 \in Signatures : Sum(g[s1]) = IF s1 = s THEN Sum(f[s1]) + 1 ELSE Sum(f[s1])
  BY ONLY <1>4, <1>5
<1>7. QED
  BY <1>6

(* What a run adds to the history, and a label to the records.             *)
Ran(runs, more, s, b, x) ==
  more = IF Won(x) THEN [runs EXCEPT ![s] = [runs[s] EXCEPT ![b] = @ + 1]] ELSE runs

Labelled(recs, more, s, b, x) ==
  /\ more[s][b].worked = recs[s][b].worked + One01(Won(x))
  /\ \A s1 \in Signatures, b1 \in Books :
       s1 # s \/ b1 # b => more[s1][b1].worked = recs[s1][b1].worked

(* A run ends: what worked on the cluster waits for its label.             *)
LEMMA LedgerRun ==
  ASSUME NEW recs \in [Signatures -> [Books -> Counts]], NEW q \in Seq(Rows),
         NEW runs \in [Signatures -> [Books -> Nat]], NEW n \in Nat,
         OwnLedger(recs, q, runs, n), SumLedger(recs, q, runs, n),
         NEW s \in Signatures, NEW b \in Books, NEW x \in Rows, x.sig = s, x.book = b,
         NEW more, Ran(runs, more, s, b, x)
  PROVE  /\ OwnLedger(recs, Append(q, x), more, n)
         /\ SumLedger(recs, Append(q, x), more, n)
         /\ \A s1 \in Signatures : Sum(runs[s1]) <= Sum(more[s1])
<1>0. more = IF Won(x) THEN [runs EXCEPT ![s] = [runs[s] EXCEPT ![b] = @ + 1]] ELSE runs
  BY DEF Ran
<1>1. ASSUME NEW s1 \in Signatures, NEW b1 \in Books
      PROVE  recs[s1][b1].worked + Waiting(Append(q, x), OwnWins(s1, b1)) <= more[s1][b1] + n
  <2>1. PICK w, k, l, r, m : /\ w = recs[s1][b1].worked /\ k = Waiting(q, OwnWins(s1, b1))
                             /\ l = Waiting(Append(q, x), OwnWins(s1, b1))
                             /\ r = runs[s1][b1] /\ m = more[s1][b1]
    OBVIOUS
  <2>2. w \in Nat /\ k \in Nat /\ r \in Nat
    BY <2>1, WorkedType, PlacesFinite
  <2>3. w + k <= r + n
    BY <2>1 DEF OwnLedger
  <2>4. l = k + IF x \in OwnWins(s1, b1) THEN 1 ELSE 0
    BY <2>1, WaitingAppend
  <2>5. x \in OwnWins(s1, b1) => m = r + 1
    <3>1. x \in OwnWins(s1, b1) => s1 = s /\ b1 = b /\ Won(x)
      BY DEF OwnWins
    <3>2. QED
      BY <1>0, <2>1, <3>1, BumpOne
  <2>6. m = r \/ m = r + 1
    BY <1>0, <2>1, BumpOne
  <2>7. w + l <= m + n
    BY ONLY <2>2, <2>3, <2>4, <2>5, <2>6, n \in Nat
  <2>8. QED
    BY <2>1, <2>7
<1>2. ASSUME NEW s1 \in Signatures
      PROVE  /\ Sum(Worked(recs, s1)) + Waiting(Append(q, x), Wins(s1)) <= Sum(more[s1]) + n
             /\ Sum(runs[s1]) <= Sum(more[s1])
  <2>1. PICK w, k, l, r, m : /\ w = Sum(Worked(recs, s1)) /\ k = Waiting(q, Wins(s1))
                             /\ l = Waiting(Append(q, x), Wins(s1))
                             /\ r = Sum(runs[s1]) /\ m = Sum(more[s1])
    OBVIOUS
  <2>2. w \in Nat /\ k \in Nat /\ r \in Nat
    BY <2>1, WorkedType, PlacesFinite, SumType
  <2>3. w + k <= r + n
    BY <2>1 DEF SumLedger
  <2>4. l = k + IF x \in Wins(s1) THEN 1 ELSE 0
    BY <2>1, WaitingAppend
  <2>5. x \in Wins(s1) => m = r + 1
    <3>1. x \in Wins(s1) => s1 = s /\ Won(x)
      BY DEF Wins
    <3>2. CASE Won(x)
      <4>1. Sum(more[s]) = Sum(runs[s]) + 1
        BY <1>0, <3>2, BumpSums
      <4>2. QED
        BY <2>1, <3>1, <4>1
    <3>3. QED
      BY <3>1, <3>2
  <2>6. m = r \/ m = r + 1
    <3>1. CASE Won(x)
      <4>1. more = [runs EXCEPT ![s] = [runs[s] EXCEPT ![b] = @ + 1]]
        BY <1>0, <3>1
      <4>2. Sum(more[s1]) = IF s1 = s THEN Sum(runs[s1]) + 1 ELSE Sum(runs[s1])
        <5>1. Sum([runs EXCEPT ![s] = [runs[s] EXCEPT ![b] = @ + 1]][s1])
                = IF s1 = s THEN Sum(runs[s1]) + 1 ELSE Sum(runs[s1])
          BY BumpSums
        <5>2. QED
          BY ONLY <4>1, <5>1
      <4>3. QED
        BY ONLY <2>1, <4>2
    <3>2. CASE ~(Won(x))
      <4>1. more = runs
        BY <1>0, <3>2
      <4>2. QED
        BY ONLY <2>1, <4>1
    <3>3. QED
      BY <3>1, <3>2
  <2>7. w + l <= m + n /\ r <= m
    BY ONLY <2>2, <2>3, <2>4, <2>5, <2>6, n \in Nat
  <2>8. QED
    BY <2>1, <2>7
<1>3. QED
  BY <1>1, <1>2 DEF OwnLedger, SumLedger

(* A label: what waited is recorded, and if it waits on, that is a repeat. *)
LEMMA LedgerLabel ==
  ASSUME NEW recs \in [Signatures -> [Books -> Counts]], NEW q \in Seq(Rows), q # <<>>,
         NEW runs \in [Signatures -> [Books -> Nat]], NEW n \in Nat,
         OwnLedger(recs, q, runs, n), SumLedger(recs, q, runs, n),
         NEW s \in Signatures, NEW b \in Books, NEW x \in Rows, x = Head(q),
         x.sig = s, x.book = b,
         NEW more \in [Signatures -> [Books -> Counts]],
         Labelled(recs, more, s, b, x)
  PROVE  /\ OwnLedger(more, Tail(q), runs, n) /\ SumLedger(more, Tail(q), runs, n)
         /\ OwnLedger(more, q, runs, n + 1) /\ SumLedger(more, q, runs, n + 1)
<1>0. /\ more[s][b].worked = recs[s][b].worked + One01(Won(x))
      /\ \A s1 \in Signatures, b1 \in Books :
           s1 # s \/ b1 # b => more[s1][b1].worked = recs[s1][b1].worked
  BY DEF Labelled
<1>1. Tail(q) \in Seq(Rows)
  OBVIOUS
<1>2. ASSUME NEW s1 \in Signatures, NEW b1 \in Books
      PROVE  /\ more[s1][b1].worked + Waiting(Tail(q), OwnWins(s1, b1)) <= runs[s1][b1] + n
             /\ more[s1][b1].worked + Waiting(q, OwnWins(s1, b1)) <= runs[s1][b1] + (n + 1)
  <2>1. PICK w, v, k, l, r : /\ w = recs[s1][b1].worked /\ v = more[s1][b1].worked
                             /\ k = Waiting(q, OwnWins(s1, b1))
                             /\ l = Waiting(Tail(q), OwnWins(s1, b1)) /\ r = runs[s1][b1]
    OBVIOUS
  <2>2. w \in Nat /\ k \in Nat /\ l \in Nat /\ r \in Nat
    BY <1>1, <2>1, WorkedType, PlacesFinite
  <2>3. w + k <= r + n
    BY <2>1 DEF OwnLedger
  <2>4. k = l + IF Head(q) \in OwnWins(s1, b1) THEN 1 ELSE 0
    BY <2>1, WaitingTail
  <2>5. v = w \/ (v = w + 1 /\ Head(q) \in OwnWins(s1, b1))
    <3>1. CASE s1 = s /\ b1 = b /\ Won(x)
      <4>1. Head(q) \in OwnWins(s1, b1)
        BY <3>1 DEF OwnWins
      <4>2. One01(Won(x)) = 1
        BY <3>1 DEF One01
      <4>3. v = w + 1
        BY <1>0, <2>1, <3>1, <4>2
      <4>4. QED
        BY <4>1, <4>3
    <3>2. CASE (s1 = s /\ b1 = b) /\ ~(Won(x))
      <4>1. One01(Won(x)) = 0
        BY <3>2 DEF One01
      <4>2. v = w + 0
        BY <1>0, <2>1, <3>2, <4>1
      <4>3. QED
        BY ONLY <2>2, <4>2
    <3>3. CASE s1 # s \/ b1 # b
      BY <1>0, <2>1, <3>3
    <3>4. QED
      BY <3>1, <3>2, <3>3
  <2>6. v + l <= r + n /\ v + k <= r + (n + 1)
    BY ONLY <2>2, <2>3, <2>4, <2>5, n \in Nat
  <2>7. QED
    BY <2>1, <2>6
<1>3. ASSUME NEW s1 \in Signatures
      PROVE  /\ Sum(Worked(more, s1)) + Waiting(Tail(q), Wins(s1)) <= Sum(runs[s1]) + n
             /\ Sum(Worked(more, s1)) + Waiting(q, Wins(s1)) <= Sum(runs[s1]) + (n + 1)
  <2>1. PICK w, v, k, l, r : /\ w = Sum(Worked(recs, s1)) /\ v = Sum(Worked(more, s1))
                             /\ k = Waiting(q, Wins(s1))
                             /\ l = Waiting(Tail(q), Wins(s1)) /\ r = Sum(runs[s1])
    OBVIOUS
  <2>2. w \in Nat /\ k \in Nat /\ l \in Nat /\ r \in Nat
    BY <1>1, <2>1, WorkedType, PlacesFinite, SumType
  <2>3. w + k <= r + n
    BY <2>1 DEF SumLedger
  <2>4. k = l + IF Head(q) \in Wins(s1) THEN 1 ELSE 0
    BY <2>1, WaitingTail
  <2>5. v = w \/ (v = w + 1 /\ Head(q) \in Wins(s1))
    <3>1. CASE s1 = s /\ Won(x)
      <4>1. /\ Worked(more, s1)[b] = Worked(recs, s1)[b] + 1
            /\ \A c \in Books \ {b} : Worked(more, s1)[c] = Worked(recs, s1)[c]
        BY <1>0, <3>1 DEF Worked, One01
      <4>2. v = w + 1
        BY <2>1, <4>1, WorkedType, SumBump
      <4>3. Head(q) \in Wins(s1)
        BY <3>1 DEF Wins
      <4>4. QED
        BY <4>2, <4>3
    <3>2. CASE ~(s1 = s /\ Won(x))
      <4>1. recs[s][b].worked + 0 = recs[s][b].worked
        <5>1. recs[s][b].worked \in Nat
          BY WorkedType
        <5>2. QED
          BY ONLY <5>1
      <4>2. \A c \in Books : more[s1][c].worked = recs[s1][c].worked
        BY <1>0, <3>2, <4>1 DEF One01
      <4>3. Worked(more, s1) = Worked(recs, s1)
        BY <4>2 DEF Worked
      <4>4. QED
        BY <2>1, <4>3
    <3>3. QED
      BY <3>1, <3>2
  <2>6. v + l <= r + n /\ v + k <= r + (n + 1)
    BY ONLY <2>2, <2>3, <2>4, <2>5, n \in Nat
  <2>7. QED
    BY <2>1, <2>6
<1>4. QED
  BY <1>2, <1>3 DEF OwnLedger, SumLedger

(* Enough stays enough.                                                    *)
LEMMA EnoughGrows ==
  ASSUME NEW a \in Nat, NEW b \in Nat, NEW n \in Nat, a <= b, AtLeast(a, n, SuppressAt)
  PROVE  AtLeast(b, n, SuppressAt)
<1>1. PICK k : k = SuppressAt * n
  OBVIOUS
<1>2. k \in Nat
  BY <1>1, Numbers
<1>3. a * One >= k
  BY <1>1 DEF AtLeast
<1>4. b * One >= k
  BY <1>2, <1>3 DEF One
<1>5. QED
  BY <1>1, <1>4 DEF AtLeast

(* Enough of as many samples as were asked for, or more.                   *)
LEMMA EnoughOfFewer ==
  ASSUME NEW a \in Nat, NEW n \in Nat, NEW m \in Nat, m <= n, AtLeast(a, n, SuppressAt)
  PROVE  AtLeast(a, m, SuppressAt)
<1>1. PICK k, l : k = SuppressAt * n /\ l = SuppressAt * m
  OBVIOUS
<1>2. k \in Nat /\ l \in Nat /\ l <= k
  BY <1>1, Numbers, TimesGrows
<1>3. a * One >= k
  BY <1>1 DEF AtLeast
<1>4. a * One >= l
  BY <1>2, <1>3 DEF One
<1>5. QED
  BY <1>1, <1>4 DEF AtLeast

LEMMA Wanted ==
  /\ Max({1, MinSamples}) \in Nat \ {0}
  /\ \A n \in Nat \ {0} : n >= MinSamples => n >= Max({1, MinSamples})
<1>1. PICK m : m = Max({1, MinSamples})
  OBVIOUS
<1>2. MinSamples \in Nat
  BY Numbers
<1>3. m \in {1, MinSamples} /\ m >= 1 /\ m >= MinSamples
  <2>1. 1 \in Int /\ MinSamples \in Int
    BY <1>2
  <2>2. /\ Max({1, MinSamples}) \in {1, MinSamples}
        /\ Max({1, MinSamples}) >= 1 /\ Max({1, MinSamples}) >= MinSamples
    BY ONLY <2>1, MaxOfTwo
  <2>3. QED
    BY ONLY <1>1, <2>2
<1>4. m \in Nat \ {0} /\ \A n \in Nat \ {0} : n >= MinSamples => n >= m
  BY ONLY <1>2, <1>3
<1>5. QED
  BY ONLY <1>1, <1>4

(* What is enough after so many runs and repeats, rigidly.                 *)
EnoughOf(runs, repeats) == AtLeast(runs + repeats, Max({1, MinSamples}), SuppressAt)

LEMMA EnoughOfMore ==
  ASSUME NEW a \in Nat, NEW b \in Nat, NEW m \in Nat, NEW n \in Nat, a <= b, m <= n,
         EnoughOf(a, m)
  PROVE  EnoughOf(b, n)
<1>1. a + m \in Nat /\ b + n \in Nat /\ a + m <= b + n
  OBVIOUS
<1>2. Max({1, MinSamples}) \in Nat
  BY Wanted
<1>3. QED
  BY ONLY <1>1, <1>2, EnoughGrows, EnoughOf(a, m) DEF EnoughOf

(* The evidence of one playbook, read afresh, is what its own runs earned. *)
LEMMA QuietIsEarned ==
  ASSUME TypeInv, LedgerInv, NEW s \in Signatures, NEW b \in Books, QuietEligible(s, b)
  PROVE  EnoughOf(fixed[s][b], faults)
<1>1. PICK w, r, f : w = records[s][b].worked /\ r = records[s][b].real /\ f = fixed[s][b]
  OBVIOUS
<1>2. w \in Nat /\ r \in Nat /\ f \in Nat
  BY <1>1, RowsType DEF TypeInv
<1>3. faults \in Nat
  BY FaultsType DEF TypeInv
<1>4. w <= f + faults
  <2>1. PICK k : k = Waiting(outcomes, OwnWins(s, b))
    OBVIOUS
  <2>2. k \in Nat
    BY <2>1, PlacesFinite DEF TypeInv, DiagnosisTypeOK
  <2>3. w + k <= f + faults
    BY <1>1, <2>1 DEF LedgerInv, OwnLedger
  <2>4. QED
    BY ONLY <1>2, <1>3, <2>2, <2>3
<1>5. r >= Max({1, MinSamples}) /\ AtLeast(w, r, SuppressAt)
  BY <1>1 DEF QuietEligible, TrackRecord
<1>6. AtLeast(w, Max({1, MinSamples}), SuppressAt)
  BY ONLY <1>2, <1>5, Wanted, EnoughOfFewer
<1>7. AtLeast(f + faults, Max({1, MinSamples}), SuppressAt)
  <2>1. f + faults \in Nat
    BY ONLY <1>2, <1>3
  <2>2. QED
    BY ONLY <1>2, <1>4, <1>6, <2>1, Wanted, EnoughGrows
<1>8. QED
  BY <1>1, <1>7 DEF EnoughOf

(* And of a signature, of all its playbooks.                               *)
LEMMA SuppressIsEarned ==
  ASSUME TypeInv, LedgerInv, NEW s \in Signatures, ShouldSuppress(s)
  PROVE  EnoughOf(Sum(fixed[s]), faults)
<1> DEFINE reals == [b \in Books |-> records[s][b].real]
<1>1. PICK w, r, f : w = Sum(Worked(records, s)) /\ r = Sum(reals) /\ f = Sum(fixed[s])
  OBVIOUS
<1>2. w \in Nat /\ r \in Nat /\ f \in Nat
  <2>1. fixed[s] \in [Books -> Nat] /\ records \in [Signatures -> [Books -> Counts]]
    BY DEF TypeInv, DiagnosisTypeOK
  <2>2. reals \in [Books -> Nat]
    BY RowsType DEF TypeInv
  <2>3. QED
    BY ONLY <1>1, <2>1, <2>2, s \in Signatures, SumType, WorkedType
<1>3. faults \in Nat
  BY FaultsType DEF TypeInv
<1>4. w <= f + faults
  <2>1. PICK k : k = Waiting(outcomes, Wins(s))
    OBVIOUS
  <2>2. k \in Nat
    BY <2>1, PlacesFinite DEF TypeInv, DiagnosisTypeOK
  <2>3. w + k <= f + faults
    BY <1>1, <2>1 DEF LedgerInv, SumLedger
  <2>4. QED
    BY ONLY <1>2, <1>3, <2>2, <2>3
<1>5. /\ r >= MinSamples
      /\ IF r = 0 THEN SuppressAt = 0 ELSE AtLeast(w, r, SuppressAt)
  BY <1>1 DEF ShouldSuppress, SignatureRecord, Worked
<1>6. AtLeast(w, Max({1, MinSamples}), SuppressAt)
  <2>1. CASE r = 0
    <3>1. SuppressAt * Max({1, MinSamples}) = 0
      BY <1>5, <2>1, Wanted
    <3>2. QED
      BY ONLY <1>2, <3>1 DEF AtLeast, One
  <2>2. CASE r # 0
    <3>1. r >= Max({1, MinSamples})
      BY <1>2, <1>5, <2>2, Wanted
    <3>2. QED
      BY ONLY <1>2, <1>5, <2>2, <3>1, Wanted, EnoughOfFewer
  <2>3. QED
    BY <2>1, <2>2
<1>7. AtLeast(f + faults, Max({1, MinSamples}), SuppressAt)
  <2>1. f + faults \in Nat
    BY ONLY <1>2, <1>3
  <2>2. QED
    BY ONLY <1>2, <1>4, <1>6, <2>1, Wanted, EnoughGrows
<1>8. QED
  BY <1>1, <1>7 DEF EnoughOf

(* What is waived, and what is quiet, in the same words.                   *)
Quiet(s) ==
  \/ s \in quieted
  \/ \E i \in DOMAIN detected : detected[i].sig = s /\ detected[i].quiet

WaiverInv == hand.stage = "run" /\ hand.waived => EnoughOf(fixed[hand.sig][hand.book], faults)
QuietInv == \A s \in Signatures : Quiet(s) => EnoughOf(Sum(fixed[s]), faults)

EarnedInv == LedgerInv /\ WaiverInv /\ QuietInv

LEMMA EarnedIsEarned == EarnedInv => UnattendedIsEarned
<1>1. WaiverInv => WaivedOnOwnRecord
  BY DEF WaiverInv, WaivedOnOwnRecord, Enough, EnoughOf
<1>2. QuietInv => QuietOnRealRuns
  BY DEF QuietInv, Quiet, QuietOnRealRuns, Enough, EnoughOf
<1>3. QED
  BY <1>1, <1>2 DEF EarnedInv, UnattendedIsEarned

LEMMA EarnedInit == Init => EarnedInv
<1> SUFFICES ASSUME Init PROVE EarnedInv
  OBVIOUS
<1>1. /\ TypeInv /\ faults = 0 /\ outcomes = <<>>
      /\ records = [s \in Signatures |-> [b \in Books |-> NoRows]]
      /\ fixed = [s \in Signatures |-> [b \in Books |-> 0]]
  BY TypeInit DEF Init
<1>2. \A kind : Waiting(outcomes, kind) = 0
  <2>1. SUFFICES ASSUME NEW kind PROVE Waiting(outcomes, kind) = 0
    OBVIOUS
  <2>2. Places(outcomes, kind) = {}
    BY <1>1 DEF Places
  <2>3. QED
    BY <2>2, FS_EmptySet DEF Waiting
<1>3. \A s \in Signatures, b \in Books : records[s][b].worked = 0 /\ fixed[s][b] = 0
  BY <1>1 DEF NoRows
<1>4. OwnLedger(records, outcomes, fixed, faults)
  BY <1>1, <1>2, <1>3 DEF OwnLedger
<1>5. ASSUME NEW s \in Signatures PROVE Sum(Worked(records, s)) = 0 /\ Sum(fixed[s]) = 0
  <2>1. records \in [Signatures -> [Books -> Counts]] /\ fixed[s] \in [Books -> Nat]
    BY <1>1 DEF TypeInv, DiagnosisTypeOK
  <2>2. Worked(records, s) \in [Books -> Nat] /\ \A b \in Books : Worked(records, s)[b] = 0
    BY <1>3, <2>1, WorkedType DEF Worked
  <2>3. QED
    BY ONLY <1>3, <2>1, <2>2, s \in Signatures, SumNothing
<1>6. SumLedger(records, outcomes, fixed, faults)
  BY <1>1, <1>2, <1>5 DEF SumLedger
<1>7. WaiverInv /\ QuietInv
  BY DEF Init, Idle, WaiverInv, QuietInv, Quiet
<1>8. QED
  BY <1>4, <1>6, <1>7 DEF EarnedInv, LedgerInv

(* A step that leaves the ledger alone.                                    *)
LEMMA LedgerSame ==
  ASSUME LedgerInv, UNCHANGED <<records, outcomes, fixed, faults>> PROVE LedgerInv'
BY DEF LedgerInv

LEMMA RefreshEarned ==
  ASSUME TypeInv, EarnedInv, RefreshReliability PROVE EarnedInv'
<1>1. /\ UNCHANGED <<records, outcomes, fixed, faults>> /\ hand' = hand /\ detected' = detected
      /\ quieted' = {s \in Signatures : ShouldSuppress(s)}
  BY DEF RefreshReliability, stores, topics, history
<1>2. LedgerInv'
  BY <1>1, LedgerSame DEF EarnedInv
<1>3. WaiverInv'
  BY <1>1 DEF EarnedInv, WaiverInv
<1>4. QuietInv'
  <2>1. SUFFICES ASSUME NEW s \in Signatures, Quiet(s)' PROVE EnoughOf(Sum(fixed[s]), faults)
    BY <1>1 DEF QuietInv
  <2>2. ShouldSuppress(s) \/ Quiet(s)
    BY <1>1, <2>1 DEF Quiet
  <2>3. QED
    BY <2>2, SuppressIsEarned DEF EarnedInv, QuietInv
<1>5. QED
  BY <1>2, <1>3, <1>4 DEF EarnedInv

LEMMA EmitEarned ==
  ASSUME TypeInv, EarnedInv, NEW sig \in Signatures, Emit(sig) PROVE EarnedInv'
<1>1. UNCHANGED <<records, outcomes, fixed, faults>> /\ hand' = hand /\ quieted' = quieted
  BY DEF Emit, stores, views
<1>2. LedgerInv'
  BY <1>1, LedgerSame DEF EarnedInv
<1>3. WaiverInv'
  BY <1>1 DEF EarnedInv, WaiverInv
<1>4. QuietInv'
  <2>1. SUFFICES ASSUME NEW s \in Signatures, Quiet(s)' PROVE Quiet(s)
    BY <1>1 DEF EarnedInv, QuietInv
  <2>2. SUFFICES ASSUME NEW i \in DOMAIN detected', detected'[i].sig = s, detected'[i].quiet
                 PROVE  Quiet(s)
    BY <1>1, <2>1 DEF Quiet
  <2>3. PICK d : d = [sig |-> sig, quiet |-> sig \in quieted]
    OBVIOUS
  <2>4. d.sig = sig /\ (d.quiet <=> sig \in quieted)
    BY ONLY <2>3, Zenon
  <2>5. detected' = detected \/ detected' = Append(detected, d)
    BY <2>3 DEF Emit
  <2>6. detected \in Seq(Situations)
    BY DEF TypeInv, DiagnosisTypeOK
  <2>7. CASE i \in DOMAIN detected
    <3>1. detected'[i] = detected[i]
      BY <2>5, <2>6, <2>7
    <3>2. QED
      BY <2>2, <2>7, <3>1 DEF Quiet
  <2>8. CASE i \notin DOMAIN detected
    <3>1. detected'[i] = d
      BY <2>5, <2>6, <2>8
    <3>2. s \in quieted
      BY <2>2, <2>4, <3>1
    <3>3. QED
      BY <3>2 DEF Quiet
  <2>9. QED
    BY <2>7, <2>8
<1>5. QED
  BY <1>2, <1>3, <1>4 DEF EarnedInv

LEMMA SelectEarned ==
  ASSUME TypeInv, EarnedInv, SelectRunbook PROVE EarnedInv'
<1>1. /\ UNCHANGED <<records, outcomes, fixed, faults>> /\ hand' = hand /\ quieted' = quieted
      /\ detected' = Tail(detected) /\ detected # <<>> /\ detected \in Seq(Situations)
  BY DEF SelectRunbook, stores, views, history, TypeInv, DiagnosisTypeOK
<1>2. LedgerInv'
  BY <1>1, LedgerSame DEF EarnedInv
<1>3. WaiverInv'
  BY <1>1 DEF EarnedInv, WaiverInv
<1>4. QuietInv'
  <2>1. SUFFICES ASSUME NEW s \in Signatures, Quiet(s)' PROVE Quiet(s)
    BY <1>1 DEF EarnedInv, QuietInv
  <2>2. \A i \in DOMAIN detected' : i + 1 \in DOMAIN detected /\ detected'[i] = detected[i + 1]
    BY <1>1
  <2>3. QED
    BY <1>1, <2>1, <2>2 DEF Quiet
<1>5. QED
  BY <1>2, <1>3, <1>4 DEF EarnedInv

(* A step after which nothing newly waived is at work.                     *)
LEMMA HandEarned ==
  ASSUME TypeInv, EarnedInv, TakeDiagnosis \/ Escalate \/ SelectPlaybook \/ QuietDecision
  PROVE  EarnedInv'
<1>1. UNCHANGED <<records, outcomes, fixed, faults>> /\ detected' = detected /\ quieted' = quieted
  BY DEF TakeDiagnosis, Escalate, SelectPlaybook, QuietDecision, stores, views, topics, history
<1>2. LedgerInv'
  BY <1>1, LedgerSame DEF EarnedInv
<1>3. QuietInv'
  BY <1>1 DEF EarnedInv, QuietInv, Quiet
<1>4. WaiverInv'
  <2>1. SUFFICES ASSUME hand'.stage = "run", hand'.waived
                 PROVE  EnoughOf(fixed[hand'.sig][hand'.book], faults)
    BY <1>1 DEF WaiverInv
  <2>2. CASE TakeDiagnosis
    BY <2>1, <2>2 DEF TakeDiagnosis
  <2>3. CASE Escalate
    BY <2>1, <2>3 DEF Escalate, Idle
  <2>4. CASE SelectPlaybook
    <3>1. PICK mode :
            \/ hand' = [stage |-> "quiet", sig |-> hand.sig, book |-> hand.book, mode |-> mode]
            \/ hand' = [stage |-> "run", sig |-> hand.sig, book |-> hand.book, mode |-> mode,
                        waived |-> FALSE]
      BY <2>4 DEF SelectPlaybook
    <3>2. hand'.stage = "quiet" \/ hand'.waived = FALSE
      BY ONLY <3>1
    <3>3. QED
      BY <2>1, <3>2
  <2>5. CASE QuietDecision
    <3>1. hand.stage = "quiet"
      BY <2>5 DEF QuietDecision
    <3>2. hand.sig \in Signatures /\ hand.book \in Books
      BY <3>1, HandType DEF TypeInv
    <3>3. PICK readable \in BOOLEAN :
            hand' = [stage |-> "run", sig |-> hand.sig, book |-> hand.book, mode |-> hand.mode,
                     waived |-> readable /\ QuietEligible(hand.sig, hand.book)]
      BY <2>5 DEF QuietDecision
    <3>4. hand'.sig = hand.sig /\ hand'.book = hand.book
      BY ONLY <3>3
    <3>5. hand'.waived = (readable /\ QuietEligible(hand.sig, hand.book))
      BY ONLY <3>3, Zenon
    <3>6. QuietEligible(hand.sig, hand.book)
      BY ONLY <2>1, <3>5, Zenon
    <3>7. QED
      BY <3>2, <3>4, <3>6, QuietIsEarned DEF EarnedInv
  <2>6. QED
    BY <2>2, <2>3, <2>4, <2>5
<1>5. QED
  BY <1>2, <1>3, <1>4 DEF EarnedInv

LEMMA RunEarned ==
  ASSUME TypeInv, EarnedInv, Refuse \/ Block \/ Execute PROVE EarnedInv'
<1>1. /\ hand' = Idle /\ quieted' = quieted /\ detected' = detected /\ records' = records
      /\ faults' = faults
  BY RunStep DEF TypeInv, views, stores
<1>2. /\ records \in [Signatures -> [Books -> Counts]] /\ outcomes \in Seq(Rows)
      /\ fixed \in [Signatures -> [Books -> Nat]] /\ faults \in Nat
  BY FaultsType DEF TypeInv, DiagnosisTypeOK
<1>3. PICK x \in Rows : /\ x.sig \in Signatures /\ x.book \in Books
                        /\ outcomes' = Append(outcomes, x)
                        /\ fixed' = IF Won(x)
                             THEN [fixed EXCEPT ![x.sig] = [fixed[x.sig] EXCEPT ![x.book] = @ + 1]]
                             ELSE fixed
  <2>1. PICK s \in Signatures, b \in Books, real \in BOOLEAN, worked \in BOOLEAN :
          /\ outcomes' = Append(outcomes, [sig |-> s, book |-> b, real |-> real,
                                           worked |-> worked])
          /\ fixed' = IF real /\ worked THEN [fixed EXCEPT ![s][b] = @ + 1] ELSE fixed
    BY RunStep DEF TypeInv
  <2>2. PICK x \in Rows : x = [sig |-> s, book |-> b, real |-> real, worked |-> worked]
    BY DEF Rows
  <2>3. x.sig = s /\ x.book = b
    BY ONLY <2>2
  <2>4. x.real = real /\ x.worked = worked
    BY ONLY <2>2, Zenon
  <2>5. Won(x) <=> real /\ worked
    BY ONLY <2>4 DEF Won
  <2>6. [fixed EXCEPT ![s][b] = @ + 1] = [fixed EXCEPT ![s] = [fixed[s] EXCEPT ![b] = @ + 1]]
    OBVIOUS
  <2>7. outcomes' = Append(outcomes, x)
    BY ONLY <2>1, <2>2, Zenon
  <2>8. fixed' = IF Won(x) THEN [fixed EXCEPT ![s] = [fixed[s] EXCEPT ![b] = @ + 1]] ELSE fixed
    BY <2>1, <2>5, <2>6
  <2>9. QED
    BY <2>3, <2>7, <2>8
<1>4. PICK runs : runs = fixed'
  OBVIOUS
<1>5. PICK q : q = outcomes'
  OBVIOUS
<1>6. /\ OwnLedger(records, q, runs, faults) /\ SumLedger(records, q, runs, faults)
      /\ \A s \in Signatures : Sum(fixed[s]) <= Sum(runs[s])
  <2>1. OwnLedger(records, outcomes, fixed, faults) /\ SumLedger(records, outcomes, fixed, faults)
    BY DEF EarnedInv, LedgerInv
  <2>2. PICK s \in Signatures, b \in Books : s = x.sig /\ b = x.book
    BY <1>3
  <2>3. Ran(fixed, runs, s, b, x)
    BY ONLY <1>3, <1>4, <2>2 DEF Ran
  <2>4. q = Append(outcomes, x)
    BY ONLY <1>3, <1>5
  <2>5. /\ OwnLedger(records, Append(outcomes, x), runs, faults)
        /\ SumLedger(records, Append(outcomes, x), runs, faults)
        /\ \A s1 \in Signatures : Sum(fixed[s1]) <= Sum(runs[s1])
    BY ONLY <1>2, <2>1, <2>2, <2>3, s \in Signatures, b \in Books, x \in Rows, LedgerRun
  <2>6. QED
    BY ONLY <2>4, <2>5
<1>7. LedgerInv'
  BY <1>1, <1>4, <1>5, <1>6 DEF LedgerInv
<1>8. WaiverInv'
  BY <1>1 DEF WaiverInv, Idle
<1>9. QuietInv'
  <2>1. SUFFICES ASSUME NEW s \in Signatures, Quiet(s)
                 PROVE  EnoughOf(Sum(runs[s]), faults)
    BY <1>1, <1>4 DEF QuietInv, Quiet
  <2>2. EnoughOf(Sum(fixed[s]), faults)
    BY <2>1 DEF EarnedInv, QuietInv
  <2>3. PICK m, n : m = Sum(fixed[s]) /\ n = Sum(runs[s])
    OBVIOUS
  <2>4. m \in Nat /\ n \in Nat /\ m <= n
    <3>1. fixed[s] \in [Books -> Nat]
      BY <1>2
    <3>2. runs[s] \in [Books -> Nat]
      <4>1. TypeInv'
        BY RunType
      <4>2. QED
        BY <1>4, <4>1 DEF TypeInv, DiagnosisTypeOK
    <3>3. QED
      BY <1>6, <2>3, <3>1, <3>2, SumType
  <2>5. EnoughOf(n, faults)
    BY ONLY <1>2, <2>2, <2>3, <2>4, EnoughOfMore
  <2>6. QED
    BY <2>3, <2>5
<1>10. QED
  BY <1>7, <1>8, <1>9 DEF EarnedInv

LEMMA LabelEarned ==
  ASSUME TypeInv, EarnedInv, LabelOutcome PROVE EarnedInv'
<1>1. /\ records \in [Signatures -> [Books -> Counts]] /\ outcomes \in Seq(Rows)
      /\ fixed \in [Signatures -> [Books -> Nat]] /\ faults \in Nat /\ outcomes # <<>>
  <2>1. outcomes # <<>>
    BY DEF LabelOutcome
  <2>2. QED
    BY <2>1, FaultsType DEF TypeInv, DiagnosisTypeOK
<1>2. PICK x \in Rows : x = Head(outcomes)
  BY <1>1
<1>3. x.sig \in Signatures /\ x.book \in Books
  BY <1>2 DEF Rows
<1>4. PICK s \in Signatures, b \in Books : s = x.sig /\ b = x.book
  BY <1>3
<1>5. PICK row : row = [all |-> records[s][b].all + 1,
                        good |-> records[s][b].good + One01(x.worked),
                        real |-> records[s][b].real + One01(x.real),
                        worked |-> records[s][b].worked + One01(x.real /\ x.worked)]
  OBVIOUS
<1>6. PICK recs : recs = records'
  OBVIOUS
<1>7. recs = [records EXCEPT ![s] = [records[s] EXCEPT ![b] = row]]
  BY <1>2, <1>4, <1>5, <1>6 DEF LabelOutcome
<1>8. recs \in [Signatures -> [Books -> Counts]]
  <2>1. TypeInv'
    BY LabelType
  <2>2. QED
    BY <1>6, <2>1 DEF TypeInv, DiagnosisTypeOK
<1>9. Labelled(records, recs, s, b, x)
  <2>1. row.worked = records[s][b].worked + One01(Won(x))
    BY ONLY <1>5 DEF Won
  <2>2. recs[s][b] = row
    BY ONLY <1>1, <1>7
  <2>3. \A s1 \in Signatures, b1 \in Books :
          s1 # s \/ b1 # b => recs[s1][b1] = records[s1][b1]
    BY ONLY <1>1, <1>7
  <2>4. QED
    BY ONLY <2>1, <2>2, <2>3 DEF Labelled
<1>10. OwnLedger(records, outcomes, fixed, faults) /\ SumLedger(records, outcomes, fixed, faults)
  BY DEF EarnedInv, LedgerInv
<1>11. /\ OwnLedger(recs, Tail(outcomes), fixed, faults)
       /\ SumLedger(recs, Tail(outcomes), fixed, faults)
       /\ OwnLedger(recs, outcomes, fixed, faults + 1)
       /\ SumLedger(recs, outcomes, fixed, faults + 1)
  BY ONLY <1>1, <1>2, <1>4, <1>8, <1>9, <1>10, s \in Signatures, b \in Books, x \in Rows,
    LedgerLabel
<1>12. /\ hand' = hand /\ quieted' = quieted /\ detected' = detected /\ fixed' = fixed
       /\ \/ outcomes' = Tail(outcomes) /\ faults' = faults
          \/ outcomes' = outcomes /\ faults' = faults + 1
  BY DEF LabelOutcome, views
<1>13. LedgerInv'
  BY <1>6, <1>11, <1>12 DEF LedgerInv
<1>14. PICK n \in Nat : n = faults' /\ faults <= n
  BY <1>1, <1>12
<1>15. WaiverInv'
  <2>1. SUFFICES ASSUME hand.stage = "run", hand.waived
                 PROVE  EnoughOf(fixed[hand.sig][hand.book], n)
    BY <1>12, <1>14 DEF WaiverInv
  <2>2. PICK f : f = fixed[hand.sig][hand.book]
    OBVIOUS
  <2>3. f \in Nat
    BY <1>1, <2>1, <2>2, HandType DEF TypeInv
  <2>4. EnoughOf(f, faults)
    BY <2>1, <2>2 DEF EarnedInv, WaiverInv
  <2>5. f <= f
    BY ONLY <2>3
  <2>6. EnoughOf(f, n)
    BY ONLY <1>1, <1>14, <2>3, <2>4, <2>5, n \in Nat, EnoughOfMore
  <2>7. QED
    BY <2>2, <2>6
<1>16. QuietInv'
  <2>1. SUFFICES ASSUME NEW z \in Signatures, Quiet(z)
                 PROVE  EnoughOf(Sum(fixed[z]), n)
    BY <1>12, <1>14 DEF QuietInv, Quiet
  <2>2. PICK f : f = Sum(fixed[z])
    OBVIOUS
  <2>3. f \in Nat
    BY <1>1, <2>2, SumType
  <2>4. EnoughOf(f, faults)
    BY <2>1, <2>2 DEF EarnedInv, QuietInv
  <2>5. f <= f
    BY ONLY <2>3
  <2>6. EnoughOf(f, n)
    BY ONLY <1>1, <1>14, <2>3, <2>4, <2>5, n \in Nat, EnoughOfMore
  <2>7. QED
    BY <2>2, <2>6
<1>17. QED
  BY <1>13, <1>15, <1>16 DEF EarnedInv

LEMMA EarnedStep == TypeInv /\ EarnedInv /\ [Next]_vars => EarnedInv'
<1> SUFFICES ASSUME TypeInv, EarnedInv, [Next]_vars PROVE EarnedInv'
  OBVIOUS
<1>1. CASE RefreshReliability
  BY <1>1, RefreshEarned
<1>2. CASE \E s \in Signatures : Emit(s)
  BY <1>2, EmitEarned
<1>3. CASE SelectRunbook
  BY <1>3, SelectEarned
<1>4. CASE TakeDiagnosis \/ Escalate \/ SelectPlaybook \/ QuietDecision
  BY <1>4, HandEarned
<1>5. CASE Refuse \/ Block \/ Execute
  BY <1>5, RunEarned
<1>6. CASE LabelOutcome
  BY <1>6, LabelEarned
<1>7. CASE UNCHANGED <<records, outcomes, fixed, faults, hand, detected, quieted>>
  <2>1. LedgerInv'
    BY <1>7, LedgerSame DEF EarnedInv
  <2>2. WaiverInv' /\ QuietInv'
    BY <1>7 DEF EarnedInv, WaiverInv, QuietInv, Quiet
  <2>3. QED
    BY <2>1, <2>2 DEF EarnedInv
<1>8. CASE RankHypotheses \/ (\E b \in Books, m \in Modes : Govern(b, m)) \/ SwitchExecutor
           \/ UNCHANGED vars
  <2>1. UNCHANGED <<records, outcomes, fixed, faults, hand, detected, quieted>>
    BY <1>8 DEF RankHypotheses, Govern, SwitchExecutor, vars, stores, views, topics, history
  <2>2. QED
    BY <1>7, <2>1
<1>9. QED
  BY <1>1, <1>2, <1>3, <1>4, <1>5, <1>6, <1>8 DEF Next

(* Nobody is left out who is still needed: however old a view of the       *)
(* records is, and whatever is still waiting for its label, an approval is *)
(* waived only for a playbook whose own runs on the cluster have fixed     *)
(* this signature often enough, and a situation is marked quiet or dropped *)
(* only where real runs did, but for one run for each outcome labelled     *)
(* twice (evidence.py:13-16, consumer.py:62, engine.py:175-184).           *)
THEOREM UnattendedIsEarnedHolds == Spec => []UnattendedIsEarned
BY EarnedInit, EarnedIsEarned, TypeHolds, EarnedStep, PTL DEF Spec
================================================================================
