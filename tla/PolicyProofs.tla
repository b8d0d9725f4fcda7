---- MODULE PolicyProofs ----
(***************************************************************************)
(* TLAPS proofs about PolicyEvaluation, for any number of calls, workers   *)
(* and template files.                                                     *)
(***************************************************************************)
EXTENDS PolicyEvaluation, SequenceTheorems, WellFoundedInduction, TLAPS

----------------------------------------------------------------------------
(* Loops of a number of rounds *)

\* A set of numbers that is not empty has a least one.
LEMMA LeastNumber ==
    ASSUME NEW T \in SUBSET Nat, T # {}
    PROVE  \E n \in T : \A m \in T : n <= m
  <1>1. PICK n \in T : \A m \in T : <<m, n>> \notin OpToRel(<, Nat)
    BY NatLessThanWellFounded, WFMin, Zenon
  <1>2. \A m \in T : ~(m < n)
    BY <1>1 DEF OpToRel
  <1> QED
    BY <1>2

\* g[n] is the value in S of a variable after n rounds of a loop.
IsLoop(g, N, S, base, step) ==
    /\ g \in [0..N -> S]
    /\ g[0] = base
    /\ \A n \in 1..N : n - 1 \in 0..N /\ g[n - 1] \in S /\ g[n] = step[n][g[n - 1]]

LEMMA LoopExists ==
    ASSUME NEW N \in Nat, NEW S, NEW base \in S, NEW step \in [1..N -> [S -> S]]
    PROVE  \E g : IsLoop(g, N, S, base, step)
  <1> DEFINE Good(m, g) == g = [n \in 0..m |-> IF n = 0 THEN base ELSE step[n][g[n - 1]]]
             Bad == {m \in 0..N : ~\E g \in [0..m -> S] : Good(m, g)}
  <1>1. ASSUME Bad # {} PROVE FALSE
    <2>1. PICK m \in Bad : \A k \in Bad : m <= k
      <3>1. Bad \in SUBSET Nat
        OBVIOUS
      <3> HIDE DEF Bad
      <3> QED
        BY <1>1, <3>1, LeastNumber
    <2>2. m \in 0..N /\ ~\E g \in [0..m -> S] : Good(m, g)
      OBVIOUS
    <2>3. CASE m = 0
      <3> DEFINE g == [n \in 0..0 |-> base]
      <3>1. g \in [0..m -> S] /\ Good(m, g)
        BY <2>3
      <3> QED
        BY <3>1, <2>2
    <2>4. CASE m # 0
      <3>1. m - 1 \in 0..N /\ m - 1 \notin Bad /\ m \in 1..N
        <4> HIDE DEF Bad
        <4>1. m - 1 \in 0..N /\ m \in 1..N
          BY <2>2, <2>4
        <4> QED
          BY <4>1, <2>1
      <3>2. PICK h \in [0..(m - 1) -> S] : Good(m - 1, h)
        BY <3>1
      <3> DEFINE g == [n \in 0..m |-> IF n = m THEN step[m][h[m - 1]] ELSE h[n]]
      <3>3. step[m][h[m - 1]] \in S
        <4>1. h[m - 1] \in S
          BY <3>1, <3>2
        <4>2. step[m] \in [S -> S]
          BY <3>1
        <4> QED
          BY <4>1, <4>2
      <3> HIDE DEF Good, Bad
      <3>4. g \in [0..m -> S]
        BY <3>3, <3>2, <2>2
      <3>5. ASSUME NEW n \in 0..m
            PROVE  g[n] = IF n = 0 THEN base ELSE step[n][g[n - 1]]
        <4> n \in Int /\ m \in Int
          BY <2>2
        <4>1. CASE n = m
          BY <4>1, <3>1
        <4>2. CASE n # m
          <5>1. n \in 0..(m - 1) /\ (n # 0 => n - 1 \in 0..m /\ n - 1 # m)
            BY <4>2, <3>1
          <5>2. h[n] = IF n = 0 THEN base ELSE step[n][h[n - 1]]
            BY <5>1, <3>2 DEF Good
          <5> QED
            BY <5>1, <5>2
        <4> QED
          BY <4>1, <4>2
      <3>6. Good(m, g)
        <4>1. g = [n \in 0..m |-> g[n]]
          OBVIOUS
        <4> HIDE DEF g
        <4> QED
          BY <4>1, <3>5 DEF Good
      <3> QED
        BY <3>4, <3>6, <2>2
    <2> QED
      BY <2>3, <2>4
  <1>2. \A n \in 1..N : n \in 0..N /\ n # 0 /\ n - 1 \in 0..N
    OBVIOUS
  <1>3. PICK g \in [0..N -> S] : Good(N, g)
    BY <1>1
  <1>4. \A n \in 0..N : g[n] = IF n = 0 THEN base ELSE step[n][g[n - 1]]
    BY <1>3
  <1> QED
    BY <1>2, <1>4 DEF IsLoop

\* A fact of the first round that every round keeps holds after the last.
LEMMA LoopInvariant ==
    ASSUME NEW N \in Nat, NEW T \in SUBSET (0..N), 0 \in T,
           \A n \in 1..N : n - 1 \in T => n \in T
    PROVE  T = 0..N
  <1> DEFINE Bad == (0..N) \ T
  <1>1. ASSUME Bad # {} PROVE FALSE
    <2>1. Bad \in SUBSET Nat
      OBVIOUS
    <2> HIDE DEF Bad
    <2>2. PICK m \in Bad : \A k \in Bad : m <= k
      BY <1>1, <2>1, LeastNumber
    <2> USE DEF Bad
    <2>3. m \in 1..N /\ m - 1 \in 0..N /\ m - 1 \notin Bad
      BY <2>2
    <2> QED
      BY <2>3
  <1> QED
    BY <1>1

\* A variable that no round takes out of S is in S throughout.
LEMMA LoopType ==
    ASSUME NEW N \in Nat, NEW S, NEW a, a = [n \in 0..N |-> a[n]], a[0] \in S,
           \A n \in 1..N : a[n - 1] \in S => a[n] \in S
    PROVE  a \in [0..N -> S]
  <1> DEFINE T == {n \in 0..N : a[n] \in S}
  <1>1. 0 \in T
    OBVIOUS
  <1>2. ASSUME NEW n \in 1..N, n - 1 \in T PROVE n \in T
    BY <1>2
  <1>3. T \in SUBSET (0..N)
    OBVIOUS
  <1> HIDE DEF T
  <1>4. T = 0..N
    BY <1>1, <1>2, <1>3, LoopInvariant
  <1>5. \A n \in 0..N : a[n] \in S
    BY <1>4 DEF T
  <1> QED
    BY <1>5

----------------------------------------------------------------------------
(* The first rule that applies *)

\* No rule of s applies to m.
Silent(s, m) == \A k \in DOMAIN s : ~Applies(s[k], m)

\* r is the first rule of s that applies to m.
Leads(s, r, m) ==
    \E k \in DOMAIN s : s[k] = r /\ Applies(r, m) /\ \A j \in 1..(k - 1) : ~Applies(s[j], m)

\* A rule that is asked and that applies
Matches(r, type, m) == r.action_type = type /\ Applies(r, m)

LEMMA FirstOfTwo ==
    ASSUME NEW R, NEW s \in Seq(R), NEW t \in Seq(R), NEW m, NEW r
    PROVE  /\ Silent(s, m) /\ Silent(t, m) => Silent(s \o t, m)
           /\ Leads(s, r, m) => Leads(s \o t, r, m)
           /\ Silent(s, m) /\ Leads(t, r, m) => Leads(s \o t, r, m)
  <1>1. /\ Len(s) \in Nat /\ Len(t) \in Nat
        /\ DOMAIN s = 1..Len(s) /\ DOMAIN t = 1..Len(t)
        /\ DOMAIN (s \o t) = 1..(Len(s) + Len(t))
        /\ \A k \in 1..(Len(s) + Len(t)) :
              (s \o t)[k] = IF k <= Len(s) THEN s[k] ELSE t[k - Len(s)]
    OBVIOUS
  <1> DEFINE st == s \o t
  <1> HIDE DEF st
  <1>2. ASSUME Silent(s, m), Silent(t, m) PROVE Silent(st, m)
    <2> SUFFICES ASSUME NEW k \in DOMAIN st PROVE ~Applies(st[k], m)
      BY DEF Silent
    <2>1. CASE k <= Len(s)
      BY <1>1, <1>2, <2>1 DEF Silent, st
    <2>2. CASE ~(k <= Len(s))
      <3>1. k - Len(s) \in DOMAIN t /\ st[k] = t[k - Len(s)]
        BY <1>1, <2>2 DEF st
      <3> QED
        BY <3>1, <1>2 DEF Silent
    <2> QED
      BY <2>1, <2>2
  <1>3. ASSUME Leads(s, r, m) PROVE Leads(st, r, m)
    <2>1. PICK k \in DOMAIN s : /\ s[k] = r /\ Applies(r, m)
                                /\ \A j \in 1..(k - 1) : ~Applies(s[j], m)
      BY <1>3 DEF Leads
    <2>2. k \in DOMAIN st /\ st[k] = r
      BY <1>1, <2>1 DEF st
    <2>3. \A j \in 1..(k - 1) : st[j] = s[j]
      BY <1>1, <2>1 DEF st
    <2> QED
      BY <2>1, <2>2, <2>3 DEF Leads
  <1>4. ASSUME Silent(s, m), Leads(t, r, m) PROVE Leads(st, r, m)
    <2>1. PICK k \in DOMAIN t : /\ t[k] = r /\ Applies(r, m)
                                /\ \A j \in 1..(k - 1) : ~Applies(t[j], m)
      BY <1>4 DEF Leads
    <2>2. Len(s) + k \in DOMAIN st /\ st[Len(s) + k] = r
      BY <1>1, <2>1 DEF st
    <2>3. ASSUME NEW j \in 1..(Len(s) + k - 1) PROVE ~Applies(st[j], m)
      <3>1. CASE j <= Len(s)
        BY <1>1, <1>4, <3>1 DEF Silent, st
      <3>2. CASE ~(j <= Len(s))
        <4>1. j - Len(s) \in 1..(k - 1) /\ st[j] = t[j - Len(s)]
          BY <1>1, <3>2 DEF st
        <4> QED
          BY <4>1, <2>1
      <3> QED
        BY <3>1, <3>2
    <2> QED
      BY <2>1, <2>2, <2>3 DEF Leads
  <1> QED
    BY <1>2, <1>3, <1>4 DEF st

(* get_rules_for_action *)

\* a[n] is applicable_rules after n rounds of the inner loop.
IsInnerLoop(a, R, rules, type) ==
    /\ a \in [0..Len(rules) -> Seq(R)]
    /\ a[0] = <<>>
    /\ \A n \in 1..Len(rules) :
          a[n] = IF rules[n].action_type = type THEN a[n - 1] \o <<rules[n]>> ELSE a[n - 1]

LEMMA OfTypeRounds ==
    ASSUME NEW R, NEW rules \in Seq(R), NEW type
    PROVE  \E a : IsInnerLoop(a, R, rules, type) /\ OfType(type, rules) = a[Len(rules)]
  <1> DEFINE N == Len(rules)
             S == Seq(R)
             Round(n, s) == IF rules[n].action_type = type THEN Append(s, rules[n]) ELSE s
             step == [n \in 1..N |-> [s \in S |-> Round(n, s)]]
             Rounds(g) == g = [n \in 0..N |-> IF n = 0 THEN <<>> ELSE Round(n, g[n - 1])]
             a == CHOOSE g : Rounds(g)
  <1>1. N \in Nat
    OBVIOUS
  <1>2. <<>> \in S
    OBVIOUS
  <1>3. \A n \in 1..N : \A s \in S : Round(n, s) \in S
    <2>1. \A n \in 1..N : rules[n] \in R
      OBVIOUS
    <2> QED
      BY <2>1
  <1>4. \A n \in 1..N : \A s \in S :
           Round(n, s) = IF rules[n].action_type = type THEN s \o <<rules[n]>> ELSE s
    <2>1. \A n \in 1..N : rules[n] \in R
      OBVIOUS
    <2> QED
      BY <2>1, AppendIsConcat
  <1>5. OfType(type, rules) = a[N]
    BY Zenon DEF OfType
  <1> HIDE DEF N, S, Round
  <1>6. step \in [1..N -> [S -> S]]
    BY <1>3
  <1>7. PICK g : IsLoop(g, N, S, <<>>, step)
    BY <1>1, <1>2, <1>6, LoopExists, Zenon
  <1>8. Rounds(g)
    <2>1. \A n \in 0..N : n # 0 => n \in 1..N
      BY <1>1
    <2>2. \A n \in 1..N : step[n][g[n - 1]] = Round(n, g[n - 1])
      BY <1>7 DEF IsLoop
    <2>3. g = [n \in 0..N |-> g[n]] /\ g[0] = <<>> /\ \A n \in 1..N : g[n] = step[n][g[n - 1]]
      BY <1>7 DEF IsLoop
    <2> HIDE DEF step
    <2> QED
      BY <2>1, <2>2, <2>3
  <1>9. Rounds(a)
    <2> HIDE DEF Rounds
    <2> QED
      BY <1>8
  <1> HIDE DEF a
  <1>10. a[0] = <<>> /\ \A n \in 1..N : a[n] = Round(n, a[n - 1])
    BY <1>1, <1>9
  <1>11. a \in [0..N -> S]
    <2>1. a[0] \in S
      BY <1>2, <1>10
    <2>2. \A n \in 1..N : a[n - 1] \in S => a[n] \in S
      BY <1>3, <1>10
    <2>3. a = [n \in 0..N |-> a[n]]
      BY <1>9
    <2> QED
      BY <1>1, <2>1, <2>2, <2>3, LoopType
  <1>12. \A n \in 1..N :
            a[n] = IF rules[n].action_type = type THEN a[n - 1] \o <<rules[n]>> ELSE a[n - 1]
    <2>1. \A n \in 1..N : a[n - 1] \in S
      BY <1>1, <1>11
    <2> QED
      BY <2>1, <1>4, <1>10, Zenon
  <1> QED
    BY <1>5, <1>10, <1>11, <1>12 DEF N, S, IsInnerLoop

\* The first rule for an action type that applies stays the first.
LEMMA OfTypeFirst ==
    ASSUME NEW R, NEW rules \in Seq(R), NEW type, NEW m
    PROVE  /\ OfType(type, rules) \in Seq(R)
           /\ \/ /\ Silent(OfType(type, rules), m)
                 /\ \A i \in 1..Len(rules) : ~Matches(rules[i], type, m)
              \/ \E i \in 1..Len(rules) :
                    /\ Matches(rules[i], type, m)
                    /\ \A j \in 1..(i - 1) : ~Matches(rules[j], type, m)
                    /\ Leads(OfType(type, rules), rules[i], m)
  <1> DEFINE N == Len(rules)
             First(s, n) ==
                \/ /\ Silent(s, m)
                   /\ \A i \in 1..n : ~Matches(rules[i], type, m)
                \/ \E i \in 1..n :
                      /\ Matches(rules[i], type, m)
                      /\ \A j \in 1..(i - 1) : ~Matches(rules[j], type, m)
                      /\ Leads(s, rules[i], m)
  <1>0. PICK a : IsInnerLoop(a, R, rules, type) /\ OfType(type, rules) = a[N]
    BY OfTypeRounds
  <1>1. /\ a \in [0..N -> Seq(R)]
        /\ a[0] = <<>>
        /\ \A n \in 1..N :
              a[n] = IF rules[n].action_type = type THEN a[n - 1] \o <<rules[n]>>
                     ELSE a[n - 1]
    BY <1>0 DEF IsInnerLoop
  <1>2. N \in Nat /\ \A n \in 1..N : n \in Int /\ rules[n] \in R
    OBVIOUS
  <1> DEFINE T == {n \in 0..N : First(a[n], n)}
  <1> HIDE DEF N
  <1>3. 0 \in T
    BY <1>1, <1>2 DEF Silent
  <1>4. ASSUME NEW n \in 1..N, n - 1 \in T PROVE n \in T
    <2>1. /\ First(a[n - 1], n - 1)
          /\ a[n - 1] \in Seq(R) /\ a[n] \in Seq(R)
          /\ rules[n] \in R /\ <<rules[n]>> \in Seq(R)
          /\ n \in 0..N /\ n \in 1..n /\ \A i \in 1..n : i \in 1..(n - 1) \/ i = n
          /\ \A i \in 1..(n - 1) : i \in 1..n
      BY <1>1, <1>2, <1>4
    <2>2. a[n] = IF rules[n].action_type = type THEN a[n - 1] \o <<rules[n]>> ELSE a[n - 1]
      BY <1>1
    <2>3. /\ ~Applies(rules[n], m) => Silent(<<rules[n]>>, m)
          /\ Applies(rules[n], m) => Leads(<<rules[n]>>, rules[n], m)
      BY DEF Silent, Leads
    <2> DEFINE new == <<rules[n]>>
    <2> HIDE DEF new
    <2>4. CASE rules[n].action_type # type
      <3>1. a[n] = a[n - 1] /\ ~Matches(rules[n], type, m)
        BY <2>2, <2>4 DEF Matches
      <3>2. First(a[n], n)
        BY <2>1, <3>1
      <3> QED
        BY <2>1, <3>2
    <2>5. CASE rules[n].action_type = type
      <3>1. a[n] = a[n - 1] \o new /\ new \in Seq(R) /\ (Matches(rules[n], type, m) <=> Applies(rules[n], m))
        BY <2>1, <2>2, <2>5 DEF Matches, new
      <3>2. CASE Silent(a[n - 1], m) /\ \A i \in 1..(n - 1) : ~Matches(rules[i], type, m)
        <4>1. CASE Applies(rules[n], m)
          <5>1. Leads(a[n], rules[n], m)
            BY <2>1, <2>3, <3>1, <3>2, <4>1, FirstOfTwo DEF new
          <5> QED
            BY <2>1, <3>1, <3>2, <4>1, <5>1
        <4>2. CASE ~Applies(rules[n], m)
          <5>1. Silent(a[n], m)
            BY <2>1, <2>3, <3>1, <3>2, <4>2, FirstOfTwo DEF new
          <5> QED
            BY <2>1, <3>1, <3>2, <4>2, <5>1
        <4> QED
          BY <4>1, <4>2
      <3>3. CASE \E i \in 1..(n - 1) :
                    /\ Matches(rules[i], type, m)
                    /\ \A j \in 1..(i - 1) : ~Matches(rules[j], type, m)
                    /\ Leads(a[n - 1], rules[i], m)
        <4>1. PICK i \in 1..(n - 1) :
                    /\ Matches(rules[i], type, m)
                    /\ \A j \in 1..(i - 1) : ~Matches(rules[j], type, m)
                    /\ Leads(a[n - 1], rules[i], m)
          BY <3>3
        <4>2. Leads(a[n], rules[i], m)
          BY <2>1, <3>1, <4>1, FirstOfTwo
        <4> QED
          BY <2>1, <4>1, <4>2
      <3> QED
        BY <2>1, <3>2, <3>3
    <2> QED
      BY <2>4, <2>5
  <1>5. T \in SUBSET (0..N)
    OBVIOUS
  <1> HIDE DEF T
  <1>6. T = 0..N
    BY <1>2, <1>3, <1>4, <1>5, LoopInvariant
  <1>7. a[N] \in Seq(R) /\ N \in T
    BY <1>1, <1>2, <1>6
  <1>8. First(a[N], N)
    BY <1>7 DEF T
  <1> QED
    BY <1>0, <1>7, <1>8 DEF N

\* a[n] is applicable_rules after n rounds of the outer loop.
IsOuterLoop(a, R, templates, type) ==
    /\ a \in [0..Len(templates) -> Seq(R)]
    /\ a[0] = <<>>
    /\ \A n \in 1..Len(templates) : a[n] = a[n - 1] \o OfType(type, templates[n])

LEMMA RulesRounds ==
    ASSUME NEW R, NEW templates \in Seq(Seq(R)), NEW type
    PROVE  \E a : /\ IsOuterLoop(a, R, templates, type)
                  /\ GetRulesForAction(type, templates) = a[Len(templates)]
  <1> DEFINE N == Len(templates)
             S == Seq(R)
             Round(n, s) == s \o OfType(type, templates[n])
             step == [n \in 1..N |-> [s \in S |-> Round(n, s)]]
             Rounds(g) == g = [n \in 0..N |-> IF n = 0 THEN <<>> ELSE Round(n, g[n - 1])]
             a == CHOOSE g : Rounds(g)
  <1>1. N \in Nat
    OBVIOUS
  <1>2. <<>> \in S
    OBVIOUS
  <1>3. \A n \in 1..N : \A s \in S : Round(n, s) \in S
    <2>1. \A n \in 1..N : templates[n] \in Seq(R)
      OBVIOUS
    <2>2. \A n \in 1..N : OfType(type, templates[n]) \in Seq(R)
      <3> SUFFICES ASSUME NEW n \in 1..N PROVE OfType(type, templates[n]) \in Seq(R)
        OBVIOUS
      <3>1. PICK b : /\ IsInnerLoop(b, R, templates[n], type)
                     /\ OfType(type, templates[n]) = b[Len(templates[n])]
        BY <2>1, OfTypeRounds
      <3>2. Len(templates[n]) \in 0..Len(templates[n])
        BY <2>1
      <3> QED
        BY <3>1, <3>2 DEF IsInnerLoop
    <2> QED
      BY <2>2
  <1>4. GetRulesForAction(type, templates) = a[N]
    BY Zenon DEF GetRulesForAction
  <1> HIDE DEF N, S, Round
  <1>5. step \in [1..N -> [S -> S]]
    BY <1>3
  <1>6. PICK g : IsLoop(g, N, S, <<>>, step)
    BY <1>1, <1>2, <1>5, LoopExists, Zenon
  <1>7. Rounds(g)
    <2>1. \A n \in 0..N : n # 0 => n \in 1..N
      BY <1>1
    <2>2. \A n \in 1..N : step[n][g[n - 1]] = Round(n, g[n - 1])
      BY <1>6 DEF IsLoop
    <2>3. g = [n \in 0..N |-> g[n]] /\ g[0] = <<>> /\ \A n \in 1..N : g[n] = step[n][g[n - 1]]
      BY <1>6 DEF IsLoop
    <2> HIDE DEF step
    <2> QED
      BY <2>1, <2>2, <2>3
  <1>8. Rounds(a)
    <2> HIDE DEF Rounds
    <2> QED
      BY <1>7
  <1> HIDE DEF a
  <1>9. a[0] = <<>> /\ \A n \in 1..N : a[n] = Round(n, a[n - 1])
    BY <1>1, <1>8
  <1>10. a \in [0..N -> S]
    <2>1. a[0] \in S
      BY <1>2, <1>9
    <2>2. \A n \in 1..N : a[n - 1] \in S => a[n] \in S
      BY <1>3, <1>9
    <2>3. a = [n \in 0..N |-> a[n]]
      BY <1>8
    <2> QED
      BY <1>1, <2>1, <2>2, <2>3, LoopType
  <1> QED
    BY <1>4, <1>9, <1>10 DEF N, S, Round, IsOuterLoop

\* None of the first n rules matches.
Quiet(rules, n, type, m) == \A i \in 1..n : ~Matches(rules[i], type, m)

\* The rule i of template f is the first one that matches.
FirstPlace(templates, f, i, type, m) ==
    /\ i \in 1..Len(templates[f])
    /\ Matches(templates[f][i], type, m)
    /\ Quiet(templates[f], i - 1, type, m)
    /\ \A g \in 1..(f - 1) : Quiet(templates[g], Len(templates[g]), type, m)

\* The rules for an action type are in the order of the templates: the first of
\* them that applies is the first that matches in the templates.
LEMMA RulesFirst ==
    ASSUME NEW R, NEW templates \in Seq(Seq(R)), NEW type, NEW m
    PROVE  LET rules == GetRulesForAction(type, templates)
           IN /\ rules \in Seq(R)
              /\ \/ /\ Silent(rules, m)
                    /\ \A f \in 1..Len(templates) :
                          Quiet(templates[f], Len(templates[f]), type, m)
                 \/ \E f \in 1..Len(templates) : \E i :
                       FirstPlace(templates, f, i, type, m) /\ Leads(rules, templates[f][i], m)
  <1> DEFINE N == Len(templates)
             AllQuiet(f) == Quiet(templates[f], Len(templates[f]), type, m)
             First(s, n) ==
                \/ Silent(s, m) /\ \A f \in 1..n : AllQuiet(f)
                \/ \E f \in 1..n : \E i :
                      FirstPlace(templates, f, i, type, m) /\ Leads(s, templates[f][i], m)
  <1>1. PICK a : /\ IsOuterLoop(a, R, templates, type)
                 /\ GetRulesForAction(type, templates) = a[N]
    BY RulesRounds
  <1>2. /\ a \in [0..N -> Seq(R)]
        /\ a[0] = <<>>
        /\ \A n \in 1..N : a[n] = a[n - 1] \o OfType(type, templates[n])
    BY <1>1 DEF IsOuterLoop
  <1>3. N \in Nat /\ \A n \in 1..N : n \in Int /\ templates[n] \in Seq(R)
    OBVIOUS
  <1> DEFINE T == {n \in 0..N : First(a[n], n)}
  <1> HIDE DEF N
  <1>4. 0 \in T
    BY <1>2, <1>3 DEF Silent
  <1>5. ASSUME NEW n \in 1..N, n - 1 \in T PROVE n \in T
    <2> DEFINE new == OfType(type, templates[n])
    <2>1. /\ new \in Seq(R)
          /\ \/ Silent(new, m) /\ AllQuiet(n)
             \/ \E i \in 1..Len(templates[n]) :
                   /\ Matches(templates[n][i], type, m)
                   /\ Quiet(templates[n], i - 1, type, m)
                   /\ Leads(new, templates[n][i], m)
      BY <1>3, OfTypeFirst DEF Quiet
    <2> HIDE DEF new
    <2>2. /\ First(a[n - 1], n - 1)
          /\ a[n - 1] \in Seq(R)
          /\ n \in 0..N /\ n \in 1..n /\ \A f \in 1..n : f \in 1..(n - 1) \/ f = n
          /\ \A f \in 1..(n - 1) : f \in 1..n
      BY <1>2, <1>3, <1>5
    <2>3. a[n] = a[n - 1] \o new
      BY <1>2 DEF new
    <2>4. CASE Silent(a[n - 1], m) /\ \A f \in 1..(n - 1) : AllQuiet(f)
      <3>1. CASE Silent(new, m) /\ AllQuiet(n)
        <4>1. Silent(a[n], m)
          BY <2>1, <2>2, <2>3, <2>4, <3>1, FirstOfTwo
        <4> QED
          BY <2>2, <2>4, <3>1, <4>1
      <3>2. CASE \E i \in 1..Len(templates[n]) :
                   /\ Matches(templates[n][i], type, m)
                   /\ Quiet(templates[n], i - 1, type, m)
                   /\ Leads(new, templates[n][i], m)
        <4>1. PICK i \in 1..Len(templates[n]) :
                   /\ Matches(templates[n][i], type, m)
                   /\ Quiet(templates[n], i - 1, type, m)
                   /\ Leads(new, templates[n][i], m)
          BY <3>2
        <4>2. Leads(a[n], templates[n][i], m)
          BY <2>1, <2>2, <2>3, <2>4, <4>1, FirstOfTwo
        <4>3. FirstPlace(templates, n, i, type, m)
          BY <2>4, <4>1 DEF FirstPlace
        <4> QED
          BY <2>2, <4>2, <4>3
      <3> QED
        BY <2>1, <3>1, <3>2
    <2>5. CASE \E f \in 1..(n - 1) : \E i :
                 FirstPlace(templates, f, i, type, m) /\ Leads(a[n - 1], templates[f][i], m)
      <3>1. PICK f \in 1..(n - 1) : \E i :
                 FirstPlace(templates, f, i, type, m) /\ Leads(a[n - 1], templates[f][i], m)
        BY <2>5
      <3>2. PICK i : FirstPlace(templates, f, i, type, m) /\ Leads(a[n - 1], templates[f][i], m)
        BY <3>1
      <3>3. Leads(a[n], templates[f][i], m)
        BY <2>1, <2>2, <2>3, <3>2, FirstOfTwo
      <3> QED
        BY <2>2, <3>2, <3>3
    <2> QED
      BY <2>2, <2>4, <2>5
  <1>6. T \in SUBSET (0..N)
    OBVIOUS
  <1> HIDE DEF T
  <1>7. T = 0..N
    BY <1>3, <1>4, <1>5, <1>6, LoopInvariant
  <1>8. a[N] \in Seq(R) /\ N \in T
    BY <1>2, <1>3, <1>7
  <1>9. First(a[N], N)
    BY <1>8 DEF T
  <1> QED
    BY <1>1, <1>8, <1>9 DEF N

LEMMA EvaluateFirst ==
    ASSUME NEW R, NEW rules \in Seq(R), NEW m, NEW r
    PROVE  /\ Silent(rules, m) =>
                 Evaluate(m, rules) = [status |-> "BLOCK", by |-> "NO_POLICY_MATCHED"]
           /\ Leads(rules, r, m) => Evaluate(m, rules) = [status |-> r.action, by |-> r.rule_id]
  <1> DEFINE I == {k \in 1..Len(rules) : Applies(rules[k], m)}
             i == IF I # {} THEN Min(I) ELSE 0
  <1>1. Evaluate(m, rules) = IF i = 0 THEN [status |-> "BLOCK", by |-> "NO_POLICY_MATCHED"]
                             ELSE [status |-> rules[i].action, by |-> rules[i].rule_id]
    BY DEF Evaluate, SelectInSeq
  <1>2. DOMAIN rules = 1..Len(rules) /\ Len(rules) \in Nat
    OBVIOUS
  <1>3. ASSUME Silent(rules, m) PROVE i = 0
    BY <1>2, <1>3 DEF Silent
  <1>4. ASSUME Leads(rules, r, m) PROVE i # 0 /\ rules[i] = r
    <2>1. PICK k \in DOMAIN rules : /\ rules[k] = r /\ Applies(r, m)
                                    /\ \A j \in 1..(k - 1) : ~Applies(rules[j], m)
      BY <1>4 DEF Leads
    <2>2. k \in I /\ \A j \in I : k <= j
      BY <1>2, <2>1
    <2>3. I \subseteq Int
      OBVIOUS
    <2> HIDE DEF I
    <2>4. Min(I) = k
      BY <2>2, <2>3 DEF Min
    <2> QED
      BY <1>2, <2>1, <2>2, <2>4
  <1> HIDE DEF i
  <1> QED
    BY <1>1, <1>3, <1>4

\* A call is decided by the first rule of the templates that matches, or blocked.
LEMMA DecideFirst ==
    ASSUME NEW R, NEW templates \in Seq(Seq(R)), NEW type, NEW m
    PROVE  LET decision == Decide(type, m, templates)
           IN \/ /\ decision \in {[status |-> "BLOCK", by |-> "NO_POLICY_DEFINED"],
                                 [status |-> "BLOCK", by |-> "NO_POLICY_MATCHED"]}
                 /\ \A f \in 1..Len(templates) :
                       Quiet(templates[f], Len(templates[f]), type, m)
              \/ \E f \in 1..Len(templates) : \E i :
                    /\ FirstPlace(templates, f, i, type, m)
                    /\ decision = [status |-> templates[f][i].action,
                                   by |-> templates[f][i].rule_id]
  <1> DEFINE rules == GetRulesForAction(type, templates)
  <1>1. /\ rules \in Seq(R)
        /\ \/ /\ Silent(rules, m)
              /\ \A f \in 1..Len(templates) :
                    Quiet(templates[f], Len(templates[f]), type, m)
           \/ \E f \in 1..Len(templates) : \E i :
                 FirstPlace(templates, f, i, type, m) /\ Leads(rules, templates[f][i], m)
    BY RulesFirst
  <1>2. Decide(type, m, templates) =
           IF rules = <<>> THEN [status |-> "BLOCK", by |-> "NO_POLICY_DEFINED"]
           ELSE Evaluate(m, rules)
    BY DEF Decide
  <1> HIDE DEF rules
  <1>3. CASE /\ Silent(rules, m)
             /\ \A f \in 1..Len(templates) :
                   Quiet(templates[f], Len(templates[f]), type, m)
    <2>1. Evaluate(m, rules) = [status |-> "BLOCK", by |-> "NO_POLICY_MATCHED"]
      BY <1>1, <1>3, EvaluateFirst
    <2> QED
      BY <1>2, <1>3, <2>1
  <1>4. CASE \E f \in 1..Len(templates) : \E i :
                 FirstPlace(templates, f, i, type, m) /\ Leads(rules, templates[f][i], m)
    <2>1. PICK f \in 1..Len(templates) : \E i :
                 FirstPlace(templates, f, i, type, m) /\ Leads(rules, templates[f][i], m)
      BY <1>4
    <2>2. PICK i : FirstPlace(templates, f, i, type, m) /\ Leads(rules, templates[f][i], m)
      BY <2>1
    <2>3. rules # <<>>
      BY <2>2 DEF Leads
    <2>4. Evaluate(m, rules) = [status |-> templates[f][i].action,
                                by |-> templates[f][i].rule_id]
      BY <1>1, <2>2, EvaluateFirst
    <2> QED
      BY <1>2, <2>2, <2>3, <2>4
  <1> QED
    BY <1>1, <1>3, <1>4

----------------------------------------------------------------------------
(* The merged payload *)

\* Requests and answers are payloads, and updating leads to no others.
LEMMA PayloadsArePayload ==
    ASSUME NEW p \in Payloads \cup Answers
    PROVE  p \in Payload /\ \A f \in DOMAIN p : f \in Field /\ p[f] \in Value
  <1>1. \A f \in DOMAIN p : f \in Field /\ p[f] \in Value
    BY DEF Field, Value
  <1>2. p \in [DOMAIN p -> Value]
    BY <1>1, Dictionaries
  <1>3. DOMAIN p \in SUBSET Field
    BY <1>1
  <1> QED
    BY <1>1, <1>2, <1>3 DEF Payload

LEMMA UpdateType ==
    ASSUME NEW p \in Payload, NEW a \in Answers
    PROVE  Update(p, a) \in Payload
  <1>1. PICK F \in SUBSET Field : p \in [F -> Value]
    BY DEF Payload
  <1>2. \A f \in DOMAIN a : f \in Field /\ a[f] \in Value
    BY PayloadsArePayload
  <1> DEFINE G == DOMAIN p \cup DOMAIN a
  <1>3. G \in SUBSET Field
    BY <1>1, <1>2
  <1>4. \A f \in G : (IF f \in DOMAIN a THEN a[f] ELSE p[f]) \in Value
    BY <1>1, <1>2
  <1>5. Update(p, a) \in [G -> Value]
    BY <1>4 DEF Update
  <1> HIDE DEF G
  <1> QED
    BY <1>3, <1>5 DEF Payload

LEMMA UpdateGet ==
    ASSUME NEW p, NEW a, NEW f
    PROVE  Get(Update(p, a), f) = IF f \in DOMAIN a THEN a[f] ELSE Get(p, f)
  BY DEF Get, Update

\* e[n] is enriched after n answers.
IsUpdateLoop(e, payload, answers) ==
    /\ e \in [0..Len(answers) -> Payload]
    /\ e[0] = payload
    /\ \A n \in 1..Len(answers) : e[n] = Update(e[n - 1], answers[n])

LEMMA EnrichedRounds ==
    ASSUME NEW payload \in Payloads, NEW answers \in Seq(Answers)
    PROVE  \E e : IsUpdateLoop(e, payload, answers) /\ Enriched(payload, answers) = e[Len(answers)]
  <1> DEFINE N == Len(answers)
             Round(n, p) == Update(p, answers[n])
             step == [n \in 1..N |-> [p \in Payload |-> Round(n, p)]]
             Rounds(g) == g = [n \in 0..N |-> IF n = 0 THEN payload ELSE Round(n, g[n - 1])]
             e == CHOOSE g : Rounds(g)
  <1>1. N \in Nat
    OBVIOUS
  <1>2. payload \in Payload
    BY PayloadsArePayload
  <1>3. \A n \in 1..N : \A p \in Payload : Round(n, p) \in Payload
    <2>1. \A n \in 1..N : answers[n] \in Answers
      OBVIOUS
    <2> QED
      BY <2>1, UpdateType
  <1>4. Enriched(payload, answers) = e[N]
    BY Zenon DEF Enriched
  <1> HIDE DEF N, Round
  <1>5. step \in [1..N -> [Payload -> Payload]]
    BY <1>3
  <1>6. PICK g : IsLoop(g, N, Payload, payload, step)
    BY <1>1, <1>2, <1>5, LoopExists, Zenon
  <1>7. Rounds(g)
    <2>1. \A n \in 0..N : n # 0 => n \in 1..N
      BY <1>1
    <2>2. \A n \in 1..N : step[n][g[n - 1]] = Round(n, g[n - 1])
      BY <1>6 DEF IsLoop
    <2>3. g = [n \in 0..N |-> g[n]] /\ g[0] = payload /\ \A n \in 1..N : g[n] = step[n][g[n - 1]]
      BY <1>6 DEF IsLoop
    <2> HIDE DEF step
    <2> QED
      BY <2>1, <2>2, <2>3
  <1>8. Rounds(e)
    <2> HIDE DEF Rounds
    <2> QED
      BY <1>7
  <1> HIDE DEF e
  <1>9. e[0] = payload /\ \A n \in 1..N : e[n] = Round(n, e[n - 1])
    BY <1>1, <1>8
  <1>10. e \in [0..N -> Payload]
    <2>1. e[0] \in Payload
      BY <1>2, <1>9
    <2>2. \A n \in 1..N : e[n - 1] \in Payload => e[n] \in Payload
      BY <1>3, <1>9
    <2>3. e = [n \in 0..N |-> e[n]]
      BY <1>8
    <2> QED
      BY <1>1, <2>1, <2>2, <2>3, LoopType
  <1> QED
    BY <1>4, <1>9, <1>10 DEF N, Round, IsUpdateLoop

\* The answers that say something of f
Telling(f, answers, n) == {i \in 1..n : f \in DOMAIN answers[i]}

\* The last answer that says something of a field decides it.
LEMMA EnrichedByLast ==
    ASSUME NEW payload \in Payloads, NEW answers \in Seq(Answers), NEW f
    PROVE  LET merged == Enriched(payload, answers)
               telling == Telling(f, answers, Len(answers))
           IN /\ merged \in Payload
              /\ \/ telling = {} /\ Get(merged, f) = Get(payload, f)
                 \/ \E i \in telling : /\ \A j \in telling : j <= i
                                       /\ Get(merged, f) = answers[i][f]
  <1> DEFINE N == Len(answers)
             Told(p, n) ==
                \/ Telling(f, answers, n) = {} /\ Get(p, f) = Get(payload, f)
                \/ \E i \in Telling(f, answers, n) :
                      /\ \A j \in Telling(f, answers, n) : j <= i
                      /\ Get(p, f) = answers[i][f]
  <1>1. PICK e : IsUpdateLoop(e, payload, answers) /\ Enriched(payload, answers) = e[N]
    BY EnrichedRounds
  <1>2. /\ e \in [0..N -> Payload]
        /\ e[0] = payload
        /\ \A n \in 1..N : e[n] = Update(e[n - 1], answers[n])
    BY <1>1 DEF IsUpdateLoop
  <1>3. N \in Nat
    OBVIOUS
  <1> DEFINE T == {n \in 0..N : Told(e[n], n)}
  <1> HIDE DEF N
  <1>4. 0 \in T
    <2>1. Telling(f, answers, 0) = {}
      BY DEF Telling
    <2> QED
      BY <2>1, <1>2, <1>3
  <1>5. ASSUME NEW n \in 1..N, n - 1 \in T PROVE n \in T
    <2>1. Get(e[n], f) = IF f \in DOMAIN answers[n] THEN answers[n][f] ELSE Get(e[n - 1], f)
      BY <1>2, UpdateGet
    <2>2. CASE f \in DOMAIN answers[n]
      <3>1. n \in Telling(f, answers, n) /\ \A j \in Telling(f, answers, n) : j <= n
        BY <1>3, <2>2 DEF Telling
      <3>2. Told(e[n], n)
        BY <2>1, <2>2, <3>1
      <3> QED
        BY <1>3, <3>2
    <2>3. CASE f \notin DOMAIN answers[n]
      <3>1. Telling(f, answers, n) = Telling(f, answers, n - 1)
        BY <1>3, <2>3 DEF Telling
      <3>2. Told(e[n - 1], n - 1)
        BY <1>5
      <3>3. Told(e[n], n)
        BY <2>1, <2>3, <3>1, <3>2
      <3> QED
        BY <1>3, <3>3
    <2> QED
      BY <2>2, <2>3
  <1>6. T \in SUBSET (0..N)
    OBVIOUS
  <1> HIDE DEF T
  <1>7. T = 0..N
    BY <1>3, <1>4, <1>5, <1>6, LoopInvariant
  <1>8. e[N] \in Payload /\ N \in T
    BY <1>2, <1>3, <1>7
  <1>9. Told(e[N], N)
    BY <1>8 DEF T
  <1> QED
    BY <1>1, <1>8, <1>9 DEF N

----------------------------------------------------------------------------
(* The inductive invariant *)

LoadState ==
    [on : BOOLEAN, call : Calls \cup {Null}, got : Templates, todo : SUBSET Files]

\* The records with the fields of k
Shape(k) ==
    [pc : {k.pc}, worker : {k.worker}, kind : {k.kind}, type : {k.type}, payload : {k.payload},
     hooks : {k.hooks}, merged : {k.merged}, at : {k.at}, used : {k.used},
     decision : {k.decision}]

TypeInv ==
    /\ now \in 0..MaxTime
    /\ disk \in [Files -> FileState]
    /\ edits \in 0..MaxEdits
    /\ seen \in [Files -> [0..MaxTime -> SUBSET FileState]]
    /\ cache \in [Workers -> [templates : Templates \cup {Null}, at : 0..MaxTime]]
    /\ load \in [Workers -> LoadState]

\* A call in progress has a worker, a request and an answer or none of each hook,
\* and one whose hooks are over has a merged payload.
CallOK(k) ==
    /\ k.pc \in {"idle", "hooks", "loading", "decided", "rejected"}
    /\ k.pc \in {"hooks", "loading"} => k.worker \in Workers /\ k.payload \in Payloads
    /\ k.hooks \in Seq(Answers \cup {Null}) /\ Len(k.hooks) <= MaxHooks
    /\ k.pc \in {"loading", "decided"} => k.merged \in Payload

\* Calls are records with those fields.
CallsInv ==
    /\ call = [c \in Calls |-> call[c]]
    /\ \A c \in Calls : call[c] \in Shape(call[c]) /\ CallOK(call[c])

\* A load on behalf of a call is the one that call is waiting for.
WaitingInv ==
    \A w \in Workers : load[w].on /\ load[w].call # Null =>
        call[load[w].call].pc = "loading" /\ call[load[w].call].worker = w

\* What is on disk is what the current tick has seen.
DiskInv == \A f \in Files : disk[f] \in seen[f][now]

\* r is what a load gets from file f if it reads it during tick t.
ReadAt(f, t, r) == \E x \in seen[f][t] : r = AsRules(x)

\* A cache holds what its files held when it was loaded.
CacheInv ==
    \A w \in Workers :
        /\ cache[w].at <= now
        /\ cache[w].templates # Null =>
              \A f \in Files : ReadAt(f, cache[w].at, cache[w].templates[f])

\* A load has nothing yet for the files still to come, and current rules for the
\* others.
LoadInv ==
    \A w \in Workers : load[w].on =>
        \A f \in Files : IF f \in load[w].todo THEN load[w].got[f] = <<>>
                         ELSE ReadAt(f, now, load[w].got[f])

\* A verdict follows from rules that were read less than TTL before it.
VerdictOf(k) ==
    /\ k.at \in 0..now
    /\ k.used \in Templates
    /\ k.decision = Decide(k.type, k.merged, k.used)
    /\ \A f \in Files : \E t \in 0..MaxTime :
          k.at - TTL + 1 <= t /\ t <= k.at /\ ReadAt(f, t, k.used[f])

VerdictInv == \A c \in Calls : Decided(c) => VerdictOf(call[c])

IInv ==
    TypeInv /\ CallsInv /\ WaitingInv /\ DiskInv /\ CacheInv /\ LoadInv /\ VerdictInv

----------------------------------------------------------------------------
(* How the calls change *)

\* The hooks of a call that has none
LEMMA NoHooks == <<>> \in Seq(Answers \cup {Null}) /\ Len(<<>>) <= MaxHooks
  BY MaxHooksNat

\* One call changes, and the clock and the files stay: its new verdict, if it
\* has one, is all there is to show.
LEMMA CallStep ==
    ASSUME CallsInv, VerdictInv, UNCHANGED <<now, seen>>,
           NEW c \in Calls, NEW k, k \in Shape(k),
           call' = [call EXCEPT ![c] = k],
           CallOK(k),
           k.pc = "decided" => VerdictOf(k)
    PROVE  CallsInv' /\ VerdictInv'
  <1>1. call' = [d \in Calls |-> IF d = c THEN k ELSE call[d]]
    BY DEF CallsInv
  <1>2. \A d \in Calls : call'[d] = IF d = c THEN k ELSE call[d]
    BY <1>1
  <1>3. CallsInv'
    <2>1. call' = [d \in Calls |-> call'[d]]
      BY <1>1
    <2>2. \A d \in Calls : call'[d] \in Shape(call'[d]) /\ CallOK(call'[d])
      BY <1>2 DEF CallsInv
    <2> QED
      BY <2>1, <2>2 DEF CallsInv
  <1>4. ASSUME NEW d \in Calls, Decided(d)'
        PROVE  VerdictOf(call[d])'
    <2>1. VerdictOf(call'[d])
      BY <1>2, <1>4 DEF VerdictInv, Decided
    <2> QED
      BY <2>1 DEF VerdictOf, ReadAt
  <1> QED
    BY <1>3, <1>4 DEF VerdictInv

\* No load waits for a call that changes but for the one that ends it.
LEMMA OtherCall ==
    ASSUME CallsInv, WaitingInv, NEW c \in Calls, NEW k,
           call' = [call EXCEPT ![c] = k], call[c].pc # "loading", UNCHANGED load
    PROVE  WaitingInv'
  <1>1. \A d : d # c => call'[d] = call[d]
    BY DEF CallsInv
  <1> QED
    BY <1>1 DEF WaitingInv

\* The verdict that templates give if each of them was read recently.
LEMMA ConcludedVerdict ==
    ASSUME TypeInv, CallsInv, NEW c \in Calls, NEW m \in Payload, NEW templates \in Templates,
           NEW at \in 0..now, now - at < TTL,
           \A f \in Files : ReadAt(f, at, templates[f])
    PROVE  /\ Concluded(c, m, templates) \in Shape(Concluded(c, m, templates))
           /\ Concluded(c, m, templates).pc = "decided"
           /\ CallOK(Concluded(c, m, templates))
           /\ VerdictOf(Concluded(c, m, templates))
  <1> DEFINE k == Concluded(c, m, templates)
             verdict == Decide(call[c].type, m, templates)
  <1>1. call[c] \in Shape(call[c])
    BY DEF CallsInv
  <1> HIDE DEF verdict
  <1>2. /\ Ended(c) \in Shape(Ended(c)) /\ Ended(c).type = call[c].type
        /\ Ended(c).hooks = <<>>
    BY <1>1 DEF Ended, Shape
  <1>3. /\ k \in Shape(k)
        /\ k.pc = "decided" /\ k.type = call[c].type /\ k.merged = m /\ k.at = now
        /\ k.used = templates /\ k.decision = verdict /\ k.hooks = <<>>
    <2> DEFINE e == Ended(c)
    <2>1. k = [e EXCEPT !.pc = "decided", !.merged = m, !.at = now, !.used = templates,
                        !.decision = verdict]
      BY DEF Concluded, verdict
    <2> HIDE DEF e, k
    <2>2. e \in Shape(e) /\ e.type = call[c].type /\ e.hooks = <<>>
      BY <1>2 DEF e
    <2> QED
      BY <2>1, <2>2 DEF Shape
  <1> HIDE DEF k
  <1>4. now \in Nat /\ TTL \in Nat /\ at \in Nat /\ MaxTime \in Nat /\ at <= now /\ now <= MaxTime
    BY TTLNat, MaxTimeNat DEF TypeInv
  <1>5. ASSUME NEW f \in Files
        PROVE  \E t \in 0..MaxTime : k.at - TTL + 1 <= t /\ t <= k.at /\ ReadAt(f, t, k.used[f])
    <2>1. k.at = now /\ k.used = templates
      BY <1>3
    <2>2. at \in 0..MaxTime /\ now - TTL + 1 <= at /\ at <= now
      BY <1>4
    <2> QED
      BY <2>1, <2>2
  <1>6. /\ k.pc = "decided" /\ k.at \in 0..now
        /\ k.used \in Templates
        /\ k.decision = Decide(k.type, k.merged, k.used)
    BY <1>3, <1>4 DEF verdict
  <1>7. CallOK(k)
    BY <1>3, NoHooks DEF CallOK
  <1> QED
    BY <1>3, <1>5, <1>6, <1>7 DEF VerdictOf, k

----------------------------------------------------------------------------
(* The steps *)

LEMMA InitInv == Init => IInv
  <1> SUFFICES ASSUME Init PROVE IInv
    OBVIOUS
  <1>1. NoTemplates \in Templates
    BY DEF NoTemplates, Templates
  <1>2. TypeInv
    <2>1. now \in 0..MaxTime
      BY MaxTimeNat DEF Init
    <2>2. disk \in [Files -> FileState]
      BY ShippedFiles DEF Init, FileState
    <2>3. seen \in [Files -> [0..MaxTime -> SUBSET FileState]]
      BY <2>2 DEF Init
    <2>4. cache \in [Workers -> [templates : Templates \cup {Null}, at : 0..MaxTime]]
      BY MaxTimeNat DEF Init
    <2>5. load \in [Workers -> LoadState]
      BY <1>1 DEF Init, LoadState
    <2>6. edits \in 0..MaxEdits
      BY MaxEditsNat DEF Init
    <2> QED
      BY <2>1, <2>2, <2>3, <2>4, <2>5, <2>6 DEF TypeInv
  <1>3. DiskInv
    BY MaxTimeNat DEF Init, DiskInv
  <1>4. CacheInv
    BY DEF Init, CacheInv
  <1>5. LoadInv
    BY DEF Init, LoadInv
  <1>6. VerdictInv
    BY DEF Init, VerdictInv, Decided
  <1>7. CallsInv
    BY NoHooks DEF Init, CallsInv, CallOK, Shape
  <1>8. WaitingInv
    BY DEF Init, WaitingInv
  <1> QED
    BY <1>2, <1>3, <1>4, <1>5, <1>6, <1>7, <1>8 DEF IInv

LEMMA ArriveStep ==
    ASSUME IInv, NEW c \in Calls, NEW w \in Workers, NEW kind, NEW type,
           NEW payload \in Payloads, NEW n \in HookCounts,
           Arrive(c, w, kind, type, payload, n)
    PROVE  IInv'
  <1>1. /\ UNCHANGED <<now, disk, edits, seen, cache, load>>
        /\ call[c] \in Shape(call[c]) /\ CallOK(call[c])
        /\ call[c].pc = "idle"
    BY DEF Arrive, IInv, CallsInv
  <1>2. PICK k : /\ k \in Shape(k) /\ k.pc # "decided" /\ call' = [call EXCEPT ![c] = k]
                 /\ CallOK(k)
    <2>1. CASE TooLarge(payload) \/ (kind = "evaluate" /\ n > MaxHooks)
      <3> DEFINE k == [call[c] EXCEPT !.pc = "rejected"]
      <3>1. call' = [call EXCEPT ![c] = k]
        BY <2>1 DEF Arrive
      <3>2. k \in Shape(k) /\ k.pc = "rejected" /\ k.hooks = call[c].hooks
        BY <1>1 DEF Shape
      <3> HIDE DEF k
      <3>3. CallOK(k)
        BY <1>1, <3>2 DEF CallOK
      <3> QED
        BY <3>1, <3>2, <3>3
    <2>2. CASE ~(TooLarge(payload) \/ (kind = "evaluate" /\ n > MaxHooks))
      <3> DEFINE l == IF n > MaxHooks THEN MaxHooks ELSE n
                 hooks == [i \in 1..l |-> Null]
                 k == [call[c] EXCEPT !.pc = "hooks", !.worker = w, !.kind = kind, !.type = type,
                                      !.payload = payload, !.hooks = hooks]
      <3>1. call' = [call EXCEPT ![c] = k]
        BY <2>2 DEF Arrive
      <3>2. l \in Nat /\ l <= MaxHooks
        BY MaxHooksNat, HookCountsNat
      <3> HIDE DEF l
      <3>3. hooks \in Seq(Answers \cup {Null}) /\ Len(hooks) <= MaxHooks
        BY <3>2
      <3> HIDE DEF hooks
      <3>4. /\ k \in Shape(k) /\ k.pc = "hooks" /\ k.worker = w /\ k.payload = payload
            /\ k.hooks = hooks
        BY <1>1 DEF Shape
      <3> HIDE DEF k
      <3>5. CallOK(k)
        BY <3>3, <3>4 DEF CallOK
      <3> QED
        BY <3>1, <3>4, <3>5
    <2> QED
      BY <2>1, <2>2
  <1>3. CallsInv' /\ VerdictInv'
    BY <1>1, <1>2, CallStep DEF IInv
  <1>4. WaitingInv'
    BY <1>1, <1>2, OtherCall DEF IInv
  <1> QED
    BY <1>1, <1>3, <1>4 DEF IInv, TypeInv, DiskInv, CacheInv, LoadInv, ReadAt

LEMMA HookAnswersStep ==
    ASSUME IInv, NEW c \in Calls, NEW i, NEW answer \in Answers, HookAnswers(c, i, answer)
    PROVE  IInv'
  <1>1. /\ UNCHANGED <<now, disk, edits, seen, cache, load>>
        /\ call[c] \in Shape(call[c]) /\ CallOK(call[c])
        /\ call[c].pc = "hooks"
        /\ i \in DOMAIN call[c].hooks
    BY DEF HookAnswers, IInv, CallsInv
  <1> DEFINE before == call[c].hooks
             hooks == [before EXCEPT ![i] = answer]
             k == [call[c] EXCEPT !.hooks = hooks]
  <1>2. call' = [call EXCEPT ![c] = k]
    BY DEF HookAnswers
  <1>3. /\ before \in Seq(Answers \cup {Null}) /\ Len(before) <= MaxHooks
        /\ i \in 1..Len(before)
    BY <1>1 DEF CallOK
  <1> HIDE DEF before
  <1>4. hooks \in Seq(Answers \cup {Null}) /\ Len(hooks) <= MaxHooks
    BY <1>3
  <1> HIDE DEF hooks
  <1>5. /\ k \in Shape(k) /\ k.pc = "hooks"
        /\ k.worker = call[c].worker /\ k.payload = call[c].payload /\ k.hooks = hooks
    BY <1>1 DEF Shape
  <1> HIDE DEF k
  <1>6. CallOK(k)
    BY <1>1, <1>4, <1>5 DEF CallOK
  <1>7. CallsInv' /\ VerdictInv'
    BY <1>1, <1>2, <1>5, <1>6, CallStep DEF IInv
  <1>8. WaitingInv'
    BY <1>1, <1>2, OtherCall DEF IInv
  <1> QED
    BY <1>1, <1>7, <1>8 DEF IInv, TypeInv, DiskInv, CacheInv, LoadInv, ReadAt

----------------------------------------------------------------------------
(* The loader *)

\* Nothing to show of the calls if they, the clock and the files stay.
LEMMA SameCalls ==
    ASSUME CallsInv, VerdictInv, UNCHANGED <<now, seen, call>>
    PROVE  CallsInv' /\ VerdictInv'
  <1>1. \A c \in Calls : VerdictOf(call[c]) => VerdictOf(call[c])'
    BY DEF VerdictOf, ReadAt
  <1> QED
    BY <1>1 DEF CallsInv, VerdictInv, Decided

\* What a load has before it has read anything: nothing of files that are there,
\* and the rules of a missing file, none.
LEMMA BeginLoadStep ==
    ASSUME IInv, NEW w \in Workers, NEW c \in Calls \cup {Null},
           BeginLoad(w, c), UNCHANGED <<now, disk, seen>>
    PROVE  load' \in [Workers -> LoadState] /\ LoadInv'
  <1> DEFINE k == [on |-> TRUE, call |-> c, got |-> NoTemplates,
                   todo |-> {f \in Files : disk[f] # Missing}]
  <1>1. k \in LoadState
    BY DEF LoadState, NoTemplates, Templates
  <1>2. load' = [load EXCEPT ![w] = k]
    BY DEF BeginLoad
  <1>3. ASSUME NEW f \in Files
        PROVE  IF f \in k.todo THEN k.got[f] = <<>> ELSE ReadAt(f, now, k.got[f])
    <2>1. k.got[f] = <<>>
      BY DEF NoTemplates
    <2>2. ASSUME f \notin k.todo PROVE ReadAt(f, now, <<>>)
      <3>1. disk[f] = Missing /\ disk[f] \in seen[f][now]
        BY <2>2 DEF IInv, DiskInv
      <3>2. AsRules(disk[f]) = <<>>
        BY <3>1, NoContents DEF AsRules
      <3> QED
        BY <3>1, <3>2 DEF ReadAt
    <2> QED
      BY <2>1, <2>2
  <1> HIDE DEF k
  <1>4. \A v \in Workers : load'[v] = IF v = w THEN k ELSE load[v]
    BY <1>2 DEF IInv, TypeInv
  <1>5. load' \in [Workers -> LoadState]
    BY <1>1, <1>2 DEF IInv, TypeInv
  <1>6. LoadInv'
    BY <1>3, <1>4 DEF IInv, LoadInv, ReadAt
  <1> QED
    BY <1>5, <1>6

LEMMA StartStep ==
    ASSUME IInv, NEW w \in Workers, Start(w)
    PROVE  IInv'
  <1>1. UNCHANGED <<now, disk, edits, seen, cache, call>> /\ BeginLoad(w, Null)
    BY DEF Start
  <1>2. load' \in [Workers -> LoadState] /\ LoadInv'
    BY <1>1, BeginLoadStep
  <1>3. CallsInv' /\ VerdictInv'
    BY <1>1, SameCalls DEF IInv
  <1>4. load'[w].call = Null /\ \A v \in Workers : v # w => load'[v] = load[v]
    BY <1>1 DEF BeginLoad, IInv, TypeInv
  <1>5. WaitingInv'
    BY <1>1, <1>4 DEF IInv, WaitingInv
  <1> QED
    BY <1>1, <1>2, <1>3, <1>5 DEF IInv, TypeInv, DiskInv, CacheInv, ReadAt

LEMMA ReadFileStep ==
    ASSUME IInv, NEW w \in Workers, ReadFile(w)
    PROVE  IInv'
  <1> DEFINE f == Min(load[w].todo)
             k == [load[w] EXCEPT !.todo = @ \ {f},
                                  !.got[f] = IF disk[f] \in Contents THEN disk[f] ELSE @]
  <1>1. UNCHANGED <<now, disk, edits, seen, cache, call>> /\ load[w].on /\ load[w] \in LoadState
    BY DEF ReadFile, Blocked, IInv, TypeInv
  <1>2. load' = [load EXCEPT ![w] = k]
    BY DEF ReadFile
  <1> HIDE DEF f
  <1>3. /\ k.on = TRUE /\ k.call = load[w].call
        /\ k.todo = load[w].todo \ {f}
        /\ k.got = [load[w].got EXCEPT ![f] = IF disk[f] \in Contents THEN disk[f] ELSE @]
        /\ k \in [on : BOOLEAN, call : Calls \cup {Null}, got : {k.got}, todo : {k.todo}]
    BY <1>1 DEF LoadState
  <1> HIDE DEF k
  <1>4. \A g \in Files : k.got[g] = IF g = f /\ disk[f] \in Contents THEN disk[f]
                                    ELSE load[w].got[g]
    BY <1>1, <1>3 DEF LoadState, Templates
  <1>5. k \in LoadState
    <2>1. k.got \in Templates
      BY <1>1, <1>3 DEF LoadState, Templates
    <2> QED
      BY <2>1, <1>1, <1>3 DEF LoadState
  <1>6. ASSUME NEW g \in Files
        PROVE  IF g \in k.todo THEN k.got[g] = <<>> ELSE ReadAt(g, now, k.got[g])
    <2>1. IF g \in load[w].todo THEN load[w].got[g] = <<>> ELSE ReadAt(g, now, load[w].got[g])
      BY <1>1 DEF IInv, LoadInv
    <2>2. CASE g # f
      BY <2>1, <2>2, <1>3, <1>4
    <2>3. CASE g = f /\ disk[f] \in Contents
      <3>1. k.got[g] = disk[g] /\ g \notin k.todo
        BY <2>3, <1>3, <1>4
      <3>2. disk[g] \in seen[g][now] /\ AsRules(disk[g]) = disk[g]
        BY <2>3 DEF IInv, DiskInv, AsRules
      <3> QED
        BY <3>1, <3>2 DEF ReadAt
    <2>4. CASE g = f /\ disk[f] \notin Contents
      <3>1. k.got[g] = load[w].got[g] /\ g \notin k.todo
        BY <2>4, <1>3, <1>4
      <3>2. disk[g] \in seen[g][now] /\ AsRules(disk[g]) = <<>>
        BY <2>4 DEF IInv, DiskInv, AsRules
      <3> QED
        BY <3>1, <3>2, <2>1 DEF ReadAt
    <2> QED
      BY <2>2, <2>3, <2>4
  <1>7. \A v \in Workers : load'[v] = IF v = w THEN k ELSE load[v]
    BY <1>2 DEF IInv, TypeInv
  <1>8. load' \in [Workers -> LoadState]
    BY <1>2, <1>5 DEF IInv, TypeInv
  <1>9. LoadInv'
    BY <1>1, <1>6, <1>7 DEF IInv, LoadInv, ReadAt
  <1>10. CallsInv' /\ VerdictInv'
    BY <1>1, SameCalls DEF IInv
  <1>11. WaitingInv'
    BY <1>1, <1>3, <1>7 DEF IInv, WaitingInv
  <1> QED
    BY <1>1, <1>8, <1>9, <1>10, <1>11 DEF IInv, TypeInv, DiskInv, CacheInv, ReadAt

LEMMA FinishLoadStep ==
    ASSUME IInv, NEW w \in Workers, FinishLoad(w)
    PROVE  IInv'
  <1> DEFINE got == load[w].got
             c == load[w].call
             idle == [on |-> FALSE, call |-> Null, got |-> NoTemplates, todo |-> {}]
  <1>1. /\ UNCHANGED <<now, disk, edits, seen>>
        /\ load[w].on /\ load[w].todo = {}
        /\ got \in Templates /\ c \in Calls \cup {Null}
        /\ now \in 0..MaxTime
    BY DEF FinishLoad, Blocked, IInv, TypeInv, LoadState
  <1>2. \A f \in Files : ReadAt(f, now, got[f])
    BY <1>1 DEF IInv, LoadInv
  <1>3. /\ cache' = [cache EXCEPT ![w] = [templates |-> got, at |-> now]]
        /\ load' = [load EXCEPT ![w] = idle]
        /\ call' = IF c = Null THEN call
                   ELSE [call EXCEPT ![c] = Concluded(c, call[c].merged, got)]
    <2>1. [call EXCEPT ![c] = Concluded(c, @.merged, got)]
            = [call EXCEPT ![c] = Concluded(c, call[c].merged, got)]
      OBVIOUS
    <2> QED
      BY <2>1 DEF FinishLoad
  <1>4. idle \in LoadState
    BY DEF LoadState, NoTemplates, Templates
  <1>5. idle.on = FALSE
    OBVIOUS
  <1>10. c # Null => call[c].pc = "loading" /\ call[c].worker = w
    BY <1>1 DEF IInv, WaitingInv
  <1>11. ASSUME NEW v \in Workers, v # w, load[v].on, load[v].call # Null
        PROVE  /\ call[load[v].call].pc = "loading" /\ call[load[v].call].worker = v
               /\ load[v].call # c
    BY <1>10, <1>11 DEF IInv, WaitingInv
  <1> HIDE DEF got, c, idle
  <1>6. CallsInv' /\ VerdictInv'
    <2>1. CASE c = Null
      <3>1. UNCHANGED call
        BY <2>1, <1>3
      <3> QED
        BY <3>1, <1>1, SameCalls DEF IInv
    <2>2. CASE c # Null
      <3> DEFINE k == Concluded(c, call[c].merged, got)
      <3>1. c \in Calls
        BY <2>2, <1>1
      <3>2. now \in 0..now /\ now - now < TTL
        BY <1>1, TTLNat
      <3>3. call[c].merged \in Payload
        BY <2>2, <3>1, <1>10 DEF IInv, CallsInv, CallOK
      <3>4. k \in Shape(k) /\ k.pc = "decided" /\ VerdictOf(k) /\ CallOK(k)
        BY <3>1, <3>2, <3>3, <1>1, <1>2, ConcludedVerdict DEF IInv
      <3>5. call' = [call EXCEPT ![c] = k]
        BY <2>2, <1>3
      <3> HIDE DEF k
      <3> QED
        BY <3>1, <3>4, <3>5, <1>1, CallStep DEF IInv
    <2> QED
      BY <2>1, <2>2
  <1>7. cache' \in [Workers -> [templates : Templates \cup {Null}, at : 0..MaxTime]]
    BY <1>1, <1>3 DEF IInv, TypeInv
  <1>8. CacheInv'
    <2> SUFFICES ASSUME NEW v \in Workers
                 PROVE  /\ cache'[v].at <= now
                        /\ cache'[v].templates # Null =>
                              \A f \in Files : ReadAt(f, cache'[v].at, cache'[v].templates[f])
      BY <1>1 DEF CacheInv, ReadAt
    <2>1. CASE v = w
      <3>1. cache'[v] = [templates |-> got, at |-> now]
        BY <2>1, <1>3 DEF IInv, TypeInv
      <3> QED
        BY <3>1, <1>1, <1>2
    <2>2. CASE v # w
      <3>1. cache'[v] = cache[v]
        BY <2>2, <1>3 DEF IInv, TypeInv
      <3> QED
        BY <3>1 DEF IInv, CacheInv
    <2> QED
      BY <2>1, <2>2
  <1>9. load' \in [Workers -> LoadState] /\ LoadInv'
    <2>1. \A v \in Workers : load'[v] = IF v = w THEN idle ELSE load[v]
      BY <1>3 DEF IInv, TypeInv
    <2>2. load' \in [Workers -> LoadState]
      BY <1>3, <1>4 DEF IInv, TypeInv
    <2>3. LoadInv'
      BY <2>1, <1>1, <1>5 DEF IInv, LoadInv, ReadAt
    <2> QED
      BY <2>2, <2>3
  <1>12. WaitingInv'
    <2> SUFFICES ASSUME NEW v \in Workers, load'[v].on, load'[v].call # Null
                 PROVE  /\ call'[load'[v].call].pc = "loading"
                        /\ call'[load'[v].call].worker = v
      BY DEF WaitingInv
    <2>1. v # w /\ load'[v] = load[v]
      BY <1>3, <1>5 DEF IInv, TypeInv
    <2>2. call'[load[v].call] = call[load[v].call]
      BY <2>1, <1>3, <1>11 DEF IInv, CallsInv
    <2> QED
      BY <2>1, <2>2, <1>11
  <1> QED
    BY <1>1, <1>6, <1>7, <1>8, <1>9, <1>12 DEF IInv, TypeInv, DiskInv

----------------------------------------------------------------------------
(* After the hooks *)

\* What resolve returns is a payload.
LEMMA MergedType ==
    ASSUME IInv, NEW c \in Calls, call[c].pc = "hooks"
    PROVE  Merged(c) \in Payload
  <1>1. call[c].payload \in Payloads /\ call[c].hooks \in Seq(Answers \cup {Null})
    BY DEF IInv, CallsInv, CallOK
  <1>2. CASE Answered(c)
    <2>1. call[c].hooks \in Seq(Answers)
      BY <1>1, <1>2 DEF Answered
    <2> QED
      BY <1>1, <1>2, <2>1, EnrichedByLast DEF Merged
  <1>3. CASE ~Answered(c)
    BY <1>1, <1>3, PayloadsArePayload DEF Merged
  <1> QED
    BY <1>2, <1>3

LEMMA ResolveStep ==
    ASSUME IInv, NEW c \in Calls, Resolve(c)
    PROVE  IInv'
  <1> DEFINE w == call[c].worker
             m == Merged(c)
  <1>1. /\ UNCHANGED <<now, disk, edits, seen, cache>>
        /\ call[c] \in Shape(call[c]) /\ CallOK(call[c])
        /\ call[c].pc = "hooks"
        /\ w \in Workers
        /\ now \in 0..MaxTime
        /\ cache[w] \in [templates : Templates \cup {Null}, at : 0..MaxTime]
    BY DEF Resolve, IInv, TypeInv, CallsInv, CallOK
  <1>2. m \in Payload
    BY <1>1, MergedType
  <1> HIDE DEF m
  <1>3. CASE call' = [call EXCEPT ![c] = [Ended(c) EXCEPT !.pc = "rejected"]] /\ UNCHANGED load
    <2> DEFINE k == [Ended(c) EXCEPT !.pc = "rejected"]
    <2>1. k \in Shape(k) /\ k.pc = "rejected" /\ k.hooks = <<>>
      BY <1>1 DEF Ended, Shape
    <2>2. call' = [call EXCEPT ![c] = k]
      BY <1>3
    <2> HIDE DEF k
    <2>3. CallOK(k)
      BY <2>1, NoHooks DEF CallOK
    <2>4. CallsInv' /\ VerdictInv'
      BY <1>1, <2>1, <2>2, <2>3, CallStep DEF IInv
    <2>5. WaitingInv'
      BY <1>1, <1>3, <2>2, OtherCall DEF IInv
    <2> QED
      BY <1>1, <1>3, <2>4, <2>5 DEF IInv, TypeInv, DiskInv, CacheInv, LoadInv, ReadAt
  <1>4. CASE /\ Fresh(w)
             /\ call' = [call EXCEPT ![c] = Concluded(c, m, cache[w].templates)]
             /\ UNCHANGED load
    <2> DEFINE k == Concluded(c, m, cache[w].templates)
    <2>1. /\ cache[w].templates \in Templates
          /\ cache[w].at \in 0..now /\ now - cache[w].at < TTL
          /\ \A f \in Files : ReadAt(f, cache[w].at, cache[w].templates[f])
      BY <1>1, <1>4, MaxTimeNat DEF Fresh, IInv, CacheInv
    <2>2. k \in Shape(k) /\ k.pc = "decided" /\ CallOK(k) /\ VerdictOf(k)
      BY <1>2, <2>1, ConcludedVerdict DEF IInv
    <2>3. call' = [call EXCEPT ![c] = k]
      BY <1>4
    <2> HIDE DEF k
    <2>4. CallsInv' /\ VerdictInv'
      BY <1>1, <2>2, <2>3, CallStep DEF IInv
    <2>5. WaitingInv'
      BY <1>1, <1>4, <2>3, OtherCall DEF IInv
    <2> QED
      BY <1>1, <1>4, <2>4, <2>5 DEF IInv, TypeInv, DiskInv, CacheInv, LoadInv, ReadAt
  <1>5. CASE /\ call' = [call EXCEPT ![c].pc = "loading", ![c].merged = m]
             /\ BeginLoad(w, c)
    <2> DEFINE k == [call[c] EXCEPT !.pc = "loading", !.merged = m]
    <2>1. call' = [call EXCEPT ![c] = k]
      BY <1>5
    <2>2. /\ k \in Shape(k) /\ k.pc = "loading" /\ k.merged = m
          /\ k.worker = w /\ k.payload = call[c].payload /\ k.hooks = call[c].hooks
      BY <1>1 DEF Shape
    <2> HIDE DEF k
    <2>3. CallOK(k)
      BY <1>1, <1>2, <2>2 DEF CallOK
    <2>4. CallsInv' /\ VerdictInv'
      BY <1>1, <2>1, <2>2, <2>3, CallStep DEF IInv
    <2>5. load' \in [Workers -> LoadState] /\ LoadInv'
      BY <1>1, <1>5, BeginLoadStep
    <2>6. WaitingInv'
      <3>1. call'[c] = k /\ \A d : d # c => call'[d] = call[d]
        BY <2>1 DEF IInv, CallsInv
      <3>2. load'[w].call = c /\ \A v \in Workers : v # w => load'[v] = load[v]
        BY <1>1, <1>5 DEF BeginLoad, IInv, TypeInv
      <3> SUFFICES ASSUME NEW v \in Workers, load'[v].on, load'[v].call # Null
                   PROVE  /\ call'[load'[v].call].pc = "loading"
                          /\ call'[load'[v].call].worker = v
        BY DEF WaitingInv
      <3>3. CASE v = w
        BY <2>2, <3>1, <3>2, <3>3
      <3>4. CASE v # w
        <4>1. load'[v] = load[v]
          BY <3>2, <3>4
        <4>2. call[load[v].call].pc = "loading" /\ call[load[v].call].worker = v
          BY <4>1 DEF IInv, WaitingInv
        <4>3. load[v].call # c
          BY <4>2, <1>1
        <4> QED
          BY <3>1, <4>1, <4>2, <4>3
      <3> QED
        BY <3>3, <3>4
    <2> QED
      BY <1>1, <2>4, <2>5, <2>6 DEF IInv, TypeInv, DiskInv, CacheInv, ReadAt
  <1> QED
    BY <1>3, <1>4, <1>5 DEF Resolve, m

----------------------------------------------------------------------------
(* The files and the clock: what was seen stays seen *)

\* A verdict stands, and a cache stays explained, if no tick forgets anything.
LEMMA Remembered ==
    ASSUME IInv, UNCHANGED <<cache, call>>, now' \in Nat, now <= now',
           \A f \in Files : \A t \in 0..now : seen[f][t] \subseteq seen'[f][t]
    PROVE  CacheInv' /\ VerdictInv'
  <1>1. now \in 0..MaxTime /\ MaxTime \in Nat
    BY MaxTimeNat DEF IInv, TypeInv
  <1>2. \A f \in Files : \A t \in 0..now : \A r : ReadAt(f, t, r) =>
           \E x \in seen'[f][t] : r = AsRules(x)
    BY DEF ReadAt
  <1>3. CacheInv'
    <2> SUFFICES ASSUME NEW w \in Workers
                 PROVE  /\ cache[w].at <= now'
                        /\ cache[w].templates # Null =>
                              \A f \in Files : \E x \in seen'[f][cache[w].at] :
                                 cache[w].templates[f] = AsRules(x)
      BY DEF CacheInv, ReadAt
    <2>1. /\ cache[w].at \in 0..now
          /\ cache[w].templates # Null =>
                \A f \in Files : ReadAt(f, cache[w].at, cache[w].templates[f])
      BY <1>1 DEF IInv, TypeInv, CacheInv
    <2> QED
      BY <1>1, <1>2, <2>1
  <1>4. VerdictInv'
    <2> SUFFICES ASSUME NEW c \in Calls, Decided(c)
                 PROVE  /\ call[c].at \in 0..now'
                        /\ call[c].used \in Templates
                        /\ call[c].decision = Decide(call[c].type, call[c].merged, call[c].used)
                        /\ \A f \in Files : \E t \in 0..MaxTime :
                              /\ call[c].at - TTL + 1 <= t /\ t <= call[c].at
                              /\ \E x \in seen'[f][t] : call[c].used[f] = AsRules(x)
      BY DEF VerdictInv, VerdictOf, Decided, ReadAt
    <2>1. VerdictOf(call[c])
      BY DEF IInv, VerdictInv
    <2>2. call[c].at \in 0..now
      BY <2>1 DEF VerdictOf
    <2>3. ASSUME NEW f \in Files
          PROVE  \E t \in 0..MaxTime :
                    /\ call[c].at - TTL + 1 <= t /\ t <= call[c].at
                    /\ \E x \in seen'[f][t] : call[c].used[f] = AsRules(x)
      <3>1. PICK t \in 0..MaxTime : /\ call[c].at - TTL + 1 <= t /\ t <= call[c].at
                                    /\ ReadAt(f, t, call[c].used[f])
        BY <2>1 DEF VerdictOf
      <3>2. t \in 0..now
        BY <3>1, <2>2, <1>1
      <3> QED
        BY <3>1, <3>2, <1>2
    <2>4. call[c].at \in 0..now'
      BY <2>2, <1>1
    <2> QED
      BY <2>1, <2>3, <2>4 DEF VerdictOf
  <1> QED
    BY <1>3, <1>4

LEMMA EditStep ==
    ASSUME IInv, NEW f \in Files, NEW content \in FileState, Edit(f, content)
    PROVE  IInv'
  <1>1. /\ UNCHANGED <<now, cache, load, call>>
        /\ disk' = [disk EXCEPT ![f] = content]
        /\ seen' = [seen EXCEPT ![f][now] = @ \cup {content}]
        /\ now \in 0..MaxTime /\ MaxTime \in Nat
        /\ edits' \in 0..MaxEdits
    BY MaxTimeNat, MaxEditsNat DEF Edit, IInv, TypeInv
  <1>2. /\ seen' \in [Files -> [0..MaxTime -> SUBSET FileState]]
        /\ disk' \in [Files -> FileState]
    BY <1>1 DEF IInv, TypeInv
  <1>3. \A g \in Files : \A t \in 0..MaxTime :
           seen'[g][t] = IF g = f /\ t = now THEN seen[g][t] \cup {content} ELSE seen[g][t]
    BY <1>1 DEF IInv, TypeInv
  <1>4. \A g \in Files : \A t \in 0..MaxTime : seen[g][t] \subseteq seen'[g][t]
    BY <1>3
  <1>5. CacheInv' /\ VerdictInv'
    BY <1>1, <1>4, Remembered
  <1>6. DiskInv'
    BY <1>1, <1>3 DEF IInv, TypeInv, DiskInv
  <1>7. LoadInv'
    BY <1>1, <1>4 DEF IInv, LoadInv, ReadAt
  <1> QED
    BY <1>1, <1>2, <1>5, <1>6, <1>7 DEF IInv, TypeInv, CallsInv, WaitingInv

LEMMA TickStep ==
    ASSUME IInv, Tick
    PROVE  IInv'
  <1>1. /\ UNCHANGED <<disk, edits, cache, load, call>>
        /\ now' = now + 1
        /\ now' \in 0..MaxTime /\ now \in 0..MaxTime /\ MaxTime \in Nat
        /\ \A w \in Workers : ~load[w].on
        /\ seen' = [f \in Files |-> [seen[f] EXCEPT ![now + 1] = {disk[f]}]]
    BY MaxTimeNat DEF Tick, Blocked, IInv, TypeInv
  <1>2. seen' \in [Files -> [0..MaxTime -> SUBSET FileState]]
    BY <1>1 DEF IInv, TypeInv
  <1>3. \A f \in Files : \A t \in 0..MaxTime :
           seen'[f][t] = IF t = now + 1 THEN {disk[f]} ELSE seen[f][t]
    BY <1>1 DEF IInv, TypeInv
  <1>4. \A f \in Files : \A t \in 0..now : seen[f][t] \subseteq seen'[f][t]
    BY <1>1, <1>3
  <1>5. CacheInv' /\ VerdictInv'
    BY <1>1, <1>4, Remembered
  <1>6. DiskInv'
    <2>1. \A f \in Files : seen'[f][now'] = {disk[f]}
      BY <1>1, <1>3
    <2> QED
      BY <1>1, <2>1 DEF DiskInv
  <1>7. LoadInv'
    BY <1>1 DEF LoadInv
  <1> QED
    BY <1>1, <1>2, <1>5, <1>6, <1>7 DEF IInv, TypeInv, CallsInv, WaitingInv

LEMMA StutterStep ==
    ASSUME IInv, UNCHANGED vars
    PROVE  IInv'
  <1>1. UNCHANGED <<now, disk, edits, seen, cache, load, call>>
    BY DEF vars
  <1>2. CallsInv' /\ VerdictInv'
    BY <1>1, SameCalls DEF IInv
  <1> QED
    BY <1>1, <1>2 DEF IInv, TypeInv, WaitingInv, DiskInv, CacheInv, LoadInv, ReadAt

LEMMA NextInv == IInv /\ [Next]_vars => IInv'
  <1> SUFFICES ASSUME IInv, [Next]_vars PROVE IInv'
    OBVIOUS
  <1>1. ASSUME NEW w \in Workers, Start(w) PROVE IInv'
    BY <1>1, StartStep
  <1>2. ASSUME NEW w \in Workers, ReadFile(w) PROVE IInv'
    BY <1>2, ReadFileStep
  <1>3. ASSUME NEW w \in Workers, FinishLoad(w) PROVE IInv'
    BY <1>3, FinishLoadStep
  <1>4. ASSUME NEW c \in Calls, NEW w \in Workers, NEW kind \in {"evaluate", "simulate"},
               NEW type \in ActionTypes, NEW payload \in Payloads, NEW n \in HookCounts,
               Arrive(c, w, kind, type, payload, n)
        PROVE  IInv'
    BY <1>4, ArriveStep
  <1>5. ASSUME NEW c \in Calls, NEW i \in 1..MaxHooks, NEW answer \in Answers,
               HookAnswers(c, i, answer)
        PROVE  IInv'
    BY <1>5, HookAnswersStep
  <1>6. ASSUME NEW c \in Calls, Resolve(c) PROVE IInv'
    BY <1>6, ResolveStep
  <1>7. ASSUME NEW f \in Files, NEW content \in FileState, Edit(f, content) PROVE IInv'
    BY <1>7, EditStep
  <1>8. CASE Tick
    BY <1>8, TickStep
  <1>9. CASE UNCHANGED vars
    BY <1>9, StutterStep
  <1> QED
    BY <1>1, <1>2, <1>3, <1>4, <1>5, <1>6, <1>7, <1>8, <1>9 DEF Next

\* Every reachable state satisfies the inductive invariant.
THEOREM InductiveInvariant == Spec => []IInv
  BY InitInv, NextInv, PTL DEF Spec

----------------------------------------------------------------------------
(* What follows for the verdicts *)

\* The rules of a verdict, in terms of the property
LEMMA FreshFromVerdict ==
    ASSUME IInv, NEW c \in Calls, Decided(c), NEW f \in Files
    PROVE  \E x \in Held(f, call[c].at - TTL + 1, call[c].at) : call[c].used[f] = AsRules(x)
  <1>1. PICK t \in 0..MaxTime : /\ call[c].at - TTL + 1 <= t /\ t <= call[c].at
                                /\ ReadAt(f, t, call[c].used[f])
    BY DEF IInv, VerdictInv, VerdictOf
  <1>2. PICK x \in seen[f][t] : call[c].used[f] = AsRules(x)
    BY <1>1 DEF ReadAt
  <1>3. now \in 0..MaxTime /\ call[c].at \in 0..now /\ TTL \in Nat
    BY TTLNat DEF IInv, TypeInv, VerdictInv, VerdictOf
  <1>4. t \in (0..MaxTime) \cap (call[c].at - TTL + 1 .. call[c].at)
    BY <1>1, <1>3, MaxTimeNat
  <1>5. x \in Held(f, call[c].at - TTL + 1, call[c].at)
    BY <1>2, <1>4 DEF Held
  <1> QED
    BY <1>2, <1>5

(***************************************************************************)
(* Every verdict comes from rules that their files held less than TTL      *)
(* before it, for any number of workers that load on their own clocks and  *)
(* any changes to the files while they are read.                           *)
(***************************************************************************)
THEOREM PolicyIsFreshHolds == Spec => []PolicyIsFresh
  <1>1. IInv => PolicyIsFresh
    BY FreshFromVerdict DEF PolicyIsFresh
  <1> QED
    BY <1>1, InductiveInvariant, PTL

\* A longer stretch of time has held no less.
LEMMA HeldGrows ==
    ASSUME NEW f, NEW a \in Int, NEW b \in Int, NEW u \in Int, NEW v \in Int,
           u <= a, b <= v
    PROVE  Held(f, a, b) \subseteq Held(f, u, v)
  <1>1. (0..MaxTime) \cap (a..b) \subseteq (0..MaxTime) \cap (u..v)
    BY MaxTimeNat
  <1> QED
    BY <1>1 DEF Held

(***************************************************************************)
(* Two verdicts on the same action type and payload, of any workers, of    *)
(* evaluate or simulate, differ only if a file changed less than TTL       *)
(* before the first or between the two.                                    *)
(***************************************************************************)
THEOREM WorkersAgreeHolds == Spec => []WorkersAgree
  <1>1. ASSUME IInv PROVE WorkersAgree
    <2> SUFFICES ASSUME NEW c \in Calls, NEW d \in Calls, Decided(c), Decided(d),
                        call[c].type = call[d].type, call[c].merged = call[d].merged,
                        call[c].at <= call[d].at,
                        \A f \in Files :
                           \A x, y \in Held(f, call[c].at - TTL + 1, call[d].at) : x = y
                 PROVE  call[c].decision = call[d].decision
      BY DEF WorkersAgree
    <2>1. VerdictOf(call[c]) /\ VerdictOf(call[d])
      BY <1>1 DEF IInv, VerdictInv
    <2>2. call[c].at \in Nat /\ call[d].at \in Nat /\ TTL \in Nat
      BY <1>1, <2>1, TTLNat DEF IInv, TypeInv, VerdictOf
    <2>3. ASSUME NEW f \in Files PROVE call[c].used[f] = call[d].used[f]
      <3> DEFINE H == Held(f, call[c].at - TTL + 1, call[d].at)
      <3>1. PICK x \in Held(f, call[c].at - TTL + 1, call[c].at) : call[c].used[f] = AsRules(x)
        BY <1>1, FreshFromVerdict
      <3>2. PICK y \in Held(f, call[d].at - TTL + 1, call[d].at) : call[d].used[f] = AsRules(y)
        BY <1>1, FreshFromVerdict
      <3>3. x \in H
        BY <2>2, HeldGrows
      <3>4. y \in H
        BY <2>2, HeldGrows
      <3> QED
        BY <3>1, <3>2, <3>3, <3>4
    <2>4. call[c].used = call[d].used
      BY <2>1, <2>3 DEF VerdictOf, Templates
    <2> QED
      BY <2>1, <2>4 DEF VerdictOf
  <1> QED
    BY <1>1, InductiveInvariant, PTL

----------------------------------------------------------------------------
(* What decided a call *)

\* The rules of a verdict are sequences of rules, file by file.
LEMMA UsedRules ==
    ASSUME NEW used \in Templates
    PROVE  /\ used \in Seq(Seq(Rule)) /\ Len(used) = NumFiles
           /\ \A f \in Files : /\ used[f] \in Seq(Rule)
                              /\ DOMAIN used[f] = 1..Len(used[f])
                              /\ \A i \in DOMAIN used[f] : used[f][i] \in Rule
  <1>1. ASSUME NEW s \in Contents PROVE s \in Seq(Rule)
    <2> DEFINE R == {s[i] : i \in DOMAIN s}
    <2>1. s \in Seq(R)
      BY ContentsSequences
    <2>2. \A i \in DOMAIN s : s[i] \in Rule
      BY DEF Rule
    <2> HIDE DEF R
    <2>3. DOMAIN s = 1..Len(s) /\ Len(s) \in Nat /\ s = [i \in 1..Len(s) |-> s[i]]
      BY <2>1
    <2> QED
      BY <2>2, <2>3
  <1>2. ASSUME NEW f \in Files PROVE used[f] \in Seq(Rule)
    <2>1. used[f] \in Contents \/ used[f] = <<>>
      BY DEF Templates
    <2>2. <<>> \in Seq(Rule)
      OBVIOUS
    <2> QED
      BY <1>1, <2>1, <2>2
  <1>3. used \in [Files -> Seq(Rule)]
    BY <1>2 DEF Templates
  <1>4. used \in Seq(Seq(Rule)) /\ Len(used) = NumFiles
    BY <1>3, NumFilesNat DEF Files
  <1>5. ASSUME NEW f \in Files
        PROVE  /\ DOMAIN used[f] = 1..Len(used[f])
               /\ \A i \in DOMAIN used[f] : used[f][i] \in Rule
    BY <1>2
  <1> QED
    BY <1>2, <1>4, <1>5

\* A call was blocked because no rule matches, or decided by the first that does.
LEMMA DecidedBy ==
    ASSUME IInv, NEW c \in Calls, Decided(c)
    PROVE  LET used == call[c].used
               type == call[c].type
               m == call[c].merged
           IN \/ /\ call[c].decision \in {[status |-> "BLOCK", by |-> "NO_POLICY_DEFINED"],
                                          [status |-> "BLOCK", by |-> "NO_POLICY_MATCHED"]}
                 /\ \A f \in Files : Quiet(used[f], Len(used[f]), type, m)
              \/ \E f \in Files : \E i :
                    /\ FirstPlace(used, f, i, type, m)
                    /\ call[c].decision = [status |-> used[f][i].action,
                                           by |-> used[f][i].rule_id]
  <1>1. /\ call[c].used \in Templates
        /\ call[c].decision = Decide(call[c].type, call[c].merged, call[c].used)
    BY DEF IInv, VerdictInv, VerdictOf
  <1>2. call[c].used \in Seq(Seq(Rule)) /\ 1..Len(call[c].used) = Files
    BY <1>1, UsedRules DEF Files
  <1> DEFINE used == call[c].used
             type == call[c].type
             m == call[c].merged
  <1>3. \/ /\ Decide(type, m, used) \in {[status |-> "BLOCK", by |-> "NO_POLICY_DEFINED"],
                                         [status |-> "BLOCK", by |-> "NO_POLICY_MATCHED"]}
           /\ \A f \in Files : Quiet(used[f], Len(used[f]), type, m)
        \/ \E f \in Files : \E i :
              /\ FirstPlace(used, f, i, type, m)
              /\ Decide(type, m, used) = [status |-> used[f][i].action,
                                          by |-> used[f][i].rule_id]
    <2> HIDE DEF used, type, m
    <2> QED
      BY <1>2, DecideFirst DEF used
  <1> QED
    BY <1>1, <1>3

(***************************************************************************)
(* Every state of the service has its shape: caches and loads hold rules   *)
(* of the template files, a call in progress has its worker and request,   *)
(* and a verdict is BLOCK or the action of one of the rules.               *)
(***************************************************************************)
THEOREM TypeOKHolds == Spec => []TypeOK
  <1>1. ASSUME IInv PROVE TypeOK
    <2>1. /\ now \in 0..MaxTime
          /\ disk \in [Files -> FileState]
          /\ edits \in 0..MaxEdits
          /\ seen \in [Files -> [0..MaxTime -> SUBSET FileState]]
      BY <1>1 DEF IInv, TypeInv
    <2>2. ASSUME NEW w \in Workers
          PROVE  /\ cache[w].templates = Null \/ cache[w].templates \in Templates
                 /\ cache[w].at \in 0..now
                 /\ load[w].on \in BOOLEAN
                 /\ load[w].call \in Calls \cup {Null}
                 /\ load[w].got \in Templates
                 /\ load[w].todo \subseteq Files
      <3>1. /\ cache[w] \in [templates : Templates \cup {Null}, at : 0..MaxTime]
            /\ load[w] \in LoadState
            /\ cache[w].at <= now /\ now \in 0..MaxTime
        BY <1>1 DEF IInv, TypeInv, CacheInv
      <3> QED
        BY <3>1, MaxTimeNat DEF LoadState
    <2>3. ASSUME NEW c \in Calls, call[c].pc = "decided"
          PROVE  call[c].decision \in Decision /\ call[c].used \in Templates
      <3>1. Decided(c) /\ call[c].used \in Templates
        BY <1>1, <2>3 DEF IInv, VerdictInv, VerdictOf, Decided
      <3> DEFINE used == call[c].used
      <3>2. CASE call[c].decision \in {[status |-> "BLOCK", by |-> "NO_POLICY_DEFINED"],
                                       [status |-> "BLOCK", by |-> "NO_POLICY_MATCHED"]}
        BY <3>1, <3>2 DEF Decision
      <3>3. CASE \E f \in Files : \E i :
                    /\ FirstPlace(used, f, i, call[c].type, call[c].merged)
                    /\ call[c].decision = [status |-> used[f][i].action,
                                           by |-> used[f][i].rule_id]
        <4>1. PICK f \in Files : \E i :
                    /\ FirstPlace(used, f, i, call[c].type, call[c].merged)
                    /\ call[c].decision = [status |-> used[f][i].action,
                                           by |-> used[f][i].rule_id]
          BY <3>3
        <4>2. PICK i : /\ FirstPlace(used, f, i, call[c].type, call[c].merged)
                       /\ call[c].decision = [status |-> used[f][i].action,
                                              by |-> used[f][i].rule_id]
          BY <4>1
        <4>3. used[f][i] \in Rule
          BY <3>1, <4>2, UsedRules DEF FirstPlace
        <4> HIDE DEF used
        <4> QED
          BY <3>1, <4>2, <4>3 DEF Decision
      <3> QED
        BY <1>1, <3>1, <3>2, <3>3, DecidedBy
    <2>4. ASSUME NEW c \in Calls PROVE CallOK(call[c])
      BY <1>1 DEF IInv, CallsInv
    <2>5. ASSUME NEW c \in Calls
          PROVE  \A i \in DOMAIN call[c].hooks : call[c].hooks[i] \in Answers \cup {Null}
      BY <2>4 DEF CallOK
    <2> QED
      BY <2>1, <2>2, <2>3, <2>4, <2>5 DEF TypeOK, CallOK
  <1> QED
    BY <1>1, InductiveInvariant, PTL

(***************************************************************************)
(* Every verdict is the one of the first rule, over all templates in the   *)
(* order of their names, that is for the action type and applies to the    *)
(* merged payload; with no such rule the call was blocked.                 *)
(***************************************************************************)
THEOREM FirstMatchWinsHolds == Spec => []FirstMatchWins
  <1>1. ASSUME IInv PROVE FirstMatchWins
    <2> SUFFICES ASSUME NEW c \in Calls, Decided(c)
                 PROVE  LET used == call[c].used
                            places == {p \in Files \X UNION {DOMAIN used[f] : f \in Files} :
                                         /\ p[2] \in DOMAIN used[p[1]]
                                         /\ used[p[1]][p[2]].action_type = call[c].type
                                         /\ Applies(used[p[1]][p[2]], call[c].merged)}
                            Before(p, q) == p[1] < q[1] \/ (p[1] = q[1] /\ p[2] < q[2])
                        IN IF places = {} THEN call[c].decision.status = "BLOCK"
                           ELSE \E p \in places :
                                   /\ \A q \in places \ {p} : Before(p, q)
                                   /\ call[c].decision = [status |-> used[p[1]][p[2]].action,
                                                          by |-> used[p[1]][p[2]].rule_id]
      BY DEF FirstMatchWins
    <2> DEFINE used == call[c].used
               type == call[c].type
               m == call[c].merged
               places == {p \in Files \X UNION {DOMAIN used[f] : f \in Files} :
                            /\ p[2] \in DOMAIN used[p[1]]
                            /\ used[p[1]][p[2]].action_type = type
                            /\ Applies(used[p[1]][p[2]], m)}
    <2>1. used \in Templates
      BY <1>1 DEF IInv, VerdictInv, VerdictOf
    <2>2. \A f \in Files : DOMAIN used[f] = 1..Len(used[f])
      BY <2>1, UsedRules
    <2> HIDE DEF used, type, m
    <2>3. \A p : p \in places =>
             /\ p[1] \in Files /\ p[2] \in 1..Len(used[p[1]])
             /\ p = <<p[1], p[2]>> /\ Matches(used[p[1]][p[2]], type, m)
      BY <2>2 DEF Matches
    <2>4. \A f \in Files : \A i \in 1..Len(used[f]) :
             Matches(used[f][i], type, m) => <<f, i>> \in places
      BY <2>2 DEF Matches
    <2> HIDE DEF places
    <2>5. CASE /\ call[c].decision \in {[status |-> "BLOCK", by |-> "NO_POLICY_DEFINED"],
                                        [status |-> "BLOCK", by |-> "NO_POLICY_MATCHED"]}
               /\ \A f \in Files : Quiet(used[f], Len(used[f]), type, m)
      <3>1. places = {}
        BY <2>3, <2>5 DEF Quiet
      <3>2. call[c].decision.status = "BLOCK"
        BY <2>5
      <3> QED
        BY <3>1, <3>2 DEF places, used, type, m
    <2>6. CASE \E f \in Files : \E i :
                    /\ FirstPlace(used, f, i, type, m)
                    /\ call[c].decision = [status |-> used[f][i].action,
                                           by |-> used[f][i].rule_id]
      <3>1. PICK f \in Files : \E i :
                    /\ FirstPlace(used, f, i, type, m)
                    /\ call[c].decision = [status |-> used[f][i].action,
                                           by |-> used[f][i].rule_id]
        BY <2>6
      <3>2. PICK i : /\ FirstPlace(used, f, i, type, m)
                     /\ call[c].decision = [status |-> used[f][i].action,
                                            by |-> used[f][i].rule_id]
        BY <3>1
      <3>3. i \in 1..Len(used[f]) /\ <<f, i>> \in places
        BY <2>4, <3>2 DEF FirstPlace
      <3>4. ASSUME NEW q \in places, q # <<f, i>>
            PROVE  f < q[1] \/ (f = q[1] /\ i < q[2])
        <4>1. /\ q[1] \in Files /\ q[2] \in 1..Len(used[q[1]])
              /\ q = <<q[1], q[2]>> /\ Matches(used[q[1]][q[2]], type, m)
          BY <2>3
        <4>2. CASE q[1] < f
          <5>1. q[1] \in 1..(f - 1)
            BY <4>1, <4>2, NumFilesNat DEF Files
          <5> QED
            BY <3>2, <4>1, <5>1 DEF FirstPlace, Quiet
        <4>3. CASE q[1] = f /\ q[2] < i
          <5>1. q[2] \in 1..(i - 1)
            BY <3>3, <4>1, <4>3
          <5> QED
            BY <3>2, <4>1, <4>3, <5>1 DEF FirstPlace, Quiet
        <4>4. CASE q[1] = f /\ q[2] = i
          BY <3>4, <4>1, <4>4
        <4> QED
          BY <3>3, <4>1, <4>2, <4>3, <4>4, NumFilesNat DEF Files
      <3>5. \E p \in places :
               /\ \A q \in places \ {p} : p[1] < q[1] \/ (p[1] = q[1] /\ p[2] < q[2])
               /\ call[c].decision = [status |-> used[p[1]][p[2]].action,
                                      by |-> used[p[1]][p[2]].rule_id]
        <4> DEFINE p == <<f, i>>
        <4>1. p \in places /\ p[1] = f /\ p[2] = i
          BY <3>3
        <4> HIDE DEF p
        <4>2. \A q \in places \ {p} : p[1] < q[1] \/ (p[1] = q[1] /\ p[2] < q[2])
          BY <3>4, <4>1 DEF p
        <4> QED
          BY <3>2, <4>1, <4>2
      <3>6. places # {}
        BY <3>3
      <3> QED
        BY <3>5, <3>6 DEF places, used, type, m
    <2> QED
      BY <1>1, <2>5, <2>6, DecidedBy DEF used, type, m
  <1> QED
    BY <1>1, InductiveInvariant, PTL

(***************************************************************************)
(* A verdict other than BLOCK is given by a rule that its file held less   *)
(* than TTL before, and whose conditions are about fields that were sent   *)
(* or answered and are not null: no failure of a hook, of a file or of a   *)
(* load approves anything.                                                 *)
(***************************************************************************)
THEOREM FailClosedHolds == Spec => []FailClosed
  <1>1. ASSUME IInv PROVE FailClosed
    <2> DEFINE Known(c, cond) == Get(call[c].merged, cond.field) # NullValue
               Explains(c, x, i) ==
                  /\ x[i].rule_id = call[c].decision.by
                  /\ x[i].action = call[c].decision.status
                  /\ x[i].action_type = call[c].type
                  /\ \A j \in DOMAIN x[i].conditions : Known(c, x[i].conditions[j])
                  /\ x[i].any_of # <<>> => \E j \in DOMAIN x[i].any_of : Known(c, x[i].any_of[j])
    <2> SUFFICES ASSUME NEW c \in Calls, Decided(c), call[c].decision.status # "BLOCK"
                 PROVE  \E f \in Files : \E x \in Held(f, call[c].at - TTL + 1, call[c].at) :
                           \E i \in DOMAIN AsRules(x) : Explains(c, x, i)
      BY DEF FailClosed
    <2> DEFINE used == call[c].used
               type == call[c].type
               m == call[c].merged
    <2>1. PICK f \in Files : \E i :
             /\ FirstPlace(used, f, i, type, m)
             /\ call[c].decision = [status |-> used[f][i].action, by |-> used[f][i].rule_id]
      BY <1>1, DecidedBy
    <2>2. PICK i : /\ FirstPlace(used, f, i, type, m)
                   /\ call[c].decision = [status |-> used[f][i].action, by |-> used[f][i].rule_id]
      BY <2>1
    <2>3. PICK x \in Held(f, call[c].at - TTL + 1, call[c].at) : used[f] = AsRules(x)
      BY <1>1, FreshFromVerdict
    <2>4. used \in Templates
      BY <1>1 DEF IInv, VerdictInv, VerdictOf
    <2> DEFINE rule == used[f][i]
    <2>5. i \in DOMAIN used[f] /\ rule.action_type = type /\ Applies(rule, m)
      BY <2>2, <2>4, UsedRules DEF FirstPlace, Matches
    <2>6. i \in DOMAIN AsRules(x) /\ AsRules(x) = x /\ x[i] = rule
      <3>1. DOMAIN <<>> = {}
        OBVIOUS
      <3>2. AsRules(x) # <<>>
        BY <2>3, <2>5, <3>1
      <3> QED
        BY <2>3, <2>5, <3>2 DEF AsRules
    <2>7. call[c].decision.status = rule.action /\ call[c].decision.by = rule.rule_id
      BY <2>2
    <2>8. /\ \A j \in DOMAIN rule.conditions : Known(c, rule.conditions[j])
          /\ rule.any_of # <<>> => \E j \in DOMAIN rule.any_of : Known(c, rule.any_of[j])
      <3> HIDE DEF rule
      <3> QED
        BY <2>5 DEF Applies, AllConditionsMatch, SingleConditionMatches
    <2> HIDE DEF rule, used, m, Known
    <2>9. Explains(c, x, i)
      BY <2>5, <2>6, <2>7, <2>8 DEF type
    <2> HIDE DEF Explains
    <2> QED
      BY <2>6, <2>9
  <1> QED
    BY <1>1, InductiveInvariant, PTL

----------------------------------------------------------------------------
(* The merged payload of a call *)

\* Only resolve takes a call from its hooks to its verdict.
LEMMA LeavesHooks ==
    ASSUME IInv, [Next]_vars, NEW c \in Calls,
           call[c].pc = "hooks", call'[c].pc \in {"loading", "decided"}
    PROVE  call'[c].merged = Merged(c)
  <1>1. \A d \in Calls : call[d] \in Shape(call[d])
    BY DEF IInv, CallsInv
  <1>2. \A d \in Calls : \A k : call' = [call EXCEPT ![d] = k] =>
           call'[c] = IF d = c THEN k ELSE call[c]
    BY DEF IInv, CallsInv
  <1>3. call'[c] # call[c]
    OBVIOUS
  <1>4. ASSUME NEW w \in Workers, FinishLoad(w) PROVE FALSE
    <2> DEFINE d == load[w].call
               k == Concluded(d, call[d].merged, load[w].got)
    <2>1. d # Null /\ call' = [call EXCEPT ![d] = k]
      <3>1. call' = IF d = Null THEN call ELSE [call EXCEPT ![d] = k]
        <4>1. [call EXCEPT ![d] = Concluded(d, @.merged, load[w].got)]
                = [call EXCEPT ![d] = Concluded(d, call[d].merged, load[w].got)]
          OBVIOUS
        <4> QED
          BY <1>4, <4>1 DEF FinishLoad
      <3> QED
        BY <1>3, <3>1
    <2>2. d \in Calls /\ call[d].pc = "loading"
      BY <1>4, <2>1 DEF FinishLoad, Blocked, IInv, TypeInv, LoadState, WaitingInv
    <2> HIDE DEF k
    <2>3. call'[c] = call[c]
      BY <1>2, <2>1, <2>2
    <2> QED
      BY <1>3, <2>3
  <1>5. ASSUME NEW d \in Calls, NEW w \in Workers, NEW kind, NEW type, NEW payload, NEW n,
               Arrive(d, w, kind, type, payload, n)
        PROVE  FALSE
    <2>1. d # c
      BY <1>5 DEF Arrive
    <2>2. PICK k : call' = [call EXCEPT ![d] = k]
      <3>1. [call EXCEPT ![d].pc = "rejected"] = [call EXCEPT ![d] = [call[d] EXCEPT !.pc = "rejected"]]
        OBVIOUS
      <3> QED
        BY <1>5, <3>1 DEF Arrive
    <2> QED
      BY <1>2, <1>3, <2>1, <2>2
  <1>6. ASSUME NEW d \in Calls, NEW i, NEW answer, HookAnswers(d, i, answer)
        PROVE  FALSE
    <2> DEFINE k == [call[d] EXCEPT !.hooks[i] = answer]
    <2>1. call' = [call EXCEPT ![d] = k]
      BY <1>6 DEF HookAnswers
    <2>2. k.pc = call[d].pc
      BY <1>1 DEF Shape
    <2> HIDE DEF k
    <2> QED
      BY <1>2, <1>6, <2>1, <2>2 DEF HookAnswers
  <1>7. ASSUME NEW d \in Calls, Resolve(d) PROVE call'[c].merged = Merged(c)
    <2> DEFINE m == Merged(d)
    <2>1. PICK k : /\ call' = [call EXCEPT ![d] = k]
                   /\ \/ k = [Ended(d) EXCEPT !.pc = "rejected"]
                      \/ k = Concluded(d, m, cache[call[d].worker].templates)
                      \/ k = [call[d] EXCEPT !.pc = "loading", !.merged = m]
      <3>1. [call EXCEPT ![d].pc = "loading", ![d].merged = m]
              = [call EXCEPT ![d] = [call[d] EXCEPT !.pc = "loading", !.merged = m]]
        OBVIOUS
      <3> HIDE DEF m
      <3>2. \/ call' = [call EXCEPT ![d] = [Ended(d) EXCEPT !.pc = "rejected"]]
            \/ call' = [call EXCEPT ![d] = Concluded(d, m, cache[call[d].worker].templates)]
            \/ call' = [call EXCEPT ![d].pc = "loading", ![d].merged = m]
        BY <1>7 DEF Resolve, m
      <3> QED
        BY <3>1, <3>2
    <2> HIDE DEF m
    <2>2. d = c /\ call'[c] = k
      BY <1>2, <1>3, <2>1
    <2>3. CASE k = [Ended(d) EXCEPT !.pc = "rejected"]
      <3>1. k.pc = "rejected"
        BY <1>1, <2>3 DEF Ended, Shape
      <3> QED
        BY <2>2, <3>1
    <2>4. CASE k = Concluded(d, m, cache[call[d].worker].templates)
      <3> DEFINE e == Ended(d)
                 verdict == Decide(call[d].type, m, cache[call[d].worker].templates)
                 templates == cache[call[d].worker].templates
      <3>1. e \in Shape(e)
        BY <1>1 DEF Ended, Shape
      <3>2. k = [e EXCEPT !.pc = "decided", !.merged = m, !.at = now, !.used = templates,
                          !.decision = verdict]
        BY <2>4 DEF Concluded
      <3> HIDE DEF e, verdict, templates
      <3>3. k.merged = m
        BY <3>1, <3>2 DEF Shape
      <3> QED
        BY <2>2, <3>3 DEF m
    <2>5. CASE k = [call[d] EXCEPT !.pc = "loading", !.merged = m]
      <3>1. k.merged = m
        BY <1>1, <2>5 DEF Shape
      <3> QED
        BY <2>2, <3>1 DEF m
    <2> QED
      BY <2>1, <2>3, <2>4, <2>5
  <1>8. \/ \E w \in Workers : Start(w) \/ ReadFile(w)
        \/ \E f \in Files, content \in FileState : Edit(f, content)
        \/ Tick \/ UNCHANGED vars
        => UNCHANGED call
    BY DEF Start, ReadFile, Edit, Tick, vars
  <1> QED
    BY <1>3, <1>4, <1>5, <1>6, <1>7, <1>8 DEF Next

(***************************************************************************)
(* The payload that is decided on is the bare one if a hook was still to   *)
(* come, and otherwise the request updated by the answers in the order of  *)
(* the hooks, whichever of them came first.                                *)
(***************************************************************************)
THEOREM MergedByPositionHolds == Spec => MergedByPosition
  <1> DEFINE ByPosition(c) ==
                LET hooks == call[c].hooks
                    merged == call'[c].merged
                IN IF \E i \in DOMAIN hooks : hooks[i] = Null
                   THEN merged = call[c].payload
                   ELSE \A f \in Field :
                           LET telling == {i \in DOMAIN hooks : f \in DOMAIN hooks[i]}
                           IN Get(merged, f) =
                                IF telling = {} THEN Get(call[c].payload, f)
                                ELSE LET last == CHOOSE i \in telling : \A j \in telling : j <= i
                                     IN hooks[last][f]
             Positions == \A c \in Calls :
                call[c].pc = "hooks" /\ call'[c].pc \in {"loading", "decided"} => ByPosition(c)
  <1>1. ASSUME IInv, [Next]_vars, NEW c \in Calls,
               call[c].pc = "hooks", call'[c].pc \in {"loading", "decided"}
        PROVE  ByPosition(c)
    <2> DEFINE hooks == call[c].hooks
               merged == call'[c].merged
               payload == call[c].payload
    <2>1. merged = Merged(c)
      BY <1>1, LeavesHooks
    <2>2. payload \in Payloads /\ hooks \in Seq(Answers \cup {Null})
      BY <1>1 DEF IInv, CallsInv, CallOK
    <2>3. CASE \E i \in DOMAIN hooks : hooks[i] = Null
      BY <2>1, <2>3 DEF Merged, Answered
    <2>4. CASE ~\E i \in DOMAIN hooks : hooks[i] = Null
      <3>1. merged = Enriched(payload, hooks)
        BY <2>1, <2>4 DEF Merged, Answered
      <3> HIDE DEF hooks, merged, payload
      <3>2. hooks \in Seq(Answers) /\ DOMAIN hooks = 1..Len(hooks) /\ Len(hooks) \in Nat
        BY <2>2, <2>4
      <3>3. ASSUME NEW f \in Field
            PROVE  LET telling == {i \in DOMAIN hooks : f \in DOMAIN hooks[i]}
                   IN Get(merged, f) =
                        IF telling = {} THEN Get(payload, f)
                        ELSE LET last == CHOOSE i \in telling : \A j \in telling : j <= i
                             IN hooks[last][f]
        <4> DEFINE telling == {i \in DOMAIN hooks : f \in DOMAIN hooks[i]}
                   last == CHOOSE i \in telling : \A j \in telling : j <= i
        <4>1. telling = Telling(f, hooks, Len(hooks)) /\ telling \subseteq Int
          BY <3>2 DEF Telling
        <4> HIDE DEF telling
        <4>2. \/ telling = {} /\ Get(merged, f) = Get(payload, f)
              \/ \E i \in telling : /\ \A j \in telling : j <= i
                                    /\ Get(merged, f) = hooks[i][f]
          BY <2>2, <3>1, <3>2, <4>1, EnrichedByLast
        <4>3. CASE \E i \in telling : /\ \A j \in telling : j <= i
                                      /\ Get(merged, f) = hooks[i][f]
          <5>1. PICK i \in telling : /\ \A j \in telling : j <= i
                                     /\ Get(merged, f) = hooks[i][f]
            BY <4>3
          <5>2. last \in telling /\ \A j \in telling : j <= last
            BY <5>1
          <5> HIDE DEF last
          <5>3. last = i
            BY <4>1, <5>1, <5>2
          <5> QED
            BY <5>1, <5>3 DEF last, telling
        <4> QED
          BY <4>2, <4>3 DEF telling
      <3> QED
        BY <2>4, <3>3 DEF hooks, merged, payload
    <2> QED
      BY <2>3, <2>4
  <1> HIDE DEF ByPosition
  <1>2. IInv /\ [Next]_vars => [Positions]_vars
    BY <1>1
  <1> QED
    BY <1>2, InductiveInvariant, PTL DEF Spec, MergedByPosition, ByPosition

====
