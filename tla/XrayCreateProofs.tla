-------------------------- MODULE XrayCreateProofs --------------------------
(***************************************************************************)
(* What is proved of XrayCreate, for any jobs, cases, texts, designs and   *)
(* bounds: its types and that two cases never have one key, whatever runs  *)
(* together; and, where the commands of one job wait for each other, that  *)
(* a run that ended well kept what it was given, that no stray is silent,  *)
(* that nothing is created again and that no second set is made.           *)
(***************************************************************************)
EXTENDS XrayCreate, WellFoundedInduction, FiniteSetTheorems, TLAPS

-----------------------------------------------------------------------------
(* The operators *)

LEMMA LeastNumber ==
  ASSUME NEW T \in SUBSET Nat, T # {}
  PROVE  Least(T) \in T /\ \A y \in T : Least(T) <= y
<1>1. PICK R : IsWellFoundedOn(R, Nat) /\ \A x, y \in Nat : y < x => <<y, x>> \in R
  <2>1. IsWellFoundedOn(OpToRel(<, Nat), Nat)
    BY NatLessThanWellFounded
  <2>2. \A x, y \in Nat : y < x => <<y, x>> \in OpToRel(<, Nat)
    BY DEF OpToRel
  <2> QED
    BY <2>1, <2>2
<1>2. \E x \in T : \A y \in T : ~(<<y, x>> \in R)
  BY <1>1, WFMin
<1>3. ASSUME NEW x \in Nat, NEW y \in Nat, ~(<<y, x>> \in R)
      PROVE  x <= y
  <2>1. ~(y < x)
    BY <1>1, <1>3
  <2> QED
    BY <2>1
<1>4. \E x \in T : \A y \in T : x <= y
  BY <1>2, <1>3
<1> QED
  BY <1>4, Zenon DEF Least

\* What is so of 0, and of a number when it is of the one before, is so of all
\* the numbers to N.
LEMMA UpToN ==
  ASSUME NEW S, 0 \in S, \A n \in 1..N : n - 1 \in S => n \in S
  PROVE  0..N \subseteq S
<1> DEFINE B == {n \in 0..N : n \notin S}
<1>1. SUFFICES ASSUME B # {} PROVE FALSE
  OBVIOUS
<1>2. B \in SUBSET Nat
  BY XrayAssumption
<1>3. Least(B) \in B /\ \A y \in B : Least(B) <= y
  BY <1>1, <1>2, LeastNumber
<1>4. PICK x \in B : \A y \in B : x <= y
  BY <1>3
<1> QED
  BY <1>4, XrayAssumption

\* What a case is offered once those before it have taken theirs, and what it takes.
Left(cs, offers, g, n) == IF n \in cs THEN offers[n] \ {g[i] : i \in Ids} ELSE {}
Takes(cs, offers, g, n) ==
  IF Left(cs, offers, g, n) = {} THEN g ELSE [g EXCEPT ![n] = Least(Left(cs, offers, g, n))]

\* Who has taken what after n cases is a function: InOrder's f exists.
LEMMA InOrderIs ==
  ASSUME NEW cs, NEW offers
  PROVE  \E f : /\ f = [n \in 0..N |-> IF n = 0 THEN Nobody ELSE Takes(cs, offers, f[n - 1], n)]
                /\ InOrder(cs, offers) = f[N]
<1> DEFINE Is(f, m) == f = [n \in 0..m |-> IF n = 0 THEN Nobody ELSE Takes(cs, offers, f[n - 1], n)]
           S == {m \in 0..N : \E f : Is(f, m)}
<1>1. 0 \in S
  <2> DEFINE g == [n \in 0..0 |-> Nobody]
  <2>1. \A n \in 0..0 : n = 0
    OBVIOUS
  <2>2. Is(g, 0)
    BY <2>1
  <2>3. \E f : Is(f, 0)
    <3> HIDE DEF Is, g
    <3> QED
      BY <2>2
  <2> QED
    BY <2>3, XrayAssumption
<1>2. ASSUME NEW m \in 1..N, m - 1 \in S
      PROVE  m \in S
  <2>1. PICK f : Is(f, m - 1)
    BY <1>2
  <2> DEFINE g == [n \in 0..m |-> IF n = m THEN Takes(cs, offers, f[m - 1], m) ELSE f[n]]
  <2>2. ASSUME NEW n \in 0..m
        PROVE  g[n] = IF n = 0 THEN Nobody ELSE Takes(cs, offers, g[n - 1], n)
    <3>1. CASE n = m
      BY <3>1
    <3>2. CASE n # m
      <4>1. n \in 0..(m - 1) /\ (n # 0 => n - 1 \in 0..(m - 1) /\ n - 1 \in 0..m /\ n - 1 # m)
        BY <3>2
      <4>2. g[n] = f[n] /\ (n # 0 => g[n - 1] = f[n - 1])
        BY <4>1, <3>2
      <4>3. f[n] = IF n = 0 THEN Nobody ELSE Takes(cs, offers, f[n - 1], n)
        BY <2>1, <4>1
      <4> QED
        BY <4>2, <4>3
    <3> QED
      BY <3>1, <3>2
  <2>3. Is(g, m)
    BY <2>2
  <2>4. \E h : Is(h, m)
    <3> HIDE DEF Is, g
    <3> QED
      BY <2>3
  <2>5. m \in 0..N
    BY XrayAssumption
  <2> QED
    BY <2>4, <2>5
<1>3. N \in 0..N
  BY XrayAssumption
<1>4. \E f : Is(f, N)
  <2> HIDE DEF S
  <2>1. 0..N \subseteq S
    BY <1>1, <1>2, UpToN
  <2> USE DEF S
  <2> QED
    BY <1>3, <2>1
<1> DEFINE f0 == CHOOSE f : Is(f, N)
<1>5. Is(f0, N)
  BY <1>4
<1>6. InOrder(cs, offers) = f0[N]
  BY DEF InOrder, Takes, Left
<1> QED
  BY <1>5, <1>6

\* What n cases have taken: each its own, of what it was offered, and none was
\* left without while one it was offered was free.
Fairly(cs, offers, K, g, n) ==
  /\ g \in [Ids -> K \cup {0}]
  /\ \A i \in Ids : g[i] # 0 => i \in cs /\ g[i] \in offers[i] /\ i <= n
  /\ \A i, k \in Ids : i # k /\ g[i] # 0 => g[i] # g[k]
  /\ \A i \in Ids : i \in cs /\ i <= n /\ g[i] = 0 => \A x \in offers[i] : \E k \in Ids : g[k] = x

LEMMA TakesFairly ==
  ASSUME NEW cs, NEW offers, NEW K \in SUBSET (Nat \ {0}), \A i \in Ids : offers[i] \subseteq K,
         NEW g, NEW n \in 1..N, Fairly(cs, offers, K, g, n - 1)
  PROVE  Fairly(cs, offers, K, Takes(cs, offers, g, n), n)
<1> DEFINE L == Left(cs, offers, g, n)
<1>0. n \in Ids /\ n \in Nat /\ N \in Nat
  BY XrayAssumption DEF Ids
<1>1. CASE L = {}
  <2>1. Takes(cs, offers, g, n) = g
    BY <1>1 DEF Takes
  <2>2. n \in cs => \A x \in offers[n] : \E k \in Ids : g[k] = x
    BY <1>1 DEF Left
  <2>3. \A i \in Ids : i <= n <=> i <= n - 1 \/ i = n
    BY <1>0 DEF Ids
  <2> QED
    BY <2>1, <2>2, <2>3 DEF Fairly
<1>2. CASE L # {}
  <2> DEFINE x == Least(L)
             h == [g EXCEPT ![n] = x]
  <2>1. L \subseteq offers[n] /\ L \subseteq K /\ n \in cs /\ \A y \in L : \A i \in Ids : g[i] # y
    BY <1>2, <1>0 DEF Left
  <2>2. x \in L
    <3>1. L \in SUBSET Nat
      BY <2>1
    <3> QED
      BY <3>1, <1>2, LeastNumber
  <2> HIDE DEF x
  <2>3. x \in K /\ x # 0 /\ x \in offers[n] /\ \A i \in Ids : g[i] # x
    BY <2>1, <2>2
  <2>4. g \in [Ids -> K \cup {0}] /\ h \in [Ids -> K \cup {0}] /\ h[n] = x /\ \A i \in Ids : i # n => h[i] = g[i]
    BY <2>3, <1>0 DEF Fairly
  <2>5. g[n] = 0
    BY <1>0 DEF Fairly
  <2>6. \A i \in Ids : i <= n <=> i <= n - 1 \/ i = n
    BY <1>0 DEF Ids
  <2>7. \A i \in Ids : h[i] # 0 => i \in cs /\ h[i] \in offers[i] /\ i <= n
    BY <2>1, <2>3, <2>4, <2>6 DEF Fairly
  <2>8. \A i, k \in Ids : i # k /\ h[i] # 0 => h[i] # h[k]
    BY <2>3, <2>4 DEF Fairly
  <2>9. ASSUME NEW i \in Ids, i \in cs, i <= n, h[i] = 0, NEW y \in offers[i]
        PROVE  \E k \in Ids : h[k] = y
    <3>1. i # n /\ i <= n - 1 /\ g[i] = 0
      BY <2>9, <2>3, <2>4, <2>6
    <3>2. PICK k \in Ids : g[k] = y
      BY <3>1, <2>9 DEF Fairly
    <3>3. y # 0
      BY <2>9
    <3> QED
      BY <3>2, <3>3, <2>4, <2>5
  <2>10. Takes(cs, offers, g, n) = h
    BY <1>2 DEF Takes, x
  <2> QED
    BY <2>4, <2>7, <2>8, <2>9, <2>10 DEF Fairly
<1> QED
  BY <1>1, <1>2

\* match_linked and the record's move: each case takes its own.
LEMMA InOrderFairly ==
  ASSUME NEW cs, NEW offers, NEW K \in SUBSET (Nat \ {0}), \A i \in Ids : offers[i] \subseteq K
  PROVE  Fairly(cs, offers, K, InOrder(cs, offers), N)
<1>1. PICK f : /\ f = [n \in 0..N |-> IF n = 0 THEN Nobody ELSE Takes(cs, offers, f[n - 1], n)]
               /\ InOrder(cs, offers) = f[N]
  BY InOrderIs
<1> DEFINE S == {m \in 0..N : Fairly(cs, offers, K, f[m], m)}
<1>0. N \in Nat
  BY XrayAssumption
<1>2. 0 \in S
  <2>1. f[0] = Nobody
    BY <1>0, <1>1
  <2>2. \A i \in Ids : ~(i <= 0) /\ Nobody[i] = 0
    BY <1>0 DEF Ids, Nobody
  <2>3. Nobody \in [Ids -> K \cup {0}]
    BY DEF Nobody
  <2>4. Fairly(cs, offers, K, Nobody, 0)
    BY <2>2, <2>3 DEF Fairly
  <2> QED
    BY <2>1, <2>4, <1>0
<1>3. ASSUME NEW m \in 1..N, m - 1 \in S
      PROVE  m \in S
  <2>1. f[m] = Takes(cs, offers, f[m - 1], m) /\ m \in 0..N
    BY <1>0, <1>1
  <2>2. Fairly(cs, offers, K, f[m - 1], m - 1)
    BY <1>3
  <2>3. Fairly(cs, offers, K, f[m], m)
    BY <2>1, <2>2, TakesFairly
  <2> QED
    BY <2>1, <2>3
<1>4. N \in S
  <2> HIDE DEF S
  <2>1. 0..N \subseteq S
    BY <1>2, <1>3, UpToN
  <2> QED
    BY <2>1, <1>0
<1> QED
  BY <1>1, <1>4

\* No text is two cases' of one design.
OneTextEach(cases) == \A i, k \in CasesOf(cases) : cases[i] = cases[k] => i = k

\* A record where two cases have one test only by a person's word.
Apart(r) ==
  \A i, k \in Ids : i # k /\ r[i].key # 0 /\ r[i].key = r[k].key => "chosen" \in {r[i].how, r[k].how}

LEMMA IdsAreNumbers == Ids \in SUBSET (Nat \ {0}) /\ Keys \in SUBSET (Nat \ {0}) /\ 0 \notin Ids /\ 0 \notin Keys
BY XrayAssumption DEF Ids, Keys

LEMMA AssignedOnce ==
  ASSUME NEW entries, NEW cases
  PROVE  /\ Assigned(entries, cases) \in [Ids -> Ids \cup {0}]
         /\ \A i, k \in Ids : i # k /\ Assigned(entries, cases)[i] # 0
                             => Assigned(entries, cases)[i] # Assigned(entries, cases)[k]
         /\ \A i \in Ids : Assigned(entries, cases)[i] # 0 => entries[Assigned(entries, cases)[i]].key # 0
         /\ OneTextEach(cases) => \A i \in CasesOf(cases) : Assigned(entries, cases)[i] = 0
               => \A k \in Ids : entries[k].key # 0 => entries[k].text # cases[i]
<1> DEFINE Alike(i) == {k \in Ids : entries[k].key # 0 /\ entries[k].text = cases[i]}
           offers == [i \in Ids |-> IF i \in Alike(i) THEN {i} ELSE IF Alike(i) = {} THEN {} ELSE {Least(Alike(i))}]
           cs == CasesOf(cases)
           text == ByText(entries, cases)
           to == Assigned(entries, cases)
<1>0. 0 \notin Ids
  BY IdsAreNumbers
<1>1. ASSUME NEW i \in Ids
      PROVE  offers[i] \subseteq Alike(i) /\ (Alike(i) # {} => offers[i] # {})
  <2>1. Alike(i) \in SUBSET Nat
    BY IdsAreNumbers
  <2>2. Alike(i) # {} => Least(Alike(i)) \in Alike(i)
    BY <2>1, LeastNumber
  <2> QED
    BY <2>2
<1>2. text = InOrder(cs, offers)
  BY DEF ByText
<1>3. Fairly(cs, offers, Ids, text, N)
  <2> HIDE DEF offers, text
  <2>1. \A i \in Ids : offers[i] \subseteq Ids
    BY <1>1
  <2> QED
    BY <2>1, <1>2, IdsAreNumbers, InOrderFairly
<1> HIDE DEF offers, text, cs
<1>4. text \in [Ids -> Ids \cup {0}] /\ \A i, k \in Ids : i # k /\ text[i] # 0 => text[i] # text[k]
  BY <1>3 DEF Fairly
<1>5. \A i \in Ids : text[i] # 0 => i \in cs /\ text[i] \in Alike(i)
  BY <1>1, <1>3 DEF Fairly
<1>6. to = [i \in Ids |-> IF text[i] # 0 THEN text[i]
                         ELSE IF i \in cs /\ entries[i].key # 0 /\ i \notin {text[k] : k \in Ids} THEN i ELSE 0]
  BY DEF Assigned, text, cs
<1>7. to \in [Ids -> Ids \cup {0}]
  BY <1>4, <1>6
<1> HIDE DEF to
<1>8. \A i, k \in Ids : i # k /\ to[i] # 0 => to[i] # to[k]
  BY <1>0, <1>4, <1>6
<1>9. \A i \in Ids : to[i] # 0 => entries[to[i]].key # 0
  BY <1>5, <1>6
<1>10. ASSUME OneTextEach(cases), NEW i \in CasesOf(cases), to[i] = 0, NEW k \in Ids,
              entries[k].key # 0, entries[k].text = cases[i]
       PROVE  FALSE
  <2>1. i \in Ids /\ i \in cs
    BY DEF CasesOf, cs
  <2>2. text[i] = 0
    BY <1>0, <1>4, <1>6, <1>10, <2>1
  <2>3. PICK x \in offers[i] : x \in Alike(i)
    BY <1>1, <1>10, <2>1
  <2>4. N \in Nat /\ i <= N
    BY <2>1, XrayAssumption DEF Ids
  <2>5. PICK m \in Ids : text[m] = x
    BY <1>3, <2>1, <2>2, <2>3, <2>4 DEF Fairly
  <2>6. m \in cs /\ x \in Alike(m)
    BY <1>0, <1>5, <2>3, <2>5
  <2>7. cases[m] = cases[i] /\ m # i
    BY <1>0, <2>2, <2>3, <2>5, <2>6
  <2> QED
    BY <1>10, <2>6, <2>7 DEF OneTextEach, cs
<1> QED
  BY <1>7, <1>8, <1>9, <1>10 DEF to

\* Where an entry of the moved record comes from, which is nobody else's.
LEMMA MovedFrom ==
  ASSUME NEW entries, NEW cases
  PROVE  LET to == Assigned(entries, cases)
             moved == Moved(entries, cases)
             from == [i \in Ids |-> IF to[i] # 0 THEN to[i] ELSE i]
         IN /\ from \in [Ids -> Ids]
            /\ \A i \in Ids : moved[i] = NoEntry \/ moved[i] = entries[from[i]]
            /\ \A i, k \in Ids : i # k /\ moved[i].key # 0 /\ moved[k].key # 0 => from[i] # from[k]
            /\ \A i \in Ids : to[i] # 0 => moved[i].key # 0
<1> DEFINE to == Assigned(entries, cases)
           moved == Moved(entries, cases)
           from == [i \in Ids |-> IF to[i] # 0 THEN to[i] ELSE i]
<1>1. /\ to \in [Ids -> Ids \cup {0}]
      /\ \A i, k \in Ids : i # k /\ to[i] # 0 => to[i] # to[k]
      /\ \A i \in Ids : to[i] # 0 => entries[to[i]].key # 0
  BY AssignedOnce
<1>2. moved = [i \in Ids |-> IF to[i] # 0 THEN entries[to[i]]
                            ELSE IF i \in {to[k] : k \in Ids} THEN NoEntry ELSE entries[i]]
  BY DEF Moved
<1>3. NoEntry.key = 0
  BY DEF NoEntry
<1> HIDE DEF to, moved
<1>4. from \in [Ids -> Ids]
  BY <1>1
<1>5. \A i \in Ids : moved[i] = NoEntry \/ moved[i] = entries[from[i]]
  BY <1>2
<1>6. \A i, k \in Ids : i # k /\ moved[i].key # 0 /\ moved[k].key # 0 => from[i] # from[k]
  BY <1>1, <1>2, <1>3
<1>7. \A i \in Ids : to[i] # 0 => moved[i].key # 0
  BY <1>1, <1>2
<1> QED
  BY <1>4, <1>5, <1>6, <1>7 DEF to, moved

\* A test is one case's, and a case to create that took none of the tests of
\* its title finds them all taken.
Picks(same, cases, todo, tests, K) ==
  /\ same \in [Ids -> K \cup {0}]
  /\ \A i \in Ids : same[i] # 0 => i \in todo /\ \E t \in tests : same[i] = t.key
  /\ \A i, k \in Ids : i # k /\ same[i] # 0 => same[i] # same[k]
  /\ \A i \in todo : same[i] = 0 => \A t \in tests : t.title = Title(cases[i]) => \E k \in Ids : same[k] = t.key

LEMMA SameFairly ==
  ASSUME NEW cases, NEW todo \in SUBSET Ids, NEW tests, NEW K \in SUBSET (Nat \ {0}), \A t \in tests : t.key \in K
  PROVE  Picks(Same(cases, todo, tests), cases, todo, tests, K)
<1> DEFINE named == [i \in Ids |-> {t.key : t \in {u \in tests : u.title = Title(cases[i])}}]
           title == InOrder(todo, named)
           left == {u \in tests : u.key \notin {title[i] : i \in Ids}}
           rest == {i \in todo : title[i] = 0}
           alike == [i \in Ids |-> {t.key : t \in {u \in left : u.steps = StepsOf(cases[i])}}]
           steps == InOrder(rest, alike)
           same == Same(cases, todo, tests)
<1>1. \A i \in Ids : named[i] = {t.key : t \in {u \in tests : u.title = Title(cases[i])}} /\ named[i] \subseteq K
  OBVIOUS
<1>2. \A i \in Ids : /\ alike[i] \subseteq K
                    /\ \A x \in alike[i] : (\E t \in tests : x = t.key) /\ \A k \in Ids : title[k] # x
  OBVIOUS
<1>3. same = [i \in Ids |-> IF title[i] # 0 THEN title[i] ELSE steps[i]]
  BY DEF Same
<1> HIDE DEF named, alike, same
<1>4. Fairly(todo, named, K, title, N)
  BY <1>1, InOrderFairly
<1> HIDE DEF title
<1>5. Fairly(rest, alike, K, steps, N)
  BY <1>2, InOrderFairly
<1> HIDE DEF steps
<1>6. /\ title \in [Ids -> K \cup {0}] /\ steps \in [Ids -> K \cup {0}]
      /\ \A i, k \in Ids : i # k /\ title[i] # 0 => title[i] # title[k]
      /\ \A i, k \in Ids : i # k /\ steps[i] # 0 => steps[i] # steps[k]
  BY <1>4, <1>5 DEF Fairly
<1>7. /\ \A i \in Ids : title[i] # 0 => i \in todo /\ title[i] \in named[i]
      /\ \A i \in Ids : steps[i] # 0 => i \in rest /\ steps[i] \in alike[i]
  BY <1>4, <1>5 DEF Fairly
<1>8. \A i \in Ids : steps[i] # 0 => \A k \in Ids : title[k] # steps[i]
  BY <1>2, <1>7
<1>9. same \in [Ids -> K \cup {0}]
  BY <1>3, <1>6
<1>10. \A i \in Ids : same[i] # 0 => i \in todo /\ \E t \in tests : same[i] = t.key
  BY <1>1, <1>2, <1>3, <1>7
<1>11. \A i, k \in Ids : i # k /\ same[i] # 0 => same[i] # same[k]
  BY <1>3, <1>6, <1>8
<1>12. ASSUME NEW i \in todo, same[i] = 0, NEW t \in tests, t.title = Title(cases[i])
       PROVE  \E k \in Ids : same[k] = t.key
  <2>1. title[i] = 0 /\ t.key \in named[i]
    BY <1>1, <1>3, <1>12
  <2>2. i <= N
    BY XrayAssumption DEF Ids
  <2>3. PICK k \in Ids : title[k] = t.key
    BY <1>4, <1>12, <2>1, <2>2 DEF Fairly
  <2>4. t.key # 0
    OBVIOUS
  <2> QED
    BY <1>3, <2>3, <2>4
<1> QED
  BY <1>9, <1>10, <1>11, <1>12 DEF Picks, same

\* What a case looks like is a test that none took.
LEMMA NearTyped ==
  ASSUME NEW cases, NEW todo, NEW tests, NEW K \in SUBSET (Nat \ {0}), \A t \in tests : t.key \in K, NEW same
  PROVE  Near(cases, todo, tests, same) \in [Ids -> K \cup {0}]
<1> DEFINE alike(i) == {t.key : t \in {u \in tests : /\ u.key \notin {same[k] : k \in Ids}
                                                  /\ <<Title(cases[i]), u.title>> \in LooksLike}}
<1>1. ASSUME NEW i \in Ids, alike(i) # {}
      PROVE  Least(alike(i)) \in K
  <2>1. alike(i) \subseteq K
    OBVIOUS
  <2>2. alike(i) \in SUBSET Nat
    BY <2>1
  <2> QED
    BY <1>1, <2>1, <2>2, LeastNumber
<1> DEFINE near == Near(cases, todo, tests, same)
<1>2. near = [i \in Ids |-> IF i \in todo /\ same[i] = 0 /\ alike(i) # {} THEN Least(alike(i)) ELSE 0]
  BY DEF Near
<1> HIDE DEF alike, near
<1>3. near \in [Ids -> K \cup {0}]
  BY <1>1, <1>2
<1> QED
  BY <1>3 DEF near

\* A record of issues that were made, where two cases have one test only by a
\* person's word.
Sound(r, K) == r \in Records /\ (\A i \in Ids : r[i].key \in K \cup {0}) /\ Apart(r)

LEMMA MovedSound ==
  ASSUME NEW r, NEW K, NEW cases, Sound(r, K)
  PROVE  Sound(Moved(r, cases), K)
<1> DEFINE to == Assigned(r, cases)
           from == [i \in Ids |-> IF to[i] # 0 THEN to[i] ELSE i]
           moved == Moved(r, cases)
<1>1. /\ from \in [Ids -> Ids]
      /\ \A i \in Ids : moved[i] = NoEntry \/ moved[i] = r[from[i]]
      /\ \A i, k \in Ids : i # k /\ moved[i].key # 0 /\ moved[k].key # 0 => from[i] # from[k]
  BY MovedFrom
<1>2. moved = [i \in Ids |-> moved[i]]
  BY DEF Moved
<1> HIDE DEF from, moved
<1>3. NoEntry \in Entries /\ NoEntry.key = 0
  BY DEF Entries, NoEntry
<1>4. r \in [Ids -> Entries]
  BY DEF Sound, Records
<1>5. \A i \in Ids : moved[i] \in Entries /\ moved[i].key \in K \cup {0}
  BY <1>1, <1>3, <1>4 DEF Sound
<1>6. moved \in Records
  BY <1>2, <1>5 DEF Records
<1>7. \A i, k \in Ids : i # k /\ moved[i].key # 0 /\ moved[i].key = moved[k].key
        => "chosen" \in {moved[i].how, moved[k].how}
  BY <1>1, <1>3 DEF Sound, Apart
<1> QED
  BY <1>5, <1>6, <1>7 DEF Sound, Apart, moved

-----------------------------------------------------------------------------
(* The inductive invariant *)

Made == {k \in Keys : jira[k].is # "free"}
JiraType == [Keys -> [is : {"free", "live", "gone"}, linked : BOOLEAN, text : Texts \cup {NoText}, whole : BOOLEAN]]
ResultType == [says : {"nothing", "unknown", "refused", "failed", "ok"}, held : CaseMap,
               cases : [Ids -> Texts \cup {NoText}]]
UpdateType == [kept : Records, cases : [Ids -> Texts \cup {NoText}]]

\* A test that is to be taken is no other case's, of the record or of those to
\* be taken, but by a person's word.
FoundApart(c) ==
  \A i \in Ids : c.found[i] # 0 /\ c.adopt[i] = 0 =>
    \A k \in Ids \ {i} : /\ c.kept[k].key = c.found[i] => c.kept[k].how = "chosen"
                         /\ c.found[k] = c.found[i] => c.adopt[k] # 0

SoundCreate(c, K) ==
  /\ c \in CreateType
  /\ Sound(c.kept, K)
  /\ \A i \in Ids : c.found[i] \in K \cup {0} /\ c.adopt[i] \in K \cup {0} /\ c.held[i] \in K \cup {0}
  /\ c.linked \subseteq K \X Titles
  /\ \A i \in Ids : c.found[i] # 0 => c.cases[i] # NoText
  /\ c.todo \subseteq CasesOf(c.cases)
  /\ c.pc = "steps" => c.now \in Ids /\ c.kept[c.now].key # 0
  /\ FoundApart(c)

SoundResult(r, K) == r \in ResultType /\ \A i \in Ids : r.held[i] \in K \cup {0}
SoundUpdate(u, K) == u = {} \/ \E x \in UpdateType : u = {x} /\ Sound(x.kept, K)

JobSound(k, c, r, u, s, K) ==
  Sound(k, K) /\ SoundCreate(c, K) /\ SoundResult(r, K) /\ SoundUpdate(u, K) /\ s \subseteq K

JiraSound == jira \in JiraType /\ \A k \in Keys : jira[k].is = "live" => jira[k].text \in Texts

Functions ==
  /\ kept = [j \in Jobs |-> kept[j]] /\ create = [j \in Jobs |-> create[j]] /\ result = [j \in Jobs |-> result[j]]
  /\ update = [j \in Jobs |-> update[j]] /\ sent = [j \in Jobs |-> sent[j]]

Inv ==
  /\ JiraSound /\ Functions
  /\ design \in [Jobs -> Designs]
  /\ events \in 0..MaxEvents
  /\ \A j \in Jobs : JobSound(kept[j], create[j], result[j], update[j], sent[j], Made)

LEMMA InvTypes == Inv => TypeOK
<1> SUFFICES ASSUME Inv PROVE TypeOK
  OBVIOUS
<1>1. \A j \in Jobs : kept[j] \in Records /\ create[j] \in CreateType /\ result[j] \in ResultType /\ sent[j] \in SUBSET Keys
  BY DEF Inv, JobSound, Sound, SoundCreate, SoundResult, Made
<1>2. ASSUME NEW j \in Jobs
      PROVE  update[j] \subseteq UpdateType /\ Cardinality(update[j]) <= 1
  <2>1. CASE update[j] = {}
    BY <2>1, FS_EmptySet
  <2>2. CASE \E x \in UpdateType : update[j] = {x}
    BY <2>2, FS_Singleton
  <2> QED
    BY <2>1, <2>2 DEF Inv, JobSound, SoundUpdate
<1>3. /\ kept \in [Jobs -> Records] /\ create \in [Jobs -> CreateType]
      /\ result \in [Jobs -> ResultType] /\ sent \in [Jobs -> SUBSET Keys]
  <2> HIDE DEF Inv
  <2>1. Functions
    BY DEF Inv
  <2> QED
    BY <1>1, <2>1 DEF Functions
<1>4. jira \in JiraType /\ design \in [Jobs -> Designs] /\ events \in 0..MaxEvents
  BY DEF Inv, JiraSound
<1> QED
  BY <1>2, <1>3, <1>4 DEF TypeOK, JiraType, ResultType, UpdateType

\* What is sound of some issues is sound of more.
LEMMA SoundGrows ==
  ASSUME NEW K, NEW L, K \subseteq L, NEW k, NEW c, NEW r, NEW u, NEW s, JobSound(k, c, r, u, s, K)
  PROVE  JobSound(k, c, r, u, s, L)
<1>1. \A x : Sound(x, K) => Sound(x, L)
  BY DEF Sound
<1>2. SoundCreate(c, K) => SoundCreate(c, L)
  BY <1>1 DEF SoundCreate
<1>3. SoundResult(r, K) => SoundResult(r, L)
  BY DEF SoundResult
<1>4. SoundUpdate(u, K) => SoundUpdate(u, L)
  BY <1>1 DEF SoundUpdate
<1> QED
  BY <1>1, <1>2, <1>3, <1>4 DEF JobSound

\* A step of one job: what it makes of the job's state, and what it does elsewhere.
Turns(j, k, c, r, u, s) ==
  /\ kept' = [kept EXCEPT ![j] = k] /\ create' = [create EXCEPT ![j] = c] /\ result' = [result EXCEPT ![j] = r]
  /\ update' = [update EXCEPT ![j] = u] /\ sent' = [sent EXCEPT ![j] = s]

Around == JiraSound' /\ Made \subseteq Made' /\ design' \in [Jobs -> Designs] /\ events' \in 0..MaxEvents

LEMMA StepOf ==
  ASSUME Inv, Around, NEW j \in Jobs, NEW k, NEW c, NEW r, NEW u, NEW s,
         Turns(j, k, c, r, u, s), JobSound(k, c, r, u, s, Made')
  PROVE  Inv'
<1>0. Functions
  BY DEF Inv
<1>1. /\ kept' = [o \in Jobs |-> IF o = j THEN k ELSE kept[o]]
      /\ create' = [o \in Jobs |-> IF o = j THEN c ELSE create[o]]
      /\ result' = [o \in Jobs |-> IF o = j THEN r ELSE result[o]]
      /\ update' = [o \in Jobs |-> IF o = j THEN u ELSE update[o]]
      /\ sent' = [o \in Jobs |-> IF o = j THEN s ELSE sent[o]]
  BY <1>0 DEF Functions, Turns
<1>2. Functions'
  BY <1>1 DEF Functions
<1>3. ASSUME NEW o \in Jobs
      PROVE  JobSound(kept'[o], create'[o], result'[o], update'[o], sent'[o], Made')
  <2>1. CASE o = j
    BY <1>1, <2>1
  <2>2. CASE o # j
    <3>1. JobSound(kept[o], create[o], result[o], update[o], sent[o], Made)
      BY DEF Inv
    <3>2. JobSound(kept[o], create[o], result[o], update[o], sent[o], Made')
      BY <3>1, SoundGrows DEF Around
    <3> QED
      BY <1>1, <2>2, <3>2
  <2> QED
    BY <2>1, <2>2
<1> QED
  BY <1>2, <1>3 DEF Inv, Around

\* A variable that a job's step leaves alone.
LEMMA Stays ==
  ASSUME Inv, NEW j \in Jobs
  PROVE  /\ kept = [kept EXCEPT ![j] = kept[j]] /\ create = [create EXCEPT ![j] = create[j]]
         /\ result = [result EXCEPT ![j] = result[j]] /\ update = [update EXCEPT ![j] = update[j]]
         /\ sent = [sent EXCEPT ![j] = sent[j]]
<1>1. Functions
  BY DEF Inv
<1> QED
  BY <1>1 DEF Functions

\* What a person does in Jira.
LEMMA InJira ==
  ASSUME Inv, UNCHANGED <<design, kept, create, result, update, sent>>,
         JiraSound', Made \subseteq Made', events' \in 0..MaxEvents
  PROVE  Inv'
<1>1. Functions' /\ design' \in [Jobs -> Designs]
  BY DEF Inv, Functions
<1>2. ASSUME NEW o \in Jobs
      PROVE  JobSound(kept'[o], create'[o], result'[o], update'[o], sent'[o], Made')
  <2>1. JobSound(kept[o], create[o], result[o], update[o], sent[o], Made)
    BY DEF Inv
  <2>2. JobSound(kept[o], create[o], result[o], update[o], sent[o], Made')
    BY <2>1, SoundGrows
  <2> QED
    BY <2>2
<1> QED
  BY <1>1, <1>2 DEF Inv

-----------------------------------------------------------------------------
(* The steps *)

JiraEntry == [is : {"free", "live", "gone"}, linked : BOOLEAN, text : Texts \cup {NoText}, whole : BOOLEAN]

LEMMA EventsCount == ASSUME Inv PROVE events' = events \/ Event => events' \in 0..MaxEvents
BY XrayAssumption DEF Inv, Event

LEMMA JiraStands ==
  ASSUME Inv, jira' = jira
  PROVE  JiraSound' /\ Made' = Made
BY DEF Inv, JiraSound, Made

LEMMA JiraChanges ==
  ASSUME Inv, NEW k \in Keys, NEW e \in JiraEntry, jira' = [jira EXCEPT ![k] = e],
         e.is = "live" => e.text \in Texts, e.is # "free"
  PROVE  JiraSound' /\ Made' = Made \cup {k}
<1>1. jira \in [Keys -> JiraEntry]
  BY DEF Inv, JiraSound, JiraType, JiraEntry
<1>2. jira' \in [Keys -> JiraEntry] /\ jira'[k] = e /\ \A l \in Keys : l # k => jira'[l] = jira[l]
  BY <1>1
<1>3. JiraSound'
  BY <1>2 DEF Inv, JiraSound, JiraType, JiraEntry
<1> QED
  BY <1>2, <1>3 DEF Made

LEMMA FreshIsFree ==
  ASSUME CanMake
  PROVE  Fresh \in Keys /\ Fresh \notin Made
<1> DEFINE S == {k \in Keys : jira[k].is = "free"}
<1>1. S \in SUBSET Nat /\ S # {}
  BY IdsAreNumbers DEF CanMake
<1>2. Least(S) \in S
  BY <1>1, LeastNumber
<1> QED
  BY <1>2 DEF Fresh, Made

LEMMA JiraMakes ==
  ASSUME Inv, CanMake, NEW text \in Texts, NEW linked \in BOOLEAN, NEW whole \in BOOLEAN,
         jira' = [jira EXCEPT ![Fresh] = [is |-> "live", linked |-> linked, text |-> text, whole |-> whole]]
  PROVE  JiraSound' /\ Made' = Made \cup {Fresh}
<1>1. [is |-> "live", linked |-> linked, text |-> text, whole |-> whole] \in JiraEntry
  BY DEF JiraEntry
<1> QED
  BY <1>1, FreshIsFree, JiraChanges

\* Jira and the designs stand as they are.
LEMMA AroundStands ==
  ASSUME Inv, UNCHANGED <<jira, design>>, events' = events \/ Event
  PROVE  Around /\ Made' = Made
BY JiraStands, EventsCount DEF Inv, Around

\* What is so of a job.
LEMMA OneJob ==
  ASSUME Inv, NEW j \in Jobs
  PROVE  /\ Sound(kept[j], Made) /\ SoundCreate(create[j], Made) /\ SoundResult(result[j], Made)
         /\ SoundUpdate(update[j], Made) /\ sent[j] \subseteq Made
         /\ design[j] \in [Ids -> Texts \cup {NoText}]
BY XrayAssumption DEF Inv, JobSound

LEMMA QuietSound ==
  ASSUME NEW K
  PROVE  SoundCreate(Quiet, K)
<1>1. NoEntry \in Entries /\ NoEntry.key = 0
  BY DEF Entries, NoEntry
<1>2. Sound([i \in Ids |-> NoEntry], K)
  BY <1>1 DEF Sound, Records, Apart
<1>3. Quiet \in CreateType
  BY <1>1 DEF Quiet, CreateType, CaseMap, Nobody, Records
<1> QED
  BY <1>2, <1>3 DEF SoundCreate, Quiet, Nobody, FoundApart

LEMMA InitSound == Init => Inv
<1> SUFFICES ASSUME Init PROVE Inv
  OBVIOUS
<1>1. JiraSound
  BY DEF Init, JiraSound, JiraType, Free
<1>2. Functions
  BY DEF Init, Functions
<1>3. ASSUME NEW j \in Jobs
      PROVE  JobSound(kept[j], create[j], result[j], update[j], sent[j], Made)
  <2>1. NoEntry \in Entries /\ NoEntry.key = 0
    BY DEF Entries, NoEntry
  <2>2. Sound(kept[j], Made)
    BY <2>1 DEF Init, Sound, Records, Apart
  <2>3. SoundCreate(create[j], Made)
    BY QuietSound DEF Init
  <2>4. SoundResult(result[j], Made)
    BY DEF Init, Unsaid, SoundResult, ResultType, CaseMap, Nobody
  <2>5. update[j] = {} /\ sent[j] = {}
    BY DEF Init
  <2> QED
    BY <2>2, <2>3, <2>4, <2>5 DEF JobSound, SoundUpdate
<1> QED
  BY <1>1, <1>2, <1>3, XrayAssumption DEF Init, Inv

LEMMA StartSound ==
  ASSUME Inv, NEW j \in Jobs, NEW is \in SUBSET Ids, NEW new \in SUBSET Ids, Start(j, is, new)
  PROVE  Inv'
<1> DEFINE entries == Moved(kept[j], design[j])
           adopt == [i \in Ids |-> IF i \in is THEN result[j].held[i] ELSE 0]
           linked == {<<k, Title(jira[k].text)>> : k \in {l \in Keys : Live(l) /\ jira[l].linked}}
           c == [Quiet EXCEPT !.pc = "match", !.cases = design[j], !.kept = entries, !.anyway = new,
                              !.adopt = adopt, !.linked = linked]
<1>1. /\ create' = [create EXCEPT ![j] = c] /\ kept' = [kept EXCEPT ![j] = entries]
      /\ result' = [result EXCEPT ![j] = Unsaid] /\ sent' = [sent EXCEPT ![j] = {}]
      /\ UNCHANGED <<jira, design, update, events>>
  BY DEF Start, Goes
<1>2. Sound(entries, Made)
  BY OneJob, MovedSound
<1>3. adopt \in CaseMap /\ \A i \in Ids : adopt[i] \in Made \cup {0}
  BY OneJob DEF SoundResult, ResultType, CaseMap
<1>4. linked \subseteq Made \X Titles /\ linked \subseteq Known
  BY DEF Live, Inv, JiraSound, Made, Titles, Known
<1> HIDE DEF entries, adopt, linked
<1>5. c = [Quiet EXCEPT !.pc = "match", !.cases = design[j], !.kept = entries, !.anyway = new,
                        !.adopt = adopt, !.linked = linked]
  OBVIOUS
<1>6. /\ c.pc = "match" /\ c.cases = design[j] /\ c.kept = entries /\ c.adopt = adopt /\ c.linked = linked
      /\ c.found = Nobody /\ c.held = Nobody /\ c.todo = {}
  BY <1>5 DEF Quiet
<1>7. c \in CreateType
  <2>1. design[j] \in [Ids -> Texts \cup {NoText}] /\ entries \in Records
    BY OneJob, <1>2 DEF Sound
  <2>2. Nobody \in CaseMap
    BY DEF Nobody, CaseMap
  <2> QED
    BY <2>1, <2>2, <1>3, <1>4, <1>5 DEF Quiet, CreateType
<1> HIDE DEF c
<1>8. SoundCreate(c, Made)
  BY <1>2, <1>3, <1>4, <1>6, <1>7 DEF SoundCreate, Nobody, FoundApart
<1>9. SoundResult(Unsaid, Made)
  BY DEF Unsaid, SoundResult, ResultType, CaseMap, Nobody
<1>10. JobSound(entries, c, Unsaid, update[j], {}, Made')
  BY <1>1, <1>2, <1>8, <1>9, OneJob, JiraStands DEF JobSound
<1>11. Around
  BY <1>1, AroundStands
<1>12. Turns(j, entries, c, Unsaid, update[j], {})
  BY <1>1, Stays DEF Turns
<1> QED
  BY <1>10, <1>11, <1>12, StepOf

\* The tests of the story and of other jobs are issues that no case of the job holds.
LEMMA TheirsMade ==
  ASSUME Inv, NEW j \in Jobs, NEW without
  PROVE  \A t \in Theirs(j, without) : t.key \in Made /\ t.key \notin without
<1>1. \A o \in Jobs : \A i \in Ids : kept[o][i].key \in Made \cup {0}
  BY OneJob DEF Sound
<1> QED
  BY <1>1 DEF Theirs

LEMMA OthersMade ==
  ASSUME Inv, NEW j \in Jobs
  PROVE  \A t \in Others(j) : t.key \in Made /\ t.key \notin HeldBy(create[j].kept)
<1>1. \A t \in Linked(create[j]) : t.key \in Made /\ t.key \notin HeldBy(create[j].kept)
  BY OneJob DEF Linked, SoundCreate
<1> QED
  BY <1>1, TheirsMade DEF Others

LEMMA MadeAreKeys == Made \in SUBSET (Nat \ {0}) /\ Made \subseteq Keys /\ 0 \notin Made
BY IdsAreNumbers DEF Made

LEMMA KnownTyped ==
  ASSUME Inv, NEW j \in Jobs, NEW todo
  PROVE  KnownThen(j, todo) \subseteq Known
<1>1. create[j].linked \subseteq Known
  BY OneJob DEF SoundCreate, CreateType
<1>2. \A o \in Jobs : \A i \in Ids : kept[o][i] \in Entries
  BY OneJob DEF Sound, Records
<1>3. \A e \in Entries \ {NoEntry} : e.key \in Keys /\ e.title \in Titles
  BY DEF Entries
<1>4. \A e \in {kept[o][i] : o \in Jobs \ {j}, i \in Ids} \ {NoEntry} : <<e.key, e.title>> \in Known
  BY <1>2, <1>3 DEF Known
<1> QED
  BY <1>1, <1>4 DEF KnownThen

\* What Match finds for each case that is to be created.
LEMMA Matched ==
  ASSUME Inv, NEW j \in Jobs, NEW open \in SUBSET Ids
  PROVE  LET c == create[j]
             same == Same(c.cases, open, Others(j))
             near == Near(c.cases, open, Others(j), same)
         IN /\ same \in [Ids -> Made \cup {0}] /\ near \in [Ids -> Made \cup {0}]
            /\ \A i \in Ids : same[i] # 0 => i \in open /\ \A k \in Ids : c.kept[k].key # same[i]
            /\ \A i, k \in Ids : i # k /\ same[i] # 0 => same[i] # same[k]
<1> DEFINE c == create[j]
           tests == Others(j)
           same == Same(c.cases, open, tests)
           near == Near(c.cases, open, tests, same)
<1>1. \A t \in tests : t.key \in Made /\ t.key \notin HeldBy(c.kept)
  BY OthersMade
<1> HIDE DEF tests
<1>2. /\ same \in [Ids -> Made \cup {0}]
      /\ \A i \in Ids : same[i] # 0 => i \in open /\ \E t \in tests : same[i] = t.key
      /\ \A i, k \in Ids : i # k /\ same[i] # 0 => same[i] # same[k]
  <2>1. \A t \in tests : t.key \in Made
    BY <1>1
  <2>2. Picks(same, c.cases, open, tests, Made)
    BY <2>1, MadeAreKeys, SameFairly
  <2> QED
    BY <2>2 DEF Picks
<1> HIDE DEF same
<1>3. near \in [Ids -> Made \cup {0}]
  BY <1>1, MadeAreKeys, NearTyped
<1>4. \A i \in Ids : same[i] # 0 => \A k \in Ids : c.kept[k].key # same[i]
  BY <1>1, <1>2 DEF HeldBy
<1> QED
  BY <1>2, <1>3, <1>4 DEF same, tests

LEMMA MatchSound ==
  ASSUME Inv, NEW j \in Jobs, Match(j)
  PROVE  Inv'
<1> DEFINE c == create[j]
           todo == Todo(c)
           tests == Others(j)
           word == {i \in todo : c.adopt[i] # 0}
           open == todo \ (c.anyway \cup word)
           same == Same(c.cases, open, tests)
           near == Near(c.cases, open, tests, same)
           found == [i \in Ids |-> IF i \in word THEN c.adopt[i] ELSE same[i]]
           left == {i \in todo : i \in c.anyway \/ (c.adopt[i] = 0 /\ same[i] = 0 /\ near[i] = 0)}
           known == KnownThen(j, todo)
           d == [c EXCEPT !.pc = "take", !.held = near, !.linked = {}, !.known = known, !.found = found, !.todo = left]
<1>1. UNCHANGED <<jira, design, kept, update, sent, events>>
  BY DEF Match, others
<1>2. \/ create' = [create EXCEPT ![j] = Quiet] /\ result' = [result EXCEPT ![j].says = "refused"]
      \/ create' = [create EXCEPT ![j] = d] /\ result' = result
  BY DEF Match, Goes
<1>3. todo \in SUBSET Ids /\ todo \subseteq CasesOf(c.cases) /\ open \in SUBSET Ids
  BY DEF Todo, CasesOf
<1>4. /\ same \in [Ids -> Made \cup {0}] /\ near \in [Ids -> Made \cup {0}]
      /\ \A i \in Ids : same[i] # 0 => i \in open /\ \A k \in Ids : c.kept[k].key # same[i]
      /\ \A i, k \in Ids : i # k /\ same[i] # 0 => same[i] # same[k]
  BY <1>3, Matched
<1>5. SoundCreate(c, Made)
  BY OneJob
<1>6. known \subseteq Known
  BY KnownTyped
<1>7. found = [i \in Ids |-> IF i \in word THEN c.adopt[i] ELSE same[i]]
  OBVIOUS
<1>8. word \subseteq todo /\ open \subseteq todo /\ left \subseteq todo /\ \A i \in word : c.adopt[i] # 0
  OBVIOUS
<1>9. \A i \in todo : c.adopt[i] # 0 => i \in word
  OBVIOUS
<1> HIDE DEF todo, word, open, same, near, found, left, known
<1>10. d = [c EXCEPT !.pc = "take", !.held = near, !.linked = {}, !.known = known, !.found = found, !.todo = left]
  OBVIOUS
<1> HIDE DEF c, d
<1>11. found \in [Ids -> Made \cup {0}]
  BY <1>4, <1>5, <1>7 DEF SoundCreate
<1>12. c \in CreateType
  BY <1>5 DEF SoundCreate
<1>13. /\ d.pc = "take" /\ d.cases = c.cases /\ d.kept = c.kept /\ d.adopt = c.adopt /\ d.linked = {}
       /\ d.found = found /\ d.held = near /\ d.todo = left
  BY <1>10, <1>12 DEF CreateType
<1>14. d \in CreateType
  <2>1. near \in CaseMap /\ found \in CaseMap /\ left \in SUBSET Ids
    BY <1>3, <1>4, <1>8, <1>11, MadeAreKeys DEF CaseMap
  <2> QED
    BY <2>1, <1>6, <1>10, <1>12 DEF CreateType
<1>15. FoundApart(d)
  BY <1>4, <1>7, <1>8, <1>9, <1>13 DEF FoundApart
<1>16. \A i \in Ids : found[i] # 0 => c.cases[i] # NoText
  BY <1>3, <1>4, <1>7, <1>8 DEF CasesOf
<1>17. SoundCreate(d, Made)
  BY <1>3, <1>4, <1>5, <1>8, <1>11, <1>13, <1>14, <1>15, <1>16 DEF SoundCreate
<1>18. Around /\ Made' = Made
  BY <1>1, AroundStands
<1>19. CASE create' = [create EXCEPT ![j] = Quiet] /\ result' = [result EXCEPT ![j].says = "refused"]
  <2> DEFINE r == [result[j] EXCEPT !.says = "refused"]
  <2>1. Turns(j, kept[j], Quiet, r, update[j], sent[j])
    BY <1>1, <1>19, Stays DEF Turns
  <2>2. SoundResult(r, Made)
    BY OneJob DEF SoundResult, ResultType
  <2>3. JobSound(kept[j], Quiet, r, update[j], sent[j], Made')
    BY <1>18, <2>2, QuietSound, OneJob DEF JobSound
  <2> QED
    BY <1>18, <2>1, <2>3, StepOf
<1>20. CASE create' = [create EXCEPT ![j] = d] /\ result' = result
  <2>1. JobSound(kept[j], d, result[j], update[j], sent[j], Made')
    BY <1>17, <1>18, OneJob DEF JobSound
  <2>2. Turns(j, kept[j], d, result[j], update[j], sent[j])
    BY <1>1, <1>20, Stays DEF Turns
  <2> QED
    BY <1>18, <2>1, <2>2, StepOf
<1> QED
  BY <1>2, <1>19, <1>20 DEF d

\* A key is written down under a case, that no other case has but by a person's word.
OnlyIts(r, i, key, how) == how = "chosen" \/ \A k \in Ids \ {i} : r[k].key = key => r[k].how = "chosen"

Written(r, i, key, text, how) == [r EXCEPT ![i] = Entry(key, text, how)]

LEMMA EntrySound ==
  ASSUME NEW K \in SUBSET Keys, NEW r, Sound(r, K), NEW i \in Ids, NEW key \in K, NEW text \in Texts,
         NEW how \in {"created", "found", "chosen"},
         OnlyIts(r, i, key, how)
  PROVE  Sound(Written(r, i, key, text, how), K)
<1> DEFINE e == Entry(key, text, how)
           s == [r EXCEPT ![i] = e]
<1>1. e \in Entries /\ e.key = key /\ e.how = how
  BY DEF Entry, Entries, Titles
<1> HIDE DEF e
<1>2. s \in Records /\ s[i] = e /\ \A k \in Ids : k # i => s[k] = r[k]
  BY <1>1 DEF Sound, Records
<1> HIDE DEF s
<1>3. Apart(s)
  BY <1>1, <1>2 DEF Sound, Apart, OnlyIts
<1>4. \A k \in Ids : s[k].key \in K \cup {0}
  BY <1>1, <1>2 DEF Sound
<1> QED
  BY <1>1, <1>2, <1>3, <1>4 DEF s, e, Sound, Written

LEMMA ChosenAt ==
  ASSUME NEW c \in CreateType, NEW S, S = {i \in Ids : c.found[i] # 0}, S # {}
  PROVE  Least(S) \in S
<1>1. S \in SUBSET Nat
  BY IdsAreNumbers
<1> QED
  BY <1>1, LeastNumber

LEMMA TakeSound ==
  ASSUME Inv, NEW j \in Jobs, Take(j)
  PROVE  Inv'
<1> DEFINE c == create[j]
           waiting == {i \in Ids : c.found[i] # 0}
           i0 == Least(waiting)
           how == IF c.adopt[i0] # 0 THEN "chosen" ELSE "found"
           entries == [c.kept EXCEPT ![i0] = Entry(c.found[i0], c.cases[i0], how)]
           d == [c EXCEPT !.pc = "post"]
           e == [c EXCEPT !.kept = entries, !.found[i0] = 0]
           r == [result[j] EXCEPT !.says = Attempt(c)]
<1>1. UNCHANGED <<jira, design, update, sent, events>> /\ c.pc = "take"
  BY DEF Take, others
<1>2. \/ waiting = {} /\ create' = [create EXCEPT ![j] = d] /\ result' = [result EXCEPT ![j] = r] /\ kept' = kept
      \/ waiting # {} /\ create' = [create EXCEPT ![j] = e] /\ kept' = [kept EXCEPT ![j] = entries] /\ result' = result
  BY DEF Take, Goes
<1>3. SoundCreate(c, Made) /\ c \in CreateType
  BY OneJob DEF SoundCreate
<1>4. SoundResult(r, Made)
  <2>1. Attempt(c) \in {"nothing", "unknown"}
    BY DEF Attempt
  <2> QED
    BY <2>1, OneJob DEF SoundResult, ResultType
<1>5. Around /\ Made' = Made
  BY <1>1, AroundStands
<1>6. waiting = {i \in Ids : c.found[i] # 0}
  OBVIOUS
<1>7. waiting # {} => i0 \in waiting
  BY <1>3, ChosenAt
<1> HIDE DEF waiting, i0, r
<1>8. CASE waiting = {}
  <2>1. SoundCreate(d, Made)
    BY <1>3 DEF SoundCreate, CreateType, FoundApart
  <2>2. JobSound(kept[j], d, r, update[j], sent[j], Made')
    BY <1>4, <1>5, <2>1, OneJob DEF JobSound
  <2>3. Turns(j, kept[j], d, r, update[j], sent[j])
    BY <1>1, <1>2, <1>8, Stays DEF Turns
  <2> QED
    BY <1>5, <2>2, <2>3, StepOf
<1>9. CASE waiting # {}
  <2>1. i0 \in Ids /\ c.found[i0] # 0 /\ c.found[i0] \in Made /\ c.cases[i0] \in Texts
    BY <1>3, <1>6, <1>7, <1>9 DEF SoundCreate, CreateType
  <2>2. how \in {"created", "found", "chosen"} /\ (c.adopt[i0] # 0 => how = "chosen")
    OBVIOUS
  <2>3. OnlyIts(c.kept, i0, c.found[i0], how)
    BY <1>3, <2>1, <2>2 DEF SoundCreate, FoundApart, OnlyIts
  <2> HIDE DEF how
  <2>4. Sound(entries, Made)
    <3>1. Sound(c.kept, Made) /\ Made \in SUBSET Keys
      BY <1>3, MadeAreKeys DEF SoundCreate
    <3>2. Sound(Written(c.kept, i0, c.found[i0], c.cases[i0], how), Made)
      BY <2>1, <2>2, <2>3, <3>1, EntrySound
    <3> QED
      BY <3>2 DEF Written
  <2>5. /\ entries[i0].key = c.found[i0] /\ entries[i0].how = how
        /\ \A k \in Ids : k # i0 => entries[k] = c.kept[k]
    BY <1>3, <2>1 DEF CreateType, Records, Entry
  <2> HIDE DEF entries
  <2>6. e \in CreateType
    <3>1. entries \in Records
      BY <2>4 DEF Sound
    <3>2. [c.found EXCEPT ![i0] = 0] \in CaseMap
      BY <1>3 DEF CreateType, CaseMap
    <3> QED
      BY <1>3, <3>1, <3>2 DEF CreateType
  <2>7. /\ e.pc = "take" /\ e.kept = entries /\ e.cases = c.cases /\ e.adopt = c.adopt /\ e.linked = c.linked
        /\ e.held = c.held /\ e.todo = c.todo /\ e.found[i0] = 0
        /\ \A k \in Ids : k # i0 => e.found[k] = c.found[k]
    BY <1>1, <1>3, <2>1 DEF CreateType, CaseMap
  <2> HIDE DEF e
  <2>8. FoundApart(e)
    BY <1>3, <2>1, <2>2, <2>5, <2>7 DEF SoundCreate, FoundApart
  <2>9. SoundCreate(e, Made)
    BY <1>3, <2>4, <2>6, <2>7, <2>8 DEF SoundCreate
  <2>10. JobSound(entries, e, result[j], update[j], sent[j], Made')
    BY <1>5, <2>4, <2>9, OneJob DEF JobSound
  <2>11. Turns(j, entries, e, result[j], update[j], sent[j])
    BY <1>1, <1>2, <1>9, Stays DEF Turns, e, entries, how
  <2> QED
    BY <1>5, <2>10, <2>11, StepOf
<1> QED
  BY <1>8, <1>9

\* The next case that is sent, and its text.
LEMMA NextToSend ==
  ASSUME Inv, NEW j \in Jobs, create[j].todo # {}
  PROVE  /\ Least(create[j].todo) \in create[j].todo /\ Least(create[j].todo) \in Ids
         /\ create[j].cases[Least(create[j].todo)] \in Texts
<1> DEFINE c == create[j]
<1>1. SoundCreate(c, Made)
  BY OneJob
<1> HIDE DEF c
<1>2. c.todo \in SUBSET Ids /\ c.cases \in [Ids -> Texts \cup {NoText}] /\ c.todo \subseteq CasesOf(c.cases)
  BY <1>1 DEF SoundCreate, CreateType
<1>3. c.todo \in SUBSET Nat
  BY <1>2, IdsAreNumbers
<1>4. c.todo # {} => Least(c.todo) \in c.todo
  BY <1>3, LeastNumber
<1> QED
  BY <1>2, <1>4 DEF CasesOf, c

\* An issue is made, which was none before.
LEMMA AroundMakes ==
  ASSUME Inv, NEW j \in Jobs, NEW text \in Texts, CanMake, Makes(j, text), design' = design, events' = events \/ Event
  PROVE  /\ Around /\ Made' = Made \cup {Fresh} /\ Fresh \in Keys /\ Fresh \notin Made
         /\ sent' = [sent EXCEPT ![j] = sent[j] \cup {Fresh}]
<1>1. JiraSound' /\ Made' = Made \cup {Fresh}
  BY JiraMakes DEF Makes
<1>2. design' \in [Jobs -> Designs] /\ events' \in 0..MaxEvents
  BY EventsCount DEF Inv
<1> QED
  BY <1>1, <1>2, FreshIsFree DEF Around, Makes

\* What a run that ends tells the page.
Told(c, says) == [says |-> says, held |-> c.held, cases |-> IF says = "ok" THEN c.cases ELSE [i \in Ids |-> NoText]]

LEMMA EndsSound ==
  ASSUME Inv, NEW j \in Jobs, NEW says \in {"failed", "ok"}
  PROVE  SoundResult(Told(create[j], says), Made)
<1> DEFINE c == create[j]
<1>1. SoundCreate(c, Made)
  BY OneJob
<1> HIDE DEF c
<1>2. SoundResult(Told(c, says), Made)
  BY <1>1 DEF SoundCreate, CreateType, SoundResult, ResultType, Told
<1> QED
  BY <1>2 DEF c

\* A run that ends, whether or not what it was sending arrived.
LEMMA EndingSound ==
  ASSUME Inv, NEW j \in Jobs, NEW r, SoundResult(r, Made),
         create' = [create EXCEPT ![j] = Quiet], result' = [result EXCEPT ![j] = r],
         UNCHANGED <<design, kept, update>>, events' = events \/ Event,
         \/ UNCHANGED <<jira, sent>>
         \/ create[j].todo # {} /\ CanMake /\ Makes(j, create[j].cases[Least(create[j].todo)])
  PROVE  Inv'
<1>1. JobSound(kept[j], Quiet, r, update[j], sent[j], Made)
  BY OneJob, QuietSound DEF JobSound
<1>2. CASE UNCHANGED <<jira, sent>>
  <2>1. Around /\ Made' = Made
    BY <1>2, AroundStands
  <2>2. Turns(j, kept[j], Quiet, r, update[j], sent[j])
    BY <1>2, Stays DEF Turns
  <2> QED
    BY <1>1, <2>1, <2>2, StepOf
<1>3. CASE create[j].todo # {} /\ CanMake /\ Makes(j, create[j].cases[Least(create[j].todo)])
  <2>1. /\ Around /\ Made' = Made \cup {Fresh}
        /\ sent' = [sent EXCEPT ![j] = sent[j] \cup {Fresh}]
    BY <1>3, NextToSend, AroundMakes
  <2> DEFINE s == sent[j] \cup {Fresh}
  <2>2. JobSound(kept[j], Quiet, r, update[j], sent[j], Made')
    BY <1>1, <2>1, SoundGrows
  <2>3. JobSound(kept[j], Quiet, r, update[j], s, Made')
    BY <2>1, <2>2 DEF JobSound
  <2>4. Turns(j, kept[j], Quiet, r, update[j], s)
    BY <2>1, Stays DEF Turns
  <2> QED
    BY <2>1, <2>3, <2>4, StepOf
<1> QED
  BY <1>2, <1>3

LEMMA PostFailsSound ==
  ASSUME Inv, NEW j \in Jobs, PostFails(j) \/ ReadFails(j) \/ Finish(j)
  PROVE  Inv'
<1>1. CASE PostFails(j) \/ ReadFails(j)
  <2>1. create' = [create EXCEPT ![j] = Quiet] /\ result' = [result EXCEPT ![j] = Told(create[j], "failed")]
    BY <1>1 DEF PostFails, ReadFails, Ends, Goes, Told
  <2>2. UNCHANGED <<design, kept, update>> /\ Event
    BY <1>1 DEF PostFails, ReadFails
  <2>3. \/ UNCHANGED <<jira, sent>>
        \/ create[j].todo # {} /\ CanMake /\ Makes(j, create[j].cases[Least(create[j].todo)])
    BY <1>1 DEF PostFails, ReadFails
  <2>4. SoundResult(Told(create[j], "failed"), Made)
    BY EndsSound
  <2> QED
    BY <2>1, <2>2, <2>3, <2>4, EndingSound
<1>2. CASE Finish(j)
  <2>1. create' = [create EXCEPT ![j] = Quiet] /\ result' = [result EXCEPT ![j] = Told(create[j], "ok")]
    BY <1>2 DEF Finish, Ends, Goes, Told
  <2>2. UNCHANGED <<design, kept, update, jira, sent, events>>
    BY <1>2 DEF Finish, others
  <2>3. SoundResult(Told(create[j], "ok"), Made)
    BY EndsSound
  <2> QED
    BY <2>1, <2>2, <2>3, EndingSound
<1> QED
  BY <1>1, <1>2

LEMMA DiesSound ==
  ASSUME Inv, NEW j \in Jobs, Dies(j)
  PROVE  Inv'
<1>1. create' = [create EXCEPT ![j] = Quiet] /\ result' = [result EXCEPT ![j] = result[j]]
  BY Stays DEF Dies, Goes
<1>2. UNCHANGED <<design, kept, update>> /\ Event
  BY DEF Dies
<1>3. \/ UNCHANGED <<jira, sent>>
      \/ create[j].todo # {} /\ CanMake /\ Makes(j, create[j].cases[Least(create[j].todo)])
  BY DEF Dies
<1> QED
  BY <1>1, <1>2, <1>3, OneJob, EndingSound

LEMMA PostSound ==
  ASSUME Inv, NEW j \in Jobs, Post(j)
  PROVE  Inv'
<1> DEFINE c == create[j]
           i0 == Least(c.todo)
           entries == Recorded(c, i0, Fresh)
           d == [c EXCEPT !.pc = "steps", !.kept = entries, !.now = i0, !.todo = c.todo \ {i0}]
           s == sent[j] \cup {Fresh}
<1>1. /\ c.todo # {} /\ CanMake /\ Makes(j, c.cases[i0]) /\ UNCHANGED <<design, result, update, events>>
      /\ create' = [create EXCEPT ![j] = d] /\ kept' = [kept EXCEPT ![j] = entries]
  BY DEF Post, Goes
<1>2. i0 \in c.todo /\ i0 \in Ids /\ c.cases[i0] \in Texts
  BY <1>1, NextToSend
<1>3. /\ Around /\ Made' = Made \cup {Fresh} /\ Fresh \in Keys /\ Fresh \notin Made
      /\ sent' = [sent EXCEPT ![j] = s]
  BY <1>1, <1>2, AroundMakes
<1>4. JobSound(kept[j], c, result[j], update[j], sent[j], Made')
  <2>1. JobSound(kept[j], c, result[j], update[j], sent[j], Made)
    BY DEF Inv
  <2> QED
    BY <1>3, <2>1, SoundGrows
<1>5. SoundCreate(c, Made') /\ SoundCreate(c, Made) /\ c \in CreateType
  BY <1>4, OneJob DEF JobSound, SoundCreate
<1>6. 0 \notin Keys /\ Made' \in SUBSET Keys
  BY <1>3, IdsAreNumbers, MadeAreKeys
<1>7. entries = Written(c.kept, i0, Fresh, c.cases[i0], "created")
  BY DEF Recorded, Written
<1> HIDE DEF i0, s, entries
<1>8. Sound(entries, Made')
  <2>1. OnlyIts(c.kept, i0, Fresh, "created")
    BY <1>3, <1>5, <1>6 DEF SoundCreate, Sound, OnlyIts
  <2>2. Fresh \in Made' /\ Sound(c.kept, Made')
    BY <1>3, <1>5 DEF SoundCreate
  <2> HIDE DEF c
  <2> QED
    BY <1>2, <1>6, <1>7, <2>1, <2>2, EntrySound
<1>9. entries[i0].key = Fresh /\ \A k \in Ids : k # i0 => entries[k] = c.kept[k]
  BY <1>2, <1>5, <1>7 DEF Written, Entry, CreateType, Records
<1>10. d \in CreateType
  <2>1. entries \in Records /\ c.todo \ {i0} \in SUBSET Ids
    BY <1>5, <1>8 DEF Sound, CreateType
  <2> HIDE DEF c
  <2> QED
    BY <1>2, <1>5, <2>1 DEF CreateType
<1>11. /\ d.pc = "steps" /\ d.kept = entries /\ d.cases = c.cases /\ d.adopt = c.adopt /\ d.linked = c.linked
       /\ d.held = c.held /\ d.todo \subseteq c.todo /\ d.found = c.found /\ d.now = i0
  <2> HIDE DEF c
  <2> QED
    BY <1>5 DEF CreateType
<1>12. \A k \in Ids : c.found[k] # Fresh
  BY <1>3, <1>5, <1>6 DEF SoundCreate
<1>13. FoundApart(d)
  <2> HIDE DEF c, d
  <2> QED
    BY <1>5, <1>9, <1>11, <1>12 DEF SoundCreate, FoundApart
<1>14. SoundCreate(d, Made')
  <2> HIDE DEF c, d
  <2> QED
    BY <1>2, <1>3, <1>5, <1>6, <1>8, <1>9, <1>10, <1>11, <1>13 DEF SoundCreate
<1>15. JobSound(entries, d, result[j], update[j], s, Made')
  <2> HIDE DEF d
  <2> QED
    BY <1>3, <1>4, <1>8, <1>14 DEF JobSound, s
<1>16. Turns(j, entries, d, result[j], update[j], s)
  BY <1>1, <1>3, Stays DEF Turns, entries, i0
<1> QED
  BY <1>3, <1>15, <1>16, StepOf

\* What a request makes of a test that is there.
LEMMA AroundSends ==
  ASSUME Inv, NEW k \in Made, NEW e, jira' = [jira EXCEPT ![k] = e], e \in JiraEntry, e.is = jira[k].is,
         e.is = "live" => e.text \in Texts, design' = design, events' = events \/ Event
  PROVE  Around /\ Made' = Made
<1>1. JiraSound' /\ Made' = Made \cup {k}
  BY JiraChanges DEF Made
<1> QED
  BY <1>1, EventsCount DEF Inv, Around

LEMMA StepsAndLinkSound ==
  ASSUME Inv, NEW j \in Jobs, NEW steps \in BOOLEAN, NEW link \in BOOLEAN, StepsAndLink(j, steps, link)
  PROVE  Inv'
<1> DEFINE c == create[j]
           key == c.kept[c.now].key
           e == [jira[key] EXCEPT !.whole = steps, !.linked = jira[key].linked \/ link]
           d == [c EXCEPT !.pc = "post", !.now = 0]
<1>1. /\ c.pc = "steps" /\ jira' = [jira EXCEPT ![key].whole = steps, ![key].linked = @ \/ link]
      /\ kept' = [kept EXCEPT ![j] = c.kept] /\ create' = [create EXCEPT ![j] = d]
      /\ UNCHANGED <<design, result, update, sent>> /\ (events' = events \/ Event)
  BY DEF StepsAndLink, Goes
<1>2. SoundCreate(c, Made) /\ c \in CreateType
  BY OneJob DEF SoundCreate
<1>3. key \in Made
  BY <1>1, <1>2 DEF SoundCreate, Sound
<1>4. jira \in [Keys -> JiraEntry] /\ key \in Keys /\ jira[key] \in JiraEntry
  BY <1>3, MadeAreKeys DEF Inv, JiraSound, JiraType, JiraEntry
<1>5. /\ e \in JiraEntry /\ e.is = jira[key].is /\ (e.is = "live" => e.text \in Texts)
  BY <1>4 DEF JiraEntry, Inv, JiraSound
<1> HIDE DEF key
<1>6. jira' = [jira EXCEPT ![key] = e]
  BY <1>1, <1>4 DEF JiraEntry
<1>7. Around /\ Made' = Made
  <2> HIDE DEF e
  <2> QED
    BY <1>1, <1>3, <1>5, <1>6, AroundSends
<1>8. SoundCreate(d, Made)
  <2> HIDE DEF c
  <2> QED
    BY <1>2 DEF SoundCreate, CreateType, FoundApart
<1>9. JobSound(c.kept, d, result[j], update[j], sent[j], Made')
  BY <1>2, <1>7, <1>8, OneJob DEF JobSound, SoundCreate
<1>10. Turns(j, c.kept, d, result[j], update[j], sent[j])
  BY <1>1, Stays DEF Turns
<1> QED
  BY <1>7, <1>9, <1>10, StepOf

LEMMA KeysTakeSound ==
  ASSUME Inv, NEW j \in Jobs, KeysTake(j)
  PROVE  Inv'
<1> DEFINE r == kept[j]
           cases == design[j]
           todo == {i \in CasesOf(cases) : r[i].key = 0}
           tests == Theirs(j, HeldBy(r))
           same == Same(cases, todo, tests)
           entries == [i \in Ids |-> IF i \in todo /\ same[i] # 0 THEN Entry(same[i], cases[i], "found") ELSE r[i]]
<1>1. kept' = [kept EXCEPT ![j] = entries] /\ UNCHANGED <<jira, design, result, create, update, sent, events>>
  BY DEF KeysTake, others
<1>2. Sound(r, Made) /\ cases \in [Ids -> Texts \cup {NoText}]
  BY OneJob
<1>3. \A t \in tests : t.key \in Made /\ t.key \notin HeldBy(r)
  BY TheirsMade
<1>4. todo \in SUBSET Ids /\ \A i \in todo : cases[i] # NoText /\ r[i].key = 0
  BY DEF CasesOf
<1> HIDE DEF tests, r, cases, todo
<1>5. Picks(same, cases, todo, tests, Made)
  BY <1>3, <1>4, MadeAreKeys, SameFairly
<1> HIDE DEF same
<1>6. /\ same \in [Ids -> Made \cup {0}]
      /\ \A i \in Ids : same[i] # 0 => i \in todo /\ \A k \in Ids : r[k].key # same[i]
      /\ \A i, k \in Ids : i # k /\ same[i] # 0 => same[i] # same[k]
  BY <1>3, <1>5 DEF Picks, HeldBy
<1>7. ASSUME NEW i \in Ids
      PROVE  /\ entries[i] \in Entries /\ entries[i].key \in Made \cup {0}
             /\ same[i] # 0 => entries[i].key = same[i]
             /\ same[i] = 0 => entries[i] = r[i]
  <2>1. CASE same[i] = 0
    BY <1>2, <2>1 DEF Sound, Records
  <2>2. CASE same[i] # 0
    <3>1. i \in todo /\ same[i] \in Made /\ same[i] \in Keys /\ cases[i] \in Texts
      BY <1>2, <1>4, <1>6, <2>2, MadeAreKeys
    <3>2. Entry(same[i], cases[i], "found") \in Entries /\ Entry(same[i], cases[i], "found").key = same[i]
      BY <3>1 DEF Entry, Entries, Titles
    <3> QED
      BY <2>2, <3>1, <3>2
  <2> QED
    BY <2>1, <2>2
<1>8. entries \in Records
  BY <1>7 DEF Records
<1> HIDE DEF entries
<1>9. Apart(entries)
  BY <1>2, <1>6, <1>7 DEF Apart, Sound
<1>10. Sound(entries, Made)
  BY <1>7, <1>8, <1>9 DEF Sound
<1>11. Around /\ Made' = Made
  BY <1>1, AroundStands
<1>12. JobSound(entries, create[j], result[j], update[j], sent[j], Made')
  BY <1>10, <1>11, OneJob DEF JobSound
<1>13. Turns(j, entries, create[j], result[j], update[j], sent[j])
  BY <1>1, Stays DEF Turns
<1> QED
  BY <1>11, <1>12, <1>13, StepOf

LEMMA UpdateReadsSound ==
  ASSUME Inv, NEW j \in Jobs, UpdateReads(j)
  PROVE  Inv'
<1> DEFINE x == [kept |-> kept[j], cases |-> design[j]]
<1>1. /\ update' = [update EXCEPT ![j] = {x}]
      /\ UNCHANGED <<jira, design, kept, result, create, sent, events>>
  BY DEF UpdateReads, others
<1>2. x \in UpdateType /\ Sound(x.kept, Made)
  BY OneJob DEF UpdateType, Sound
<1>3. SoundUpdate({x}, Made)
  BY <1>2 DEF SoundUpdate
<1>4. Around /\ Made' = Made
  BY <1>1, AroundStands
<1>5. JobSound(kept[j], create[j], result[j], {x}, sent[j], Made')
  BY <1>3, <1>4, OneJob DEF JobSound
<1>6. Turns(j, kept[j], create[j], result[j], {x}, sent[j])
  BY <1>1, Stays DEF Turns
<1> QED
  BY <1>4, <1>5, <1>6, StepOf

LEMMA UpdateEndsSound ==
  ASSUME Inv, NEW j \in Jobs, UpdateEnds(j)
  PROVE  Inv'
<1>1. update' = [update EXCEPT ![j] = {}] /\ UNCHANGED <<jira, design, kept, result, create, sent, events>>
  BY DEF UpdateEnds, others
<1>2. Around /\ Made' = Made
  BY <1>1, AroundStands
<1>3. JobSound(kept[j], create[j], result[j], {}, sent[j], Made')
  BY <1>2, OneJob DEF JobSound, SoundUpdate
<1>4. Turns(j, kept[j], create[j], result[j], {}, sent[j])
  BY <1>1, Stays DEF Turns
<1> QED
  BY <1>2, <1>3, <1>4, StepOf

\* A case whose text is sent: its test, and what the record says of it then.
LEMMA SentSound ==
  ASSUME Inv, NEW j \in Jobs, NEW u \in update[j], NEW i \in Ids, i \in Differing(u.kept, u.cases)
  PROVE  /\ u.kept[i].key \in Made /\ u.cases[i] \in Texts
         /\ Sound(Sent(u, i), Made) /\ u \in UpdateType /\ update[j] = {u}
<1>1. u \in UpdateType /\ update[j] = {u} /\ Sound(u.kept, Made)
  BY OneJob DEF SoundUpdate
<1>2. u.kept[i].key # 0 /\ u.cases[i] # NoText
  BY DEF Differing, Live, CasesOf
<1>3. u.kept[i].key \in Made /\ u.cases[i] \in Texts
  BY <1>1, <1>2 DEF UpdateType, Sound
<1> DEFINE r == u.kept
           e == [key |-> r[i].key, title |-> r[i].title, text |-> u.cases[i], how |-> r[i].how]
           s == Sent(u, i)
<1>4. r[i] \in Entries /\ r[i] # NoEntry
  BY <1>1, <1>2 DEF UpdateType, Records, NoEntry
<1>5. e \in Entries /\ e.key = r[i].key /\ e.how = r[i].how
  BY <1>3, <1>4 DEF Entries
<1>6. s = [r EXCEPT ![i] = e]
  BY DEF Sent
<1>7. r \in Records /\ Sound(r, Made)
  BY <1>1 DEF Sound
<1> HIDE DEF r, e, s
<1>8. s \in Records /\ \A k \in Ids : s[k].key = r[k].key /\ s[k].how = r[k].how
  BY <1>5, <1>6, <1>7 DEF Records
<1>9. Sound(s, Made)
  BY <1>7, <1>8 DEF Sound, Apart
<1> QED
  BY <1>1, <1>3, <1>9 DEF s

LEMMA UpdateSendsSound ==
  ASSUME Inv, NEW j \in Jobs, NEW i \in Ids, UpdateSends(j, i) \/ UpdateFails(j, i)
  PROVE  Inv'
<1>1. PICK u \in update[j], w \in BOOLEAN :
        /\ i \in Differing(u.kept, u.cases)
        /\ jira' = [jira EXCEPT ![u.kept[i].key].text = u.cases[i], ![u.kept[i].key].whole = w]
        /\ UNCHANGED <<design, result, create, sent>> /\ (events' = events \/ Event)
        /\ \/ kept' = [kept EXCEPT ![j] = Sent(u, i)] /\ update' = [update EXCEPT ![j] = {[u EXCEPT !.kept = Sent(u, i)]}]
           \/ UNCHANGED <<kept, update>>
  BY DEF UpdateSends, UpdateFails, others
<1>2. /\ u.kept[i].key \in Made /\ u.cases[i] \in Texts
      /\ Sound(Sent(u, i), Made) /\ u \in UpdateType /\ update[j] = {u}
  BY <1>1, SentSound
<1> DEFINE key == u.kept[i].key
           e == [jira[key] EXCEPT !.text = u.cases[i], !.whole = w]
           x == [u EXCEPT !.kept = Sent(u, i)]
<1>3. jira \in [Keys -> JiraEntry] /\ key \in Keys /\ jira[key] \in JiraEntry /\ jira[key].is # "free"
  BY <1>2, MadeAreKeys DEF Inv, JiraSound, JiraType, JiraEntry, Made
<1>4. e \in JiraEntry /\ e.is = jira[key].is /\ (e.is = "live" => e.text \in Texts)
  BY <1>2, <1>3 DEF JiraEntry
<1>5. jira' = [jira EXCEPT ![key] = e]
  BY <1>1, <1>3 DEF JiraEntry
<1>6. Around /\ Made' = Made
  <2> HIDE DEF e
  <2> QED
    BY <1>1, <1>2, <1>4, <1>5, AroundSends
<1>7. SoundUpdate({x}, Made)
  <2>1. x \in UpdateType /\ x.kept = Sent(u, i)
    BY <1>2 DEF UpdateType, Sound
  <2> QED
    BY <1>2, <2>1 DEF SoundUpdate
<1>8. CASE kept' = [kept EXCEPT ![j] = Sent(u, i)] /\ update' = [update EXCEPT ![j] = {x}]
  <2>1. JobSound(Sent(u, i), create[j], result[j], {x}, sent[j], Made')
    BY <1>2, <1>6, <1>7, OneJob DEF JobSound
  <2>2. Turns(j, Sent(u, i), create[j], result[j], {x}, sent[j])
    BY <1>1, <1>8, Stays DEF Turns
  <2> QED
    BY <1>6, <2>1, <2>2, StepOf
<1>9. CASE UNCHANGED <<kept, update>>
  <2>1. JobSound(kept[j], create[j], result[j], update[j], sent[j], Made')
    BY <1>6, OneJob DEF JobSound
  <2>2. Turns(j, kept[j], create[j], result[j], update[j], sent[j])
    BY <1>1, <1>9, Stays DEF Turns
  <2> QED
    BY <1>6, <2>1, <2>2, StepOf
<1> QED
  BY <1>1, <1>8, <1>9

LEMMA PeopleSound ==
  ASSUME Inv,
         \/ \E j \in Jobs : Redesign(j)
         \/ \E k \in Keys : Deletes(k) \/ Links(k)
         \/ \E text \in Texts : WritesByHand(text)
  PROVE  Inv'
<1>0. jira \in [Keys -> JiraEntry] /\ \A k \in Keys : jira[k].is = "live" => jira[k].text \in Texts
  BY DEF Inv, JiraSound, JiraType, JiraEntry
<1>1. CASE \E j \in Jobs : Redesign(j)
  <2>1. PICK j \in Jobs, d \in Designs :
          /\ design' = [design EXCEPT ![j] = d] /\ UNCHANGED <<jira, kept, create, result, update, sent>> /\ Event
    BY <1>1 DEF Redesign
  <2>2. design' \in [Jobs -> Designs]
    BY <2>1 DEF Inv
  <2>3. JiraSound' /\ Made' = Made /\ events' \in 0..MaxEvents
    BY <2>1, JiraStands, EventsCount
  <2>4. JobSound(kept[j], create[j], result[j], update[j], sent[j], Made')
    BY <2>3 DEF Inv
  <2>5. Turns(j, kept[j], create[j], result[j], update[j], sent[j])
    BY <2>1, Stays DEF Turns
  <2> QED
    BY <2>2, <2>3, <2>4, <2>5, StepOf DEF Around
<1>2. CASE \E k \in Keys : Deletes(k) \/ Links(k)
  <2>1. PICK k \in Keys : Deletes(k) \/ Links(k)
    BY <1>2
  <2>2. PICK e \in JiraEntry : jira' = [jira EXCEPT ![k] = e] /\ e.is # "free" /\ (e.is = "live" => e.text \in Texts)
    <3>1. CASE Deletes(k)
      <4>1. [Free EXCEPT !.is = "gone"] \in JiraEntry /\ [Free EXCEPT !.is = "gone"].is = "gone"
        BY DEF Free, JiraEntry
      <4> QED
        BY <3>1, <4>1 DEF Deletes
    <3>2. CASE Links(k)
      <4> DEFINE e == [jira[k] EXCEPT !.linked = TRUE]
      <4>1. jira' = [jira EXCEPT ![k] = e] /\ jira[k].is = "live"
        BY <3>2 DEF Links, Live
      <4>2. e \in JiraEntry /\ e.is = "live" /\ e.text \in Texts
        BY <1>0, <4>1 DEF JiraEntry
      <4> HIDE DEF e
      <4> QED
        BY <4>1, <4>2
    <3> QED
      BY <2>1, <3>1, <3>2
  <2>3. JiraSound' /\ Made' = Made \cup {k}
    BY <2>2, JiraChanges
  <2>4. UNCHANGED <<design, kept, create, result, update, sent>> /\ Event
    BY <2>1 DEF Deletes, Links
  <2> QED
    BY <2>3, <2>4, EventsCount, InJira
<1>3. CASE \E text \in Texts : WritesByHand(text)
  <2>1. PICK text \in Texts : WritesByHand(text)
    BY <1>3
  <2>2. JiraSound' /\ Made' = Made \cup {Fresh}
    BY <2>1, JiraMakes DEF WritesByHand
  <2>3. UNCHANGED <<design, kept, create, result, update, sent>> /\ Event
    BY <2>1 DEF WritesByHand
  <2> QED
    BY <2>2, <2>3, EventsCount, InJira
<1> QED
  BY <1>1, <1>2, <1>3

LEMMA NextSound == Inv /\ [Next]_vars => Inv'
<1> SUFFICES ASSUME Inv, [Next]_vars PROVE Inv'
  OBVIOUS
<1>1. CASE UNCHANGED vars
  BY <1>1, InJira, JiraStands DEF vars, Inv
<1>2. ASSUME NEW j \in Jobs, CreateStep(j)
      PROVE  Inv'
  BY <1>2, MatchSound, TakeSound, PostSound, PostFailsSound, DiesSound, StepsAndLinkSound DEF CreateStep
<1>3. ASSUME NEW j \in Jobs,
             \/ \E is, new \in SUBSET Ids : Start(j, is, new)
             \/ KeysTake(j) \/ UpdateReads(j) \/ UpdateEnds(j) \/ \E i \in Ids : UpdateSends(j, i) \/ UpdateFails(j, i)
      PROVE  Inv'
  BY <1>3, StartSound, KeysTakeSound, UpdateReadsSound, UpdateEndsSound, UpdateSendsSound
<1> QED
  BY <1>1, <1>2, <1>3, PeopleSound DEF Next

-----------------------------------------------------------------------------
(* Where a job's commands wait for each other: the inductive invariant *)

LiveKeys == {k \in Keys : jira[k].is = "live"}

\* What two commands of a job read is what is there.
ReadsItsOwn(k, c, r, u) ==
  /\ c.pc # "idle" => u = {} /\ k = c.kept /\ r.says \in {"nothing", "unknown"}
  /\ \A x \in u : x.kept = k

\* A case of a run past its matching has a key, is to take one, is to be
\* created, or waits for the person.
EveryCase(c) ==
  c.pc \in {"take", "post", "steps"} =>
    \A i \in CasesOf(c.cases) : c.kept[i].key # 0 \/ c.found[i] # 0 \/ i \in c.todo \/ c.held[i] # 0

Done(k, r) == r.says = "ok" => \A i \in CasesOf(r.cases) : k[i].key # 0 \/ r.held[i] # 0

\* What a run made is in the record, or it ended and said so.
SaidOrHeld(k, c, r, s, V) ==
  /\ \A x \in s \cap V : x \in HeldBy(k) \/ (c.pc = "idle" /\ r.says \in {"unknown", "failed"})
  /\ c.pc \in {"match", "take"} => s = {}
  /\ c.pc \in {"post", "steps"} /\ c.todo # {} => r.says = "unknown"

\* A case that is to be created takes nothing, and has no test.
ToCreate(c, V) ==
  /\ \A i \in c.todo : c.found[i] = 0 /\ c.kept[i].key \notin V
  /\ c.pc \in {"post", "steps"} => \A i \in Ids : c.found[i] = 0
  /\ \A i \in c.anyway : c.adopt[i] = 0

\* A test of the title of a case to be created was some other case's to take,
\* but by a person's word.
KnownTaken(c) ==
  c.pc \in {"take", "post", "steps"} =>
    \A p \in c.known : \A n \in c.todo \ c.anyway : p[2] = Title(c.cases[n]) =>
      \E i \in Ids \ c.todo : c.found[i] = p[1] \/ (c.found[i] = 0 /\ c.kept[i].key = p[1])

\* A case without a key is one whose text no key of the job was kept with.
Placed(c) ==
  c.pc # "idle" =>
    /\ c.cases \in Designs
    /\ OneTextEach(c.cases) => \A i \in CasesOf(c.cases) : c.kept[i].key = 0 =>
                                 \A k \in Ids : c.kept[k].key # 0 => c.kept[k].text # c.cases[i]

Follows(k, c, r, u, s, V) ==
  /\ ReadsItsOwn(k, c, r, u) /\ EveryCase(c) /\ Done(k, r) /\ SaidOrHeld(k, c, r, s, V)
  /\ ToCreate(c, V) /\ KnownTaken(c) /\ Placed(c)

AllFollow == \A j \in Jobs : Follows(kept[j], create[j], result[j], update[j], sent[j], LiveKeys)

\* A test does not come back to life.
Ages == \A k \in Made : k \in LiveKeys' => k \in LiveKeys

\* What a job relies on stands while others' tests are made and any test is deleted.
LEMMA FollowsOn ==
  ASSUME NEW K, NEW V, NEW W, \A x \in K : x \in W => x \in V, 0 \notin W,
         NEW k, NEW c, NEW r, NEW u, NEW s, JobSound(k, c, r, u, s, K), Follows(k, c, r, u, s, V)
  PROVE  Follows(k, c, r, u, s, W)
<1>1. SaidOrHeld(k, c, r, s, W)
  BY DEF JobSound, Follows, SaidOrHeld
<1>2. \A i \in c.todo : c.kept[i].key \in K \cup {0}
  BY DEF JobSound, SoundCreate, CasesOf, Sound
<1>3. ToCreate(c, W)
  BY <1>2 DEF Follows, ToCreate
<1> QED
  BY <1>1, <1>3 DEF Follows

LEMMA StepFollows ==
  ASSUME Inv, AllFollow, Ages, NEW j \in Jobs, NEW k, NEW c, NEW r, NEW u, NEW s,
         Turns(j, k, c, r, u, s), Follows(k, c, r, u, s, LiveKeys')
  PROVE  AllFollow'
<1>1. Functions
  BY DEF Inv
<1>2. /\ kept' = [o \in Jobs |-> IF o = j THEN k ELSE kept[o]]
      /\ create' = [o \in Jobs |-> IF o = j THEN c ELSE create[o]]
      /\ result' = [o \in Jobs |-> IF o = j THEN r ELSE result[o]]
      /\ update' = [o \in Jobs |-> IF o = j THEN u ELSE update[o]]
      /\ sent' = [o \in Jobs |-> IF o = j THEN s ELSE sent[o]]
  BY <1>1 DEF Functions, Turns
<1>3. ASSUME NEW o \in Jobs
      PROVE  Follows(kept'[o], create'[o], result'[o], update'[o], sent'[o], LiveKeys')
  <2>1. CASE o = j
    BY <1>2, <2>1
  <2>2. CASE o # j
    <3>1. JobSound(kept[o], create[o], result[o], update[o], sent[o], Made)
      BY DEF Inv
    <3>2. Follows(kept[o], create[o], result[o], update[o], sent[o], LiveKeys)
      BY DEF AllFollow
    <3>3. 0 \notin LiveKeys'
      BY IdsAreNumbers DEF LiveKeys
    <3>4. Follows(kept[o], create[o], result[o], update[o], sent[o], LiveKeys')
      BY <3>1, <3>2, <3>3, FollowsOn DEF Ages
    <3> QED
      BY <1>2, <2>2, <3>4
  <2> QED
    BY <2>1, <2>2
<1> QED
  BY <1>3 DEF AllFollow

LEMMA OneFollows ==
  ASSUME Inv, AllFollow, NEW j \in Jobs
  PROVE  /\ Follows(kept[j], create[j], result[j], update[j], sent[j], LiveKeys)
         /\ JobSound(kept[j], create[j], result[j], update[j], sent[j], Made)
BY DEF Inv, AllFollow

LEMMA LiveStands == jira' = jira => Ages /\ LiveKeys' = LiveKeys
BY DEF Ages, LiveKeys

LEMMA LiveMakes ==
  ASSUME Inv, CanMake, NEW text, NEW linked, NEW whole,
         jira' = [jira EXCEPT ![Fresh] = [is |-> "live", linked |-> linked, text |-> text, whole |-> whole]]
  PROVE  Ages /\ LiveKeys' = LiveKeys \cup {Fresh}
<1>1. jira' = [k \in Keys |-> IF k = Fresh THEN [is |-> "live", linked |-> linked, text |-> text, whole |-> whole] ELSE jira[k]]
  BY FreshIsFree DEF Inv, JiraSound, JiraType
<1> QED
  BY <1>1, FreshIsFree DEF Ages, LiveKeys

LEMMA LiveChanges ==
  ASSUME Inv, NEW k \in Keys, NEW e, jira' = [jira EXCEPT ![k] = e], e.is = jira[k].is \/ e.is = "gone"
  PROVE  Ages /\ (e.is = jira[k].is => LiveKeys' = LiveKeys)
<1>1. jira' = [l \in Keys |-> IF l = k THEN e ELSE jira[l]]
  BY DEF Inv, JiraSound, JiraType
<1> QED
  BY <1>1 DEF Ages, LiveKeys

\* A step that sends nothing, of a job that follows.
LEMMA FollowsStill ==
  ASSUME Inv, AllFollow, jira' = jira, NEW j \in Jobs, NEW k, NEW c, NEW r, NEW u, NEW s,
         Turns(j, k, c, r, u, s), Follows(k, c, r, u, s, LiveKeys)
  PROVE  AllFollow'
BY LiveStands, StepFollows

LEMMA QuietFollows ==
  ASSUME NEW k, NEW r, NEW u, NEW s, NEW V, \A x \in u : x.kept = k, Done(k, r),
         \A x \in s \cap V : x \in HeldBy(k) \/ r.says \in {"unknown", "failed"}
  PROVE  Follows(k, Quiet, r, u, s, V)
<1> DEFINE c == Quiet
<1>1. c.pc = "idle" /\ c.todo = {} /\ c.anyway = {}
  BY DEF Quiet
<1> HIDE DEF c
<1>2. Follows(k, c, r, u, s, V)
  BY <1>1 DEF Follows, ReadsItsOwn, EveryCase, Done, SaidOrHeld, ToCreate, KnownTaken, Placed
<1> QED
  BY <1>2 DEF c

LEMMA InitFollows == Init => AllFollow
<1> SUFFICES ASSUME Init, NEW j \in Jobs PROVE Follows(kept[j], create[j], result[j], update[j], sent[j], LiveKeys)
  BY DEF AllFollow
<1>1. create[j] = Quiet /\ update[j] = {} /\ sent[j] = {} /\ result[j].says # "ok"
  BY DEF Init, Unsaid
<1> QED
  BY <1>1, QuietFollows DEF Done

\* Nothing of a job is under way when one of its commands starts.
LEMMA StartsAlone ==
  ASSUME ~Together, NEW j \in Jobs, Idle(j)
  PROVE  create[j].pc = "idle" /\ update[j] = {}
BY DEF Idle

LEMMA StartFollows ==
  ASSUME Inv, AllFollow, ~Together, NEW j \in Jobs, NEW is \in SUBSET Ids, NEW new \in SUBSET Ids, Start(j, is, new)
  PROVE  AllFollow'
<1> DEFINE entries == Moved(kept[j], design[j])
           cases == design[j]
           to == Assigned(kept[j], cases)
           from == [i \in Ids |-> IF to[i] # 0 THEN to[i] ELSE i]
           adopt == [i \in Ids |-> IF i \in is THEN result[j].held[i] ELSE 0]
           linked == {<<k, Title(jira[k].text)>> : k \in {l \in Keys : Live(l) /\ jira[l].linked}}
           c == [Quiet EXCEPT !.pc = "match", !.cases = cases, !.kept = entries, !.anyway = new,
                              !.adopt = adopt, !.linked = linked]
<1>1. /\ create' = [create EXCEPT ![j] = c] /\ kept' = [kept EXCEPT ![j] = entries]
      /\ result' = [result EXCEPT ![j] = Unsaid] /\ sent' = [sent EXCEPT ![j] = {}]
      /\ UNCHANGED <<jira, design, update, events>> /\ Idle(j) /\ is \cap new = {}
  BY DEF Start, Goes
<1>2. update[j] = {}
  BY <1>1, StartsAlone
<1>3. cases \in Designs
  BY DEF Inv
<1>4. /\ \A i \in Ids : entries[i] = NoEntry \/ entries[i] = kept[j][from[i]]
      /\ \A i \in Ids : to[i] # 0 => entries[i].key # 0
      /\ \A i \in Ids : from[i] \in Ids
  BY MovedFrom
<1>5. OneTextEach(cases) => \A i \in CasesOf(cases) : to[i] = 0 =>
                              \A k \in Ids : kept[j][k].key # 0 => kept[j][k].text # cases[i]
  BY AssignedOnce
<1>6. \A i \in Ids : adopt[i] # 0 => i \in is
  OBVIOUS
<1>7. NoEntry.key = 0 /\ CasesOf(cases) \subseteq Ids
  BY DEF NoEntry, CasesOf
<1> HIDE DEF entries, to, from, adopt, linked, cases
<1>8. /\ c.pc = "match" /\ c.cases = cases /\ c.kept = entries /\ c.anyway = new /\ c.adopt = adopt
      /\ c.todo = {} /\ Unsaid.says = "nothing"
  BY DEF Quiet, Unsaid
<1> HIDE DEF c
<1>9. Placed(c)
  <2>1. ASSUME OneTextEach(cases), NEW i \in CasesOf(cases), entries[i].key = 0,
               NEW k \in Ids, entries[k].key # 0
        PROVE  entries[k].text # cases[i]
    <3>1. to[i] = 0
      BY <1>4, <1>7, <2>1
    <3>2. entries[k] = kept[j][from[k]] /\ from[k] \in Ids
      BY <1>4, <1>7, <2>1
    <3> QED
      BY <1>5, <2>1, <3>1, <3>2
  <2> QED
    BY <1>3, <1>8, <2>1 DEF Placed
<1>10. ToCreate(c, LiveKeys)
  BY <1>1, <1>6, <1>8 DEF ToCreate
<1>11. Follows(entries, c, Unsaid, update[j], {}, LiveKeys)
  BY <1>2, <1>8, <1>9, <1>10 DEF Follows, ReadsItsOwn, EveryCase, Done, SaidOrHeld, KnownTaken
<1>12. Turns(j, entries, c, Unsaid, update[j], {})
  BY <1>1, Stays DEF Turns, c
<1> QED
  BY <1>1, <1>11, <1>12, FollowsStill

\* What the story and the other jobs had of a case's title is among what Match compares with.
LEMMA KnownAreTests ==
  ASSUME Inv, NEW j \in Jobs, NEW todo, NEW p \in KnownThen(j, todo)
  PROVE  \E t \in Others(j) : t.key = p[1] /\ t.title = p[2]
<1> DEFINE c == create[j]
<1>1. p[1] \notin HeldBy(c.kept)
  BY DEF KnownThen
<1>2. CASE p \in c.linked
  <2> DEFINE t == [key |-> p[1], title |-> p[2],
                   steps |-> IF Live(p[1]) /\ jira[p[1]].whole THEN StepsOf(jira[p[1]].text) ELSE NoSteps]
  <2>1. t \in Linked(c) /\ t.key = p[1] /\ t.title = p[2]
    BY <1>1, <1>2 DEF Linked
  <2> HIDE DEF t
  <2> QED
    BY <2>1 DEF Others
<1>3. CASE p \notin c.linked
  <2>1. PICK e \in {kept[o][i] : o \in Jobs \ {j}, i \in Ids} \ {NoEntry} : p = <<e.key, e.title>> /\ \A l \in c.linked : l[1] # p[1]
    BY <1>3 DEF KnownThen
  <2>2. PICK o \in Jobs \ {j}, i \in Ids : e = kept[o][i]
    BY <2>1
  <2>3. e.key # 0
    <3>1. e \in Entries /\ e # NoEntry
      BY <2>1, <2>2, OneJob DEF Sound, Records
    <3> QED
      BY <3>1, IdsAreNumbers DEF Entries
  <2> DEFINE without == HeldBy(c.kept) \cup {q[1] : q \in c.linked}
  <2>4. e.key \notin without
    BY <1>1, <2>1
  <2> HIDE DEF without
  <2>5. <<o, i>> \in {q \in (Jobs \ {j}) \X Ids : kept[q[1]][q[2]].key \notin without \cup {0}}
    BY <2>2, <2>3, <2>4
  <2> DEFINE q == <<o, i>>
             t == [key |-> kept[q[1]][q[2]].key, title |-> kept[q[1]][q[2]].title,
                   steps |-> StepsOf(IF design[q[1]][q[2]] = NoText THEN kept[q[1]][q[2]].text ELSE design[q[1]][q[2]])]
  <2>6. t \in Theirs(j, without)
    BY <2>5 DEF Theirs
  <2>7. t.key = p[1] /\ t.title = p[2]
    BY <2>1, <2>2
  <2> HIDE DEF t
  <2>8. t \in Others(j)
    BY <2>6 DEF Others, without
  <2> QED
    BY <2>7, <2>8
<1> QED
  BY <1>2, <1>3

LEMMA MatchFollows ==
  ASSUME Inv, AllFollow, NEW j \in Jobs, Match(j)
  PROVE  AllFollow'
<1> DEFINE c == create[j]
           todo == Todo(c)
           tests == Others(j)
           word == {i \in todo : c.adopt[i] # 0}
           open == todo \ (c.anyway \cup word)
           same == Same(c.cases, open, tests)
           near == Near(c.cases, open, tests, same)
           found == [i \in Ids |-> IF i \in word THEN c.adopt[i] ELSE same[i]]
           left == {i \in todo : i \in c.anyway \/ (c.adopt[i] = 0 /\ same[i] = 0 /\ near[i] = 0)}
           known == KnownThen(j, todo)
           d == [c EXCEPT !.pc = "take", !.held = near, !.linked = {}, !.known = known, !.found = found, !.todo = left]
<1>1. UNCHANGED <<jira, design, kept, update, sent, events>> /\ c.pc = "match"
  BY DEF Match, others
<1>2. \/ create' = [create EXCEPT ![j] = Quiet] /\ result' = [result EXCEPT ![j].says = "refused"]
      \/ create' = [create EXCEPT ![j] = d] /\ result' = result
  BY DEF Match, Goes
<1>3. Follows(kept[j], c, result[j], update[j], sent[j], LiveKeys) /\ SoundCreate(c, Made) /\ c \in CreateType
  BY OneFollows, OneJob DEF SoundCreate
<1>4. kept[j] = c.kept /\ update[j] = {} /\ result[j].says \in {"nothing", "unknown"} /\ sent[j] = {}
  BY <1>1, <1>3 DEF Follows, ReadsItsOwn, SaidOrHeld
<1>5. CASE create' = [create EXCEPT ![j] = Quiet] /\ result' = [result EXCEPT ![j].says = "refused"]
  <2> DEFINE r == [result[j] EXCEPT !.says = "refused"]
  <2>1. Turns(j, kept[j], Quiet, r, update[j], sent[j])
    BY <1>1, <1>5, Stays DEF Turns
  <2>2. r.says = "refused"
    BY OneJob DEF SoundResult, ResultType
  <2> HIDE DEF r
  <2>3. Follows(kept[j], Quiet, r, update[j], sent[j], LiveKeys)
    BY <1>4, <2>2, QuietFollows DEF Done
  <2> QED
    BY <1>1, <2>1, <2>3, FollowsStill
<1>6. CASE create' = [create EXCEPT ![j] = d] /\ result' = result
  <2>1. /\ todo \in SUBSET Ids /\ open \in SUBSET Ids
        /\ \A i \in CasesOf(c.cases) : i \notin todo => c.kept[i].key # 0
        /\ \A i \in todo : c.kept[i].key \notin LiveKeys
    BY IdsAreNumbers DEF Todo, CasesOf, Live, LiveKeys
  <2>2. \A t \in tests : t.key \in Made
    BY OthersMade
  <2>3. \A p \in known : \E t \in tests : t.key = p[1] /\ t.title = p[2]
    BY KnownAreTests
  <2>4. \A i \in c.anyway : c.adopt[i] = 0
    BY <1>3 DEF Follows, ToCreate
  <2>5. found = [i \in Ids |-> IF i \in word THEN c.adopt[i] ELSE same[i]]
    OBVIOUS
  <2>6. /\ word = {i \in todo : c.adopt[i] # 0} /\ open = todo \ (c.anyway \cup word)
        /\ left = {i \in todo : i \in c.anyway \/ (c.adopt[i] = 0 /\ same[i] = 0 /\ near[i] = 0)}
    OBVIOUS
  <2> HIDE DEF tests, todo, open, word, known
  <2>7. Picks(same, c.cases, open, tests, Made)
    BY <2>1, <2>2, MadeAreKeys, SameFairly
  <2>8. d = [c EXCEPT !.pc = "take", !.held = near, !.linked = {}, !.known = known, !.found = found, !.todo = left]
    OBVIOUS
  <2> HIDE DEF same, near, found, left, c, d
  <2>9. /\ d.pc = "take" /\ d.cases = c.cases /\ d.kept = c.kept /\ d.adopt = c.adopt /\ d.anyway = c.anyway
        /\ d.found = found /\ d.held = near /\ d.todo = left /\ d.known = known
    BY <1>3, <2>8 DEF CreateType
  <2>10. \A i \in Ids : same[i] # 0 => i \in open
    BY <2>7 DEF Picks
  <2>11. EveryCase(d)
    BY <2>1, <2>5, <2>6, <2>9 DEF EveryCase, CasesOf
  <2>12. ToCreate(d, LiveKeys)
    BY <2>1, <2>4, <2>5, <2>6, <2>9, <2>10 DEF ToCreate
  <2>13. ASSUME NEW p \in known, NEW n \in left \ c.anyway, p[2] = Title(c.cases[n])
         PROVE  \E i \in Ids \ left : found[i] = p[1]
    <3>1. n \in open /\ same[n] = 0
      BY <2>6, <2>13
    <3>2. PICK t \in tests : t.key = p[1] /\ t.title = p[2]
      BY <2>3
    <3>3. PICK i \in Ids : same[i] = t.key
      BY <2>7, <2>13, <3>1, <3>2 DEF Picks
    <3>4. same[i] # 0
      BY <2>2, <3>3, MadeAreKeys
    <3>5. i \in open /\ i \notin word /\ i \notin c.anyway
      BY <2>6, <2>10, <3>4
    <3> QED
      BY <2>5, <2>6, <3>2, <3>3, <3>4, <3>5
  <2>14. KnownTaken(d)
    BY <2>9, <2>13 DEF KnownTaken
  <2>15. Placed(d)
    BY <1>1, <1>3, <2>9 DEF Follows, Placed
  <2>16. Follows(kept[j], d, result[j], update[j], sent[j], LiveKeys)
    BY <1>4, <2>9, <2>11, <2>12, <2>14, <2>15 DEF Follows, ReadsItsOwn, SaidOrHeld, Done
  <2>17. Turns(j, kept[j], d, result[j], update[j], sent[j])
    BY <1>1, <1>6, Stays DEF Turns
  <2> QED
    BY <1>1, <2>16, <2>17, FollowsStill
<1> QED
  BY <1>2, <1>5, <1>6

LEMMA TakeFollows ==
  ASSUME Inv, AllFollow, NEW j \in Jobs, Take(j)
  PROVE  AllFollow'
<1> DEFINE c == create[j]
           waiting == {i \in Ids : c.found[i] # 0}
           i0 == Least(waiting)
           how == IF c.adopt[i0] # 0 THEN "chosen" ELSE "found"
           entries == [c.kept EXCEPT ![i0] = Entry(c.found[i0], c.cases[i0], how)]
           d == [c EXCEPT !.pc = "post"]
           e == [c EXCEPT !.kept = entries, !.found[i0] = 0]
           r == [result[j] EXCEPT !.says = Attempt(c)]
<1>1. UNCHANGED <<jira, design, update, sent, events>> /\ c.pc = "take"
  BY DEF Take, others
<1>2. \/ waiting = {} /\ create' = [create EXCEPT ![j] = d] /\ result' = [result EXCEPT ![j] = r] /\ kept' = kept
      \/ waiting # {} /\ create' = [create EXCEPT ![j] = e] /\ kept' = [kept EXCEPT ![j] = entries] /\ result' = result
  BY DEF Take, Goes
<1>3. Follows(kept[j], c, result[j], update[j], sent[j], LiveKeys) /\ SoundCreate(c, Made) /\ c \in CreateType
  BY OneFollows, OneJob DEF SoundCreate
<1>4. kept[j] = c.kept /\ update[j] = {} /\ result[j].says \in {"nothing", "unknown"} /\ sent[j] = {}
  BY <1>1, <1>3 DEF Follows, ReadsItsOwn, SaidOrHeld
<1>5. waiting = {i \in Ids : c.found[i] # 0} /\ (waiting # {} => i0 \in waiting)
  BY <1>3, ChosenAt
<1>6. r.says = Attempt(c)
  BY OneJob DEF SoundResult, ResultType
<1> HIDE DEF waiting, i0, r
<1>7. CASE waiting = {}
  <2>1. /\ d.pc = "post" /\ d.cases = c.cases /\ d.kept = c.kept /\ d.adopt = c.adopt /\ d.anyway = c.anyway
        /\ d.found = c.found /\ d.held = c.held /\ d.todo = c.todo /\ d.known = c.known
    BY <1>3 DEF CreateType
  <2>2. Turns(j, kept[j], d, r, update[j], sent[j])
    BY <1>1, <1>2, <1>7, Stays DEF Turns
  <2> HIDE DEF d, c
  <2>3. EveryCase(d) /\ KnownTaken(d) /\ Placed(d)
    BY <1>1, <1>3, <2>1 DEF Follows, EveryCase, KnownTaken, Placed
  <2>4. ToCreate(d, LiveKeys)
    BY <1>3, <1>5, <1>7, <2>1 DEF Follows, ToCreate
  <2>5. Follows(kept[j], d, r, update[j], sent[j], LiveKeys)
    BY <1>4, <1>6, <2>1, <2>3, <2>4 DEF Follows, ReadsItsOwn, SaidOrHeld, Done, Attempt
  <2> QED
    BY <1>1, <2>2, <2>5, FollowsStill
<1>8. CASE waiting # {}
  <2>1. i0 \in Ids /\ c.found[i0] # 0 /\ i0 \in CasesOf(c.cases)
    BY <1>3, <1>5, <1>8 DEF SoundCreate, CasesOf
  <2>2. Turns(j, entries, e, result[j], update[j], sent[j])
    BY <1>1, <1>2, <1>8, Stays DEF Turns
  <2>3. /\ entries[i0].key = c.found[i0] /\ entries[i0].text = c.cases[i0]
        /\ \A k \in Ids : k # i0 => entries[k] = c.kept[k]
    BY <1>3, <2>1 DEF CreateType, Records, Entry
  <2> HIDE DEF entries
  <2>4. /\ e.pc = "take" /\ e.kept = entries /\ e.cases = c.cases /\ e.adopt = c.adopt /\ e.anyway = c.anyway
        /\ e.held = c.held /\ e.todo = c.todo /\ e.known = c.known /\ e.found[i0] = 0
        /\ \A k \in Ids : k # i0 => e.found[k] = c.found[k]
    BY <1>1, <1>3, <2>1 DEF CreateType, CaseMap
  <2> HIDE DEF e, c
  <2>5. c.todo \subseteq Ids /\ CasesOf(c.cases) \subseteq Ids
    BY <1>3 DEF CreateType, CasesOf
  <2>6. EveryCase(e)
    BY <1>1, <1>3, <2>1, <2>3, <2>4, <2>5 DEF Follows, EveryCase
  <2>7. ToCreate(e, LiveKeys)
    BY <1>3, <2>1, <2>3, <2>4, <2>5 DEF Follows, ToCreate
  <2>8. KnownTaken(e)
    <3>1. ASSUME NEW p \in c.known, NEW n \in c.todo \ c.anyway, p[2] = Title(c.cases[n])
          PROVE  \E i \in Ids \ c.todo : e.found[i] = p[1] \/ (e.found[i] = 0 /\ entries[i].key = p[1])
      <4>1. PICK i \in Ids \ c.todo : c.found[i] = p[1] \/ (c.found[i] = 0 /\ c.kept[i].key = p[1])
        BY <1>1, <1>3, <3>1 DEF Follows, KnownTaken
      <4>2. e.found[i] = p[1] \/ (e.found[i] = 0 /\ entries[i].key = p[1])
        BY <2>1, <2>3, <2>4, <4>1
      <4> QED
        BY <4>2
    <3> QED
      BY <2>4, <3>1 DEF KnownTaken
  <2>9. Placed(e)
    <3>1. c.cases \in Designs
      BY <1>1, <1>3 DEF Follows, Placed
    <3>2. ASSUME OneTextEach(c.cases), NEW i \in CasesOf(c.cases), entries[i].key = 0,
                 NEW k \in Ids, entries[k].key # 0
          PROVE  entries[k].text # c.cases[i]
      <4>1. i # i0 /\ c.kept[i].key = 0
        BY <2>1, <2>3, <2>5, <3>2
      <4>2. CASE k = i0
        BY <2>1, <2>3, <3>2, <4>1, <4>2 DEF OneTextEach
      <4>3. CASE k # i0
        BY <1>1, <1>3, <2>3, <3>2, <4>1, <4>3 DEF Follows, Placed
      <4> QED
        BY <4>2, <4>3
    <3> QED
      BY <2>4, <3>1, <3>2 DEF Placed
  <2>10. Follows(entries, e, result[j], update[j], sent[j], LiveKeys)
    BY <1>4, <2>4, <2>6, <2>7, <2>8, <2>9 DEF Follows, ReadsItsOwn, SaidOrHeld, Done
  <2> QED
    BY <1>1, <2>2, <2>10, FollowsStill
<1> QED
  BY <1>7, <1>8

LEMMA PostFollows ==
  ASSUME Inv, AllFollow, NEW j \in Jobs, Post(j)
  PROVE  AllFollow'
<1> DEFINE c == create[j]
           i0 == Least(c.todo)
           entries == Recorded(c, i0, Fresh)
           d == [c EXCEPT !.pc = "steps", !.kept = entries, !.now = i0, !.todo = c.todo \ {i0}]
           s == sent[j] \cup {Fresh}
<1>1. /\ c.pc = "post" /\ c.todo # {} /\ CanMake /\ Makes(j, c.cases[i0]) /\ UNCHANGED <<design, result, update, events>>
      /\ create' = [create EXCEPT ![j] = d] /\ kept' = [kept EXCEPT ![j] = entries]
  BY DEF Post, Goes
<1>2. i0 \in c.todo /\ i0 \in Ids /\ c.cases[i0] \in Texts
  BY <1>1, NextToSend
<1>3. /\ Fresh \in Keys /\ Fresh \notin Made /\ Ages /\ LiveKeys' = LiveKeys \cup {Fresh}
      /\ sent' = [sent EXCEPT ![j] = s]
  BY <1>1, FreshIsFree, LiveMakes DEF Makes
<1>4. Follows(kept[j], c, result[j], update[j], sent[j], LiveKeys) /\ SoundCreate(c, Made) /\ c \in CreateType
  BY OneFollows, OneJob DEF SoundCreate
<1>5. kept[j] = c.kept /\ update[j] = {} /\ result[j].says = "unknown"
  BY <1>1, <1>4 DEF Follows, ReadsItsOwn, SaidOrHeld
<1>6. 0 \notin Keys /\ sent[j] \subseteq Made
  BY OneJob, IdsAreNumbers
<1>7. Turns(j, entries, d, result[j], update[j], s)
  BY <1>1, <1>3, Stays DEF Turns
<1>8. /\ entries[i0].key = Fresh /\ entries[i0].text = c.cases[i0]
      /\ \A k \in Ids : k # i0 => entries[k] = c.kept[k]
  BY <1>2, <1>4 DEF Recorded, Entry, CreateType, Records
<1> HIDE DEF entries, s, i0
<1>9. /\ d.pc = "steps" /\ d.kept = entries /\ d.cases = c.cases /\ d.adopt = c.adopt /\ d.anyway = c.anyway
      /\ d.held = c.held /\ d.todo = c.todo \ {i0} /\ d.known = c.known /\ d.found = c.found
  BY <1>4 DEF CreateType
<1> HIDE DEF d, c
<1>10. c.todo \subseteq Ids /\ CasesOf(c.cases) \subseteq Ids /\ i0 \in CasesOf(c.cases)
  BY <1>2, <1>4 DEF CreateType, CasesOf, SoundCreate
<1>11. EveryCase(d)
  BY <1>1, <1>3, <1>4, <1>6, <1>8, <1>9, <1>10 DEF Follows, EveryCase
<1>12. \A i \in Ids : c.kept[i].key \in Made \cup {0}
  BY <1>4 DEF SoundCreate, Sound
<1>13. ToCreate(d, LiveKeys')
  BY <1>1, <1>3, <1>4, <1>6, <1>8, <1>9, <1>10, <1>12 DEF Follows, ToCreate
<1>14. KnownTaken(d)
  <2>1. ASSUME NEW p \in c.known, NEW n \in c.todo \ c.anyway, p[2] = Title(c.cases[n])
        PROVE  \E i \in Ids \ (c.todo \ {i0}) : d.found[i] = p[1] \/ (d.found[i] = 0 /\ entries[i].key = p[1])
    <3>1. PICK i \in Ids \ c.todo : c.found[i] = p[1] \/ (c.found[i] = 0 /\ c.kept[i].key = p[1])
      BY <1>1, <1>4, <2>1 DEF Follows, KnownTaken
    <3>2. d.found[i] = p[1] \/ (d.found[i] = 0 /\ entries[i].key = p[1])
      BY <1>2, <1>8, <1>9, <3>1
    <3> QED
      BY <3>1, <3>2
  <2> QED
    BY <1>9, <2>1 DEF KnownTaken
<1>15. Placed(d)
  <2>1. c.cases \in Designs
    BY <1>1, <1>4 DEF Follows, Placed
  <2>2. ASSUME OneTextEach(c.cases), NEW i \in CasesOf(c.cases), entries[i].key = 0,
               NEW k \in Ids, entries[k].key # 0
        PROVE  entries[k].text # c.cases[i]
    <3>1. i # i0 /\ c.kept[i].key = 0
      BY <1>3, <1>6, <1>8, <1>10, <2>2
    <3>2. CASE k = i0
      BY <1>8, <1>10, <2>2, <3>1, <3>2 DEF OneTextEach
    <3>3. CASE k # i0
      BY <1>1, <1>4, <1>8, <2>2, <3>1, <3>3 DEF Follows, Placed
    <3> QED
      BY <3>2, <3>3
  <2> QED
    BY <1>9, <2>1, <2>2 DEF Placed
<1>16. \A x \in s \cap LiveKeys' : x \in HeldBy(entries)
  <2>1. Fresh \in HeldBy(entries)
    BY <1>2, <1>3, <1>6, <1>8 DEF HeldBy
  <2>2. ASSUME NEW x \in sent[j], x \in LiveKeys
        PROVE  x \in HeldBy(entries)
    <3>1. x \in HeldBy(c.kept)
      BY <1>1, <1>4, <1>5, <2>2 DEF Follows, SaidOrHeld
    <3>2. PICK i \in Ids : c.kept[i].key = x /\ x # 0
      BY <3>1 DEF HeldBy
    <3>3. i # i0
      BY <1>2, <1>4, <2>2, <3>2 DEF Follows, ToCreate
    <3>4. entries[i].key = x
      BY <1>8, <3>2, <3>3
    <3> QED
      BY <3>2, <3>4 DEF HeldBy
  <2>3. \A x \in s : x = Fresh \/ (x \in sent[j] /\ x # Fresh)
    BY <1>3, <1>6 DEF s
  <2> QED
    BY <1>3, <2>1, <2>2, <2>3
<1>17. Follows(entries, d, result[j], update[j], s, LiveKeys')
  BY <1>5, <1>9, <1>11, <1>13, <1>14, <1>15, <1>16 DEF Follows, ReadsItsOwn, SaidOrHeld, Done
<1> QED
  BY <1>3, <1>7, <1>17, StepFollows

LEMMA StepsAndLinkFollows ==
  ASSUME Inv, AllFollow, NEW j \in Jobs, NEW steps \in BOOLEAN, NEW link \in BOOLEAN, StepsAndLink(j, steps, link)
  PROVE  AllFollow'
<1> DEFINE c == create[j]
           key == c.kept[c.now].key
           e == [jira[key] EXCEPT !.whole = steps, !.linked = jira[key].linked \/ link]
           d == [c EXCEPT !.pc = "post", !.now = 0]
<1>1. /\ c.pc = "steps" /\ jira' = [jira EXCEPT ![key].whole = steps, ![key].linked = @ \/ link]
      /\ kept' = [kept EXCEPT ![j] = c.kept] /\ create' = [create EXCEPT ![j] = d]
      /\ UNCHANGED <<design, result, update, sent>>
  BY DEF StepsAndLink, Goes
<1>2. Follows(kept[j], c, result[j], update[j], sent[j], LiveKeys) /\ SoundCreate(c, Made) /\ c \in CreateType
  BY OneFollows, OneJob DEF SoundCreate
<1>3. key \in Keys
  BY <1>1, <1>2, MadeAreKeys DEF SoundCreate, Sound
<1>4. jira \in [Keys -> JiraEntry]
  BY DEF Inv, JiraSound, JiraType, JiraEntry
<1>5. e.is = jira[key].is
  BY <1>3, <1>4 DEF JiraEntry
<1>6. kept[j] = c.kept
  BY <1>1, <1>2 DEF Follows, ReadsItsOwn
<1> HIDE DEF key
<1>7. jira' = [jira EXCEPT ![key] = e]
  BY <1>1, <1>3, <1>4 DEF JiraEntry
<1>8. Ages /\ LiveKeys' = LiveKeys
  <2> HIDE DEF e
  <2> QED
    BY <1>3, <1>5, <1>7, LiveChanges
<1>9. Turns(j, c.kept, d, result[j], update[j], sent[j])
  BY <1>1, Stays DEF Turns
<1>10. /\ d.pc = "post" /\ d.kept = c.kept /\ d.cases = c.cases /\ d.adopt = c.adopt /\ d.anyway = c.anyway
       /\ d.held = c.held /\ d.todo = c.todo /\ d.known = c.known /\ d.found = c.found
  BY <1>2 DEF CreateType
<1> HIDE DEF c, d
<1>11. Follows(c.kept, d, result[j], update[j], sent[j], LiveKeys')
  BY <1>1, <1>2, <1>6, <1>8, <1>10
     DEF Follows, ReadsItsOwn, EveryCase, Done, SaidOrHeld, ToCreate, KnownTaken, Placed
<1> QED
  BY <1>8, <1>9, <1>11, StepFollows

\* What is left when a run ends, as it says or by dying.
LEMMA EndingFollows ==
  ASSUME Inv, AllFollow, NEW j \in Jobs, NEW r, create[j].pc # "idle",
         create' = [create EXCEPT ![j] = Quiet], result' = [result EXCEPT ![j] = r], UNCHANGED <<kept, update>>,
         Done(kept[j], r),
         \/ UNCHANGED <<jira, sent>>
         \/ /\ CanMake /\ Makes(j, create[j].cases[Least(create[j].todo)]) /\ r.says \in {"unknown", "failed"}
  PROVE  AllFollow'
<1>1. Follows(kept[j], create[j], result[j], update[j], sent[j], LiveKeys)
  BY OneFollows
<1>2. /\ update[j] = {} /\ \A x \in sent[j] \cap LiveKeys : x \in HeldBy(kept[j])
  BY <1>1 DEF Follows, ReadsItsOwn, SaidOrHeld
<1>3. CASE UNCHANGED <<jira, sent>>
  <2>1. Turns(j, kept[j], Quiet, r, update[j], sent[j])
    BY <1>3, Stays DEF Turns
  <2>2. Follows(kept[j], Quiet, r, update[j], sent[j], LiveKeys)
    BY <1>2, QuietFollows
  <2> QED
    BY <1>3, <2>1, <2>2, FollowsStill
<1>4. CASE CanMake /\ Makes(j, create[j].cases[Least(create[j].todo)]) /\ r.says \in {"unknown", "failed"}
  <2> DEFINE s == sent[j] \cup {Fresh}
  <2>1. sent' = [sent EXCEPT ![j] = s] /\ Ages
    BY <1>4, LiveMakes DEF Makes
  <2>2. Turns(j, kept[j], Quiet, r, update[j], s)
    BY <2>1, Stays DEF Turns
  <2> HIDE DEF s
  <2>3. Follows(kept[j], Quiet, r, update[j], s, LiveKeys')
    BY <1>2, <1>4, QuietFollows
  <2> QED
    BY <2>1, <2>2, <2>3, StepFollows
<1> QED
  BY <1>3, <1>4

LEMMA EndsFollow ==
  ASSUME Inv, AllFollow, NEW j \in Jobs, PostFails(j) \/ ReadFails(j) \/ Finish(j) \/ Dies(j)
  PROVE  AllFollow'
<1> DEFINE c == create[j]
<1>1. Follows(kept[j], c, result[j], update[j], sent[j], LiveKeys) /\ SoundCreate(c, Made)
  BY OneFollows, OneJob
<1>2. CASE PostFails(j) \/ ReadFails(j)
  <2> DEFINE r == Told(c, "failed")
  <2>1. /\ create' = [create EXCEPT ![j] = Quiet] /\ result' = [result EXCEPT ![j] = r] /\ c.pc # "idle"
    BY <1>2 DEF PostFails, ReadFails, Ends, Goes, Told
  <2>2. UNCHANGED <<kept, update>>
    BY <1>2 DEF PostFails, ReadFails
  <2>4. \/ UNCHANGED <<jira, sent>>
        \/ CanMake /\ Makes(j, c.cases[Least(c.todo)])
    BY <1>2 DEF PostFails, ReadFails
  <2>3. r.says = "failed" /\ Done(kept[j], r)
    BY DEF Told, Done
  <2> HIDE DEF r
  <2> QED
    BY <2>1, <2>2, <2>3, <2>4, EndingFollows
<1>3. CASE Finish(j)
  <2> DEFINE r == Told(c, "ok")
  <2>1. /\ create' = [create EXCEPT ![j] = Quiet] /\ result' = [result EXCEPT ![j] = r] /\ c.pc = "post" /\ c.todo = {}
        /\ UNCHANGED <<kept, update, jira, sent>>
    BY <1>3 DEF Finish, Ends, Goes, Told, others
  <2>2. r.cases = c.cases /\ r.held = c.held
    BY DEF Told
  <2> HIDE DEF r, c
  <2>3. kept[j] = c.kept /\ CasesOf(c.cases) \subseteq Ids
    BY <1>1, <2>1 DEF Follows, ReadsItsOwn, CasesOf
  <2>4. Done(kept[j], r)
    BY <1>1, <2>1, <2>2, <2>3 DEF Follows, EveryCase, ToCreate, Done
  <2> QED
    BY <2>1, <2>4, EndingFollows DEF c
<1>4. CASE Dies(j)
  <2>1. /\ create' = [create EXCEPT ![j] = Quiet] /\ result' = [result EXCEPT ![j] = result[j]] /\ c.pc # "idle"
        /\ UNCHANGED <<kept, update>>
    BY <1>4, Stays DEF Dies, Goes
  <2>2. \/ UNCHANGED <<jira, sent>>
        \/ c.pc = "post" /\ c.todo # {} /\ CanMake /\ Makes(j, c.cases[Least(c.todo)])
    BY <1>4 DEF Dies
  <2>3. Done(kept[j], result[j]) /\ (c.pc = "post" /\ c.todo # {} => result[j].says = "unknown")
    BY <1>1 DEF Follows, SaidOrHeld
  <2> QED
    BY <2>1, <2>2, <2>3, EndingFollows
<1> QED
  BY <1>2, <1>3, <1>4

\* A record that keeps every key it has.
LEMMA KeysKept ==
  ASSUME NEW k, NEW l, NEW r, \A i \in Ids : k[i].key # 0 => l[i].key = k[i].key
  PROVE  HeldBy(k) \subseteq HeldBy(l) /\ (Done(k, r) => Done(l, r))
<1>1. HeldBy(k) \subseteq HeldBy(l)
  BY DEF HeldBy
<1>2. Done(k, r) => Done(l, r)
  BY DEF Done, CasesOf
<1> QED
  BY <1>1, <1>2

\* Take keys and Update write the record while no Create is under way.
LEMMA IdleFollows ==
  ASSUME NEW k, NEW l, NEW c, NEW r, NEW u, NEW w, NEW s, NEW V, c.pc = "idle",
         Follows(k, c, r, u, s, V), \A x \in w : x.kept = l,
         \A i \in Ids : k[i].key # 0 => l[i].key = k[i].key
  PROVE  Follows(l, c, r, w, s, V)
<1>1. HeldBy(k) \subseteq HeldBy(l) /\ Done(l, r)
  BY KeysKept DEF Follows
<1>2. SaidOrHeld(l, c, r, s, V)
  BY <1>1 DEF Follows, SaidOrHeld
<1>3. ReadsItsOwn(l, c, r, w)
  BY DEF ReadsItsOwn
<1> QED
  BY <1>1, <1>2, <1>3 DEF Follows

LEMMA KeysTakeFollows ==
  ASSUME Inv, AllFollow, ~Together, NEW j \in Jobs, KeysTake(j)
  PROVE  AllFollow'
<1> DEFINE todo == {i \in CasesOf(design[j]) : kept[j][i].key = 0}
           same == Same(design[j], todo, Theirs(j, HeldBy(kept[j])))
           entries == [i \in Ids |-> IF i \in todo /\ same[i] # 0 THEN Entry(same[i], design[j][i], "found") ELSE kept[j][i]]
<1>1. kept' = [kept EXCEPT ![j] = entries] /\ UNCHANGED <<jira, design, result, create, update, sent>> /\ Idle(j)
  BY DEF KeysTake, others
<1>2. create[j].pc = "idle" /\ update[j] = {}
  BY <1>1, StartsAlone
<1>3. \A i \in Ids : kept[j][i].key # 0 => entries[i].key = kept[j][i].key
  OBVIOUS
<1> HIDE DEF entries
<1>4. Follows(entries, create[j], result[j], update[j], sent[j], LiveKeys)
  <2>1. Follows(kept[j], create[j], result[j], update[j], sent[j], LiveKeys)
    BY OneFollows
  <2>2. \A x \in update[j] : x.kept = entries
    BY <1>2
  <2> QED
    BY <1>2, <1>3, <2>1, <2>2, IdleFollows
<1>5. Turns(j, entries, create[j], result[j], update[j], sent[j])
  BY <1>1, Stays DEF Turns
<1> QED
  BY <1>1, <1>4, <1>5, FollowsStill

LEMMA UpdateReadsFollows ==
  ASSUME Inv, AllFollow, ~Together, NEW j \in Jobs, UpdateReads(j) \/ UpdateEnds(j)
  PROVE  AllFollow'
<1>0. Follows(kept[j], create[j], result[j], update[j], sent[j], LiveKeys)
  BY OneFollows
<1>1. UNCHANGED <<jira, kept, result, create, sent>> /\ create[j].pc = "idle"
  BY <1>0, StartsAlone DEF UpdateReads, UpdateEnds, others, Follows, ReadsItsOwn
<1>2. PICK w : update' = [update EXCEPT ![j] = w] /\ \A x \in w : x.kept = kept[j]
  <2>1. CASE UpdateReads(j)
    <3> DEFINE x == [kept |-> kept[j], cases |-> design[j]]
    <3> DEFINE v == {x}
    <3>1. update' = [update EXCEPT ![j] = v] /\ \A y \in v : y.kept = kept[j]
      BY <2>1 DEF UpdateReads
    <3> HIDE DEF v
    <3> QED
      BY <3>1
  <2>2. CASE UpdateEnds(j)
    <3> DEFINE v == {}
    <3>1. update' = [update EXCEPT ![j] = v] /\ \A y \in v : y.kept = kept[j]
      BY <2>2 DEF UpdateEnds
    <3> HIDE DEF v
    <3> QED
      BY <3>1
  <2> QED
    BY <2>1, <2>2
<1>3. Follows(kept[j], create[j], result[j], w, sent[j], LiveKeys)
  BY <1>0, <1>1, <1>2, IdleFollows
<1>4. Turns(j, kept[j], create[j], result[j], w, sent[j])
  BY <1>1, <1>2, Stays DEF Turns
<1> QED
  BY <1>1, <1>3, <1>4, FollowsStill

LEMMA UpdateSendsFollows ==
  ASSUME Inv, AllFollow, NEW j \in Jobs, NEW i \in Ids, UpdateSends(j, i) \/ UpdateFails(j, i)
  PROVE  AllFollow'
<1>0. Follows(kept[j], create[j], result[j], update[j], sent[j], LiveKeys)
  BY OneFollows
<1>1. PICK u \in update[j], w \in BOOLEAN :
        /\ i \in Differing(u.kept, u.cases)
        /\ jira' = [jira EXCEPT ![u.kept[i].key].text = u.cases[i], ![u.kept[i].key].whole = w]
        /\ UNCHANGED <<design, result, create, sent>>
        /\ \/ kept' = [kept EXCEPT ![j] = Sent(u, i)] /\ update' = [update EXCEPT ![j] = {[u EXCEPT !.kept = Sent(u, i)]}]
           \/ UNCHANGED <<kept, update>>
  BY DEF UpdateSends, UpdateFails, others
<1>2. /\ u.kept[i].key \in Made /\ u \in UpdateType /\ update[j] = {u}
  BY <1>1, SentSound
<1>3. u.kept = kept[j] /\ create[j].pc = "idle"
  BY <1>0, <1>1 DEF Follows, ReadsItsOwn
<1> DEFINE key == u.kept[i].key
           e == [jira[key] EXCEPT !.text = u.cases[i], !.whole = w]
           x == [u EXCEPT !.kept = Sent(u, i)]
<1>4. jira \in [Keys -> JiraEntry] /\ key \in Keys
  BY <1>2, MadeAreKeys DEF Inv, JiraSound, JiraType, JiraEntry
<1>5. e.is = jira[key].is
  BY <1>4 DEF JiraEntry
<1>6. jira' = [jira EXCEPT ![key] = e]
  BY <1>1, <1>4 DEF JiraEntry
<1>7. Ages /\ LiveKeys' = LiveKeys
  <2> HIDE DEF e
  <2> QED
    BY <1>4, <1>5, <1>6, LiveChanges
<1>8. CASE kept' = [kept EXCEPT ![j] = Sent(u, i)] /\ update' = [update EXCEPT ![j] = {x}]
  <2>1. x.kept = Sent(u, i)
    BY <1>2 DEF UpdateType
  <2>2. \A k \in Ids : Sent(u, i)[k].key = u.kept[k].key
    BY <1>2 DEF Sent, UpdateType, Records
  <2> DEFINE l == Sent(u, i)
             v == {x}
  <2>3. (\A y \in v : y.kept = l) /\ \A k \in Ids : kept[j][k].key # 0 => l[k].key = kept[j][k].key
    BY <1>3, <2>1, <2>2
  <2>4. Turns(j, l, create[j], result[j], v, sent[j])
    BY <1>1, <1>8, Stays DEF Turns
  <2> HIDE DEF l, v
  <2>5. Follows(l, create[j], result[j], v, sent[j], LiveKeys')
    BY <1>0, <1>3, <1>7, <2>3, IdleFollows
  <2> QED
    BY <1>7, <2>4, <2>5, StepFollows
<1>9. CASE UNCHANGED <<kept, update>>
  <2>1. Turns(j, kept[j], create[j], result[j], update[j], sent[j])
    BY <1>1, <1>9, Stays DEF Turns
  <2> QED
    BY <1>0, <1>7, <2>1, StepFollows
<1> QED
  BY <1>1, <1>8, <1>9

\* What people do, and a step that changes nothing.
LEMMA PeopleFollow ==
  ASSUME Inv, AllFollow, UNCHANGED <<kept, create, result, update, sent>>, Ages
  PROVE  AllFollow'
<1> SUFFICES ASSUME NEW j \in Jobs PROVE Follows(kept[j], create[j], result[j], update[j], sent[j], LiveKeys')
  BY DEF AllFollow
<1>1. 0 \notin LiveKeys'
  BY IdsAreNumbers DEF LiveKeys
<1> QED
  BY <1>1, OneFollows, FollowsOn DEF Ages

LEMMA PeopleAge ==
  ASSUME Inv,
         \/ \E j \in Jobs : Redesign(j)
         \/ \E k \in Keys : Deletes(k) \/ Links(k)
         \/ \E text \in Texts : WritesByHand(text)
  PROVE  Ages /\ UNCHANGED <<kept, create, result, update, sent>>
<1>1. CASE \E j \in Jobs : Redesign(j)
  BY <1>1, LiveStands DEF Redesign
<1>2. CASE \E k \in Keys : Deletes(k) \/ Links(k)
  <2>1. PICK k \in Keys : Deletes(k) \/ Links(k)
    BY <1>2
  <2>2. PICK e : jira' = [jira EXCEPT ![k] = e] /\ (e.is = jira[k].is \/ e.is = "gone")
    <3>1. CASE Deletes(k)
      <4>1. [Free EXCEPT !.is = "gone"].is = "gone"
        BY DEF Free
      <4> QED
        BY <3>1, <4>1 DEF Deletes
    <3>2. CASE Links(k)
      <4> DEFINE e == [jira[k] EXCEPT !.linked = TRUE]
      <4>1. jira' = [jira EXCEPT ![k] = e]
        BY <3>2 DEF Links
      <4>2. e.is = jira[k].is
        BY DEF Inv, JiraSound, JiraType
      <4> HIDE DEF e
      <4> QED
        BY <4>1, <4>2
    <3> QED
      BY <2>1, <3>1, <3>2
  <2> QED
    BY <2>1, <2>2, LiveChanges DEF Deletes, Links
<1>3. CASE \E text \in Texts : WritesByHand(text)
  BY <1>3, LiveMakes DEF WritesByHand
<1> QED
  BY <1>1, <1>2, <1>3

LEMMA NextFollows ==
  ASSUME ~Together
  PROVE  Inv /\ AllFollow /\ [Next]_vars => AllFollow'
<1> SUFFICES ASSUME Inv, AllFollow, [Next]_vars PROVE AllFollow'
  OBVIOUS
<1>1. CASE UNCHANGED vars
  BY <1>1, PeopleFollow, LiveStands DEF vars
<1>2. ASSUME NEW j \in Jobs, CreateStep(j)
      PROVE  AllFollow'
  BY <1>2, MatchFollows, TakeFollows, PostFollows, EndsFollow, StepsAndLinkFollows DEF CreateStep
<1>3. ASSUME NEW j \in Jobs,
             \/ \E is, new \in SUBSET Ids : Start(j, is, new)
             \/ KeysTake(j) \/ UpdateReads(j) \/ UpdateEnds(j) \/ \E i \in Ids : UpdateSends(j, i) \/ UpdateFails(j, i)
      PROVE  AllFollow'
  BY <1>3, StartFollows, KeysTakeFollows, UpdateReadsFollows, UpdateSendsFollows
<1>4. ASSUME \/ \E j \in Jobs : Redesign(j)
             \/ \E k \in Keys : Deletes(k) \/ Links(k)
             \/ \E text \in Texts : WritesByHand(text)
      PROVE  AllFollow'
  BY <1>4, PeopleAge, PeopleFollow
<1> QED
  BY <1>1, <1>2, <1>3, <1>4 DEF Next

-----------------------------------------------------------------------------

\* The types of the records, the results, Jira's issues and the commands under
\* way hold in every reachable state, whatever commands of one job run together.
THEOREM TypeCorrect == Spec => []TypeOK
<1> QED
  BY InitSound, NextSound, InvTypes, PTL DEF Spec

\* Two cases of one job are never one test unless a person said so of one of
\* them, whatever is numbered anew, taken, sent, stopped or lost, and whatever
\* commands of one job run together.
THEOREM KeysStayApart == Spec => []KeysApart
<1>1. Inv => KeysApart
  BY OneJob DEF Sound, Apart, KeysApart
<1> QED
  BY <1>1, InitSound, NextSound, PTL DEF Spec

\* A Create that ended well leaves every case it was given with a key in the
\* record, or held for the person, whatever Take, Update, other jobs and people
\* did since: where the commands of one job run one at a time.
THEOREM DoneIsKept ==
  ASSUME ~Together
  PROVE  Spec => []DoneMeansKept
<1>1. Inv /\ AllFollow => DoneMeansKept
  BY DEF AllFollow, Follows, Done, DoneMeansKept
<1> QED
  BY <1>1, InitSound, InitFollows, NextSound, NextFollows, PTL DEF Spec

\* A test that a Create made and no entry of the record holds is never one the
\* page is silent of: where the commands of one job run one at a time.
THEOREM NoSilentStray ==
  ASSUME ~Together
  PROVE  Spec => []StrayIsSaid
<1>1. Inv /\ AllFollow => StrayIsSaid
  <2> SUFFICES ASSUME Inv, AllFollow, NEW j \in Jobs, NEW k \in sent[j], Live(k), k \notin HeldBy(kept[j])
               PROVE  result[j].says \in {"unknown", "failed"}
    BY DEF StrayIsSaid
  <2>1. SaidOrHeld(kept[j], create[j], result[j], sent[j], LiveKeys) /\ k \in LiveKeys
    BY OneJob, MadeAreKeys DEF AllFollow, Follows, Live, LiveKeys
  <2> QED
    BY <2>1 DEF SaidOrHeld
<1> QED
  BY <1>1, InitSound, InitFollows, NextSound, NextFollows, PTL DEF Spec

\* The one step that takes a run from its next case to that case's steps is Post.
LEMMA OnlyPost ==
  ASSUME Inv, [Next]_vars, NEW j \in Jobs, create[j].pc = "post", create'[j].pc = "steps"
  PROVE  Post(j)
<1>0. Functions
  BY DEF Inv
<1>1. \A o \in Jobs : \A c : create' = [create EXCEPT ![o] = c] => create'[j] = IF o = j THEN c ELSE create[j]
  BY <1>0 DEF Functions
<1>2. create'[j] # create[j] /\ create' # create
  OBVIOUS
<1>3. create[j] \in CreateType
  BY OneJob DEF SoundCreate
<1>4. ASSUME NEW o \in Jobs, CreateStep(o)
      PROVE  Post(j)
  <2>1. Quiet.pc = "idle"
    BY DEF Quiet
  <2>2. CASE PostFails(o) \/ ReadFails(o) \/ Finish(o) \/ Dies(o)
    <3>1. create' = [create EXCEPT ![o] = Quiet]
      BY <2>2 DEF PostFails, ReadFails, Finish, Dies, Ends, Goes
    <3> QED
      BY <1>1, <1>2, <2>1, <3>1
  <2>3. CASE Match(o) \/ Take(o) \/ \E steps, link \in BOOLEAN : StepsAndLink(o, steps, link)
    <3>1. create[o].pc # "post" /\ \E c : create' = [create EXCEPT ![o] = c]
      BY <2>3 DEF Match, Take, StepsAndLink, Goes
    <3> QED
      BY <1>1, <1>2, <3>1
  <2>4. CASE Post(o)
    <3>1. \E c : create' = [create EXCEPT ![o] = c]
      BY <2>4 DEF Post, Goes
    <3> QED
      BY <1>1, <1>2, <2>4, <3>1
  <2> QED
    BY <1>4, <2>2, <2>3, <2>4 DEF CreateStep
<1>5. ASSUME NEW o \in Jobs, NEW is \in SUBSET Ids, NEW new \in SUBSET Ids, Start(o, is, new)
      PROVE  FALSE
  <2>1. create[o].pc = "idle" /\ \E c : create' = [create EXCEPT ![o] = c]
    BY <1>5 DEF Start, Goes
  <2> QED
    BY <1>1, <1>2, <2>1
<1>6. CASE UNCHANGED vars
  BY <1>2, <1>6 DEF vars
<1>7. ASSUME NEW o \in Jobs, KeysTake(o) \/ UpdateReads(o) \/ UpdateEnds(o) \/ \E i \in Ids : UpdateSends(o, i) \/ UpdateFails(o, i)
      PROVE  FALSE
  BY <1>2, <1>7 DEF KeysTake, UpdateReads, UpdateEnds, UpdateSends, UpdateFails, others
<1> QED
  BY <1>2, <1>4, <1>5, <1>6, <1>7, PeopleAge DEF Next

\* What a run sends is of a case to be created, which gets its key then.
LEMMA PostSends ==
  ASSUME Inv, AllFollow, NEW j \in Jobs, Post(j)
  PROVE  /\ create'[j].now \in create[j].todo /\ create'[j].now \in CasesOf(create[j].cases)
         /\ create[j].pc = "post" /\ kept[j] = create[j].kept
<1>1. /\ create[j].todo # {} /\ create[j].pc = "post"
      /\ create' = [create EXCEPT ![j] = [create[j] EXCEPT !.pc = "steps", !.kept = Recorded(create[j], Least(create[j].todo), Fresh),
                         !.now = Least(create[j].todo), !.todo = create[j].todo \ {Least(create[j].todo)}]]
  BY DEF Post, Goes
<1>2. create'[j].now = Least(create[j].todo)
  BY <1>1, OneJob DEF Inv, Functions, SoundCreate, CreateType
<1>3. Least(create[j].todo) \in create[j].todo
  BY <1>1, NextToSend
<1>4. create[j].todo \subseteq CasesOf(create[j].cases)
  BY OneJob DEF SoundCreate
<1>5. kept[j] = create[j].kept
  BY <1>1, OneFollows DEF Follows, ReadsItsOwn
<1> QED
  BY <1>1, <1>2, <1>3, <1>4, <1>5

\* A case is sent to Jira only when its own test was deleted there, or its job has
\* no live test of its text, under whatever id, whatever Create, Take and Update
\* did since: of designs that give each case a text of its own, where the
\* commands of one job run one at a time.
THEOREM NoneTwice ==
  ASSUME ~Together, \A d \in Designs : OneTextEach(d)
  PROVE  Spec => NotCreatedAgain
<1> DEFINE Again(j) == create'[j].pc = "steps" /\ create[j].pc = "post" =>
                         \/ kept[j][create'[j].now].key # 0
                         \/ ~ \E i \in Ids : kept[j][i].text = create[j].cases[create'[j].now] /\ Live(kept[j][i].key)
<1>1. ASSUME Inv, AllFollow, [Next]_vars, NEW j \in Jobs, create'[j].pc = "steps", create[j].pc = "post",
             kept[j][create'[j].now].key = 0, NEW i \in Ids,
             kept[j][i].text = create[j].cases[create'[j].now], Live(kept[j][i].key)
      PROVE  FALSE
  <2>1. Post(j)
    BY <1>1, OnlyPost
  <2>2. create'[j].now \in CasesOf(create[j].cases) /\ kept[j] = create[j].kept
    BY <1>1, <2>1, PostSends
  <2>3. Placed(create[j])
    BY <1>1, OneFollows DEF Follows
  <2>4. OneTextEach(create[j].cases)
    BY <1>1, <2>3 DEF Placed
  <2>5. kept[j][i].key # 0
    BY <1>1 DEF Live
  <2> QED
    BY <1>1, <2>2, <2>3, <2>4, <2>5 DEF Placed
<1>2. Inv /\ AllFollow /\ [Next]_vars => [\A j \in Jobs : Again(j)]_vars
  BY <1>1
<1> QED
  BY <1>2, InitSound, InitFollows, NextSound, NextFollows, PTL DEF Spec, NotCreatedAgain

\* A test of the title that the story or an earlier job had when Create looked is
\* some case's of this job before another one is made, unless a person said that
\* the case is a new one: where the commands of one job run one at a time.
THEOREM OneSet ==
  ASSUME ~Together
  PROVE  Spec => NoSecondSet
<1> DEFINE First(j) == create'[j].pc = "steps" /\ create[j].pc = "post" =>
                         \A p \in create[j].known :
                           p[2] = Title(create[j].cases[create'[j].now]) =>
                             p[1] \in HeldBy(kept[j]) \/ create'[j].now \in create[j].anyway
<1>1. ASSUME Inv, AllFollow, [Next]_vars, NEW j \in Jobs, create'[j].pc = "steps", create[j].pc = "post",
             NEW p \in create[j].known, p[2] = Title(create[j].cases[create'[j].now]),
             create'[j].now \notin create[j].anyway
      PROVE  p[1] \in HeldBy(kept[j])
  <2>1. Post(j)
    BY <1>1, OnlyPost
  <2>2. create'[j].now \in create[j].todo /\ kept[j] = create[j].kept
    BY <1>1, <2>1, PostSends
  <2>3. KnownTaken(create[j]) /\ ToCreate(create[j], LiveKeys)
    BY <1>1, OneFollows DEF Follows
  <2>4. p[1] # 0
    <3>1. create[j].known \subseteq Keys \X Titles
      BY <1>1, OneJob DEF SoundCreate, CreateType, Known
    <3> QED
      BY <3>1, IdsAreNumbers
  <2>5. PICK i \in Ids : create[j].found[i] = p[1] \/ (create[j].found[i] = 0 /\ create[j].kept[i].key = p[1])
    BY <1>1, <2>2, <2>3 DEF KnownTaken
  <2>6. create[j].kept[i].key = p[1]
    BY <1>1, <2>3, <2>4, <2>5 DEF ToCreate
  <2> QED
    BY <2>2, <2>4, <2>6 DEF HeldBy
<1>2. Inv /\ AllFollow /\ [Next]_vars => [\A j \in Jobs : First(j)]_vars
  BY <1>1
<1> QED
  BY <1>2, InitSound, InitFollows, NextSound, NextFollows, PTL DEF Spec, NoSecondSet

=============================================================================
