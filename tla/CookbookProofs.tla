--------------------------- MODULE CookbookProofs ---------------------------
(***************************************************************************)
(* Proofs about ChefRun, for every cookbook and any number of faults: a    *)
(* run stays within the resources and facts of its recipe, and rules that  *)
(* are sound by the recipe's data (RecipeData) hold in every behaviour.    *)
(* At the end, what that says of the recipes that are data: that the rules *)
(* of CookbookRules are sound is a closed formula about the data, which    *)
(* TLC evaluates (RecipesSound in MCServices).                             *)
(***************************************************************************)
EXTENDS Cookbook, TLAPS

-----------------------------------------------------------------------------
(***************************************************************************)
(* Sequences: a resource is replaced by those it notifies.                 *)
(***************************************************************************)

\* The elements of a sequence of which the head gave way to another sequence.
LEMMA Spliced ==
  ASSUME NEW X, NEW now \in Seq(X), NEW s \in Seq(X), s # <<>>
  PROVE  /\ now \o Tail(s) \in Seq(X)
         /\ Len(now \o Tail(s)) = Len(now) + Len(s) - 1
         /\ \A i \in 1 .. Len(now) : (now \o Tail(s))[i] = now[i]
         /\ \A i \in 2 .. Len(s) : (now \o Tail(s))[Len(now) + i - 1] = s[i]
  <1>1. Tail(s) \in Seq(X) /\ Len(Tail(s)) = Len(s) - 1
    OBVIOUS
  <1>2. \A i \in 1 .. Len(Tail(s)) : Tail(s)[i] = s[i + 1]
    OBVIOUS
  <1> QED
    BY <1>1, <1>2

\* An index of the second sequence, and back.
LEMMA Index == \A m, k \in Nat : m + (k - m + 1) - 1 = k
  OBVIOUS

\* The second element comes first when nothing replaces the head.
LEMMA FirstOfRest == 0 + 2 - 1 = 1
  OBVIOUS

\* The indices of a sequence.
LEMMA Indices == ASSUME NEW X, NEW s \in Seq(X) PROVE DOMAIN s = 1 .. Len(s)
  OBVIOUS

\* The elements of a tail.
LEMMA Shifted ==
  ASSUME NEW X, NEW s \in Seq(X), s # <<>>
  PROVE  /\ Tail(s) \in Seq(X) /\ Len(Tail(s)) = Len(s) - 1
         /\ \A i \in 2 .. Len(s) : Tail(s)[i - 1] = s[i]
  OBVIOUS

-----------------------------------------------------------------------------
(***************************************************************************)
(* One resource at a time, in a world `true'.                              *)
(***************************************************************************)

\* What the invariant says of the resource that is next.
Ready(rules, true, r) ==
  /\ \A f : <<r, f>> \in rules.before => f \in true
  /\ \A f : <<r, f>> \in rules.fresh => f \notin true
  /\ \A g \in rules.follows : g[1] \in true => g[2] \in true

Skips(book, true, r) ==
  \/ ~(book.resource[r].only \subseteq true)
  \/ \E u \in book.resource[r].unless : u \subseteq true

\* The world after a command that succeeded.
Changed(book, true, r, outcome) == (true \ book.resource[r].dels) \union outcome

\* The first n resources of a sequence leave the fact true.
Pends(book, rules, true, s, n, f) ==
  \/ f \in true /\ \A k \in 1 .. n : s[k] \in Tame(book, f)
  \/ Brought(book, rules, s, n, f)

\* A fact known of a resource is true when its command has what it needs.
LEMMA KnownIsTrue ==
  ASSUME NEW book, NEW rules, NEW true, NEW r, NEW f,
         Ready(rules, true, r), ~Skips(book, true, r),
         book.resource[r].needs \subseteq true,
         Known(book, rules, r, f)
  PROVE  f \in true
  BY DEF Ready, Skips, Known, Met

\* A fact that the data says is true after a resource is.
LEMMA AfterIsTrue ==
  ASSUME NEW book, NEW rules, NEW true, NEW r, NEW f,
         Ready(rules, true, r), ~Skips(book, true, r),
         book.resource[r].needs \subseteq true,
         After(book, rules, r, f),
         NEW outcome \in Outcomes(book.resource[r])
  PROVE  f \in Changed(book, true, r, outcome)
  BY KnownIsTrue DEF After, Changed

\* A tame resource leaves the fact true, and notifies tame ones.
LEMMA TameStays ==
  ASSUME NEW book, NEW facts, WellFormed(book, facts), NEW f,
         NEW r \in Tame(book, f)
  PROVE  /\ f \notin book.resource[r].dels
         /\ ToSet(book.resource[r].now) \subseteq Tame(book, f)
         /\ r \in Names(book)
  BY DEF Tame, WellFormed, Names, ToSet

\* A resource that brings a fact is skipped only when the fact is true.
LEMMA SkippedIsTrue ==
  ASSUME NEW book, NEW rules, NEW true, NEW r, NEW f,
         ThroughSound(book, rules), Ready(rules, true, r),
         Brings(book, rules, r, f), Skips(book, true, r)
  PROVE  f \in true
  <1>1. Heeds(book, rules, r, f)
    BY DEF Brings, ThroughSound
  <1>2. book.resource[r].only \subseteq true
    BY <1>1 DEF Heeds, Ready
  <1>3. PICK u \in book.resource[r].unless : u \subseteq true
    BY <1>2 DEF Skips
  <1>4. PICK g \in u : g = f \/ <<g, f>> \in rules.follows \/ <<r, g>> \in rules.fresh
    BY <1>1 DEF Heeds
  <1>5. g \in true
    BY <1>3
  <1> QED
    BY <1>4, <1>5 DEF Ready

\* A fact that the first n resources bring is brought by the rest of them, or
\* true, when the head was skipped.
LEMMA SkippedHead ==
  ASSUME NEW book, NEW rules, NEW true, NEW X, NEW s \in Seq(X), s # <<>>,
         NEW n \in 1 .. Len(s), NEW f,
         ThroughSound(book, rules), Ready(rules, true, s[1]),
         Skips(book, true, s[1]), Pends(book, rules, true, s, n, f)
  PROVE  Pends(book, rules, true, Tail(s), n - 1, f)
  <1> DEFINE t == Tail(s)
  <1>1. /\ Len(s) \in Nat /\ n \in Nat
        /\ \A i \in 2 .. Len(s) : t[i - 1] = s[i]
    BY Shifted
  <1>2. \A k \in 1 .. n - 1 : k + 1 \in 2 .. Len(s) /\ t[k] = s[k + 1]
    <2> TAKE k \in 1 .. n - 1
    <2>1. k + 1 \in 2 .. Len(s) /\ (k + 1) - 1 = k
      BY <1>1
    <2> QED
      BY <1>1, <2>1
  <1> HIDE DEF t
  <1>3. CASE f \in true /\ \A k \in 1 .. n : s[k] \in Tame(book, f)
    <2>1. \A k \in 1 .. n - 1 : t[k] \in Tame(book, f)
      BY <1>1, <1>2, <1>3
    <2> QED
      BY <1>3, <2>1 DEF Pends, t
  <1>4. CASE Brought(book, rules, s, n, f)
    <2>1. PICK j \in 1 .. n : /\ Brings(book, rules, s[j], f)
                              /\ \A k \in j + 1 .. n : s[k] \in Tame(book, f)
      BY <1>4 DEF Brought
    <2>2. CASE j = 1
      <3>1. f \in true
        BY <2>1, <2>2, SkippedIsTrue
      <3>2. \A k \in 1 .. n - 1 : t[k] \in Tame(book, f)
        BY <1>1, <1>2, <2>1, <2>2
      <3> QED
        BY <3>1, <3>2 DEF Pends, t
    <2>3. CASE j # 1
      <3>1. j - 1 \in 1 .. n - 1 /\ t[j - 1] = s[j]
        BY <1>1, <1>2, <2>3
      <3>2. \A k \in (j - 1) + 1 .. n - 1 : t[k] \in Tame(book, f)
        BY <1>1, <1>2, <2>1, <2>3
      <3>3. Brought(book, rules, t, n - 1, f)
        BY <2>1, <3>1, <3>2 DEF Brought
      <3> QED
        BY <3>3 DEF Pends, t
    <2> QED
      BY <2>2, <2>3
  <1> QED
    BY <1>3, <1>4 DEF Pends

\* ... or when its command succeeded, and those it notifies come first.
LEMMA ExecutedHead ==
  ASSUME NEW book, NEW facts, NEW rules, NEW true, WellFormed(book, facts),
         NEW s \in Seq(Names(book)), s # <<>>,
         NEW n \in 1 .. Len(s), NEW f,
         ThroughSound(book, rules), Ready(rules, true, s[1]),
         ~Skips(book, true, s[1]), book.resource[s[1]].needs \subseteq true,
         Pends(book, rules, true, s, n, f),
         NEW outcome \in Outcomes(book.resource[s[1]])
  PROVE  LET now == book.resource[s[1]].now
         IN  Pends(book, rules, Changed(book, true, s[1], outcome),
                   now \o Tail(s), Len(now) + n - 1, f)
  <1> DEFINE now == book.resource[s[1]].now
             m == Len(now)
             a == now \o Tail(s)
             new == Changed(book, true, s[1], outcome)
  <1>1. s[1] \in Names(book) /\ Len(s) \in Nat /\ n \in Nat /\ 1 <= n /\ n <= Len(s)
    OBVIOUS
  <1>2. now \in Seq(Names(book)) /\ m \in Nat
    BY <1>1 DEF WellFormed
  <1>3. /\ \A i \in 1 .. m : a[i] = now[i]
        /\ \A i \in 2 .. Len(s) : a[m + i - 1] = s[i]
    BY <1>2, Spliced
  <1>4. ToSet(now) = {now[i] : i \in 1 .. m}
    BY <1>2 DEF ToSet
  <1> HIDE DEF now, m, a, new
  <1>5. ASSUME NEW low \in 1 .. m + 1,
               \A i \in low .. m : now[i] \in Tame(book, f),
               \A k \in 2 .. n : s[k] \in Tame(book, f)
        PROVE  \A k \in low .. m + n - 1 : a[k] \in Tame(book, f)
    <2> TAKE k \in low .. m + n - 1
    <2>1. CASE k <= m
      BY <1>2, <1>3, <1>5, <2>1
    <2>2. CASE k > m
      <3>1. k - m + 1 \in 2 .. n /\ k - m + 1 \in 2 .. Len(s) /\ m + (k - m + 1) - 1 = k
        BY <1>1, <1>2, <2>2
      <3> QED
        BY <1>3, <1>5, <3>1
    <2> QED
      BY <1>2, <2>1, <2>2
  <1>6. ASSUME f \in new, ToSet(now) \subseteq Tame(book, f),
               \A k \in 2 .. n : s[k] \in Tame(book, f)
        PROVE  Pends(book, rules, new, a, m + n - 1, f)
    <2>1. \A i \in 1 .. m : now[i] \in Tame(book, f)
      BY <1>4, <1>6
    <2>2. \A k \in 1 .. m + n - 1 : a[k] \in Tame(book, f)
      BY <1>2, <1>5, <1>6, <2>1
    <2> QED
      BY <1>6, <2>2 DEF Pends
  <1>7. CASE f \in true /\ \A k \in 1 .. n : s[k] \in Tame(book, f)
    <2>1. s[1] \in Tame(book, f)
      BY <1>1, <1>7
    <2>2. f \in new /\ ToSet(now) \subseteq Tame(book, f)
      BY <1>7, <2>1, TameStays DEF Changed, new, now
    <2>3. \A k \in 2 .. n : s[k] \in Tame(book, f)
      BY <1>1, <1>7
    <2>4. Pends(book, rules, new, a, m + n - 1, f)
      BY <1>6, <2>2, <2>3
    <2> QED
      BY <2>4 DEF new, a, m, now
  <1>8. CASE Brought(book, rules, s, n, f)
    <2>1. PICK j \in 1 .. n : /\ Brings(book, rules, s[j], f)
                              /\ \A k \in j + 1 .. n : s[k] \in Tame(book, f)
      BY <1>8 DEF Brought
    <2>2. CASE j = 1
      <3>1. \A k \in 2 .. n : s[k] \in Tame(book, f)
        BY <2>1, <2>2
      <3>2. CASE <<s[1], f>> \in rules.through
        <4>1. Brought(book, rules, now, m, f)
          BY <3>2 DEF ThroughSound, now, m
        <4>2. PICK i \in 1 .. m : /\ Brings(book, rules, now[i], f)
                                  /\ \A k \in i + 1 .. m : now[k] \in Tame(book, f)
          BY <4>1 DEF Brought
        <4>3. i + 1 \in 1 .. m + 1 /\ i \in 1 .. m + n - 1
          BY <1>1, <1>2
        <4>4. \A k \in i + 1 .. m + n - 1 : a[k] \in Tame(book, f)
          BY <1>5, <3>1, <4>2, <4>3
        <4>5. a[i] = now[i]
          BY <1>3
        <4>6. Brought(book, rules, a, m + n - 1, f)
          BY <4>2, <4>3, <4>4, <4>5 DEF Brought
        <4> QED
          BY <4>6 DEF Pends, new, a, m, now
      <3>3. CASE <<s[1], f>> \notin rules.through
        <4>1. After(book, rules, s[1], f) /\ ToSet(now) \subseteq Tame(book, f)
          BY <2>1, <2>2, <3>3 DEF Brings, now
        <4>2. f \in new
          BY <4>1, AfterIsTrue DEF new
        <4>3. Pends(book, rules, new, a, m + n - 1, f)
          BY <1>6, <3>1, <4>1, <4>2
        <4> QED
          BY <4>3 DEF new, a, m, now
      <3> QED
        BY <3>2, <3>3
    <2>3. CASE j # 1
      <3>1. j \in 2 .. Len(s) /\ m + j - 1 \in 1 .. m + n - 1 /\ j \in Nat
        BY <1>1, <1>2, <2>3
      <3>2. a[m + j - 1] = s[j]
        BY <1>3, <3>1
      <3>3. \A k \in (m + j - 1) + 1 .. m + n - 1 : a[k] \in Tame(book, f)
        <4> TAKE k \in (m + j - 1) + 1 .. m + n - 1
        <4>1. k \in Nat /\ m + j <= k /\ k <= m + n - 1
          BY <1>1, <1>2, <3>1
        <4>2. k - m + 1 \in j + 1 .. n /\ k - m + 1 \in 2 .. Len(s)
          BY <1>1, <1>2, <3>1, <4>1
        <4>3. m + (k - m + 1) - 1 = k
          BY <1>2, <4>1, Index
        <4> QED
          BY <1>2, <1>3, <2>1, <4>1, <4>2, <4>3
      <3>4. Brought(book, rules, a, m + n - 1, f)
        BY <2>1, <3>1, <3>2, <3>3 DEF Brought
      <3> QED
        BY <3>4 DEF Pends, new, a, m, now
    <2> QED
      BY <2>2, <2>3
  <1> QED
    BY <1>7, <1>8 DEF Pends

-----------------------------------------------------------------------------
(***************************************************************************)
(* The whole agenda.                                                       *)
(***************************************************************************)

\* Every resource of a sequence has what the rules promise it, or will have it
\* when its turn comes.
Placed(book, rules, true, s) ==
  /\ \A g \in rules.before : \A i \in DOMAIN s :
       s[i] = g[1] => Pends(book, rules, true, s, i - 1, g[2])
  /\ \A g \in rules.fresh : \A i \in DOMAIN s :
       s[i] = g[1] => IF i = 1 THEN g[2] \notin true ELSE Clears(book, s[i - 1], g[2])

Holding(rules, true) ==
  /\ \A g \in rules.follows : g[1] \in true => g[2] \in true
  /\ \A f \in rules.never : f \notin true

\* What is to happen before the first resource has happened.
LEMMA HeadIsReady ==
  ASSUME NEW book, NEW rules, NEW true, NEW X, NEW s \in Seq(X), s # <<>>,
         Placed(book, rules, true, s), Holding(rules, true)
  PROVE  Ready(rules, true, s[1])
  <1>1. 1 \in DOMAIN s
    OBVIOUS
  <1>2. ASSUME NEW f, <<s[1], f>> \in rules.before
        PROVE  f \in true
    <2> DEFINE g == <<s[1], f>>
    <2>1. g \in rules.before /\ g[1] = s[1] /\ g[2] = f
      BY <1>2
    <2>2. Pends(book, rules, true, s, 1 - 1, f)
      BY <1>1, <2>1 DEF Placed
    <2>3. ~Brought(book, rules, s, 1 - 1, f)
      <3>1. \A j \in 1 .. 1 - 1 : FALSE
        OBVIOUS
      <3> QED
        BY <3>1, Zenon DEF Brought
    <2> QED
      BY <2>2, <2>3 DEF Pends
  <1>3. ASSUME NEW f, <<s[1], f>> \in rules.fresh
        PROVE  f \notin true
    <2> DEFINE g == <<s[1], f>>
    <2>1. g \in rules.fresh /\ g[1] = s[1] /\ g[2] = f
      BY <1>3
    <2> QED
      BY <1>1, <2>1 DEF Placed
  <1> QED
    BY <1>2, <1>3 DEF Ready, Holding

\* A skipped head leaves the others placed.
LEMMA PlacedAfterSkip ==
  ASSUME NEW book, NEW rules, NEW true, NEW X, NEW s \in Seq(X), s # <<>>,
         ThroughSound(book, rules), Holding(rules, true),
         Placed(book, rules, true, s), Skips(book, true, s[1])
  PROVE  Placed(book, rules, true, Tail(s))
  <1> DEFINE t == Tail(s)
  <1>1. /\ t \in Seq(X) /\ Len(s) \in Nat /\ Len(t) = Len(s) - 1 /\ DOMAIN t = 1 .. Len(t)
        /\ \A i \in 2 .. Len(s) : t[i - 1] = s[i]
    BY Shifted
  <1>2. ASSUME NEW i \in DOMAIN t
        PROVE  /\ i \in Nat /\ 1 <= i
               /\ i \in 1 .. Len(s) /\ i + 1 \in DOMAIN s /\ t[i] = s[i + 1]
    <2>1. i \in Nat /\ 1 <= i /\ i <= Len(s) - 1
      BY <1>1
    <2>2. i + 1 \in 2 .. Len(s) /\ (i + 1) - 1 = i
      BY <1>1, <2>1
    <2> QED
      BY <1>1, <2>1, <2>2
  <1> HIDE DEF t
  <1>3. Ready(rules, true, s[1])
    BY HeadIsReady
  <1>4. ASSUME NEW g \in rules.before, NEW i \in DOMAIN t, t[i] = g[1]
        PROVE  Pends(book, rules, true, t, i - 1, g[2])
    <2>1. Pends(book, rules, true, s, i, g[2])
      <3>1. (i + 1) - 1 = i
        BY <1>2
      <3>2. Pends(book, rules, true, s, (i + 1) - 1, g[2])
        BY <1>2, <1>4 DEF Placed
      <3> QED
        BY <3>1, <3>2
    <2> QED
      BY <1>2, <1>3, <2>1, SkippedHead DEF t
  <1>5. ASSUME NEW g \in rules.fresh, NEW i \in DOMAIN t, t[i] = g[1]
        PROVE  i # 1 /\ Clears(book, t[i - 1], g[2])
    <2>1. Clears(book, s[i], g[2])
      <3>1. (i + 1) - 1 = i /\ i + 1 # 1
        BY <1>2
      <3>2. Clears(book, s[(i + 1) - 1], g[2])
        BY <1>2, <1>5, <3>1 DEF Placed
      <3> QED
        BY <3>1, <3>2
    <2>2. i # 1
      BY <2>1 DEF Clears, Skips
    <2>3. i - 1 \in DOMAIN t /\ (i - 1) + 1 = i
      BY <1>1, <1>2, <2>2
    <2> QED
      BY <1>2, <2>1, <2>2, <2>3
  <1> QED
    BY <1>4, <1>5 DEF Placed, t

\* So does a head whose command succeeded: what it notifies is placed, too.
LEMMA PlacedAfterRun ==
  ASSUME NEW book, NEW facts, NEW rules, NEW true, WellFormed(book, facts),
         NEW s \in Seq(Names(book)), s # <<>>, s[1] \in Reached(book),
         ThroughSound(book, rules), BeforeSound(book, rules), FreshSound(book, rules),
         Holding(rules, true), Placed(book, rules, true, s),
         ~Skips(book, true, s[1]), book.resource[s[1]].needs \subseteq true,
         NEW outcome \in Outcomes(book.resource[s[1]])
  PROVE  Placed(book, rules, Changed(book, true, s[1], outcome),
                book.resource[s[1]].now \o Tail(s))
  <1> DEFINE now == book.resource[s[1]].now
             m == Len(now)
             a == now \o Tail(s)
             new == Changed(book, true, s[1], outcome)
  <1>1. s[1] \in Names(book) /\ Len(s) \in Nat /\ 1 <= Len(s)
    OBVIOUS
  <1>2. now \in Seq(Names(book)) /\ m \in Nat
    BY <1>1 DEF WellFormed
  <1>3. /\ a \in Seq(Names(book)) /\ Len(a) = m + Len(s) - 1
        /\ \A i \in 1 .. m : a[i] = now[i]
        /\ \A i \in 2 .. Len(s) : a[m + i - 1] = s[i]
    BY <1>2, Spliced
  <1>4. DOMAIN now = 1 .. m /\ ToSet(now) = {now[i] : i \in 1 .. m}
    BY <1>2 DEF ToSet
  <1> HIDE DEF now, m, a, new
  <1>5. DOMAIN a = 1 .. m + Len(s) - 1
    <2>1. DOMAIN a = 1 .. Len(a)
      BY <1>3, Indices
    <2> QED
      BY <1>3, <2>1
  <1>6. Ready(rules, true, s[1])
    BY HeadIsReady
  <1>7. ASSUME NEW i \in DOMAIN a, i > m
        PROVE  \E j \in 2 .. Len(s) : /\ i = m + j - 1 /\ a[i] = s[j]
                                      /\ i \in Nat /\ j \in Nat /\ j - 1 \in 1 .. Len(s)
    <2>1. i \in Nat /\ m + 1 <= i /\ i <= m + Len(s) - 1
      BY <1>1, <1>2, <1>5, <1>7
    <2>2. i - m + 1 \in 2 .. Len(s) /\ (i - m + 1) - 1 \in 1 .. Len(s)
      BY <1>1, <1>2, <2>1
    <2>3. m + (i - m + 1) - 1 = i
      BY <1>2, <2>1, Index
    <2> QED
      BY <1>3, <2>1, <2>2, <2>3
  <1>8. ASSUME NEW i \in DOMAIN a, ~(i > m)
        PROVE  i \in Nat /\ i \in 1 .. m /\ i \in DOMAIN now /\ a[i] = now[i]
    BY <1>1, <1>2, <1>3, <1>4, <1>5, <1>8
  <1>9. ASSUME NEW g \in rules.before, NEW i \in DOMAIN a, a[i] = g[1]
        PROVE  Pends(book, rules, new, a, i - 1, g[2])
    <2>1. CASE i > m
      <3>1. PICK j \in 2 .. Len(s) : /\ i = m + j - 1 /\ a[i] = s[j]
                                     /\ i \in Nat /\ j \in Nat /\ j - 1 \in 1 .. Len(s)
        BY <1>7, <2>1
      <3>2. j \in DOMAIN s
        BY <3>1
      <3>3. Pends(book, rules, true, s, j - 1, g[2])
        BY <1>9, <3>1, <3>2 DEF Placed
      <3>4. Pends(book, rules, new, a, m + (j - 1) - 1, g[2])
        BY <1>6, <3>1, <3>3, ExecutedHead DEF new, a, m, now
      <3>5. m + (j - 1) - 1 = i - 1
        BY <1>2, <3>1
      <3> QED
        BY <3>4, <3>5
    <2>2. CASE ~(i > m)
      <3>1. i \in Nat /\ i \in 1 .. m /\ i \in DOMAIN now /\ a[i] = now[i]
        BY <1>8, <2>2
      <3>2. \/ Brought(book, rules, now, i - 1, g[2])
            \/ /\ After(book, rules, s[1], g[2])
               /\ \A k \in 1 .. i - 1 : now[k] \in Tame(book, g[2])
        BY <1>9, <3>1 DEF BeforeSound, now
      <3>3. \A k \in 1 .. i - 1 : k \in 1 .. m /\ a[k] = now[k]
        BY <1>2, <1>3, <3>1
      <3>4. CASE Brought(book, rules, now, i - 1, g[2])
        <4>1. PICK j \in 1 .. i - 1 :
                /\ Brings(book, rules, now[j], g[2])
                /\ \A k \in j + 1 .. i - 1 : now[k] \in Tame(book, g[2])
          BY <3>4 DEF Brought
        <4>2. \A k \in j + 1 .. i - 1 : a[k] \in Tame(book, g[2])
          BY <3>1, <3>3, <4>1
        <4>3. Brought(book, rules, a, i - 1, g[2])
          BY <3>3, <4>1, <4>2 DEF Brought
        <4> QED
          BY <4>3 DEF Pends
      <3>5. CASE /\ After(book, rules, s[1], g[2])
                 /\ \A k \in 1 .. i - 1 : now[k] \in Tame(book, g[2])
        <4>1. g[2] \in new
          BY <1>6, <3>5, AfterIsTrue DEF new
        <4>2. \A k \in 1 .. i - 1 : a[k] \in Tame(book, g[2])
          BY <3>3, <3>5
        <4> QED
          BY <4>1, <4>2 DEF Pends
      <3> QED
        BY <3>2, <3>4, <3>5
    <2> QED
      BY <2>1, <2>2
  <1>10. ASSUME NEW g \in rules.fresh, NEW i \in DOMAIN a, a[i] = g[1]
         PROVE  IF i = 1 THEN g[2] \notin new ELSE Clears(book, a[i - 1], g[2])
    <2>1. CASE i > m
      <3>1. PICK j \in 2 .. Len(s) : /\ i = m + j - 1 /\ a[i] = s[j]
                                     /\ i \in Nat /\ j \in Nat /\ j - 1 \in 1 .. Len(s)
        BY <1>7, <2>1
      <3>2. j \in DOMAIN s /\ j # 1
        BY <3>1
      <3>3. Clears(book, s[j - 1], g[2])
        BY <1>10, <3>1, <3>2 DEF Placed
      <3>4. CASE j = 2
        <4>1. Clears(book, s[1], g[2])
          BY <3>3, <3>4
        <4>2. now = <<>> /\ outcome = book.resource[s[1]].adds
          BY <4>1 DEF Clears, Outcomes, now
        <4>3. m = 0
          BY <4>2 DEF m
        <4>4. i = 1
          BY <3>1, <3>4, <4>3, FirstOfRest, Zenon
        <4>5. g[2] \notin new
          BY <4>1, <4>2 DEF Clears, Changed, new
        <4> QED
          BY <4>4, <4>5
      <3>5. CASE j # 2
        <4>1. j - 1 \in 2 .. Len(s) /\ m + (j - 1) - 1 = i - 1 /\ i # 1
          BY <1>2, <3>1, <3>5
        <4>2. a[i - 1] = s[j - 1]
          BY <1>3, <4>1
        <4> QED
          BY <3>3, <4>1, <4>2
      <3> QED
        BY <3>4, <3>5
    <2>2. CASE ~(i > m)
      <3>1. i \in Nat /\ i \in 1 .. m /\ i \in DOMAIN now /\ a[i] = now[i]
        BY <1>8, <2>2
      <3>2. i > 1 /\ Clears(book, now[i - 1], g[2])
        BY <1>10, <3>1 DEF FreshSound, now
      <3>3. i - 1 \in 1 .. m /\ i # 1
        BY <1>2, <3>1, <3>2
      <3> QED
        BY <1>3, <3>2, <3>3
    <2> QED
      BY <2>1, <2>2
  <1>11. Placed(book, rules, new, a)
    BY <1>9, <1>10 DEF Placed
  <1> QED
    BY <1>11 DEF new, a, now

\* A command that succeeded breaks no rule about the world ...
LEMMA HoldingAfterRun ==
  ASSUME NEW book, NEW rules, NEW lost, NEW true, NEW r \in Reached(book),
         FollowsSound(book, rules, lost), NeverSound(book, rules),
         Holding(rules, true), Ready(rules, true, r),
         ~Skips(book, true, r), book.resource[r].needs \subseteq true,
         NEW outcome \in Outcomes(book.resource[r])
  PROVE  Holding(rules, Changed(book, true, r, outcome))
  <1> DEFINE new == Changed(book, true, r, outcome)
  <1>1. ASSUME NEW g \in rules.follows, g[1] \in new
        PROVE  g[2] \in new
    <2>1. CASE g[1] \in outcome
      <3>1. \/ g[2] \in outcome
            \/ Known(book, rules, r, g[2]) /\ g[2] \notin book.resource[r].dels
        BY <2>1 DEF FollowsSound
      <3> QED
        BY <3>1, KnownIsTrue DEF Changed
    <2>2. CASE g[1] \notin outcome
      <3>1. g[1] \in true /\ g[1] \notin book.resource[r].dels /\ g[2] \in true
        BY <1>1, <2>2 DEF Changed, Holding
      <3>2. CASE g[2] \in book.resource[r].dels
        <4>1. \A u \in book.resource[r].unless :
                ~ \A f \in u : f = g[1] \/ <<g[1], f>> \in rules.follows
          <5> SUFFICES ASSUME NEW u \in book.resource[r].unless,
                              \A f \in u : f = g[1] \/ <<g[1], f>> \in rules.follows
                       PROVE  FALSE
            OBVIOUS
          <5>1. \A f \in u : f \in true
            <6> TAKE f \in u
            <6>1. CASE <<g[1], f>> \in rules.follows
              <7> DEFINE h == <<g[1], f>>
              <7>1. h \in rules.follows /\ h[1] = g[1] /\ h[2] = f
                BY <6>1
              <7> QED
                BY <3>1, <7>1 DEF Holding
            <6> QED
              BY <3>1, <6>1
          <5> QED
            BY <5>1 DEF Skips
        <4>2. g[2] \in outcome
          BY <3>1, <3>2, <4>1 DEF FollowsSound
        <4> QED
          BY <4>2 DEF Changed
      <3>3. CASE g[2] \notin book.resource[r].dels
        BY <3>1, <3>3 DEF Changed
      <3> QED
        BY <3>2, <3>3
    <2> QED
      BY <2>1, <2>2
  <1>2. ASSUME NEW f \in rules.never
        PROVE  f \notin new
    <2>1. f \notin true
      BY DEF Holding
    <2>2. ASSUME f \in outcome
          PROVE  FALSE
      <3>1. f \in UNION (Outcomes(book.resource[r]) \union book.resource[r].halves)
        BY <2>2
      <3>2. PICK u \in book.resource[r].unless : \A g \in u : <<r, g>> \in rules.before
        BY <3>1 DEF NeverSound
      <3> QED
        BY <3>2 DEF Ready, Skips
    <2> QED
      BY <2>1, <2>2 DEF Changed
  <1> QED
    BY <1>1, <1>2 DEF Holding

\* ... nor does one that failed half way.
LEMMA HoldingAfterHalf ==
  ASSUME NEW book, NEW rules, NEW lost, NEW true, NEW r \in Reached(book),
         FollowsSound(book, rules, lost), NeverSound(book, rules),
         Holding(rules, true), Ready(rules, true, r),
         ~Skips(book, true, r), book.resource[r].needs \subseteq true,
         NEW half \in book.resource[r].halves
  PROVE  Holding(rules, true \union half)
  <1>1. ASSUME NEW g \in rules.follows, g[1] \in true \union half
        PROVE  g[2] \in true \union half
    <2>1. CASE g[1] \in true
      BY <2>1 DEF Holding
    <2>2. CASE g[1] \in half
      <3>1. g[2] \in half \/ Known(book, rules, r, g[2])
        BY <2>2 DEF FollowsSound
      <3> QED
        BY <3>1, KnownIsTrue
    <2> QED
      BY <1>1, <2>1, <2>2
  <1>2. ASSUME NEW f \in rules.never, f \in half
        PROVE  FALSE
    <2>1. f \in UNION (Outcomes(book.resource[r]) \union book.resource[r].halves)
      BY <1>2
    <2>2. PICK u \in book.resource[r].unless : \A g \in u : <<r, g>> \in rules.before
      BY <2>1 DEF NeverSound
    <2> QED
      BY <2>2 DEF Ready, Skips
  <1> QED
    BY <1>1, <1>2 DEF Holding

\* Facts that last for one run, or until a boot, follow from no other.
LEMMA HoldingAfterLoss ==
  ASSUME NEW book, NEW rules, NEW lost, NEW true, NEW some \in SUBSET lost,
         FollowsSound(book, rules, lost), Holding(rules, true)
  PROVE  Holding(rules, true \ some)
  BY DEF FollowsSound, Holding

\* The list of a recipe is placed, whatever the world.
LEMMA ListIsPlaced ==
  ASSUME NEW book, NEW rules, NEW true, BeforeSound(book, rules), FreshSound(book, rules)
  PROVE  Placed(book, rules, true, book.list)
  <1>1. ASSUME NEW g \in rules.fresh, NEW i \in DOMAIN book.list, book.list[i] = g[1]
        PROVE  i # 1 /\ Clears(book, book.list[i - 1], g[2])
    BY <1>1 DEF FreshSound
  <1> QED
    BY <1>1 DEF Placed, BeforeSound, Pends

\* So is whatever was notified :delayed.
LEMMA DelayedIsPlaced ==
  ASSUME NEW book, NEW rules, NEW true, DelayedSound(book, rules),
         NEW s \in Seq(Notified(book))
  PROVE  Placed(book, rules, true, s)
  <1>1. \A i \in DOMAIN s : s[i] \in Notified(book)
    BY Indices
  <1> QED
    BY <1>1 DEF Placed, DelayedSound

-----------------------------------------------------------------------------
(***************************************************************************)
(* The type invariant.                                                     *)
(***************************************************************************)

BookWellFormed == \A b \in DOMAIN Book : WellFormed(Book[b], Fact)

\* A step of a resource stays within the recipe: its facts, and the resources
\* that it notifies.
LEMMA SuccessStaysTyped ==
  ASSUME BookWellFormed, recipe \in DOMAIN Book, world \subseteq Fact,
         agenda \in Seq(Name), agenda # <<>>, delayed \subseteq Name,
         NEW outcome \in Outcomes(Resource[Head(agenda)]),
         Succeeds(Resource[Head(agenda)], outcome)
  PROVE  world' \subseteq Fact /\ agenda' \in Seq(Name) /\ delayed' \subseteq Name
  <1> DEFINE def == Resource[Head(agenda)]
  <1>1. Head(agenda) \in Name
    OBVIOUS
  <1>2. /\ def.adds \subseteq Fact /\ def.slips \subseteq SUBSET Fact
        /\ def.now \in Seq(Name) /\ def.later \subseteq Name
    BY <1>1 DEF BookWellFormed, WellFormed, Names, Resource, Name
  <1>3. outcome \subseteq Fact
    BY <1>2 DEF Outcomes
  <1>4. Tail(agenda) \in Seq(Name)
    OBVIOUS
  <1>5. def.now \o Tail(agenda) \in Seq(Name)
    BY <1>2, <1>4
  <1> QED
    BY <1>2, <1>3, <1>5 DEF Succeeds

\* chef-client keeps to the recipe of the host: nothing it does makes a fact
\* true that the recipe does not know, or comes to a resource it does not have.
THEOREM TypeCorrect == ASSUME BookWellFormed PROVE Spec => []TypeOK
  <1> USE BookWellFormed
  <1>1. Init => TypeOK
    BY ChefAssumption DEF Init, TypeOK, Over, Phase
  <1>2. TypeOK /\ [Next]_vars => TypeOK'
    <2> SUFFICES ASSUME TypeOK, [Next]_vars
                 PROVE  TypeOK'
      OBVIOUS
    <2>1. UNCHANGED recipe /\ recipe \in DOMAIN Book /\ Name' = Name
      BY DEF TypeOK, Next, Start, Execute, Finish, CommandFails, CommandSlips, Killed,
             Reboot, vars, Name, Resource
    <2>2. run' \in Phase \union Over
      BY DEF TypeOK, Next, Start, Execute, Succeeds, Finish, CommandFails, CommandSlips,
             Fails, Killed, Reboot, vars, Phase, Over
    <2>3. faults' \in 0 .. MaxFaults
      BY ChefAssumption DEF TypeOK, Next, Start, Execute, Finish, CommandFails, CommandSlips,
             Fault, Killed, Reboot, vars
    <2>4. world' \subseteq Fact /\ agenda' \in Seq(Name) /\ delayed' \subseteq Name
      <3>1. CASE Start
        BY <2>1, <3>1 DEF TypeOK, Start, BookWellFormed, WellFormed, Names, Name, Resource
      <3>2. CASE Execute
        <4>1. CASE Skipped(Head(agenda))
          BY <3>2, <4>1 DEF TypeOK, Execute
        <4>2. CASE Succeeds(Resource[Head(agenda)], Resource[Head(agenda)].adds)
          <5>1. Resource[Head(agenda)].adds \in Outcomes(Resource[Head(agenda)])
            BY DEF Outcomes
          <5> QED
            BY <3>2, <4>2, <5>1, SuccessStaysTyped DEF TypeOK, Execute
        <4>3. CASE Fails /\ UNCHANGED <<world, delayed>>
          BY <3>2, <4>3 DEF TypeOK, Execute, Fails
        <4> QED
          BY <3>2, <4>1, <4>2, <4>3 DEF Execute
      <3>3. CASE Finish
        <4>1. CASE delayed = {}
          BY <3>3, <4>1 DEF TypeOK, Finish
        <4>2. CASE delayed # {}
          <5>1. PICK r \in delayed : agenda' = <<r>> /\ delayed' = delayed \ {r}
            BY <3>3, <4>2 DEF Finish
          <5> QED
            BY <3>3, <5>1 DEF TypeOK, Finish
        <4> QED
          BY <4>1, <4>2
      <3>4. CASE CommandFails
        <4>1. agenda' \in Seq(Name) /\ delayed' \subseteq Name
          BY <3>4 DEF TypeOK, CommandFails, Fails
        <4>2. \A half \in Resource[Head(agenda)].halves : half \subseteq Fact
          <5>1. Head(agenda) \in Name
            BY <3>4 DEF TypeOK, CommandFails
          <5> QED
            BY <2>1, <5>1 DEF BookWellFormed, WellFormed, Names, Resource, Name
        <4> QED
          BY <3>4, <4>1, <4>2 DEF TypeOK, CommandFails
      <3>5. CASE CommandSlips
        <4>1. PICK slip \in Resource[Head(agenda)].slips : Succeeds(Resource[Head(agenda)], slip)
          BY <3>5 DEF CommandSlips
        <4>2. slip \in Outcomes(Resource[Head(agenda)])
          BY DEF Outcomes
        <4> QED
          BY <3>5, <4>1, <4>2, SuccessStaysTyped DEF TypeOK, CommandSlips
      <3>6. CASE Killed
        BY <3>6 DEF TypeOK, Killed
      <3>7. CASE Reboot
        BY <3>7 DEF TypeOK, Reboot
      <3>8. CASE UNCHANGED vars
        BY <3>8 DEF TypeOK, vars
      <3> QED
        BY <3>1, <3>2, <3>3, <3>4, <3>5, <3>6, <3>7, <3>8 DEF Next
    <2> QED
      BY <2>1, <2>2, <2>3, <2>4 DEF TypeOK
  <1> QED
    BY <1>1, <1>2, PTL DEF Spec

-----------------------------------------------------------------------------
(***************************************************************************)
(* Sound rules hold.  `rules' has a record of rules for every recipe.      *)
(***************************************************************************)

Lost == RunState \union Volatile

RulesSound(rules) == \A b \in DOMAIN Book : Sound(Book[b], rules[b], Lost)

\* Every behaviour keeps to the rules: of facts, of those that never become
\* true, and of those a run that succeeds leaves true.
RulesHold(rules) ==
  /\ Holding(rules[recipe], world)
  /\ run = "ok" => rules[recipe].due \subseteq world

\* The agenda has resources of the recipe; a failure leaves the delayed ones.
AgendaMatches ==
  /\ agenda \in Seq(Reached(Book[recipe]))
  /\ run \in {"finish", "abort"} => agenda \in Seq(Notified(Book[recipe]))
  /\ run \in Over => agenda = <<>>
  /\ delayed \subseteq Notified(Book[recipe])

\* What is due is true when the list is done, and stays so.
DueComes(rules) ==
  \A f \in rules[recipe].due :
    /\ run = "converge" =>
         Pends(Book[recipe], rules[recipe], world, agenda, Len(agenda), f)
    /\ run \in {"finish", "ok"} => f \in world

IInv(rules) ==
  /\ AgendaMatches
  /\ Holding(rules[recipe], world)
  /\ Placed(Book[recipe], rules[recipe], world, agenda)
  /\ DueComes(rules)

\* The names that the proofs below give the sets of resources.
LEMMA ReachedAreNames ==
  ASSUME NEW book, NEW facts, WellFormed(book, facts)
  PROVE  /\ Notified(book) \subseteq Reached(book)
         /\ Reached(book) \subseteq Names(book)
         /\ book.list \in Seq(Reached(book))
         /\ \A r \in Reached(book) :
              /\ book.resource[r].now \in Seq(Reached(book))
              /\ book.resource[r].later \subseteq Notified(book)
  <1>1. \A X : \A s \in Seq(X) : s \in Seq(ToSet(s)) /\ ToSet(s) \subseteq X
    BY DEF ToSet
  <1>2. \A r \in Names(book) :
          /\ book.resource[r].now \in Seq(Names(book))
          /\ book.resource[r].later \subseteq Names(book)
    BY DEF WellFormed
  <1>3. ToSet(book.list) \subseteq Names(book) /\ book.list \in Seq(ToSet(book.list))
    BY <1>1 DEF WellFormed
  <1>4. Reached(book) \subseteq Names(book)
    BY <1>1, <1>2, <1>3 DEF Reached, Listed, Notified
  <1>5. book.list \in Seq(Reached(book))
    BY <1>3 DEF Reached, Listed
  <1>6. ASSUME NEW r \in Names(book)
        PROVE  book.resource[r].now \in Seq(Reached(book))
    <2>1. book.resource[r].now \in Seq(ToSet(book.resource[r].now))
      BY <1>1, <1>2
    <2>2. ToSet(book.resource[r].now) \subseteq Reached(book)
      BY DEF Reached, Listed
    <2> QED
      BY <2>1, <2>2
  <1> QED
    BY <1>4, <1>5, <1>6 DEF Reached, Notified

\* A resource of which the command succeeded keeps the invariant.
LEMMA SuccessKeepsInvariant ==
  ASSUME NEW rules, BookWellFormed, RulesSound(rules), TypeOK, IInv(rules),
         UNCHANGED recipe, run \in Phase, agenda # <<>>, ~Skipped(Head(agenda)),
         NEW outcome \in Outcomes(Resource[Head(agenda)]),
         Succeeds(Resource[Head(agenda)], outcome)
  PROVE  IInv(rules)'
  <1> DEFINE book == Book[recipe]
             w == rules[recipe]
             r == agenda[1]
             now == book.resource[r].now
             new == Changed(book, world, r, outcome)
  <1>1. /\ book' = book /\ w' = w /\ r = Head(agenda)
        /\ WellFormed(book, Fact) /\ Sound(book, w, Lost)
    BY DEF TypeOK, BookWellFormed, RulesSound
  <1>2. agenda \in Seq(Names(book)) /\ agenda \in Seq(Reached(book)) /\ r \in Reached(book)
    <2>1. agenda \in Seq(Reached(book))
      BY DEF IInv, AgendaMatches
    <2>2. Reached(book) \subseteq Names(book)
      BY <1>1, ReachedAreNames
    <2> QED
      BY <2>1, <2>2
  <1>3. outcome \in Outcomes(book.resource[r])
    BY <1>1 DEF Resource
  <1>4. /\ book.resource[r].needs \subseteq world /\ ~Skips(book, world, r)
        /\ world' = new /\ agenda' = now \o Tail(agenda)
        /\ delayed' = delayed \union book.resource[r].later /\ run' = run
    BY <1>1 DEF Succeeds, Skipped, Skips, Resource, Changed
  <1>5. Ready(w, world, r) /\ Holding(w, world) /\ Placed(book, w, world, agenda)
    BY <1>2, HeadIsReady DEF IInv
  <1>6. /\ ThroughSound(book, w) /\ BeforeSound(book, w) /\ FreshSound(book, w)
        /\ FollowsSound(book, w, Lost) /\ NeverSound(book, w) /\ DelayedSound(book, w)
    BY <1>1 DEF Sound
  <1>7. now \in Seq(Reached(book)) /\ book.resource[r].later \subseteq Notified(book)
    BY <1>1, <1>2, ReachedAreNames
  <1> HIDE DEF book, w, r, now, new
  <1>8. Holding(w, new)
    BY <1>2, <1>3, <1>4, <1>5, <1>6, HoldingAfterRun DEF new
  <1>9. Placed(book, w, new, now \o Tail(agenda))
    <2>1. agenda[1] = r
      BY DEF r
    <2> QED
      BY <1>1, <1>2, <1>3, <1>4, <1>5, <1>6, <2>1, PlacedAfterRun DEF new, now
  <1>10. AgendaMatches'
    <2>1. now \o Tail(agenda) \in Seq(Reached(book))
      BY <1>2, <1>7
    <2>2. ASSUME run \in {"finish", "abort"}
          PROVE  now \o Tail(agenda) \in Seq(Notified(book))
      <3>1. agenda \in Seq(Notified(book))
        BY <2>2 DEF IInv, AgendaMatches, book
      <3>2. r \in Notified(book)
        BY <3>1 DEF r
      <3>3. now = <<>>
        BY <1>6, <3>2 DEF DelayedSound, now
      <3> QED
        BY <3>1, <3>3
    <2>3. delayed \subseteq Notified(book)
      BY DEF IInv, AgendaMatches, book
    <2>4. run \notin Over
      BY DEF Over, Phase
    <2>5. Book[recipe]' = book
      BY <1>1 DEF book
    <2> QED
      BY <1>4, <1>7, <2>1, <2>2, <2>3, <2>4, <2>5 DEF AgendaMatches
  <1>11. DueComes(rules)'
    <2>1. ASSUME NEW f \in w.due, run = "converge"
          PROVE  Pends(book, w, new, now \o Tail(agenda), Len(now \o Tail(agenda)), f)
      <3>1. Pends(book, w, world, agenda, Len(agenda), f)
        BY <2>1 DEF IInv, DueComes, book, w
      <3>2. Len(agenda) \in 1 .. Len(agenda) /\ agenda[1] = r
        BY <1>2 DEF r
      <3>3. Pends(book, w, new, now \o Tail(agenda), Len(now) + Len(agenda) - 1, f)
        BY <1>1, <1>2, <1>3, <1>4, <1>5, <1>6, <3>1, <3>2, ExecutedHead DEF new, now
      <3>4. Len(now \o Tail(agenda)) = Len(now) + Len(agenda) - 1
        BY <1>2, <1>7, Spliced
      <3> QED
        BY <3>3, <3>4
    <2>2. ASSUME NEW f \in w.due, run = "finish"
          PROVE  f \in new
      <3>1. f \in world
        BY <2>2 DEF IInv, DueComes, w
      <3>2. r \in Notified(book)
        <4>1. agenda \in Seq(Notified(book))
          BY <2>2 DEF IInv, AgendaMatches, book
        <4> QED
          BY <4>1 DEF r
      <3>3. f \notin book.resource[r].dels
        BY <1>1, <1>6, <3>2, TameStays DEF DelayedSound
      <3> QED
        BY <3>1, <3>3 DEF Changed, new
    <2>3. run # "ok"
      BY DEF Phase
    <2>4. Book[recipe]' = book /\ rules[recipe]' = w
      BY <1>1 DEF book, w
    <2> QED
      BY <1>4, <2>1, <2>2, <2>3, <2>4 DEF DueComes
  <1> QED
    BY <1>1, <1>4, <1>8, <1>9, <1>10, <1>11 DEF IInv, book, w

\* A host about to run a recipe.
LEMMA InitHasInvariant ==
  ASSUME NEW rules, RulesSound(rules), Init
  PROVE  IInv(rules)
  <1>1. Sound(Book[recipe], rules[recipe], Lost) /\ recipe \in DOMAIN Book
    BY DEF Init, RulesSound
  <1>2. Holding(rules[recipe], world)
    BY <1>1 DEF Sound, FollowsSound, NeverSound, Holding, Init
  <1>3. AgendaMatches /\ DueComes(rules)
    BY DEF Init, AgendaMatches, DueComes
  <1>4. Placed(Book[recipe], rules[recipe], world, agenda)
    BY DEF Init, Placed
  <1> QED
    BY <1>2, <1>3, <1>4 DEF IInv

\* A run that is over, for whatever reason, and a world that lost a few facts.
LEMMA EndKeepsInvariant ==
  ASSUME NEW rules, RulesSound(rules), TypeOK, IInv(rules), UNCHANGED recipe,
         run' \in Over, agenda' = <<>>, delayed' = {},
         NEW some \in SUBSET Lost, world' = world \ some,
         run' = "ok" => run = "ok"
  PROVE  IInv(rules)'
  <1>1. Sound(Book[recipe], rules[recipe], Lost)
    BY DEF TypeOK, RulesSound
  <1>2. Holding(rules[recipe], world)'
    <2>1. Holding(rules[recipe], world \ some)
      BY <1>1, HoldingAfterLoss DEF Sound, IInv
    <2> QED
      BY <2>1
  <1>3. AgendaMatches'
    BY DEF AgendaMatches
  <1>4. DueComes(rules)'
    <2>1. ASSUME NEW f \in rules[recipe].due, run' = "ok"
          PROVE  f \in world'
      <3>1. f \in world
        BY <2>1 DEF IInv, DueComes
      <3>2. f \notin Lost
        BY <1>1 DEF Sound, DueSound
      <3> QED
        BY <3>1, <3>2
    <2> QED
      BY <2>1 DEF DueComes, Over
  <1>5. Placed(Book[recipe], rules[recipe], world, agenda)'
    BY DEF Placed
  <1> QED
    BY <1>2, <1>3, <1>4, <1>5 DEF IInv

\* The head of the agenda is skipped.
LEMMA SkipKeepsInvariant ==
  ASSUME NEW rules, BookWellFormed, RulesSound(rules), TypeOK, IInv(rules),
         run \in Phase, agenda # <<>>, Skipped(Head(agenda)),
         agenda' = Tail(agenda), UNCHANGED <<recipe, world, run, delayed>>
  PROVE  IInv(rules)'
  <1> DEFINE book == Book[recipe]
             w == rules[recipe]
  <1>1. /\ book' = book /\ w' = w /\ agenda[1] = Head(agenda)
        /\ Sound(book, w, Lost)
    BY DEF TypeOK, RulesSound
  <1>2. agenda \in Seq(Reached(book)) /\ Tail(agenda) \in Seq(Reached(book))
    BY DEF IInv, AgendaMatches
  <1>3. ThroughSound(book, w) /\ Holding(w, world) /\ Placed(book, w, world, agenda)
    BY <1>1 DEF Sound, IInv
  <1>4. Skips(book, world, agenda[1])
    BY <1>1 DEF Skips, Skipped, Resource
  <1>5. Ready(w, world, agenda[1])
    BY <1>2, <1>3, HeadIsReady
  <1> HIDE DEF book, w
  <1>6. Placed(book, w, world, Tail(agenda))
    BY <1>2, <1>3, <1>4, PlacedAfterSkip
  <1>7. AgendaMatches'
    <2>1. run \in {"finish", "abort"} => Tail(agenda) \in Seq(Notified(book))
      BY DEF IInv, AgendaMatches, book
    <2>2. run \notin Over /\ delayed \subseteq Notified(book)
      BY DEF Over, Phase, IInv, AgendaMatches, book
    <2>3. Book[recipe]' = book
      BY <1>1 DEF book
    <2> QED
      BY <1>2, <2>1, <2>2, <2>3 DEF AgendaMatches
  <1>8. DueComes(rules)'
    <2>1. ASSUME NEW f \in w.due, run = "converge"
          PROVE  Pends(book, w, world, Tail(agenda), Len(Tail(agenda)), f)
      <3>1. Pends(book, w, world, agenda, Len(agenda), f)
        BY <2>1 DEF IInv, DueComes, book, w
      <3>2. Len(agenda) \in 1 .. Len(agenda)
        BY <1>2
      <3>3. Pends(book, w, world, Tail(agenda), Len(agenda) - 1, f)
        BY <1>2, <1>3, <1>4, <1>5, <3>1, <3>2, SkippedHead
      <3>4. Len(Tail(agenda)) = Len(agenda) - 1
        BY <1>2, Shifted
      <3> QED
        BY <3>3, <3>4
    <2>2. \A f \in w.due : run = "finish" => f \in world
      BY DEF IInv, DueComes, w
    <2>3. run # "ok"
      BY DEF Phase
    <2>4. Book[recipe]' = book /\ rules[recipe]' = w
      BY <1>1 DEF book, w
    <2> QED
      BY <2>1, <2>2, <2>3, <2>4 DEF DueComes
  <1> QED
    BY <1>1, <1>3, <1>6, <1>7, <1>8 DEF IInv, book, w

\* A command fails, perhaps half way.
LEMMA FailureKeepsInvariant ==
  ASSUME NEW rules, RulesSound(rules), TypeOK, IInv(rules),
         run \in Phase, agenda # <<>>, ~Skipped(Head(agenda)), Fails,
         \/ UNCHANGED world
         \/ /\ Resource[Head(agenda)].needs \subseteq world
            /\ \E half \in Resource[Head(agenda)].halves : world' = world \union half,
         UNCHANGED <<recipe, delayed>>
  PROVE  IInv(rules)'
  <1> DEFINE book == Book[recipe]
             w == rules[recipe]
  <1>1. /\ book' = book /\ w' = w /\ agenda[1] = Head(agenda)
        /\ Sound(book, w, Lost)
    BY DEF TypeOK, RulesSound
  <1>2. /\ agenda \in Seq(Reached(book)) /\ agenda[1] \in Reached(book)
        /\ Notified(book) \subseteq Reached(book)
    BY DEF IInv, AgendaMatches, Reached
  <1>3. agenda' \in Seq(Notified(book))
    <2>1. CASE run = "converge"
      BY <2>1 DEF Fails
    <2>2. CASE run # "converge"
      <3>1. agenda \in Seq(Notified(book))
        BY <2>2 DEF IInv, AgendaMatches, Phase
      <3> QED
        BY <2>2, <3>1 DEF Fails
    <2> QED
      BY <2>1, <2>2
  <1>4. Holding(w, world) /\ Ready(w, world, agenda[1])
    BY <1>2, HeadIsReady DEF IInv
  <1> HIDE DEF book, w
  <1>5. Holding(w, world')
    <2>1. CASE UNCHANGED world
      BY <1>4, <2>1
    <2>2. CASE /\ Resource[Head(agenda)].needs \subseteq world
               /\ \E half \in Resource[Head(agenda)].halves : world' = world \union half
      <3>1. PICK half \in book.resource[agenda[1]].halves : world' = world \union half
        BY <1>1, <2>2 DEF Resource, book
      <3>2. book.resource[agenda[1]].needs \subseteq world /\ ~Skips(book, world, agenda[1])
        BY <1>1, <2>2 DEF Resource, book, Skips, Skipped
      <3>3. FollowsSound(book, w, Lost) /\ NeverSound(book, w)
        BY <1>1 DEF Sound
      <3> QED
        BY <1>2, <1>4, <3>1, <3>2, <3>3, HoldingAfterHalf
    <2> QED
      BY <2>1, <2>2
  <1>6. Placed(book, w, world', agenda')
    <2>1. DelayedSound(book, w)
      BY <1>1 DEF Sound
    <2> QED
      BY <1>3, <2>1, DelayedIsPlaced
  <1>7. Book[recipe]' = book /\ rules[recipe]' = w /\ run' = "abort"
    BY <1>1 DEF book, w, Fails
  <1>8. AgendaMatches'
    <2>1. agenda' \in Seq(Reached(book))
      BY <1>2, <1>3
    <2>2. delayed \subseteq Notified(book)
      BY DEF IInv, AgendaMatches, book
    <2> QED
      BY <1>3, <1>7, <2>1, <2>2 DEF AgendaMatches, Over
  <1>9. DueComes(rules)'
    BY <1>7 DEF DueComes
  <1> QED
    BY <1>5, <1>6, <1>7, <1>8, <1>9 DEF IInv

\* chef-client starts: the list is the agenda, the facts of a run are gone.
LEMMA StartKeepsInvariant ==
  ASSUME NEW rules, BookWellFormed, RulesSound(rules), TypeOK, IInv(rules), Start
  PROVE  IInv(rules)'
  <1> DEFINE book == Book[recipe]
             w == rules[recipe]
  <1>1. /\ book' = book /\ w' = w
        /\ WellFormed(book, Fact) /\ Sound(book, w, Lost)
        /\ agenda' = book.list /\ run' = "converge" /\ delayed' = {}
    BY DEF TypeOK, BookWellFormed, RulesSound, Start
  <1> HIDE DEF book, w
  <1>2. Holding(w, world')
    <2>1. Holding(w, world)
      BY DEF IInv, w
    <2>2. world' = world \ RunState /\ RunState \in SUBSET Lost
      BY DEF Start, Lost
    <2>3. FollowsSound(book, w, Lost)
      BY <1>1 DEF Sound
    <2> QED
      BY <2>1, <2>2, <2>3, HoldingAfterLoss
  <1>3. Placed(book, w, world', book.list)
    BY <1>1, ListIsPlaced DEF Sound
  <1>4. Book[recipe]' = book /\ rules[recipe]' = w
    BY <1>1 DEF book, w
  <1>5. AgendaMatches'
    <2>1. book.list \in Seq(Reached(book))
      BY <1>1, ReachedAreNames
    <2> QED
      BY <1>1, <1>4, <2>1 DEF AgendaMatches, Over
  <1>6. DueComes(rules)'
    <2>1. \A f \in w.due : Pends(book, w, world', book.list, Len(book.list), f)
      BY <1>1 DEF Sound, DueSound, Pends
    <2> QED
      BY <1>1, <1>4, <2>1 DEF DueComes
  <1> QED
    BY <1>1, <1>2, <1>3, <1>4, <1>5, <1>6 DEF IInv

\* The agenda is empty: the run succeeded, or a delayed resource is next.
LEMMA FinishKeepsInvariant ==
  ASSUME NEW rules, RulesSound(rules), TypeOK, IInv(rules), Finish
  PROVE  IInv(rules)'
  <1> DEFINE book == Book[recipe]
             w == rules[recipe]
  <1>1. /\ book' = book /\ w' = w /\ world' = world
        /\ Sound(book, w, Lost) /\ Holding(w, world)
    BY DEF TypeOK, RulesSound, Finish, IInv
  <1>2. delayed \subseteq Notified(book) /\ delayed' \subseteq delayed
    BY DEF IInv, AgendaMatches, Finish
  <1>3. agenda' \in Seq(Notified(book)) /\ (run' \in Over => agenda' = <<>>)
    <2>1. CASE delayed = {}
      BY <2>1 DEF Finish
    <2>2. CASE delayed # {}
      <3>1. PICK r \in delayed : agenda' = <<r>>
        BY <2>2 DEF Finish
      <3>2. run' \notin Over
        BY <2>2 DEF Finish, Over, Phase
      <3> QED
        BY <1>2, <3>1, <3>2
    <2> QED
      BY <2>1, <2>2
  <1>4. run' # "converge" /\ (run' \in {"finish", "ok"} => run \in {"converge", "finish"})
    BY DEF Finish, Phase
  <1> HIDE DEF book, w
  <1>5. Book[recipe]' = book /\ rules[recipe]' = w
    BY <1>1 DEF book, w
  <1>6. Placed(book, w, world', agenda')
    <2>1. DelayedSound(book, w)
      BY <1>1 DEF Sound
    <2> QED
      BY <1>3, <2>1, DelayedIsPlaced
  <1>7. AgendaMatches'
    <2>1. agenda' \in Seq(Reached(book))
      BY <1>3 DEF Reached
    <2> QED
      BY <1>2, <1>3, <1>5, <2>1 DEF AgendaMatches
  <1>8. DueComes(rules)'
    <2>1. ASSUME NEW f \in w.due, run \in {"converge", "finish"}
          PROVE  f \in world
      <3>1. CASE run = "converge"
        <4>1. Pends(book, w, world, agenda, Len(agenda), f)
          BY <3>1 DEF IInv, DueComes, book, w
        <4>2. Len(agenda) = 0
          BY DEF Finish
        <4>3. ~Brought(book, w, agenda, 0, f)
          <5>1. \A j \in 1 .. 0 : FALSE
            OBVIOUS
          <5> QED
            BY <5>1, Zenon DEF Brought
        <4> QED
          BY <4>1, <4>2, <4>3 DEF Pends
      <3>2. CASE run = "finish"
        BY <3>2 DEF IInv, DueComes, w
      <3> QED
        BY <2>1, <3>1, <3>2
    <2> QED
      BY <1>1, <1>4, <1>5, <2>1 DEF DueComes
  <1> QED
    BY <1>1, <1>5, <1>6, <1>7, <1>8 DEF IInv

\* Every step keeps the invariant.
LEMMA StepKeepsInvariant ==
  ASSUME NEW rules, BookWellFormed, RulesSound(rules), TypeOK, IInv(rules), [Next]_vars
  PROVE  IInv(rules)'
  <1>1. CASE Start
    BY <1>1, StartKeepsInvariant
  <1>2. CASE Execute
    <2>1. run \in Phase /\ agenda # <<>> /\ UNCHANGED recipe
      BY <1>2 DEF Execute
    <2>2. CASE Skipped(Head(agenda))
      BY <1>2, <2>1, <2>2, SkipKeepsInvariant DEF Execute
    <2>3. CASE ~Skipped(Head(agenda)) /\ Succeeds(Resource[Head(agenda)], Resource[Head(agenda)].adds)
      <3>1. Resource[Head(agenda)].adds \in Outcomes(Resource[Head(agenda)])
        BY DEF Outcomes
      <3> QED
        BY <2>1, <2>3, <3>1, SuccessKeepsInvariant
    <2>4. CASE ~Skipped(Head(agenda)) /\ Fails /\ UNCHANGED <<world, delayed>>
      BY <2>1, <2>4, FailureKeepsInvariant
    <2> QED
      BY <1>2, <2>2, <2>3, <2>4 DEF Execute
  <1>3. CASE Finish
    BY <1>3, FinishKeepsInvariant
  <1>4. CASE CommandFails
    BY <1>4, FailureKeepsInvariant DEF CommandFails
  <1>5. CASE CommandSlips
    <2>1. PICK slip \in Resource[Head(agenda)].slips : Succeeds(Resource[Head(agenda)], slip)
      BY <1>5 DEF CommandSlips
    <2>2. slip \in Outcomes(Resource[Head(agenda)])
      BY DEF Outcomes
    <2> QED
      BY <1>5, <2>1, <2>2, SuccessKeepsInvariant DEF CommandSlips
  <1>6. CASE Killed
    <2>1. {} \in SUBSET Lost /\ world' = world \ {}
      BY <1>6 DEF Killed
    <2>2. UNCHANGED recipe /\ run' = "failed" /\ agenda' = <<>> /\ delayed' = {}
      BY <1>6 DEF Killed
    <2> QED
      BY <2>1, <2>2, EndKeepsInvariant DEF Over
  <1>7. CASE Reboot
    <2>1. Volatile \in SUBSET Lost /\ world' = world \ Volatile
      BY <1>7 DEF Reboot, Lost
    <2>2. /\ UNCHANGED recipe /\ agenda' = <<>> /\ delayed' = {}
          /\ run' \in Over /\ (run' = "ok" => run = "ok")
      BY <1>7 DEF Reboot, Over
    <2> QED
      BY <2>1, <2>2, EndKeepsInvariant
  <1>8. CASE UNCHANGED vars
    BY <1>8 DEF vars, IInv, AgendaMatches, DueComes
  <1> QED
    BY <1>1, <1>2, <1>3, <1>4, <1>5, <1>6, <1>7, <1>8 DEF Next

\* Rules that the data of the recipes bears out hold in every behaviour:
\* whatever commands fail, half way or unnoticed, runs are killed and hosts
\* boot, however often.
THEOREM SoundRulesHold ==
  ASSUME NEW rules, BookWellFormed, RulesSound(rules)
  PROVE  Spec => []RulesHold(rules)
  <1>1. Init => IInv(rules)
    BY InitHasInvariant
  <1>2. TypeOK /\ IInv(rules) /\ [Next]_vars => IInv(rules)'
    BY StepKeepsInvariant
  <1>3. IInv(rules) => RulesHold(rules)
    BY DEF IInv, DueComes, RulesHold
  <1> QED
    BY <1>1, <1>2, <1>3, TypeCorrect, PTL DEF Spec

-----------------------------------------------------------------------------
(***************************************************************************)
(* The cookbook.                                                           *)
(***************************************************************************)

\* The cookbook is the one of CookbookRules, of which the rules are sound.
OfTheCookbook ==
  /\ Book = CookbookRecipes /\ Fact = CookbookFact
  /\ RunState = CookbookRunState /\ Volatile = CookbookVolatile
  /\ CookbookSound

CookbookRuleBook == [b \in DOMAIN CookbookRecipes |-> RulesOf(b)]

\* The rules of the cookbook are sound in the sense of the proofs.
LEMMA CookbookMeetsRules ==
  ASSUME OfTheCookbook
  PROVE  BookWellFormed /\ RulesSound(CookbookRuleBook)
  BY DEF OfTheCookbook, CookbookSound, BookWellFormed, RulesSound, CookbookRuleBook, Lost

\* On every path through every recipe, nothing but the recipe's own facts
\* becomes true.
THEOREM CookbookTypeCorrect == ASSUME OfTheCookbook PROVE Spec => []TypeOK
  BY CookbookMeetsRules, TypeCorrect

\* The argument of SoundRulesHold, for the rules of the cookbook.
LEMMA CookbookKeepsRules ==
  ASSUME OfTheCookbook PROVE Spec => []RulesHold(CookbookRuleBook)
  <1>1. Init => IInv(CookbookRuleBook)
    BY CookbookMeetsRules, InitHasInvariant
  <1>2. TypeOK /\ IInv(CookbookRuleBook) /\ [Next]_vars => IInv(CookbookRuleBook)'
    BY CookbookMeetsRules, StepKeepsInvariant
  <1>3. IInv(CookbookRuleBook) => RulesHold(CookbookRuleBook)
    BY DEF IInv, DueComes, RulesHold
  <1> QED
    BY <1>1, <1>2, <1>3, CookbookTypeCorrect, PTL DEF Spec

\* The rules in the words of the properties.
LEMMA RulesSayOrder ==
  ASSUME OfTheCookbook, recipe \in DOMAIN Book, RulesHold(CookbookRuleBook)
  PROVE  StepsInOrder
  <1>1. /\ recipe \in DOMAIN CookbookRecipes
        /\ CookbookRuleBook[recipe].follows = CookbookFollows(recipe)
        /\ CookbookRuleBook[recipe].never = CookbookNever(recipe)
    BY DEF OfTheCookbook, CookbookRuleBook, RulesOf
  <1>2. ASSUME NEW f, NEW g, <<f, g>> \in CookbookFollows(recipe), f \in world
        PROVE  g \in world
    <2> DEFINE h == <<f, g>>
    <2>1. h \in CookbookRuleBook[recipe].follows /\ h[1] = f /\ h[2] = g
      BY <1>1, <1>2
    <2> QED
      BY <1>2, <2>1 DEF RulesHold, Holding
  <1>3. PullsBeforePush
    <2>1. <<"pushed", "pulled">> \in CookbookFollows(recipe)
      BY DEF CookbookFollows
    <2> QED
      BY <1>2, <2>1 DEF PullsBeforePush
  <1>4. NoStraySync
    <2>1. recipe \notin DOMAIN HeatRecipes => "stray" \in CookbookNever(recipe)
      BY DEF CookbookNever
    <2> QED
      BY <1>1, <2>1 DEF NoStraySync, RulesHold, Holding
  <1>5. CellsBeforeTables
    <2>1. recipe \in DOMAIN NovaRecipes =>
            /\ <<"tables", "cell0">> \in CookbookFollows(recipe)
            /\ <<"tables", "cell1">> \in CookbookFollows(recipe)
      BY DEF CookbookFollows
    <2> QED
      BY <1>2, <2>1 DEF CellsBeforeTables
  <1>6. ServicesAfterDatabase
    <2>1. /\ <<"volume", "conf">> \in CookbookFollows(recipe)
          /\ <<"volume", "tables">> \in CookbookFollows(recipe)
      BY DEF CookbookFollows
    <2> QED
      BY <1>2, <2>1 DEF ServicesAfterDatabase
  <1> QED
    BY <1>3, <1>4, <1>5, <1>6 DEF StepsInOrder

\* The orders that the recipes rely on hold on every path, after any number of
\* faults: pulling before pushing, the configuration before the schema, the
\* cells before the tables, the database before the services of Cinder.
THEOREM StepsStayInOrder == ASSUME OfTheCookbook PROVE Spec => []StepsInOrder
  <1>1. Spec => []RulesHold(CookbookRuleBook)
    BY CookbookKeepsRules
  <1>2. TypeOK /\ RulesHold(CookbookRuleBook) => StepsInOrder
    BY RulesSayOrder DEF TypeOK
  <1> QED
    BY <1>1, <1>2, CookbookTypeCorrect, PTL

\* A run that succeeds has made up for whatever failed before it, however
\* often: everything that the recipe is for is there.
THEOREM SuccessIsComplete == ASSUME OfTheCookbook PROVE Spec => []RunsComplete
  <1>1. Spec => []RulesHold(CookbookRuleBook)
    BY CookbookKeepsRules
  <1>2. TypeOK /\ RulesHold(CookbookRuleBook) => RunsComplete
    <2> SUFFICES ASSUME TypeOK, RulesHold(CookbookRuleBook), run = "ok"
                 PROVE  RunsComplete
      BY DEF RunsComplete, Complete, MonitorUserExists
    <2>1. recipe \in DOMAIN CookbookRecipes /\ Book[recipe] = CookbookRecipes[recipe]
      BY DEF TypeOK, OfTheCookbook
    <2>2. CookbookDue(recipe) \subseteq world
      BY <2>1 DEF RulesHold, CookbookRuleBook, RulesOf
    <2>3. Complete
      BY <2>1, <2>2 DEF CookbookDue, Complete
    <2>4. MonitorUserExists
      BY <2>2 DEF CookbookDue, MonitorUserExists
    <2> QED
      BY <2>3, <2>4 DEF RunsComplete
  <1> QED
    BY <1>1, <1>2, CookbookTypeCorrect, PTL
=============================================================================
