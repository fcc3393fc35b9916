---------------------------- MODULE ParsersProofs ----------------------------
(***************************************************************************)
(* What the readers of answers and pages return, for every input: the      *)
(* object of an answer, however long, is found by each reader; its escapes *)
(* are mended and nothing else of it changes; every one of a list of       *)
(* browser actions, however long, has its effect; the links of a page are  *)
(* all found, and none twice; a record has the text of its own container   *)
(* only; a summary fits its limit; the surest anti-bot system is named;    *)
(* the path of a node leads to it and no path along words not its own.     *)
(***************************************************************************)
EXTENDS Parsers, SequenceTheorems, FiniteSetTheorems, WellFoundedInduction, TLAPS

-----------------------------------------------------------------------------
(* Numbers: induction on the members of a set, since what has the property *)
(* is a set; least and greatest members.                                   *)

\* Induction on the members of a set of numbers.
LEMMA SetInduction ==
  ASSUME NEW S, 0 \in S, \A n \in Nat : n \in S => n + 1 \in S
  PROVE  Nat \subseteq S
<1> DEFINE R == OpToRel(<, Nat)
<1>1. IsWellFoundedOn(R, Nat)
  BY NatLessThanWellFounded
<1>2. \A m, n \in Nat : m < n => <<m, n>> \in R
  BY DEF OpToRel
<1> HIDE DEF R
<1> SUFFICES ASSUME Nat \ S # {} PROVE FALSE
  OBVIOUS
<1>3. PICK x \in Nat \ S : \A y \in Nat \ S : ~ (<<y, x>> \in R)
  BY <1>1, WFMin
<1>4. x \in Nat /\ x # 0
  OBVIOUS
<1>5. x - 1 \in Nat /\ <<x - 1, x>> \in R
  BY <1>2, <1>4
<1>6. x - 1 \in S /\ x - 1 + 1 = x
  BY <1>3, <1>5
<1>7. QED
  BY <1>5, <1>6, <1>3

\* A member that no other is below is the least.
LEMMA MinIs ==
  ASSUME NEW S \in SUBSET Int, NEW x \in S, \A y \in S : x <= y
  PROVE  Min(S) = x
<1>1. /\ Min(S) \in S
      /\ \A y \in S : Min(S) <= y
  BY DEF Min
<1>2. Min(S) \in Int /\ x \in Int /\ Min(S) <= x /\ x <= Min(S)
  BY <1>1
<1>3. QED
  BY <1>2

\* A member that no other is above is the greatest.
LEMMA MaxIs ==
  ASSUME NEW S \in SUBSET Int, NEW x \in S, \A y \in S : x >= y
  PROVE  Max(S) = x
<1>1. /\ Max(S) \in S
      /\ \A y \in S : Max(S) >= y
  BY DEF Max
<1>2. Max(S) \in Int /\ x \in Int /\ Max(S) >= x /\ x >= Max(S)
  BY <1>1
<1>3. QED
  BY <1>2

\* Numbers have a least among them.
LEMMA MinOf ==
  ASSUME NEW S \in SUBSET Nat, S # {}
  PROVE  Min(S) \in S /\ \A y \in S : Min(S) <= y
<1> DEFINE R == OpToRel(<, Nat)
<1>1. IsWellFoundedOn(R, Nat)
  BY NatLessThanWellFounded
<1>2. \A m, n \in Nat : m < n => <<m, n>> \in R
  BY DEF OpToRel
<1> HIDE DEF R
<1>3. PICK x \in S : \A y \in S : ~ (<<y, x>> \in R)
  BY <1>1, WFMin
<1>4. ASSUME NEW y \in S PROVE x <= y
  <2>1. x \in Nat /\ y \in Nat /\ ~ y < x
    BY <1>2, <1>3
  <2>2. QED
    BY <2>1
<1>5. Min(S) = x
  BY <1>4, MinIs
<1>6. QED
  BY <1>4, <1>5

\* Numbers up to a bound have a greatest among them.
LEMMA MaxOf ==
  ASSUME NEW n \in Nat, NEW S \in SUBSET (1..n), S # {}
  PROVE  Max(S) \in S /\ \A y \in S : Max(S) >= y
<1> DEFINE T == {n - y : y \in S}
<1>1. T \in SUBSET Nat /\ T # {}
  <2>1. \A y \in S : n - y \in Nat
    OBVIOUS
  <2>2. PICK y \in S : TRUE
    OBVIOUS
  <2>3. n - y \in T
    OBVIOUS
  <2>4. QED
    BY <2>1, <2>3
<1>2. PICK x \in S : \A y \in S : n - x <= n - y
  <2>1. PICK t \in T : \A u \in T : t <= u
    BY <1>1, MinOf
  <2>2. QED
    BY <2>1
<1>3. \A y \in S : x >= y
  BY <1>2
<1>4. Max(S) = x
  BY <1>3, MaxIs
<1>5. QED
  BY <1>3, <1>4

-----------------------------------------------------------------------------
(* A fold over a sequence takes the last place of the set of those that    *)
(* are left, and goes on with the others: it is defined on every set of    *)
(* places.                                                                 *)

\* The members of a sequence that is one longer.
LEMMA AppendIsMember ==
  ASSUME NEW U, NEW s \in Seq(U), NEW x \in U
  PROVE  ToSet(Append(s, x)) = ToSet(s) \cup {x}
<1> DEFINE n == Len(s)
           t == Append(s, x)
<1>1. /\ n \in Nat /\ DOMAIN s = 1..n /\ t \in Seq(U) /\ Len(t) = n + 1
      /\ \A i \in 1..n : t[i] = s[i]
      /\ t[n + 1] = x
  BY LenProperties, AppendProperties
<1>2. DOMAIN t = 1..n + 1
  BY <1>1, LenProperties
<1> HIDE DEF n, t
<1>3. ToSet(s) = {s[i] : i \in 1..n} /\ ToSet(t) = {t[i] : i \in 1..n + 1}
  BY <1>1, <1>2 DEF ToSet
<1>4. \A i \in 1..n + 1 : i \in 1..n \/ i = n + 1
  BY <1>1
<1>5. n + 1 \in 1..n + 1 /\ \A i \in 1..n : i \in 1..n + 1
  BY <1>1
<1>6. ToSet(t) \subseteq ToSet(s) \cup {x}
  <2>1. ASSUME NEW i \in 1..n + 1 PROVE t[i] \in ToSet(s) \cup {x}
    <3>1. CASE i \in 1..n
      <4>1. t[i] = s[i]
        BY <1>1, <3>1
      <4>2. s[i] \in ToSet(s)
        BY <1>3, <3>1
      <4>3. QED
        BY <4>1, <4>2
    <3>2. CASE i = n + 1
      BY <1>1, <3>2
    <3>3. QED
      BY <1>4, <3>1, <3>2
  <2>2. QED
    BY <1>3, <2>1
<1>7. ToSet(s) \cup {x} \subseteq ToSet(t)
  <2>1. ASSUME NEW i \in 1..n PROVE s[i] \in ToSet(t)
    <3>1. i \in 1..n + 1 /\ t[i] = s[i]
      BY <1>1, <1>5
    <3>2. QED
      BY <1>3, <3>1
  <2>2. x \in ToSet(t)
    <3>1. t[n + 1] \in ToSet(t)
      BY <1>3, <1>5
    <3>2. QED
      BY <1>1, <3>1
  <2>3. QED
    BY <1>3, <2>1, <2>2
<1>8. QED
  BY <1>6, <1>7 DEF t

\* g goes so on the sets of places up to k, by the function of each place.
Goes(g, k, base, next) ==
  /\ g[{}] = base
  /\ \A s \in SUBSET (1..k) : s # {} => g[s] = next[Max(s)][g[s \ {Max(s)}]]

\* There is a function that goes so.
LEMMA SetRecursion ==
  ASSUME NEW Vs, NEW base \in Vs, NEW n \in Nat, NEW next \in [1..n -> [Vs -> Vs]]
  PROVE  \E g \in [SUBSET (1..n) -> Vs] : Goes(g, n, base, next)
<1> DEFINE Fits(k, g) == Goes(g, k, base, next)
           Has(k) == \E g \in [SUBSET (1..k) -> Vs] : Fits(k, g)
           S == {k \in Nat : k <= n => Has(k)}
<1> HIDE DEF Has
<1>1. 0 \in S
  <2> DEFINE g == [s \in SUBSET (1..0) |-> base]
  <2>1. g \in [SUBSET (1..0) -> Vs]
    OBVIOUS
  <2>2. g[{}] = base
    OBVIOUS
  <2>3. \A s \in SUBSET (1..0) : s = {}
    <3>1. 1..0 = {}
      OBVIOUS
    <3>2. QED
      BY <3>1
  <2>4. Fits(0, g)
    BY <2>2, <2>3 DEF Goes
  <2>5. Has(0)
    BY <2>1, <2>4 DEF Has
  <2>6. QED
    BY <2>5
<1>2. ASSUME NEW k \in Nat, k \in S PROVE k + 1 \in S
  <2>1. SUFFICES ASSUME k + 1 <= n PROVE Has(k + 1)
    OBVIOUS
  <2>2. PICK g \in [SUBSET (1..k) -> Vs] : Fits(k, g)
    <3>1. Has(k)
      BY <1>2, <2>1
    <3>2. QED
      BY <3>1 DEF Has
  <2> DEFINE h == [s \in SUBSET (1..k + 1) |->
                     IF k + 1 \in s THEN next[k + 1][g[s \ {k + 1}]] ELSE g[s]]
  <2>3. \A s \in SUBSET (1..k + 1) :
          /\ s \ {k + 1} \in SUBSET (1..k)
          /\ k + 1 \notin s => s \in SUBSET (1..k)
    OBVIOUS
  <2>4. h \in [SUBSET (1..k + 1) -> Vs]
    <3>1. next[k + 1] \in [Vs -> Vs]
      BY <2>1
    <3>2. ASSUME NEW s \in SUBSET (1..k + 1)
          PROVE  (IF k + 1 \in s THEN next[k + 1][g[s \ {k + 1}]] ELSE g[s]) \in Vs
      BY <2>3, <3>1
    <3>3. QED
      BY <3>2
  <2>5. \A s \in SUBSET (1..k + 1) :
          h[s] = IF k + 1 \in s THEN next[k + 1][g[s \ {k + 1}]] ELSE g[s]
    OBVIOUS
  <2> HIDE DEF h
  <2>6. h[{}] = base
    BY <2>2, <2>5 DEF Goes
  <2>7. ASSUME NEW s \in SUBSET (1..k + 1), s # {}
        PROVE  h[s] = next[Max(s)][h[s \ {Max(s)}]]
    <3>1. CASE k + 1 \in s
      <4>1. Max(s) = k + 1
        BY <3>1, MaxIs
      <4>2. s \ {k + 1} \in SUBSET (1..k + 1) /\ k + 1 \notin s \ {k + 1}
        OBVIOUS
      <4>3. h[s \ {k + 1}] = g[s \ {k + 1}]
        BY <2>5, <4>2
      <4>4. QED
        BY <2>5, <3>1, <4>1, <4>3
    <3>2. CASE k + 1 \notin s
      <4>1. s \in SUBSET (1..k)
        BY <2>3, <3>2
      <4>2. s \ {Max(s)} \in SUBSET (1..k + 1) /\ k + 1 \notin s \ {Max(s)}
        BY <3>2
      <4>3. h[s \ {Max(s)}] = g[s \ {Max(s)}] /\ h[s] = g[s]
        BY <2>5, <3>2, <4>2
      <4>4. QED
        BY <2>2, <2>7, <4>1, <4>3 DEF Goes
    <3>3. QED
      BY <3>1, <3>2
  <2>8. Fits(k + 1, h)
    BY <2>6, <2>7 DEF Goes
  <2>9. QED
    BY <2>4, <2>8 DEF Has
<1>3. n \in S
  <2> HIDE DEF S
  <2>1. QED
    BY <1>1, <1>2, SetInduction
<1>4. Has(n)
  BY <1>3
<1>5. QED
  BY <1>4 DEF Has

\* The places up to one, without it, are those before it.
LEMMA PlacesUpTo ==
  ASSUME NEW k \in Nat, k > 0
  PROVE  Max(1..k) = k /\ (1..k) \ {k} = 1..k - 1 /\ 1..k # {}
<1>1. k \in 1..k /\ \A y \in 1..k : k >= y
  OBVIOUS
<1>2. Max(1..k) = k
  <2>1. 1..k \in SUBSET Int
    OBVIOUS
  <2>2. QED
    BY <1>1, <2>1, MaxIs
<1>3. (1..k) \ {k} = 1..k - 1
  OBVIOUS
<1>4. QED
  BY <1>1, <1>2, <1>3

-----------------------------------------------------------------------------
(* The actions of the browser.                                             *)

Start == [done |-> 0, page |-> 0, failed |-> <<>>, seen |-> {}]
States == [done : Nat, page : Nat, failed : Seq(Nat), seen : SUBSET Nat]

\* One action leaves a state.
LEMMA RunIs ==
  ASSUME NEW st \in States, NEW action \in Actions
  PROVE  LET q == Run(st, action)
             i == st.done + 1
         IN  /\ q \in States
             /\ q.done = i
             /\ q.page = st.page +
                  (IF action.outcome = "done" /\ action.kind \in OnPage THEN 1 ELSE 0)
             /\ q.failed = IF action.outcome = "failed" /\ action.kind # "dismiss"
                             THEN Append(st.failed, i) ELSE st.failed
<1> DEFINE i == st.done + 1
           next == [st EXCEPT !.done = i]
<1>1. next \in States /\ next.done = i /\ next.page = st.page /\ next.failed = st.failed
      /\ i \in Nat
  <2>1. /\ st = [done |-> st.done, page |-> st.page, failed |-> st.failed, seen |-> st.seen]
        /\ st.done \in Nat /\ st.page \in Nat /\ st.failed \in Seq(Nat)
        /\ st.seen \in SUBSET Nat
    BY DEF States
  <2>2. i \in Nat
    BY <2>1
  <2> HIDE DEF i
  <2>3. next = [done |-> i, page |-> st.page, failed |-> st.failed, seen |-> st.seen]
    BY <2>1
  <2>4. QED
    BY <2>1, <2>2, <2>3 DEF States
<1>2. st.page \in Nat
  BY DEF States
<1> HIDE DEF next, i
<1> DEFINE fails == action.outcome = "failed" /\ action.kind # "dismiss"
           acts == action.outcome = "done" /\ action.kind \in OnPage
           looks == action.outcome = "done" /\ action.kind = "look"
           q == Run(st, action)
<1>3. /\ fails \in BOOLEAN /\ acts \in BOOLEAN /\ looks \in BOOLEAN
      /\ ~ (fails /\ acts) /\ ~ (fails /\ looks) /\ ~ (acts /\ looks)
  BY DEF OnPage
<1>4. q = CASE fails -> [next EXCEPT !.failed = Append(@, i)]
            [] acts -> [next EXCEPT !.page = @ + 1]
            [] looks -> [next EXCEPT !.seen = {st.page}]
            [] OTHER -> next
  BY DEF Run, next, i
<1> HIDE DEF fails, acts, looks, q
<1>5. CASE fails
  <2>1. q = [next EXCEPT !.failed = Append(@, i)]
    BY <1>3, <1>4, <1>5
  <2>2. Append(st.failed, i) \in Seq(Nat)
    BY <1>1 DEF States
  <2>3. /\ q \in States /\ q.done = i /\ q.page = st.page
        /\ q.failed = Append(st.failed, i)
    BY <1>1, <2>1, <2>2 DEF States
  <2>4. QED
    BY <1>2, <1>3, <1>5, <2>3 DEF q, i, fails, acts
<1>6. CASE acts
  <2>1. q = [next EXCEPT !.page = @ + 1]
    BY <1>3, <1>4, <1>6
  <2>2. st.page + 1 \in Nat
    BY <1>2
  <2>3. q \in States /\ q.done = i /\ q.page = st.page + 1 /\ q.failed = st.failed
    BY <1>1, <2>1, <2>2 DEF States
  <2>4. QED
    BY <1>3, <1>6, <2>3 DEF q, i, fails, acts
<1>7. CASE looks
  <2>1. q = [next EXCEPT !.seen = {st.page}]
    BY <1>3, <1>4, <1>7
  <2>2. q \in States /\ q.done = i /\ q.page = st.page /\ q.failed = st.failed
    BY <1>1, <1>2, <2>1 DEF States
  <2>3. QED
    BY <1>2, <1>3, <1>7, <2>2 DEF q, i, fails, acts
<1>8. CASE ~ fails /\ ~ acts /\ ~ looks
  <2>1. q = next
    BY <1>4, <1>8
  <2>2. QED
    BY <1>1, <1>2, <1>8, <2>1 DEF q, i, fails, acts
<1>9. QED
  BY <1>5, <1>6, <1>7, <1>8

\* The list is gone through from its first action to its last.
LEMMA RunFold ==
  ASSUME NEW a \in Seq(Actions)
  PROVE  \E c : /\ FoldLeft(Run, Start, a) = c[Len(a)]
                /\ c[0] = Start
                /\ \A k \in 1..Len(a) : c[k] = Run(c[k - 1], a[k])
<1> DEFINE n == Len(a)
           It(g) == g = [s \in SUBSET (1..n) |->
                           IF s = {} THEN Start ELSE Run(g[s \ {Max(s)}], a[Max(s)])]
           it == CHOOSE g : It(g)
<1>1. n \in Nat /\ DOMAIN a = 1..n /\ \A k \in 1..n : a[k] \in Actions
  BY LenProperties, ElementOfSeq
<1>2. FoldLeft(Run, Start, a) = it[1..n]
  BY <1>1 DEF FoldLeft, MapThenFoldSet
<1> HIDE DEF n
<1>3. \E g : It(g)
  <2> DEFINE next == [k \in 1..n |-> [st \in States |-> Run(st, a[k])]]
  <2>1. next \in [1..n -> [States -> States]]
    BY <1>1, RunIs
  <2>2. Start \in States
    BY EmptySeq DEF Start, States
  <2>3. \A k \in 1..n, st \in States : next[k][st] = Run(st, a[k])
    OBVIOUS
  <2> HIDE DEF next
  <2>4. PICK g \in [SUBSET (1..n) -> States] : Goes(g, n, Start, next)
    <3>1. n \in Nat
      BY <1>1
    <3>2. QED
      BY <2>1, <2>2, <3>1, SetRecursion
  <2>5. ASSUME NEW s \in SUBSET (1..n), s # {}
        PROVE  g[s] = Run(g[s \ {Max(s)}], a[Max(s)])
    <3>1. Max(s) \in 1..n /\ s \ {Max(s)} \in SUBSET (1..n)
      BY <1>1, <2>5, MaxOf
    <3>2. g[s \ {Max(s)}] \in States
      BY <2>4, <3>1
    <3>3. QED
      BY <2>3, <2>4, <2>5, <3>1, <3>2 DEF Goes
  <2>6. It(g)
    BY <2>4, <2>5 DEF Goes
  <2>7. QED
    BY <2>6
<1>4. It(it)
  BY <1>3
<1> HIDE DEF it
<1>5. it[{}] = Start /\ \A s \in SUBSET (1..n) :
        s # {} => it[s] = Run(it[s \ {Max(s)}], a[Max(s)])
  BY <1>4
<1> DEFINE c == [k \in 0..n |-> it[1..k]]
<1>6. c[n] = it[1..n] /\ c[0] = Start
  <2>1. 0 \in 0..n /\ n \in 0..n /\ 1..0 = {}
    BY <1>1
  <2>2. QED
    BY <1>5, <2>1
<1>7. ASSUME NEW k \in 1..n PROVE c[k] = Run(c[k - 1], a[k])
  <2>1. k \in 0..n /\ k - 1 \in 0..n /\ k \in Nat /\ k > 0 /\ 1..k \in SUBSET (1..n)
    BY <1>1
  <2>2. it[1..k] = Run(it[1..k - 1], a[k])
    BY <1>5, <2>1, PlacesUpTo
  <2>3. QED
    BY <2>1, <2>2
<1>8. QED
  BY <1>2, <1>6, <1>7 DEF n

\* How many of the first k are in a set of places.
LEMMA OneMorePlace ==
  ASSUME NEW T, NEW k \in Nat
  PROVE  LET before == {i \in 1..k : i \in T}
             after == {i \in 1..k + 1 : i \in T}
         IN  /\ Cardinality(before) \in Nat
             /\ Cardinality(after) = Cardinality(before) + (IF k + 1 \in T THEN 1 ELSE 0)
             /\ after = IF k + 1 \in T THEN before \cup {k + 1} ELSE before
<1> DEFINE before == {i \in 1..k : i \in T}
           after == {i \in 1..k + 1 : i \in T}
<1>1. IsFiniteSet(before) /\ Cardinality(before) \in Nat
  <2>1. IsFiniteSet(1..k)
    BY FS_Interval
  <2>2. before \in SUBSET (1..k)
    OBVIOUS
  <2> HIDE DEF before
  <2>3. IsFiniteSet(before)
    BY <2>1, <2>2, FS_Subset
  <2>4. QED
    BY <2>3, FS_CardinalityType
<1>2. k + 1 \notin before
  OBVIOUS
<1>3. after = IF k + 1 \in T THEN before \cup {k + 1} ELSE before
  OBVIOUS
<1> HIDE DEF before, after
<1>4. Cardinality(before \cup {k + 1}) = Cardinality(before) + 1
  BY <1>1, <1>2, FS_AddElement
<1>5. Cardinality(after) = Cardinality(before) + (IF k + 1 \in T THEN 1 ELSE 0)
  BY <1>1, <1>3, <1>4
<1>6. QED
  BY <1>1, <1>3, <1>5 DEF before, after

\* What the actions have done when the last has run.
LEMMA RunsDo ==
  ASSUME NEW a \in Seq(Actions)
  PROVE  LET end == FoldLeft(Run, Start, a)
             effect == {i \in DOMAIN a : a[i].outcome = "done" /\ a[i].kind \in OnPage}
             failure == {i \in DOMAIN a : a[i].outcome = "failed" /\ a[i].kind # "dismiss"}
         IN  end.page = Cardinality(effect) /\ ToSet(end.failed) = failure
<1> DEFINE n == Len(a)
           Effect == {i \in 1..n : a[i].outcome = "done" /\ a[i].kind \in OnPage}
           Failure == {i \in 1..n : a[i].outcome = "failed" /\ a[i].kind # "dismiss"}
           In(T, k) == {i \in 1..k : i \in T}
<1>1. n \in Nat /\ DOMAIN a = 1..n /\ \A k \in 1..n : a[k] \in Actions
  BY LenProperties, ElementOfSeq
<1>2. PICK c : /\ FoldLeft(Run, Start, a) = c[n]
               /\ c[0] = Start
               /\ \A k \in 1..n : c[k] = Run(c[k - 1], a[k])
  BY RunFold
<1> DEFINE Done(k) == /\ c[k] \in States /\ c[k].done = k
                      /\ c[k].page = Cardinality(In(Effect, k))
                      /\ ToSet(c[k].failed) = In(Failure, k)
           S == {k \in Nat : k <= n => Done(k)}
<1> HIDE DEF n
<1>3. Done(0)
  <2>1. Start \in States /\ Start.done = 0 /\ Start.page = 0 /\ ToSet(Start.failed) = {}
    BY EmptySeq DEF Start, States, ToSet
  <2>2. In(Effect, 0) = {} /\ In(Failure, 0) = {} /\ Cardinality({}) = 0
    BY FS_EmptySet
  <2>3. QED
    BY <1>2, <2>1, <2>2
<1>4. ASSUME NEW k \in Nat, Done(k), k + 1 <= n PROVE Done(k + 1)
  <2>1. k + 1 \in 1..n /\ k + 1 - 1 = k
    BY <1>1, <1>4
  <2> DEFINE act == a[k + 1]
             st == c[k]
             q == c[k + 1]
  <2>2. act \in Actions /\ q = Run(st, act)
    BY <1>1, <1>2, <2>1
  <2>3. /\ st \in States /\ st.done = k /\ st.page = Cardinality(In(Effect, k))
        /\ ToSet(st.failed) = In(Failure, k)
    BY <1>4
  <2>4. /\ k + 1 \in Effect <=> act.outcome = "done" /\ act.kind \in OnPage
        /\ k + 1 \in Failure <=> act.outcome = "failed" /\ act.kind # "dismiss"
    BY <2>1
  <2> HIDE DEF act, st, q, Effect, Failure
  <2>5. /\ q \in States /\ q.done = k + 1
        /\ q.page = st.page + (IF k + 1 \in Effect THEN 1 ELSE 0)
        /\ q.failed = IF k + 1 \in Failure THEN Append(st.failed, k + 1) ELSE st.failed
    BY <2>2, <2>3, <2>4, RunIs
  <2>6. q.page = Cardinality(In(Effect, k + 1))
    BY <2>3, <2>5, OneMorePlace
  <2>7. ToSet(q.failed) = In(Failure, k + 1)
    <3>1. In(Failure, k + 1) =
            IF k + 1 \in Failure THEN In(Failure, k) \cup {k + 1} ELSE In(Failure, k)
      BY OneMorePlace
    <3>2. st.failed \in Seq(Nat)
      BY <2>3 DEF States
    <3>3. ToSet(Append(st.failed, k + 1)) = ToSet(st.failed) \cup {k + 1}
      BY <3>2, AppendIsMember
    <3>4. QED
      BY <2>3, <2>5, <3>1, <3>3
  <2>8. QED
    BY <2>5, <2>6, <2>7 DEF q
<1> HIDE DEF Done
<1>5. 0 \in S /\ \A k \in Nat : k \in S => k + 1 \in S
  BY <1>1, <1>3, <1>4
<1>6. n \in S
  <2> HIDE DEF S
  <2>1. QED
    BY <1>1, <1>5, SetInduction
<1>7. Done(n)
  BY <1>1, <1>6
<1>8. In(Effect, n) = Effect /\ In(Failure, n) = Failure
  OBVIOUS
<1>9. QED
  BY <1>1, <1>2, <1>7, <1>8 DEF Done

-----------------------------------------------------------------------------
(* The object in an answer.                                                *)

\* The last mark of an object closes it.
LEMMA ObjectIs ==
  ASSUME NEW o \in Seq(Marks), IsObject(o)
  PROVE  Len(o) > 1 /\ o[1] = "{" /\ o[Len(o)] = "}" /\ Places(o, Fences) = {}
<1> DEFINE n == Len(o)
           Opens == {k \in 1..n : o[k] = "{"}
           Closes == {k \in 1..n : o[k] = "}"}
           In(T, k) == {i \in 1..k : i \in T}
           d(k) == Cardinality(In(Opens, k)) - Cardinality(In(Closes, k))
<1>0. n \in Nat /\ n > 0
  <2>1. o # <<>>
    BY DEF IsObject, BeginsWithBrace
  <2>2. QED
    BY <2>1, LenProperties, EmptySeq
<1>1. DOMAIN o = 1..n /\ o[1] = "{" /\ Places(o, Fences) = {}
  BY LenProperties DEF IsObject, BeginsWithBrace
<1>2. /\ \A i \in 1..n :
           Cardinality({k \in 1..i : o[k] = "{"})
             - Cardinality({k \in 1..i : o[k] = "}"}) > 0 <=> i < n
      /\ Cardinality({k \in 1..n : o[k] = "{"})
           - Cardinality({k \in 1..n : o[k] = "}"}) = 0
  BY <1>1 DEF IsObject
<1> HIDE DEF n
<1>n. 1 \in 1..n /\ n \in 1..n
  BY <1>0
<1>3. \A i \in 1..n : /\ {k \in 1..i : o[k] = "{"} = In(Opens, i)
                      /\ {k \in 1..i : o[k] = "}"} = In(Closes, i)
  <2>1. \A i \in 1..n : \A k \in 1..i : k \in 1..n
    BY <1>0
  <2>2. QED
    BY <2>1
<1> HIDE DEF In
<1>4. (\A i \in 1..n : d(i) > 0 <=> i < n) /\ d(n) = 0
  BY <1>n, <1>2, <1>3
<1>5. PICK m \in Nat : n = m + 1
  <2>1. n - 1 \in Nat /\ n = (n - 1) + 1
    BY <1>0
  <2>2. QED
    BY <2>1
<1>6. 1 \in Opens /\ 1 \notin Closes
  BY <1>n, <1>1
<1>7. n \in Closes <=> o[n] = "}"
  BY <1>n
<1> HIDE DEF Opens, Closes
<1>8. /\ Cardinality(In(Opens, n)) = Cardinality(In(Opens, m)) + (IF n \in Opens THEN 1 ELSE 0)
      /\ Cardinality(In(Closes, n)) =
           Cardinality(In(Closes, m)) + (IF n \in Closes THEN 1 ELSE 0)
      /\ Cardinality(In(Opens, m)) \in Nat /\ Cardinality(In(Closes, m)) \in Nat
  BY <1>5, OneMorePlace DEF In
<1>9. m # 0
  <2>1. SUFFICES ASSUME m = 0 PROVE FALSE
    OBVIOUS
  <2>2. In(Opens, m) = {} /\ In(Closes, m) = {} /\ n = 1
    BY <1>5, <2>1 DEF In
  <2>3. QED
    BY <1>4, <1>6, <1>8, <2>2, FS_EmptySet
<1>10. n \in Closes
  <2>1. m \in 1..n /\ m < n
    BY <1>5, <1>9
  <2>2. d(m) > 0
    BY <1>4, <2>1
  <2>3. QED
    BY <1>4, <1>8, <2>2
<1>11. n > 1
  BY <1>5, <1>9
<1>12. QED
  BY <1>1, <1>7, <1>10, <1>11 DEF n

\* The marks between two places.
LEMMA Between ==
  ASSUME NEW s \in Seq(Marks), NEW i \in DOMAIN s, NEW j \in DOMAIN s, i <= j
  PROVE  /\ SubSeq(s, i, j) \in Seq(Marks) /\ Len(SubSeq(s, i, j)) = j - i + 1
         /\ DOMAIN SubSeq(s, i, j) = 1..j - i + 1
         /\ \A k \in 1..j - i + 1 : SubSeq(s, i, j)[k] = s[i + k - 1]
<1>1. DOMAIN s = 1..Len(s) /\ Len(s) \in Nat
  BY LenProperties
<1>2. i \in Int /\ j \in Int /\ \A k \in i..j : s[k] \in Marks
  BY <1>1, ElementOfSeq
<1>3. /\ SubSeq(s, i, j) \in Seq(Marks) /\ Len(SubSeq(s, i, j)) = j - i + 1
      /\ \A k \in 1..j - i + 1 : SubSeq(s, i, j)[k] = s[i + k - 1]
  BY <1>2, SubSeqProperties
<1>4. QED
  BY <1>3, LenProperties

\* Where an object is that stands between two places.
LEMMA ObjectBetween ==
  ASSUME NEW s \in Seq(Marks), NEW i \in DOMAIN s, NEW j \in DOMAIN s,
         IsObject(SubSeq(s, i, j))
  PROVE  /\ i < j /\ s[i] = "{" /\ s[j] = "}"
         /\ \A k \in i..j : s[k] \notin Fences
<1> DEFINE o == SubSeq(s, i, j)
<1>1. i \in Nat /\ j \in Nat
  BY LenProperties
<1>2. i <= j
  <2>1. CASE i > j
    <3>1. o = <<>>
      BY <1>1, <2>1, SubSeqEmpty
    <3>2. QED
      BY <3>1 DEF IsObject, BeginsWithBrace
  <2>2. QED
    BY <1>1, <2>1
<1> HIDE DEF o
<1>3. /\ o \in Seq(Marks) /\ Len(o) = j - i + 1 /\ DOMAIN o = 1..j - i + 1
      /\ \A k \in 1..j - i + 1 : o[k] = s[i + k - 1]
  BY <1>2, Between DEF o
<1>4. Len(o) > 1 /\ o[1] = "{" /\ o[Len(o)] = "}" /\ Places(o, Fences) = {}
  BY <1>3, ObjectIs DEF o
<1>5. i < j
  <2>1. j - i + 1 > 1
    BY <1>3, <1>4
  <2>2. QED
    BY <1>1, <2>1
<1>6. s[i] = "{"
  <2>1. 1 \in 1..j - i + 1 /\ i + 1 - 1 = i
    BY <1>1, <1>5
  <2>2. QED
    BY <1>3, <1>4, <2>1
<1>7. s[j] = "}"
  <2>1. j - i + 1 \in 1..j - i + 1 /\ i + (j - i + 1) - 1 = j
    BY <1>1, <1>5
  <2>2. QED
    BY <1>3, <1>4, <2>1
<1>8. ASSUME NEW k \in i..j PROVE s[k] \notin Fences
  <2>1. k - i + 1 \in 1..j - i + 1 /\ i + (k - i + 1) - 1 = k
    BY <1>1, <1>5
  <2>2. o[k - i + 1] \notin Fences
    BY <1>3, <1>4, <2>1 DEF Places
  <2>3. QED
    BY <1>3, <2>1, <2>2
<1>9. QED
  BY <1>5, <1>6, <1>7, <1>8

\* The braces of an object that stands alone are the only ones, and the only
\* fences are its own.
LEMMA AloneIs ==
  ASSUME NEW s \in Seq(Marks), NEW i \in DOMAIN s, NEW j \in DOMAIN s,
         IsObject(SubSeq(s, i, j)), Alone(s, i, j)
  PROVE  /\ Braced(s) = {SubSeq(s, i, j)}
         /\ i \in Places(s, {"{"}) /\ j \in Places(s, {"}"})
         /\ \A k \in Places(s, {"{"}) : i <= k
         /\ \/ Places(s, Fences) = {}
            \/ Places(s, Fences) = {i - 1, j + 1} /\ s[j + 1] = "fence"
<1>1. /\ i < j /\ s[i] = "{" /\ s[j] = "}"
      /\ \A k \in i..j : s[k] \notin Fences
  BY ObjectBetween
<1>2. DOMAIN s = 1..Len(s) /\ Len(s) \in Nat /\ i \in Nat /\ j \in Nat
  BY LenProperties
<1>3. \A k \in DOMAIN s : s[k] \in {"{", "}"} => k \in i..j
  BY DEF Alone
<1>4. i \in Places(s, {"{"}) /\ j \in Places(s, {"}"})
  BY <1>1 DEF Places
<1>5. /\ \A k \in Places(s, {"{"}) : k \in Int /\ i <= k
      /\ \A k \in Places(s, {"}"}) : k \in Int /\ j >= k
  <2>1. ASSUME NEW k \in DOMAIN s, s[k] \in {"{", "}"} PROVE k \in Int /\ i <= k /\ j >= k
    <3>1. k \in i..j
      BY <1>3, <2>1
    <3>2. QED
      BY <1>2, <3>1
  <2>2. QED
    BY <2>1 DEF Places
<1>6. Min(Places(s, {"{"})) = i
  <2>1. Places(s, {"{"}) \in SUBSET Int
    BY <1>5
  <2>2. QED
    BY <1>4, <1>5, <2>1, MinIs
<1>7. Max(Places(s, {"}"})) = j
  <2>1. Places(s, {"}"}) \in SUBSET Int
    BY <1>5
  <2>2. QED
    BY <1>4, <1>5, <2>1, MaxIs
<1>8. Braced(s) = {SubSeq(s, i, j)}
  <2>1. ~ i > j
    <3>1. i < j /\ i \in Nat /\ j \in Nat
      BY <1>1, <1>2
    <3>2. QED
      BY <3>1
  <2>2. QED
    BY <1>4, <1>6, <1>7, <2>1 DEF Braced
<1>9. Places(s, Fences) = {k \in DOMAIN s \ (i..j) : s[k] \in Fences}
  BY <1>1 DEF Places
<1>10. QED
  BY <1>4, <1>5, <1>8, <1>9 DEF Alone

\* Without an opening fence nothing is fenced.
LEMMA NothingFenced ==
  ASSUME NEW s, NEW T, Places(s, T) = {}
  PROVE  Fenced(s, T) = {}
BY DEF Fenced

\* Between two fences is what one finds that opens with a mark of T.
LEMMA FencedIs ==
  ASSUME NEW s \in Seq(Marks), NEW T \in SUBSET Fences, NEW a \in Places(s, T), NEW b,
         Places(s, Fences) = {a, b}, a < b
  PROVE  Fenced(s, T) = {SubSeq(s, a + 1, b - 1)}
<1>1. DOMAIN s = 1..Len(s) /\ Len(s) \in Nat
  BY LenProperties
<1>2. a \in Int /\ b \in Int
  BY <1>1 DEF Places
<1>3. Places(s, T) \subseteq {a, b}
  BY DEF Places
<1>4. Min(Places(s, T)) = a
  <2>1. Places(s, T) \in SUBSET Int /\ \A y \in Places(s, T) : a <= y
    BY <1>2, <1>3
  <2>2. QED
    BY <2>1, MinIs
<1> DEFINE to == {j \in Places(s, Fences) : \E i \in Places(s, T) : i < j}
<1>5. to = {b}
  <2>1. b \in to
    OBVIOUS
  <2>2. a \notin to
    BY <1>2, <1>3
  <2>3. QED
    BY <2>1, <2>2
<1> HIDE DEF to
<1>6. {j \in to : j > a} = {b}
  BY <1>2, <1>5
<1>7. Min({j \in to : j > Min(Places(s, T))}) = b
  <2>1. {b} \in SUBSET Int /\ b \in {b} /\ \A y \in {b} : b <= y
    BY <1>2
  <2>2. Min({b}) = b
    BY <2>1, MinIs
  <2>3. QED
    BY <1>4, <1>6, <2>2
<1>8. Fenced(s, T) = {SubSeq(s, Min(Places(s, T)) + 1,
                             Min({j \in to : j > Min(Places(s, T))}) - 1)}
  BY <1>5 DEF Fenced, to
<1>9. QED
  BY <1>4, <1>7, <1>8

\* The first of three ways, of which each finds o or nothing and the last o.
LEMMA FirstOfThree ==
  ASSUME NEW s, NEW o, NEW v, NEW w, v \in {{}, {o}}, w \in {{}, {o}}
  PROVE  FirstFound(<<v, w, {o}>>, s) = o
<1> DEFINE ways == <<v, w, {o}>>
           found == {k \in DOMAIN ways : ways[k] # {}}
<1>1. DOMAIN ways = 1..3 /\ \A k \in 1..3 : ways[k] \in {{}, {o}}
  OBVIOUS
<1>2. 3 \in found
  OBVIOUS
<1>3. FirstFound(ways, s) = CHOOSE t \in ways[Min(found)] : TRUE
  BY <1>2 DEF FirstFound
<1> HIDE DEF ways
<1>4. found \in SUBSET Nat /\ found # {}
  BY <1>1, <1>2
<1>5. Min(found) \in found
  <2> HIDE DEF found
  <2>1. QED
    BY <1>4, MinOf
<1>6. ways[Min(found)] = {o}
  BY <1>1, <1>5
<1>7. QED
  BY <1>3, <1>6 DEF ways

\* Where a place of the one kind is not before one of the other, the last of
\* these is not before the first of those.
LEMMA PlacesMeet ==
  ASSUME NEW n \in Nat, NEW from \in SUBSET (1..n), NEW to \in SUBSET (1..n),
         NEW k \in from, NEW j \in to, k <= j
  PROVE  ~ Min(from) > Max(to) /\ ~ Max(to) < Min(from) - 1
<1>1. from \in SUBSET Nat /\ to \in SUBSET Nat /\ k \in Nat /\ j \in Nat
  <2>1. 1..n \subseteq Nat
    OBVIOUS
  <2>2. QED
    BY <2>1
<1>2. from # {} /\ to # {}
  OBVIOUS
<1>3. Min(from) \in from /\ Min(from) <= k
  BY <1>1, <1>2, MinOf
<1>4. Max(to) \in to /\ Max(to) >= j
  BY <1>2, MaxOf
<1> DEFINE a == Min(from)
           b == Max(to)
<1>5. a \in Nat /\ b \in Nat /\ a <= k /\ b >= j
  BY <1>1, <1>3, <1>4
<1> HIDE DEF a, b
<1>6. ~ a > b /\ ~ b < a - 1
  BY <1>1, <1>5
<1>7. QED
  BY <1>6 DEF a, b

\* Each reader finds an object that is alone.
LEMMA ReadersFind ==
  ASSUME NEW s \in Seq(Marks), NEW i \in DOMAIN s, NEW j \in DOMAIN s,
         IsObject(SubSeq(s, i, j)), Alone(s, i, j)
  PROVE  /\ ExtractJsonBlock(s) = SubSeq(s, i, j)
         /\ ParseResponse(s) = SubSeq(s, i, j)
         /\ ExtractJsonFromResponse(s) = IF i = 1 THEN s ELSE SubSeq(s, i, j)
<1> DEFINE o == SubSeq(s, i, j)
           json == Fenced(s, {"json"})
           any == Fenced(s, Fences)
<1>1. DOMAIN s = 1..Len(s) /\ Len(s) \in Nat /\ i \in Nat /\ j \in Nat
  BY LenProperties
<1>2. /\ i < j /\ s[i] = "{" /\ s[j] = "}"
      /\ \A k \in i..j : s[k] \notin Fences
  BY ObjectBetween
<1>3. /\ Braced(s) = {o}
      /\ i \in Places(s, {"{"}) /\ j \in Places(s, {"}"})
      /\ \A k \in Places(s, {"{"}) : i <= k
      /\ \/ Places(s, Fences) = {}
         \/ Places(s, Fences) = {i - 1, j + 1} /\ s[j + 1] = "fence"
  BY AloneIs
<1>4. json \in {{}, {o}} /\ any \in {{}, {o}}
  <2>1. CASE Places(s, Fences) = {}
    <3>1. Places(s, {"json"}) = {}
      BY <2>1 DEF Places, Fences
    <3>2. QED
      BY <2>1, <3>1, NothingFenced
  <2>2. CASE Places(s, Fences) = {i - 1, j + 1} /\ s[j + 1] = "fence"
    <3>1. PICK a \in Places(s, Fences), b \in Places(s, Fences) : a = i - 1 /\ b = j + 1
      BY <2>2
    <3>2. a < b /\ a + 1 = i /\ b - 1 = j
      <4>1. i < j
        BY <1>2
      <4>2. QED
        BY <1>1, <3>1, <4>1
    <3>3. Places(s, Fences) = {a, b} /\ s[b] = "fence"
      BY <2>2, <3>1
    <3>4. ASSUME NEW T \in SUBSET Fences, a \in Places(s, T) PROVE Fenced(s, T) = {o}
      <4>1. Fenced(s, T) = {SubSeq(s, a + 1, b - 1)}
        BY <3>2, <3>3, <3>4, FencedIs
      <4>2. QED
        BY <3>2, <4>1
    <3>a. any = {o}
      BY <3>1, <3>4
    <3>5. CASE a \in Places(s, {"json"})
      <4>1. json = {o}
        BY <3>4, <3>5 DEF Fences
      <4>2. QED
        BY <3>a, <4>1
    <3>6. CASE a \notin Places(s, {"json"})
      <4>1. Places(s, {"json"}) = {}
        BY <3>3, <3>6 DEF Places, Fences
      <4>2. QED
        BY <3>a, <4>1, NothingFenced
    <3>7. QED
      BY <3>5, <3>6
  <2>3. QED
    BY <1>3, <2>1, <2>2
<1> HIDE DEF json, any
<1>j. json \in {{}, {o}}
  BY <1>4
<1>a. any \in {{}, {o}}
  BY <1>4
<1>5. BeginsWithBrace(o)
  BY DEF IsObject
<1> HIDE DEF o
<1>6. ExtractJsonBlock(s) = o
  <2>1. ExtractJsonBlock(s) = FirstFound(<<json, any, {o}>>, s)
    BY <1>3 DEF ExtractJsonBlock, json, any
  <2>2. QED
    BY <1>j, <1>a, <2>1, FirstOfThree
<1>b. 1 \in DOMAIN s /\ Len(s) \in DOMAIN s /\ s # <<>>
  <2>1. i \in Nat /\ Len(s) \in Nat /\ 1 <= i /\ i <= Len(s)
    BY <1>1
  <2>2. 1 \in 1..Len(s) /\ Len(s) \in 1..Len(s) /\ Len(s) # 0
    BY <2>1
  <2>3. QED
    BY <1>1, <2>2, EmptySeq
<1>7. i = 1 => BeginsWithBrace(s)
  BY <1>2, <1>b DEF BeginsWithBrace
<1>8. BeginsWithBrace(s) => i = 1
  <2>1. SUFFICES ASSUME BeginsWithBrace(s) PROVE i <= 1
    BY <1>1
  <2>2. 1 \in Places(s, {"{"})
    BY <1>b, <2>1 DEF BeginsWithBrace, Places
  <2>3. QED
    BY <1>3, <2>2
<1>9. ExtractJsonFromResponse(s) = IF i = 1 THEN s ELSE o
  <2>1. {t \in any : BeginsWithBrace(t)} \in {{}, {o}}
    BY <1>4, <1>5
  <2>2. CASE i # 1
    <3> DEFINE braced == {t \in any : BeginsWithBrace(t)}
    <3>1. ExtractJsonFromResponse(s) = FirstFound(<<json, braced, {o}>>, s)
      BY <1>3, <1>8, <2>2 DEF ExtractJsonFromResponse, json, any
    <3>2. braced \in {{}, {o}}
      BY <2>1
    <3> HIDE DEF braced
    <3>3. FirstFound(<<json, braced, {o}>>, s) = o
      BY <1>j, <3>2, FirstOfThree
    <3>4. QED
      BY <2>2, <3>1, <3>3
  <2>3. CASE i = 1
    <3>1. ExtractJsonFromResponse(s) = s
      BY <1>7, <2>3 DEF ExtractJsonFromResponse
    <3>2. QED
      BY <2>3, <3>1
  <2>4. QED
    BY <2>2, <2>3
<1>10. ParseResponse(s) = o
  <2>1. CASE IsObject(s)
    <3>1. s[1] = "{" /\ s[Len(s)] = "}" /\ Len(s) \in DOMAIN s
      BY <1>b, <2>1, ObjectIs
    <3>2. i = 1
      BY <1>8, <2>1 DEF IsObject
    <3>3. j = Len(s)
      <4>1. Len(s) \in i..j
        BY <3>1 DEF Alone
      <4>2. QED
        BY <1>1, <4>1
    <3>4. o = s
      BY <3>2, <3>3, SubSeqFull DEF o
    <3>5. QED
      BY <2>1, <3>4 DEF ParseResponse
  <2>2. CASE ~ IsObject(s)
    <3>1. /\ Places(s, {"{"}) # {} /\ Places(s, {"}"}) # {} /\ Braced(s) # {}
          /\ \E t \in Braced(s) : IsObject(t)
          /\ (CHOOSE t \in Braced(s) : TRUE) = o
      BY <1>3 DEF o
    <3>2. ~ Max(Places(s, {"}"})) < Min(Places(s, {"{"})) - 1
      <4>a. i < j
        BY <1>2
      <4>1. i <= j
        BY <1>1, <4>a
      <4>2. Places(s, {"{"}) \in SUBSET (1..Len(s)) /\ Places(s, {"}"}) \in SUBSET (1..Len(s))
        BY <1>1 DEF Places
      <4> DEFINE from == Places(s, {"{"})
                 to == Places(s, {"}"})
                 n == Len(s)
      <4>3. n \in Nat /\ from \in SUBSET (1..n) /\ to \in SUBSET (1..n) /\ i \in from /\ j \in to
        BY <1>1, <1>3, <4>2
      <4> HIDE DEF from, to, n
      <4>4. ~ Max(to) < Min(from) - 1
        BY <4>1, <4>3, PlacesMeet
      <4>5. QED
        BY <4>4 DEF from, to
    <3>3. QED
      BY <2>2, <3>1, <3>2 DEF ParseResponse
  <2>3. QED
    BY <2>1, <2>2
<1>11. QED
  BY <1>6, <1>9, <1>10 DEF o

\* The slice that panics had no object to lose; what is returned otherwise is
\* an object of the answer.
LEMMA NothingIsLost ==
  ASSUME NEW s \in Seq(Marks)
  PROVE  LET objects == {o \in SubSeqs(s) : IsObject(o)}
         IN  /\ ParseResponse(s) = <<"panic">> => objects = {}
             /\ ParseResponse(s) \in objects \cup {<<"err">>, <<"panic">>}
<1> DEFINE objects == {o \in SubSeqs(s) : IsObject(o)}
           from == Places(s, {"{"})
           to == Places(s, {"}"})
<1>1. DOMAIN s = 1..Len(s) /\ Len(s) \in Nat
  BY LenProperties
<1>2. from \in SUBSET (1..Len(s)) /\ to \in SUBSET (1..Len(s))
  BY <1>1 DEF Places
<1>n. from \in SUBSET Nat /\ to \in SUBSET Nat
  <2>1. 1..Len(s) \subseteq Nat
    OBVIOUS
  <2>2. QED
    BY <1>2, <2>1
<1>3. ~ IsObject(<<"panic">>)
  BY DEF IsObject, BeginsWithBrace
<1>4. s \in SubSeqs(s)
  <2>1. 0 \in 0..Len(s) /\ Len(s) \in 0..Len(s) /\ 0 + 1 = 1
    BY <1>1
  <2>2. SubSeq(s, 1, Len(s)) = s
    BY SubSeqFull
  <2>3. QED
    BY <2>1, <2>2 DEF SubSeqs
<1>5. ASSUME NEW o \in objects
      PROVE  /\ Braced(s) # {} /\ from # {} /\ to # {}
             /\ ~ Max(to) < Min(from) - 1
  <2>1. PICK i \in 0..Len(s), j \in 0..Len(s) : o = SubSeq(s, i + 1, j)
    BY DEF SubSeqs
  <2>2. PICK k \in Nat : k = i + 1 /\ k >= 1
    BY <1>1
  <2>3. k <= j
    <3>1. CASE k > j
      <4>1. o = <<>>
        BY <1>1, <2>1, <2>2, <3>1, SubSeqEmpty
      <4>2. QED
        BY <4>1 DEF IsObject, BeginsWithBrace
    <3>2. QED
      BY <1>1, <3>1
  <2>4. k \in DOMAIN s /\ j \in DOMAIN s
    <3>1. j \in Nat /\ j <= Len(s) /\ Len(s) \in Nat
      BY <1>1
    <3>2. k \in 1..Len(s) /\ j \in 1..Len(s)
      BY <2>2, <2>3, <3>1
    <3>3. QED
      BY <1>1, <3>2
  <2>5. s[k] = "{" /\ s[j] = "}"
    BY <2>1, <2>2, <2>4, ObjectBetween
  <2>6. k \in from /\ j \in to
    BY <2>4, <2>5 DEF Places
  <2>7. ~ Min(from) > Max(to) /\ ~ Max(to) < Min(from) - 1
    <3> DEFINE n == Len(s)
    <3>1. n \in Nat /\ from \in SUBSET (1..n) /\ to \in SUBSET (1..n)
      BY <1>1, <1>2
    <3> HIDE DEF from, to, n
    <3>2. QED
      BY <2>3, <2>6, <3>1, PlacesMeet
  <2>8. QED
    BY <2>6, <2>7 DEF Braced
<1>6. ASSUME NEW t \in Braced(s) PROVE t \in SubSeqs(s)
  <2>1. t = SubSeq(s, Min(from), Max(to)) /\ from # {} /\ to # {}
    BY DEF Braced
  <2> HIDE DEF from, to
  <2>2. Min(from) \in 1..Len(s)
    BY <1>2, <1>n, <2>1, MinOf
  <2>3. Max(to) \in 1..Len(s)
    BY <1>1, <1>2, <2>1, MaxOf
  <2>4. PICK a \in 0..Len(s), b \in 0..Len(s) : a + 1 = Min(from) /\ b = Max(to)
    <3>1. Min(from) - 1 \in 0..Len(s) /\ (Min(from) - 1) + 1 = Min(from)
      BY <1>1, <2>2
    <3>2. Max(to) \in 0..Len(s)
      BY <1>1, <2>3
    <3>3. QED
      BY <3>1, <3>2
  <2>5. t = SubSeq(s, a + 1, b)
    BY <2>1, <2>4
  <2>6. QED
    BY <2>5 DEF SubSeqs
<1>7. CASE IsObject(s)
  <2>1. ParseResponse(s) = s
    BY <1>7 DEF ParseResponse
  <2>2. QED
    BY <1>3, <1>4, <1>7, <2>1
<1>8. CASE ~ IsObject(s) /\ objects = {}
  <2>1. ParseResponse(s) \in {<<"err">>, <<"panic">>}
    BY <1>6, <1>8 DEF ParseResponse
  <2>2. QED
    BY <1>8, <2>1
<1>9. CASE ~ IsObject(s) /\ objects # {}
  <2>1. Braced(s) # {} /\ from # {} /\ to # {} /\ ~ Max(to) < Min(from) - 1
    BY <1>5, <1>9
  <2>2. CASE \E t \in Braced(s) : IsObject(t)
    <3>1. Braced(s) = {SubSeq(s, Min(from), Max(to))}
      BY <2>1 DEF Braced
    <3>2. ParseResponse(s) = SubSeq(s, Min(from), Max(to))
      BY <1>9, <2>1, <2>2, <3>1 DEF ParseResponse
    <3>3. ParseResponse(s) \in objects
      BY <1>6, <2>2, <3>1, <3>2
    <3>4. QED
      BY <1>3, <3>3
  <2>3. CASE ~ \E t \in Braced(s) : IsObject(t)
    <3>1. ParseResponse(s) = <<"err">>
      BY <1>9, <2>1, <2>3 DEF ParseResponse
    <3>2. QED
      BY <3>1
  <2>4. QED
    BY <2>2, <2>3
<1>10. QED
  BY <1>7, <1>8, <1>9

-----------------------------------------------------------------------------
(* A call returns what its function makes of its input; nothing is called  *)
(* while a call has not returned.                                          *)

(***************************************************************************)
(* No failure stops the actions that follow it (interactive.rs 22), and    *)
(* the page has the actions that were done: those that failed are          *)
(* reported, those without their element are not; for lists of any length. *)
(***************************************************************************)
THEOREM NothingEverStops == Spec => []NothingStopsActions
<1>1. Init => NothingStopsActions
  BY DEF Init, NothingStopsActions
<1>2. ASSUME NothingStopsActions, [Next]_vars PROVE NothingStopsActions'
  <2>1. CASE Interact
    <3>1. PICK a \in Plans, reads \in BOOLEAN, shoots \in BOOLEAN :
            Call("interact", [actions |-> a, shoots |-> shoots],
                 ExecuteActions(a, reads, shoots))
      BY <2>1 DEF Interact
    <3>2. /\ call' = "interact" /\ input' = [actions |-> a, shoots |-> shoots]
          /\ output' = ExecuteActions(a, reads, shoots)
      BY <3>1 DEF Call
    <3>3. a \in Seq(Actions)
      BY ParsersAssumption
    <3> DEFINE end == FoldLeft(Run, Start, a)
    <3>4. end.page = Cardinality({i \in DOMAIN a : a[i].outcome = "done" /\ a[i].kind \in OnPage})
          /\ ToSet(end.failed) = {i \in DOMAIN a : a[i].outcome = "failed" /\ a[i].kind # "dismiss"}
      BY <3>3, RunsDo
    <3>5. output' = IF ~ reads THEN {}
                    ELSE {[html |-> end.page,
                           screenshot |-> IF shoots THEN {end.page} ELSE end.seen,
                           failed |-> end.failed,
                           total |-> Len(a)]}
      BY <3>2 DEF ExecuteActions, Start
    <3> HIDE DEF end
    <3>6. QED
      BY <3>2, <3>4, <3>5 DEF NothingStopsActions
  <2>2. CASE Read /\ ~ Interact
    <3>1. call' # "interact"
      BY <2>2 DEF Read, Call, ReadAnswer, Sanitize, ReadLinks, DetectAntiBot, Summary,
                  NavigatePath, Extraction, ReadPrice
    <3>2. QED
      BY <3>1 DEF NothingStopsActions
  <2>3. CASE Return
    BY <2>3 DEF Return, NothingStopsActions
  <2>4. CASE UNCHANGED vars
    BY <1>2, <2>4 DEF vars, NothingStopsActions
  <2>5. QED
    BY <1>2, <2>1, <2>2, <2>3, <2>4 DEF Next
<1>3. QED
  BY <1>1, <1>2, PTL DEF Spec

(***************************************************************************)
(* An object that is alone in an answer is found by extract_json_block and *)
(* parse_response (main.rs 503, spawn.rs 86), and by that of visual.rs 64  *)
(* unless the answer begins with it and goes on behind it; parse_response  *)
(* panics only when there is no object to lose; answers of any length.     *)
(***************************************************************************)
THEOREM ObjectsAreFound == Spec => [](EveryReaderFindsIt /\ NoObjectIsLostToAPanic)
<1> DEFINE Found == EveryReaderFindsIt /\ NoObjectIsLostToAPanic
<1>1. Init => Found
  BY DEF Init, EveryReaderFindsIt, NoObjectIsLostToAPanic
<1>2. ASSUME Found, [Next]_vars PROVE Found'
  <2>1. CASE ReadAnswer
    <3>1. PICK s \in Answers :
            Call("answer", s, [block |-> ExtractJsonBlock(s),
                               visual |-> ExtractJsonFromResponse(s),
                               parsed |-> ParseResponse(s)])
      BY <2>1 DEF ReadAnswer
    <3>2. /\ call' = "answer" /\ input' = s
          /\ output'.block = ExtractJsonBlock(s) /\ output'.parsed = ParseResponse(s)
          /\ output'.visual = ExtractJsonFromResponse(s)
      BY <3>1 DEF Call
    <3>3. s \in Seq(Marks)
      BY ParsersAssumption
    <3>4. EveryReaderFindsIt'
      BY <3>2, <3>3, ReadersFind DEF EveryReaderFindsIt
    <3>5. NoObjectIsLostToAPanic'
      BY <3>2, <3>3, NothingIsLost DEF NoObjectIsLostToAPanic
    <3>6. QED
      BY <3>4, <3>5
  <2>2. CASE Read /\ ~ ReadAnswer
    <3>1. call' # "answer"
      BY <2>2 DEF Read, Call, Sanitize, ReadLinks, DetectAntiBot, Summary, NavigatePath,
                  Extraction, ReadPrice, Interact
    <3>2. QED
      BY <3>1 DEF EveryReaderFindsIt, NoObjectIsLostToAPanic
  <2>3. CASE Return
    BY <2>3 DEF Return, EveryReaderFindsIt, NoObjectIsLostToAPanic
  <2>4. CASE UNCHANGED vars
    BY <1>2, <2>4 DEF vars, EveryReaderFindsIt, NoObjectIsLostToAPanic
  <2>5. QED
    BY <1>2, <2>1, <2>2, <2>3, <2>4 DEF Next
<1>3. QED
  BY <1>1, <1>2, PTL DEF Spec

(***************************************************************************)
(* The anti-bot system that detect names (antibot.rs 106) is as sure as    *)
(* any with a pattern on the page, whatever patterns there are.            *)
(***************************************************************************)
THEOREM SurestIsNamed == Spec => []SurestProvider
<1>1. Init => SurestProvider
  BY DEF Init, SurestProvider
<1>2. ASSUME SurestProvider, [Next]_vars PROVE SurestProvider'
  <2>1. CASE DetectAntiBot
    <3>1. PICK found \in SUBSET Patterns : \E p \in Detect(found) : Call("antibot", found, p)
      BY <2>1 DEF DetectAntiBot
    <3>2. PICK p \in Detect(found) : Call("antibot", found, p)
      BY <3>1
    <3> DEFINE providers == {q.provider : q \in found}
               sure(r) == \E q \in found : q.provider = r /\ q.high
    <3>3. DOMAIN Seen(found) = providers /\ \A r \in providers : Seen(found)[r] = sure(r)
      BY DEF Seen
    <3>4. p \in providers /\ \A r \in providers : sure(r) => sure(p)
      BY <3>3 DEF Detect
    <3>5. \E q \in found : q.provider = p /\ (q.high \/ \A r \in found : ~ r.high)
      <4>1. CASE sure(p)
        BY <4>1
      <4>2. CASE ~ sure(p)
        <5>1. \A r \in found : ~ r.high
          BY <3>4, <4>2
        <5>2. QED
          BY <3>4, <5>1
      <4>3. QED
        BY <4>1, <4>2
    <3>6. call' = "antibot" /\ input' = found /\ output' = p
      BY <3>2 DEF Call
    <3>7. QED
      BY <3>5, <3>6 DEF SurestProvider
  <2>2. CASE Read /\ ~ DetectAntiBot
    <3>1. call' # "antibot"
      BY <2>2 DEF Read, Call, ReadAnswer, Sanitize, ReadLinks, Summary, NavigatePath,
                  Extraction, ReadPrice, Interact
    <3>2. QED
      BY <3>1 DEF SurestProvider
  <2>3. CASE Return
    BY <2>3 DEF Return, SurestProvider
  <2>4. CASE UNCHANGED vars
    BY <1>2, <2>4 DEF vars, SurestProvider
  <2>5. QED
    BY <1>2, <2>1, <2>2, <2>3, <2>4 DEF Next
<1>3. QED
  BY <1>1, <1>2, PTL DEF Spec

-----------------------------------------------------------------------------
(* What is kept of a sequence.                                             *)

\* A function on the numbers up to n is a sequence of n members.
LEMMA FunctionIsSeq ==
  ASSUME NEW U, NEW n \in Nat, NEW f \in [1..n -> U]
  PROVE  f \in Seq(U) /\ Len(f) = n
<1>1. f \in Seq(U)
  BY SeqDef
<1>2. Len(f) \in Nat /\ 1..n = 1..Len(f)
  BY <1>1, LenProperties
<1>3. QED
  BY <1>1, <1>2

\* h runs through a set of m numbers, upwards.
Runs(h, m, places) ==
  /\ h \in [1..m -> places]
  /\ \A j, k \in 1..m : j < k <=> h[j] < h[k]
  /\ \A i \in places : \E k \in 1..m : h[k] = i

\* InOrder does.
LEMMA InOrderRuns ==
  ASSUME NEW n \in Nat, NEW places \in SUBSET (1..n)
  PROVE  /\ Cardinality(places) \in Nat
         /\ DOMAIN InOrder(places) = 1..Cardinality(places)
         /\ Runs(InOrder(places), Cardinality(places), places)
<1> DEFINE m == Cardinality(places)
           upTo(i) == {j \in places : j <= i}
           rank(i) == Cardinality(upTo(i))
           h == InOrder(places)
<1>1. /\ IsFiniteSet(places) /\ m \in Nat
      /\ \A T \in SUBSET places : /\ IsFiniteSet(T) /\ Cardinality(T) \in Nat
                                  /\ Cardinality(T) <= m
                                  /\ Cardinality(T) = m => T = places
  <2>1. IsFiniteSet(places) /\ m \in Nat
    <3>1. IsFiniteSet(1..n)
      BY FS_Interval
    <3>2. IsFiniteSet(places)
      BY <3>1, FS_Subset
    <3>3. QED
      BY <3>2, FS_CardinalityType
  <2>2. QED
    BY <2>1, FS_Subset, FS_CardinalityType
<1>2. ASSUME NEW i \in places PROVE rank(i) \in 1..m
  <2>1. rank(i) \in Nat /\ rank(i) <= m
    BY <1>1
  <2>2. upTo(i) # {}
    OBVIOUS
  <2>3. IsFiniteSet(upTo(i))
    BY <1>1
  <2> HIDE DEF upTo
  <2>4. rank(i) # 0
    BY <2>2, <2>3, FS_EmptySet
  <2>5. QED
    BY <2>1, <2>4, <1>1
<1>3. ASSUME NEW i \in places, NEW j \in places, i < j PROVE rank(i) < rank(j)
  <2>1. upTo(i) \in SUBSET upTo(j) /\ upTo(i) # upTo(j)
    <3>1. j \in upTo(j) /\ j \notin upTo(i)
      BY <1>3
    <3>2. \A x \in upTo(i) : x \in upTo(j)
      BY <1>3
    <3>3. QED
      BY <3>1, <3>2
  <2>2. /\ IsFiniteSet(upTo(j)) /\ Cardinality(upTo(i)) \in Nat
        /\ Cardinality(upTo(j)) \in Nat
    BY <1>1
  <2> HIDE DEF upTo
  <2>3. /\ Cardinality(upTo(i)) <= Cardinality(upTo(j))
        /\ Cardinality(upTo(j)) # Cardinality(upTo(i))
    BY <2>1, <2>2, FS_Subset
  <2>4. QED
    BY <2>2, <2>3
<1>4. ASSUME NEW k \in 1..m PROVE \E i \in places : rank(i) = k
  <2> DEFINE r == [i \in places |-> rank(i)]
  <2>1. r \in [places -> 1..m] /\ \A i \in places : r[i] = rank(i)
    BY <1>2
  <2>2. \A i, j \in places : rank(i) = rank(j) => i = j
    <3>1. SUFFICES ASSUME NEW i \in places, NEW j \in places, i # j
                   PROVE rank(i) # rank(j)
      OBVIOUS
    <3>2. i < j \/ j < i
      BY <3>1
    <3>3. rank(i) < rank(j) \/ rank(j) < rank(i)
      BY <3>2, <1>3
    <3>4. rank(i) \in 1..m /\ rank(j) \in 1..m
      BY <1>2
    <3> HIDE DEF rank
    <3>5. QED
      BY <3>3, <3>4
  <2>3. IsFiniteSet(1..m) /\ Cardinality(1..m) = m
    BY <1>1, FS_Interval
  <2> HIDE DEF r, rank
  <2>4. r \in Injection(places, 1..m)
    BY <2>1, <2>2 DEF Injection, IsInjective
  <2>5. r \in Surjection(places, 1..m)
    BY <2>3, <2>4, FS_Injection
  <2>6. QED
    BY <2>1, <2>5 DEF Surjection
<1>5. ASSUME NEW k \in 1..m PROVE h[k] \in places /\ rank(h[k]) = k
  <2>1. h[k] = CHOOSE i \in places : rank(i) = k
    BY DEF InOrder
  <2> HIDE DEF h, rank
  <2>2. QED
    BY <1>4, <2>1
<1>6. DOMAIN h = 1..m /\ h = [k \in 1..m |-> h[k]]
  BY DEF InOrder
<1> HIDE DEF h, rank
<1>7. ASSUME NEW j \in 1..m, NEW k \in 1..m PROVE j < k <=> h[j] < h[k]
  <2>1. h[j] \in places /\ h[k] \in places /\ rank(h[j]) = j /\ rank(h[k]) = k
    BY <1>5
  <2>2. h[j] < h[k] => j < k
    BY <1>3, <2>1
  <2>3. h[k] < h[j] => k < j
    BY <1>3, <2>1
  <2>4. h[k] = h[j] => k = j
    BY <2>1
  <2>5. h[j] \in Nat /\ h[k] \in Nat /\ j \in Nat /\ k \in Nat
    <3>1. \A x \in places : x \in Nat
      OBVIOUS
    <3>2. h[j] \in places /\ h[k] \in places
      BY <2>1
    <3>3. j \in Nat /\ k \in Nat
      BY <1>1
    <3>4. QED
      BY <3>1, <3>2, <3>3
  <2> HIDE DEF rank
  <2>6. QED
    BY <2>2, <2>3, <2>4, <2>5
<1>8. ASSUME NEW i \in places PROVE \E k \in 1..m : h[k] = i
  <2>1. rank(i) \in 1..m
    BY <1>2
  <2>2. h[rank(i)] \in places /\ rank(h[rank(i)]) = rank(i)
    BY <1>5, <2>1
  <2>3. h[rank(i)] = i
    <3>1. ASSUME NEW a \in places, a # i PROVE rank(a) # rank(i)
      <4>1. a < i \/ i < a
        BY <3>1
      <4>2. rank(a) < rank(i) \/ rank(i) < rank(a)
        BY <4>1, <1>3
      <4>3. rank(a) \in 1..m
        BY <1>2
      <4>4. QED
        BY <2>1, <4>2, <4>3
    <3>2. QED
      BY <2>2, <3>1
  <2>4. QED
    BY <2>1, <2>3
<1>9. h \in [1..m -> places]
  BY <1>5, <1>6
<1>10. QED
  BY <1>1, <1>6, <1>7, <1>8, <1>9 DEF Runs, h

\* What At returns.
LEMMA AtRuns ==
  ASSUME NEW n \in Nat, NEW places \in SUBSET (1..n), NEW s, DOMAIN s = 1..n
  PROVE  LET h == InOrder(places)
             m == Cardinality(places)
         IN  /\ m \in Nat
             /\ Runs(h, m, places)
             /\ At(s, places) = [k \in 1..m |-> s[h[k]]]
             /\ Len(At(s, places)) = m
<1> DEFINE h == InOrder(places)
           m == Cardinality(places)
<1>1. m \in Nat /\ DOMAIN h = 1..m /\ Runs(h, m, places)
  BY InOrderRuns
<1>2. At(s, places) = [k \in 1..m |-> s[h[k]]]
  BY <1>1 DEF At
<1> HIDE DEF h, m
<1>3. At(s, places) = [k \in 1..m |-> s[h[k]]]
  BY <1>2
<1>4. [k \in 1..m |-> s[h[k]]] \in [1..m -> {s[i] : i \in 1..n}]
  BY <1>1 DEF Runs
<1>5. Len(At(s, places)) = m
  BY <1>1, <1>3, <1>4, FunctionIsSeq
<1>6. QED
  BY <1>1, <1>3, <1>5 DEF h, m

\* All of a sequence is kept by a set that all its members are in.
LEMMA KeepsAll ==
  ASSUME NEW U, NEW s \in Seq(U), NEW set, \A i \in DOMAIN s : s[i] \in set
  PROVE  Kept(s, set) = s
<1> DEFINE n == Len(s)
<1>0. n \in Nat /\ DOMAIN s = 1..n /\ s = [k \in 1..n |-> s[k]]
  BY LenProperties
<1> HIDE DEF n
<1> DEFINE places == {i \in DOMAIN s : s[i] \in set}
<1>1. n \in Nat /\ DOMAIN s = 1..n
  BY <1>0
<1>2. places = 1..n
  BY <1>1
<1> HIDE DEF places
<1> DEFINE h == InOrder(1..n)
           m == Cardinality(1..n)
<1>3. /\ m \in Nat
      /\ Runs(h, m, 1..n)
      /\ At(s, 1..n) = [k \in 1..m |-> s[h[k]]]
  <2>1. places \in SUBSET (1..n)
    BY <1>2
  <2>2. /\ Cardinality(places) \in Nat
        /\ Runs(InOrder(places), Cardinality(places), places)
        /\ At(s, places) = [k \in 1..Cardinality(places) |-> s[InOrder(places)[k]]]
    BY <1>1, <2>1, AtRuns
  <2>3. QED
    BY <1>2, <2>2
<1> HIDE DEF h, m
<1> DEFINE S == {k \in Nat : k <= m => k = 0 \/ h[k] = k}
<1>4. 0 \in S
  OBVIOUS
<1>5. ASSUME NEW k \in Nat, k \in S PROVE k + 1 \in S
  <2>1. SUFFICES ASSUME k + 1 <= m PROVE h[k + 1] = k + 1
    OBVIOUS
  <2>2. k + 1 \in 1..m /\ h[k + 1] \in 1..n
    BY <2>1, <1>3 DEF Runs
  <2>3. h[k + 1] >= k + 1
    <3>1. CASE k = 0
      BY <2>2, <3>1
    <3>2. CASE k > 0
      <4>1. k \in 1..m /\ h[k] = k /\ k < k + 1
        BY <1>3, <2>1, <1>5, <3>2
      <4>2. h[k] < h[k + 1]
        BY <1>3, <2>2, <4>1 DEF Runs
      <4>3. QED
        BY <2>2, <4>1, <4>2
    <3>3. QED
      BY <3>1, <3>2
  <2>4. SUFFICES ASSUME h[k + 1] > k + 1 PROVE FALSE
    BY <2>2, <2>3
  <2>5. k + 1 \in 1..n
    BY <1>1, <2>2, <2>4
  <2>6. PICK j \in 1..m : h[j] = k + 1
    BY <1>3, <2>5 DEF Runs
  <2>7. h[j] < h[k + 1]
    BY <2>4, <2>6
  <2>8. j < k + 1
    BY <1>3, <2>2, <2>7 DEF Runs
  <2>9. j \in 1..k /\ k \in 1..m
    BY <1>3, <2>1, <2>8
  <2>10. h[k] = k /\ h[j] <= h[k]
    <3>1. h[k] = k
      BY <1>5, <2>1, <2>9
    <3>2. j = k \/ j < k
      BY <2>9
    <3>3. j < k => h[j] < h[k]
      BY <1>3, <2>9 DEF Runs
    <3>4. QED
      BY <2>6, <3>1, <3>2, <3>3
  <2>11. QED
    BY <2>6, <2>10
<1> HIDE DEF S
<1>6. Nat \subseteq S
  BY <1>4, <1>5, SetInduction
<1>7. \A k \in 1..m : h[k] = k
  BY <1>6 DEF S
<1>8. m = n
  <2>1. CASE m < n
    <3>1. PICK j \in 1..m : h[j] = n
      BY <1>1, <1>3, <2>1 DEF Runs
    <3>2. QED
      BY <1>1, <1>3, <1>7, <2>1, <3>1
  <2>2. CASE m > n
    <3>1. m \in 1..m /\ h[m] \in 1..n
      BY <1>1, <1>3, <2>2 DEF Runs
    <3>2. QED
      BY <1>1, <1>3, <1>7, <2>2, <3>1
  <2>3. QED
    BY <1>1, <1>3, <2>1, <2>2
<1>9. [k \in 1..m |-> s[h[k]]] = [k \in 1..n |-> s[k]]
  BY <1>7, <1>8
<1>10. QED
  BY <1>0, <1>2, <1>3, <1>9 DEF Kept, places

\* h leads from the members of Kept(s, set) to where each is in s.
Keeps(h, m, s, n, set) ==
  /\ m \in Nat
  /\ Runs(h, m, {i \in 1..n : s[i] \in set})
  /\ Kept(s, set) = [k \in 1..m |-> s[h[k]]]
  /\ Len(Kept(s, set)) = m

\* What Kept returns: members at places that go up, every one that is in the set.
LEMMA KeptIs ==
  ASSUME NEW n \in Nat, NEW s, DOMAIN s = 1..n, NEW set
  PROVE  \E m, h : Keeps(h, m, s, n, set)
<1> DEFINE places == {i \in 1..n : s[i] \in set}
           h == InOrder(places)
           m == Cardinality(places)
<1>1. places \in SUBSET (1..n)
  OBVIOUS
<1>2. Kept(s, set) = At(s, places)
  BY DEF Kept
<1> HIDE DEF places
<1>3. /\ m \in Nat
      /\ Runs(h, m, places)
      /\ At(s, places) = [k \in 1..m |-> s[h[k]]]
      /\ Len(At(s, places)) = m
  BY <1>1, AtRuns
<1> HIDE DEF h, m
<1>4. Keeps(h, m, s, n, set)
  BY <1>2, <1>3 DEF Keeps, places
<1>5. QED
  BY <1>4

\* h leads from the members of Distinct(s) to where each is first in s.
Firsts(h, m, s, n) ==
  /\ m \in Nat
  /\ h \in [1..m -> 1..n]
  /\ \A j, k \in 1..m : j < k <=> h[j] < h[k]
  /\ Distinct(s) = [k \in 1..m |-> s[h[k]]]
  /\ \A k \in 1..m, b \in 1..n : s[b] = s[h[k]] => h[k] <= b
  /\ \A b \in 1..n : \E k \in 1..m : s[h[k]] = s[b]

\* What Distinct returns: every member where it is first.
LEMMA DistinctIs ==
  ASSUME NEW n \in Nat, NEW s, DOMAIN s = 1..n
  PROVE  \E m, h : Firsts(h, m, s, n)
<1> DEFINE places == {i \in 1..n : \A j \in 1..(i - 1) : s[j] # s[i]}
           h == InOrder(places)
           m == Cardinality(places)
<1>1. places \in SUBSET (1..n)
  OBVIOUS
<1>2. Distinct(s) = At(s, places)
  BY DEF Distinct
<1>3. ASSUME NEW i \in places, NEW b \in 1..n, s[b] = s[i] PROVE i <= b
  <2>1. i \in 1..n /\ \A j \in 1..(i - 1) : s[j] # s[i]
    OBVIOUS
  <2> HIDE DEF places
  <2>2. b \notin 1..(i - 1)
    BY <1>3, <2>1
  <2>3. QED
    BY <2>1, <2>2
<1>4. ASSUME NEW b \in 1..n PROVE \E i \in places : s[i] = s[b]
  <2> DEFINE T == {c \in 1..n : s[c] = s[b]}
             i == Min(T)
  <2>1. T \in SUBSET Nat /\ T # {}
    OBVIOUS
  <2> HIDE DEF T
  <2>2. i \in T /\ \A c \in T : i <= c
    BY <2>1, MinOf
  <2> HIDE DEF i
  <2>3. i \in 1..n /\ s[i] = s[b]
    BY <2>2 DEF T
  <2>4. ASSUME NEW j \in 1..(i - 1) PROVE s[j] # s[i]
    <3>1. j \in 1..n /\ j < i
      BY <2>3
    <3>2. j \notin T
      BY <2>2, <2>3, <3>1
    <3>3. QED
      BY <2>3, <3>1, <3>2 DEF T
  <2>5. QED
    BY <2>3, <2>4
<1> HIDE DEF places
<1>5. /\ m \in Nat
      /\ Runs(h, m, places)
      /\ At(s, places) = [k \in 1..m |-> s[h[k]]]
  BY <1>1, AtRuns
<1> HIDE DEF h, m
<1>6. /\ h \in [1..m -> places]
      /\ \A j, k \in 1..m : j < k <=> h[j] < h[k]
      /\ \A i \in places : \E k \in 1..m : h[k] = i
  BY <1>5 DEF Runs
<1>7. h \in [1..m -> 1..n]
  BY <1>1, <1>6
<1>8. \A k \in 1..m, b \in 1..n : s[b] = s[h[k]] => h[k] <= b
  BY <1>3, <1>6
<1>9. ASSUME NEW b \in 1..n PROVE \E k \in 1..m : s[h[k]] = s[b]
  <2>1. PICK i \in places : s[i] = s[b]
    BY <1>4
  <2>2. PICK k \in 1..m : h[k] = i
    BY <1>6
  <2>3. QED
    BY <2>1, <2>2
<1>10. Distinct(s) = [k \in 1..m |-> s[h[k]]]
  BY <1>2, <1>5
<1>11. \A b \in 1..n : \E k \in 1..m : s[h[k]] = s[b]
  BY <1>9
<1>12. /\ m \in Nat
       /\ h \in [1..m -> 1..n]
       /\ \A j, k \in 1..m : j < k <=> h[j] < h[k]
       /\ Distinct(s) = [k \in 1..m |-> s[h[k]]]
       /\ \A k \in 1..m, b \in 1..n : s[b] = s[h[k]] => h[k] <= b
       /\ \A b \in 1..n : \E k \in 1..m : s[h[k]] = s[b]
  BY <1>5, <1>6, <1>7, <1>8, <1>10, <1>11
<1>13. Firsts(h, m, s, n)
  BY <1>12 DEF Firsts
<1>14. QED
  BY <1>13

\* What Present returns.
LEMMA PresentIs ==
  ASSUME NEW n \in Nat, NEW s, DOMAIN s = 1..n
  PROVE  \E m, h : /\ m \in Nat
                   /\ Runs(h, m, {i \in 1..n : s[i] # {}})
                   /\ DOMAIN Present(s) = 1..m
                   /\ \A k \in 1..m : Present(s)[k] \in s[h[k]]
<1> DEFINE places == {i \in 1..n : s[i] # {}}
           h == InOrder(places)
           m == Cardinality(places)
           full == At(s, places)
<1>1. places \in SUBSET (1..n)
  OBVIOUS
<1>2. Present(s) = [k \in DOMAIN full |-> CHOOSE x \in full[k] : TRUE]
  BY DEF Present
<1>3. \A i \in places : s[i] # {}
  OBVIOUS
<1> HIDE DEF places
<1>4. /\ m \in Nat
      /\ Runs(h, m, places)
      /\ full = [k \in 1..m |-> s[h[k]]]
  BY <1>1, AtRuns
<1> HIDE DEF h, m, full
<1>5. DOMAIN full = 1..m /\ \A k \in 1..m : full[k] = s[h[k]]
  BY <1>4
<1>6. ASSUME NEW k \in 1..m PROVE Present(s)[k] \in s[h[k]]
  <2>1. s[h[k]] # {}
    BY <1>3, <1>4 DEF Runs
  <2>2. Present(s)[k] = CHOOSE x \in s[h[k]] : TRUE
    BY <1>2, <1>5
  <2>3. QED
    BY <2>1, <2>2
<1>7. DOMAIN Present(s) = 1..m
  BY <1>2, <1>5
<1>8. QED
  BY <1>4, <1>6, <1>7 DEF places

-----------------------------------------------------------------------------
(* The links of a page.                                                    *)

\* An href leads to one address at most.
LEMMA JoinIsOne ==
  ASSUME NEW base, NEW href
  PROVE  \A x, y \in Join(base, href) : x = y
BY DEF Join

\* A page's own host, which is not empty, is what its host and those below
\* it end with.
LEMMA OwnDomain ==
  ASSUME NEW domain \in Seq(STRING), domain # <<>>, NEW host
  PROVE  InDomain(host, domain) <=> IsSuffix(domain, host)
<1>1. IsSuffix(domain, domain)
  <2> DEFINE r == Reverse(domain)
             n == Len(domain)
  <2>1. n \in Nat /\ \A i \in 1..n : domain[n - i + 1] \in STRING
    <3>1. n \in Nat /\ domain \in [1..n -> STRING]
      BY LenProperties
    <3> HIDE DEF n
    <3>2. \A i \in 1..n : n - i + 1 \in 1..n
      BY <3>1
    <3>3. QED
      BY <3>1, <3>2
  <2>2. r = [i \in 1..n |-> domain[n - i + 1]]
    BY DEF Reverse
  <2> HIDE DEF r, n
  <2>3. r \in [1..n -> STRING]
    BY <2>1, <2>2
  <2>4. Len(r) = n
    BY <2>1, <2>3, FunctionIsSeq
  <2>5. QED
    BY <2>1, <2>4 DEF IsSuffix, IsPrefix, r
<1>2. QED
  BY <1>1 DEF InDomain

\* The two extractors return the same on a page without <base> and without
\* hrefs that the engine's leaves out.
LEMMA ExtractorsAgree ==
  ASSUME NEW page \in WebPages, NEW ds, page.base = {},
         \A i \in DOMAIN page.hrefs : page.hrefs[i].form \notin {"anchor", "mail"}
  PROVE  ExtractLinks(page, ds) =
           Extract(page, [domains |-> IF ds = {} THEN {} ELSE {ds},
                          patterns |-> {}, strip |-> FALSE, httpOnly |-> FALSE])
<1> DEFINE hrefs == page.hrefs
           filter == [domains |-> IF ds = {} THEN {} ELSE {ds},
                      patterns |-> {}, strip |-> FALSE, httpOnly |-> FALSE]
           links == {h \in ToSet(hrefs) : h.form \notin {"anchor", "mail"}}
           all == Present([i \in DOMAIN hrefs |-> Join(page.url, hrefs[i])])
           cut == [i \in DOMAIN all |-> IF filter.strip THEN Stripped(all[i]) ELSE all[i]]
           n == Len(hrefs)
<1>1. hrefs \in Seq(Hrefs) /\ n \in Nat /\ DOMAIN hrefs = 1..n
  <2>1. hrefs \in Seq(Hrefs)
    BY DEF WebPages
  <2> HIDE DEF hrefs
  <2>2. QED
    BY <2>1, LenProperties
<1>2. \A i \in DOMAIN hrefs : hrefs[i] \in links
  BY DEF ToSet
<1>3. Kept(hrefs, links) = hrefs
  <2> HIDE DEF hrefs, links
  <2>1. QED
    BY <1>1, <1>2, KeepsAll
<1>4. ~ filter.strip /\ ~ filter.httpOnly /\ filter.patterns = {}
      /\ filter.domains = IF ds = {} THEN {} ELSE {ds}
  OBVIOUS
<1>5. \A u : Passes(u, filter) <=> IsAllowed(u, ds)
  <2> HIDE DEF filter
  <2>1. CASE ds = {}
    BY <1>4, <2>1 DEF Passes, IsAllowed
  <2>2. CASE ds # {}
    <3>1. filter.domains = {ds}
      BY <1>4, <2>2
    <3>2. QED
      BY <1>4, <2>2, <3>1 DEF Passes, IsAllowed
  <2>3. QED
    BY <2>1, <2>2
<1>6. all = [i \in DOMAIN all |-> all[i]] /\ cut = [i \in DOMAIN all |-> all[i]]
  <2> DEFINE joined == [i \in DOMAIN hrefs |-> Join(page.url, hrefs[i])]
             full == At(joined, {i \in DOMAIN joined : joined[i] # {}})
  <2>1. all = [k \in DOMAIN full |-> CHOOSE x \in full[k] : TRUE]
    BY DEF Present
  <2> HIDE DEF all, full, filter
  <2>2. all = [i \in DOMAIN all |-> all[i]]
    BY <2>1
  <2>3. QED
    BY <1>4, <2>2
<1>7. {u \in ToSet(cut) : Passes(u, filter)} = {u \in ToSet(all) : IsAllowed(u, ds)}
  <2>1. cut = all
    BY <1>6
  <2> HIDE DEF cut, all, filter
  <2>2. QED
    BY <1>5, <2>1
<1>8. Base(page) = page.url
  BY DEF Base
<1>9. ExtractLinks(page, ds) = Distinct(Kept(all, {u \in ToSet(all) : IsAllowed(u, ds)}))
  BY <1>3 DEF ExtractLinks
<1>10. Extract(page, filter) = Distinct(Kept(cut, {u \in ToSet(cut) : Passes(u, filter)}))
  BY <1>8 DEF Extract
<1>11. cut = all
  BY <1>6
<1> HIDE DEF cut, all, filter
<1>12. Extract(page, filter) = ExtractLinks(page, ds)
  BY <1>7, <1>9, <1>10, <1>11
<1>13. QED
  BY <1>12 DEF filter

\* The addresses of the page's own site that href i leads to.
OwnLinks(page, i) ==
  {u \in {Stripped(u) : u \in Join(Base(page), page.hrefs[i])} :
     u.scheme = "http" /\ IsSuffix(page.url.host, u.host)}

\* What is found are the addresses of the page's own site: number k, of m, is
\* first led to by href label[k].
Sourced(found, m, label, page) ==
  LET n == Len(page.hrefs)
  IN /\ m \in Nat /\ n \in Nat /\ DOMAIN page.hrefs = 1..n
     /\ DOMAIN found = 1..m
     /\ label \in [1..m -> 1..n]
     /\ \A j, k \in 1..m : j < k => label[j] < label[k]
     /\ \A k \in 1..m : found[k] \in OwnLinks(page, label[k])
     /\ \A k \in 1..m, i \in 1..n : found[k] \in OwnLinks(page, i) => label[k] <= i
     /\ \A i \in 1..n : \A u \in OwnLinks(page, i) : \E k \in 1..m : found[k] = u

\* extract_internal returns such links.
LEMMA InternalLinks ==
  ASSUME NEW page \in WebPages, page.url.host # <<>>
  PROVE  \E m, label : Sourced(ExtractInternal(page), m, label, page)
<1> DEFINE hrefs == page.hrefs
           n == Len(hrefs)
           filter == [domains |-> {{page.url.host}}, patterns |-> {},
                      strip |-> TRUE, httpOnly |-> TRUE]
           sets == [i \in DOMAIN hrefs |-> Join(Base(page), hrefs[i])]
           all == Present(sets)
           cut == [i \in DOMAIN all |-> IF filter.strip THEN Stripped(all[i]) ELSE all[i]]
           good == {u \in ToSet(cut) : Passes(u, filter)}
           kept == Kept(cut, good)
           found == Distinct(kept)
           own(u) == u.scheme = "http" /\ IsSuffix(page.url.host, u.host)
<1>1. n \in Nat /\ DOMAIN hrefs = 1..n
  <2>1. hrefs \in Seq(Hrefs)
    BY DEF WebPages
  <2> HIDE DEF hrefs
  <2>2. QED
    BY <2>1, LenProperties
<1>2. \A i \in 1..n : sets[i] = Join(Base(page), hrefs[i])
  BY <1>1
<1>3. DOMAIN sets = 1..n
  BY <1>1
<1>4. \A u : Passes(u, filter) <=> own(u)
  <2>1. page.url.host \in Seq(STRING)
    BY DEF WebPages, Urls
  <2>2. \A u : InDomain(u.host, page.url.host) <=> IsSuffix(page.url.host, u.host)
    BY <2>1, OwnDomain
  <2>3. filter.httpOnly /\ filter.domains = {{page.url.host}} /\ filter.patterns = {}
    OBVIOUS
  <2> HIDE DEF filter
  <2>4. QED
    BY <2>2, <2>3 DEF Passes
<1>5. ExtractInternal(page) = found
  BY DEF ExtractInternal, Extract
<1>6. filter.strip
  OBVIOUS
<1>7. \A i \in 1..n : OwnLinks(page, i) = {u \in {Stripped(u) : u \in sets[i]} : own(u)}
  BY <1>2 DEF OwnLinks
<1>8. \A i \in 1..n : \A x, y \in sets[i] : x = y
  BY <1>2, JoinIsOne
<1> HIDE DEF sets, n
<1>9. PICK m1, h1 : /\ m1 \in Nat
                    /\ Runs(h1, m1, {i \in 1..n : sets[i] # {}})
                    /\ DOMAIN all = 1..m1
                    /\ \A k \in 1..m1 : all[k] \in sets[h1[k]]
  BY <1>1, <1>3, PresentIs
<1> HIDE DEF all, filter
<1>10. DOMAIN cut = 1..m1 /\ \A k \in 1..m1 : cut[k] = Stripped(all[k])
  BY <1>6, <1>9
<1>11. \A k \in 1..m1 : cut[k] \in good <=> own(cut[k])
  BY <1>4, <1>10 DEF ToSet
<1> HIDE DEF cut, good
<1>12. PICK m2, h2 : Keeps(h2, m2, cut, m1, good)
  <2>1. m1 \in Nat /\ DOMAIN cut = 1..m1
    BY <1>9, <1>10
  <2>2. QED
    BY <2>1, KeptIs
<1>13. /\ m2 \in Nat
      /\ Runs(h2, m2, {i \in 1..m1 : cut[i] \in good})
      /\ kept = [k \in 1..m2 |-> cut[h2[k]]]
  BY <1>12 DEF Keeps
<1> HIDE DEF kept
<1>14. PICK m3, h3 : Firsts(h3, m3, kept, m2)
  <2>1. DOMAIN kept = 1..m2
    BY <1>13
  <2>2. QED
    BY <1>13, <2>1, DistinctIs
<1>15. /\ m3 \in Nat
       /\ h3 \in [1..m3 -> 1..m2]
       /\ \A j, k \in 1..m3 : j < k <=> h3[j] < h3[k]
       /\ found = [k \in 1..m3 |-> kept[h3[k]]]
       /\ \A k \in 1..m3, b \in 1..m2 : kept[b] = kept[h3[k]] => h3[k] <= b
       /\ \A b \in 1..m2 : \E k \in 1..m3 : kept[h3[k]] = kept[b]
  BY <1>14 DEF Firsts
<1> HIDE DEF found
<1>16. /\ h1 \in [1..m1 -> 1..n]
       /\ \A j, k \in 1..m1 : j < k <=> h1[j] < h1[k]
       /\ \A i \in 1..n : sets[i] # {} => \E k \in 1..m1 : h1[k] = i
  BY <1>9 DEF Runs
<1>17. /\ h2 \in [1..m2 -> 1..m1]
       /\ \A b \in 1..m2 : cut[h2[b]] \in good
       /\ \A j, k \in 1..m2 : j < k <=> h2[j] < h2[k]
       /\ \A i \in 1..m1 : cut[i] \in good => \E k \in 1..m2 : h2[k] = i
  BY <1>13 DEF Runs
<1>18. \A b \in 1..m2 : kept[b] = cut[h2[b]]
  BY <1>13
<1> DEFINE at == [b \in 1..m2 |-> h1[h2[b]]]
<1>19. at \in [1..m2 -> 1..n] /\ \A b \in 1..m2 : at[b] = h1[h2[b]]
  BY <1>16, <1>17
<1> HIDE DEF at
<1>20. \A b \in 1..m2 : kept[b] \in OwnLinks(page, at[b])
  <2>1. SUFFICES ASSUME NEW b \in 1..m2 PROVE kept[b] \in OwnLinks(page, at[b])
    OBVIOUS
  <2>2. h2[b] \in 1..m1 /\ own(kept[b]) /\ kept[b] = Stripped(all[h2[b]])
    BY <1>10, <1>11, <1>17, <1>18
  <2>3. all[h2[b]] \in sets[at[b]] /\ at[b] \in 1..n
    BY <1>9, <1>19, <2>2
  <2>4. QED
    BY <1>7, <2>2, <2>3
<1>21. \A i \in 1..n : \A u \in OwnLinks(page, i) :
         \E b \in 1..m2 : at[b] = i /\ kept[b] = u
  <2>1. SUFFICES ASSUME NEW i \in 1..n, NEW u \in OwnLinks(page, i)
                 PROVE  \E b \in 1..m2 : at[b] = i /\ kept[b] = u
    OBVIOUS
  <2>2. PICK x \in sets[i] : u = Stripped(x) /\ own(u)
    BY <1>7
  <2>3. PICK k \in 1..m1 : h1[k] = i
    BY <1>16, <2>2
  <2>4. all[k] = x
    BY <1>8, <1>9, <2>2, <2>3
  <2>5. cut[k] = u /\ cut[k] \in good
    BY <1>10, <1>11, <2>2, <2>4
  <2>6. PICK b \in 1..m2 : h2[b] = k
    BY <1>17, <2>5
  <2>7. QED
    BY <1>18, <1>19, <2>3, <2>5, <2>6
<1>22. \A a, b \in 1..m2 : /\ a < b => at[a] < at[b]
                           /\ a <= b => at[a] <= at[b]
  <2>1. SUFFICES ASSUME NEW a \in 1..m2, NEW b \in 1..m2
                 PROVE /\ a < b => at[a] < at[b]
                       /\ a <= b => at[a] <= at[b]
    OBVIOUS
  <2>2. at[a] \in 1..n /\ at[b] \in 1..n /\ h2[a] \in 1..m1 /\ h2[b] \in 1..m1
    BY <1>17, <1>19
  <2>3. a < b => at[a] < at[b]
    BY <1>16, <1>17, <1>19, <2>2
  <2>4. a \in Nat /\ b \in Nat /\ at[a] \in Nat /\ at[b] \in Nat
    BY <1>1, <1>13, <2>2
  <2>5. QED
    BY <2>3, <2>4
<1> DEFINE label == [k \in 1..m3 |-> at[h3[k]]]
<1>23. label \in [1..m3 -> 1..n] /\ \A k \in 1..m3 : label[k] = at[h3[k]]
  BY <1>15, <1>19
<1> HIDE DEF label
<1>24. DOMAIN found = 1..m3 /\ \A k \in 1..m3 : found[k] = kept[h3[k]]
  BY <1>15
<1>25. \A j, k \in 1..m3 : j < k => label[j] < label[k]
  <2>1. SUFFICES ASSUME NEW j \in 1..m3, NEW k \in 1..m3, j < k
                 PROVE  label[j] < label[k]
    OBVIOUS
  <2>2. h3[j] \in 1..m2 /\ h3[k] \in 1..m2 /\ h3[j] < h3[k]
    BY <1>15, <2>1
  <2>3. QED
    BY <1>22, <1>23, <2>2
<1>26. \A k \in 1..m3 : found[k] \in OwnLinks(page, label[k])
  <2>1. SUFFICES ASSUME NEW k \in 1..m3 PROVE found[k] \in OwnLinks(page, label[k])
    OBVIOUS
  <2>2. h3[k] \in 1..m2
    BY <1>15, <2>1
  <2>3. kept[h3[k]] \in OwnLinks(page, at[h3[k]])
    BY <1>20, <2>2
  <2>4. found[k] = kept[h3[k]] /\ label[k] = at[h3[k]]
    BY <1>23, <1>24, <2>1
  <2>5. QED
    BY <2>3, <2>4
<1>27. \A k \in 1..m3, i \in 1..n : found[k] \in OwnLinks(page, i) => label[k] <= i
  <2>1. SUFFICES ASSUME NEW k \in 1..m3, NEW i \in 1..n, found[k] \in OwnLinks(page, i)
                 PROVE  label[k] <= i
    OBVIOUS
  <2>2. PICK b \in 1..m2 : at[b] = i /\ kept[b] = found[k]
    BY <1>21, <2>1
  <2>3. h3[k] \in 1..m2 /\ h3[k] <= b
    BY <1>15, <1>24, <2>2
  <2>4. QED
    BY <1>22, <1>23, <2>2, <2>3
<1>28. \A i \in 1..n : \A u \in OwnLinks(page, i) : \E k \in 1..m3 : found[k] = u
  <2>1. SUFFICES ASSUME NEW i \in 1..n, NEW u \in OwnLinks(page, i)
                 PROVE  \E k \in 1..m3 : found[k] = u
    OBVIOUS
  <2>2. PICK b \in 1..m2 : kept[b] = u
    BY <1>21
  <2>3. PICK k \in 1..m3 : kept[h3[k]] = kept[b]
    BY <1>15
  <2>4. QED
    BY <1>24, <2>2, <2>3
<1>29. /\ m3 \in Nat /\ n \in Nat /\ DOMAIN page.hrefs = 1..n
       /\ DOMAIN found = 1..m3
       /\ label \in [1..m3 -> 1..n]
  BY <1>1, <1>15, <1>23, <1>24
<1> HIDE DEF hrefs
<1>30. Sourced(found, m3, label, page)
  BY <1>25, <1>26, <1>27, <1>28, <1>29 DEF Sourced, hrefs, n
<1>31. QED
  BY <1>5, <1>30

\* Such links are those of the page, in the order in which they first stand.
LEMMA SourcedIsExact ==
  ASSUME NEW page, NEW found, NEW m, NEW label, Sourced(found, m, label, page)
  PROVE  LET first(u) == Min({i \in DOMAIN page.hrefs : u \in OwnLinks(page, i)})
         IN  /\ ToSet(found) = UNION {OwnLinks(page, i) : i \in DOMAIN page.hrefs}
             /\ \A j, k \in DOMAIN found : j < k => first(found[j]) < first(found[k])
<1> DEFINE n == Len(page.hrefs)
           where(u) == {i \in DOMAIN page.hrefs : u \in OwnLinks(page, i)}
<1>1. /\ m \in Nat /\ n \in Nat /\ DOMAIN page.hrefs = 1..n
      /\ DOMAIN found = 1..m
      /\ label \in [1..m -> 1..n]
      /\ \A j, k \in 1..m : j < k => label[j] < label[k]
      /\ \A k \in 1..m : found[k] \in OwnLinks(page, label[k])
      /\ \A k \in 1..m, i \in 1..n : found[k] \in OwnLinks(page, i) => label[k] <= i
      /\ \A i \in 1..n : \A u \in OwnLinks(page, i) : \E k \in 1..m : found[k] = u
  BY DEF Sourced
<1> HIDE DEF n
<1>2. ASSUME NEW k \in 1..m PROVE Min(where(found[k])) = label[k]
  <2>1. where(found[k]) \in SUBSET Int
    BY <1>1
  <2>2. label[k] \in where(found[k]) /\ \A i \in where(found[k]) : label[k] <= i
    BY <1>1
  <2> HIDE DEF where
  <2>3. QED
    BY <2>1, <2>2, MinIs
<1>3. \A j, k \in 1..m : j < k => Min(where(found[j])) < Min(where(found[k]))
  <2> HIDE DEF where
  <2>1. QED
    BY <1>1, <1>2
<1>4. ToSet(found) = UNION {OwnLinks(page, i) : i \in 1..n}
  <2>1. ASSUME NEW u \in ToSet(found) PROVE \E i \in 1..n : u \in OwnLinks(page, i)
    <3>1. PICK k \in 1..m : u = found[k]
      BY <1>1 DEF ToSet
    <3>2. label[k] \in 1..n
      BY <1>1
    <3>3. QED
      BY <1>1, <3>1, <3>2
  <2>2. ASSUME NEW i \in 1..n, NEW u \in OwnLinks(page, i) PROVE u \in ToSet(found)
    BY <1>1 DEF ToSet
  <2>3. QED
    BY <2>1, <2>2
<1>5. QED
  BY <1>1, <1>3, <1>4

(***************************************************************************)
(* Both link extractors (core/extract.rs 29, links.rs 57) find the links   *)
(* of a page, whatever hrefs it has and however many: the same ones where  *)
(* they are meant to agree, and, with the filter of extract_internal,      *)
(* those of the page's own site, each once, in the order of the page.      *)
(***************************************************************************)
THEOREM LinksFound == Spec => []LinksAreFound
<1>1. Init => LinksAreFound
  BY DEF Init, LinksAreFound, SameLinks, InternalLinksExact
<1>2. ASSUME LinksAreFound, [Next]_vars PROVE LinksAreFound'
  <2>1. CASE ReadLinks
    <3>1. PICK p \in Pages, ds \in Domains :
            Call("links", [page |-> p, domains |-> ds],
                 [engine |-> ExtractLinks(p, ds),
                  parser |-> Extract(p, [domains |-> IF ds = {} THEN {} ELSE {ds},
                                         patterns |-> {}, strip |-> FALSE,
                                         httpOnly |-> FALSE]),
                  internal |-> ExtractInternal(p)])
      BY <2>1 DEF ReadLinks
    <3> DEFINE parser == Extract(p, [domains |-> IF ds = {} THEN {} ELSE {ds},
                                     patterns |-> {}, strip |-> FALSE, httpOnly |-> FALSE])
    <3>2. /\ call' = "links" /\ input'.page = p
          /\ output'.engine = ExtractLinks(p, ds) /\ output'.parser = parser
          /\ output'.internal = ExtractInternal(p)
      BY <3>1 DEF Call
    <3>3. p \in WebPages /\ p.url.host # <<>>
      BY ParsersAssumption
    <3>4. SameLinks'
      <4>1. p.base = {} /\ (\A i \in DOMAIN p.hrefs : p.hrefs[i].form \notin {"anchor", "mail"})
              => ExtractLinks(p, ds) = parser
        BY <3>3, ExtractorsAgree
      <4> HIDE DEF parser
      <4>2. QED
        BY <3>2, <4>1 DEF SameLinks
    <3>5. InternalLinksExact'
      <4> DEFINE found == ExtractInternal(p)
                 first(u) == Min({i \in DOMAIN p.hrefs : u \in OwnLinks(p, i)})
      <4>1. PICK m, label : Sourced(found, m, label, p)
        BY <3>3, InternalLinks
      <4>2. /\ ToSet(found) = UNION {OwnLinks(p, i) : i \in DOMAIN p.hrefs}
            /\ \A j, k \in DOMAIN found : j < k => first(found[j]) < first(found[k])
        BY <4>1, SourcedIsExact
      <4>3. QED
        BY <3>2, <4>2 DEF InternalLinksExact, OwnLinks
    <3>6. QED
      BY <3>4, <3>5 DEF LinksAreFound
  <2>2. CASE Read /\ ~ ReadLinks
    <3>1. call' # "links"
      BY <2>2 DEF Read, Call, ReadAnswer, Sanitize, DetectAntiBot, Summary, NavigatePath,
                  Extraction, ReadPrice, Interact
    <3>2. QED
      BY <3>1 DEF LinksAreFound, SameLinks, InternalLinksExact
  <2>3. CASE Return
    BY <2>3 DEF Return, LinksAreFound, SameLinks, InternalLinksExact
  <2>4. CASE UNCHANGED vars
    BY <1>2, <2>4 DEF vars, LinksAreFound, SameLinks, InternalLinksExact
  <2>5. QED
    BY <1>2, <2>1, <2>2, <2>3, <2>4 DEF Next
<1>3. QED
  BY <1>1, <1>2, PTL DEF Spec

-----------------------------------------------------------------------------
(* From the agent's answer to records.                                     *)

\* A sequence is a function on the numbers up to its length.
LEMMA SequenceIs ==
  ASSUME NEW s, IsSequence(s)
  PROVE  Len(s) \in Nat /\ DOMAIN s = 1..Len(s) /\ s \in Seq(ToSet(s))
BY LenProperties DEF IsSequence

\* The record of a container has the names of the fields that find something
\* there, each with what a field of that name finds.
LEMMA RecordIs ==
  ASSUME NEW fields, IsSequence(fields), NEW c
  PROVE  LET found == {f \in ToSet(fields) : ExtractField(c, f) # {}}
             r == RecordOf(c, fields)
         IN  /\ DOMAIN r = {f.name : f \in found}
             /\ \A f \in found : \E g \in found :
                  g.name = f.name /\ r[f.name] \in ExtractField(c, g)
<1> DEFINE n == Len(fields)
           found == {f \in ToSet(fields) : ExtractField(c, f) # {}}
           at == {i \in DOMAIN fields : ExtractField(c, fields[i]) # {}}
           named(name) == {i \in at : fields[i].name = name}
           r == RecordOf(c, fields)
<1>1. n \in Nat /\ DOMAIN fields = 1..n
  BY SequenceIs
<1>2. r = [name \in {fields[i].name : i \in at} |->
             CHOOSE t \in ExtractField(c, fields[Max(named(name))]) : TRUE]
  BY DEF RecordOf
<1>3. \A i \in at : fields[i] \in found
  BY DEF ToSet
<1>4. \A f \in found : \E i \in at : fields[i] = f
  BY DEF ToSet
<1>5. at \in SUBSET (1..n) /\ \A i \in at : ExtractField(c, fields[i]) # {}
  BY <1>1
<1> HIDE DEF r, n, at, found
<1>6. {fields[i].name : i \in at} = {f.name : f \in found}
  BY <1>3, <1>4
<1>7. ASSUME NEW f \in found
      PROVE  \E g \in found : g.name = f.name /\ r[f.name] \in ExtractField(c, g)
  <2> DEFINE T == named(f.name)
             g == fields[Max(T)]
  <2>1. T \in SUBSET (1..n) /\ T # {}
    BY <1>4, <1>5
  <2>2. Max(T) \in T
    BY <1>1, <2>1, MaxOf
  <2>3. Max(T) \in at /\ g.name = f.name
    BY <2>2
  <2>4. r[f.name] = CHOOSE t \in ExtractField(c, g) : TRUE
    BY <1>2, <1>6
  <2> HIDE DEF T
  <2>5. g \in found /\ ExtractField(c, g) # {}
    BY <1>3, <1>5, <2>3
  <2> HIDE DEF g
  <2>6. QED
    BY <2>3, <2>4, <2>5
<1>8. DOMAIN r = {f.name : f \in found}
  BY <1>2, <1>6
<1>9. QED
  BY <1>7, <1>8 DEF r, found

\* The records that extract returns are their containers' own.
LEMMA RecordsAre ==
  ASSUME NEW containers, IsSequence(containers), NEW fields, IsSequence(fields)
  PROVE  Own(ExtractRecords(containers, fields), containers, fields)
<1> DEFINE found(c) == {f \in ToSet(fields) : ExtractField(c, f) # {}}
           n == Len(containers)
           all == [i \in DOMAIN containers |-> RecordOf(containers[i], fields)]
           full == Kept(containers, {c \in ToSet(containers) : found(c) # {}})
           records == ExtractRecords(containers, fields)
           places == {i \in 1..n : found(containers[i]) # {}}
           h == InOrder(places)
           m == Cardinality(places)
<1>1. n \in Nat /\ DOMAIN containers = 1..n
  BY SequenceIs
<1>2. full = At(containers, places)
  <2>1. {i \in DOMAIN containers :
           containers[i] \in {c \in ToSet(containers) : found(c) # {}}} = places
    BY <1>1 DEF ToSet
  <2>2. QED
    BY <2>1 DEF Kept
<1>3. DOMAIN all = 1..n /\ \A i \in 1..n : all[i] = RecordOf(containers[i], fields)
  BY <1>1
<1>4. \A c : DOMAIN RecordOf(c, fields) = {f.name : f \in found(c)}
  BY RecordIs
<1> HIDE DEF all
<1>5. {i \in DOMAIN all : all[i] \in {r \in ToSet(all) : DOMAIN r # {}}} = places
  <2>1. \A i \in 1..n : all[i] \in ToSet(all)
    BY <1>3 DEF ToSet
  <2>2. \A i \in 1..n : DOMAIN all[i] # {} <=> found(containers[i]) # {}
    <3>1. SUFFICES ASSUME NEW i \in 1..n
                   PROVE  DOMAIN all[i] # {} <=> found(containers[i]) # {}
      OBVIOUS
    <3>2. DOMAIN all[i] = {f.name : f \in found(containers[i])}
      BY <1>3, <1>4
    <3> HIDE DEF found
    <3>3. QED
      BY <3>2
  <2> HIDE DEF found
  <2>3. QED
    BY <1>3, <2>1, <2>2
<1>6. records = At(all, places)
  BY <1>5 DEF ExtractRecords, Kept, all
<1>7. places \in SUBSET (1..n)
  OBVIOUS
<1> HIDE DEF full, records, places, n
<1>8. /\ m \in Nat
      /\ Runs(h, m, places)
      /\ full = [k \in 1..m |-> containers[h[k]]]
      /\ Len(full) = m
  BY <1>1, <1>2, <1>7, AtRuns
<1>9. records = [k \in 1..m |-> all[h[k]]] /\ Len(records) = m
  BY <1>1, <1>3, <1>6, <1>7, AtRuns
<1> HIDE DEF h, m
<1>10. DOMAIN full = 1..m
  BY <1>8
<1>11. ASSUME NEW k \in 1..m
       PROVE  records[k] = RecordOf(full[k], fields)
  <2>1. h[k] \in 1..n
    BY <1>7, <1>8 DEF Runs
  <2>2. full[k] = containers[h[k]] /\ records[k] = all[h[k]]
    BY <1>8, <1>9
  <2>3. QED
    BY <1>3, <2>1, <2>2
<1>12. ASSUME NEW k \in 1..m
       PROVE  /\ DOMAIN records[k] = {f.name : f \in found(full[k])}
              /\ \A f \in found(full[k]) : \E g \in found(full[k]) :
                   g.name = f.name /\ records[k][f.name] \in ExtractField(full[k], g)
  <2> DEFINE c == full[k]
             r == RecordOf(c, fields)
  <2>1. /\ DOMAIN r = {f.name : f \in found(c)}
        /\ \A f \in found(c) : \E g \in found(c) :
             g.name = f.name /\ r[f.name] \in ExtractField(c, g)
    BY RecordIs
  <2>2. records[k] = r
    BY <1>11
  <2> HIDE DEF r, found
  <2>3. QED
    BY <2>1, <2>2
<1>13. Len(records) = Len(full)
  BY <1>8, <1>9
<1>14. QED
  BY <1>10, <1>12, <1>13 DEF Own, records, full

\* A finite set in some order.
LEMMA SetToSeqIs ==
  ASSUME NEW S, IsFiniteSet(S)
  PROVE  SetToSeq(S) \in Seq(S)
<1> DEFINE n == Cardinality(S)
<1>1. n \in Nat /\ ExistsBijection(1..n, S)
  BY FS_CardinalityType
<1> HIDE DEF n
<1>2. PICK f \in [1..n -> S] : IsInjective(f)
  BY <1>1 DEF ExistsBijection, Bijection, Injection
<1>3. SetToSeq(S) \in [1..n -> S]
  BY <1>2 DEF SetToSeq, n
<1>4. QED
  BY <1>1, <1>3, FunctionIsSeq

\* A sequence of members of a set is a sequence.
LEMMA OfASet ==
  ASSUME NEW U, NEW s \in Seq(U)
  PROVE  IsSequence(s) /\ ToSet(s) \subseteq U
<1>1. Len(s) \in Nat /\ DOMAIN s = 1..Len(s) /\ s \in [1..Len(s) -> U]
  BY LenProperties
<1>2. s \in [1..Len(s) -> ToSet(s)]
  BY <1>1 DEF ToSet
<1>3. s \in Seq(ToSet(s))
  BY <1>1, <1>2, FunctionIsSeq
<1>4. ToSet(s) \subseteq U
  BY <1>1 DEF ToSet
<1>5. QED
  BY <1>3, <1>4 DEF IsSequence

\* What Kept returns is a sequence of members of the set.
LEMMA KeptIsSequence ==
  ASSUME NEW s, IsSequence(s), NEW set
  PROVE  Kept(s, set) \in Seq(ToSet(s) \cap set)
<1> DEFINE n == Len(s)
<1>1. n \in Nat /\ DOMAIN s = 1..n
  BY SequenceIs
<1> HIDE DEF n
<1>2. PICK m, h : Keeps(h, m, s, n, set)
  BY <1>1, KeptIs
<1>3. /\ m \in Nat /\ h \in [1..m -> {i \in 1..n : s[i] \in set}]
      /\ Kept(s, set) = [k \in 1..m |-> s[h[k]]]
  BY <1>2 DEF Keeps, Runs
<1>4. \A k \in 1..m : s[h[k]] \in ToSet(s) \cap set
  BY <1>1, <1>3 DEF ToSet
<1>5. Kept(s, set) \in [1..m -> ToSet(s) \cap set]
  BY <1>3, <1>4
<1>6. QED
  BY <1>3, <1>5, FunctionIsSeq

\* The profile of an answer: its fields have selectors, and are those of the
\* page type whose container it has.
LEMMA ProfileIs ==
  ASSUME NEW r, IsSequence(r.configs),
         \A m1, m2 \in r.memory : m1 = m2,
         \A m \in r.memory : \A t \in DOMAIN m : IsFiniteSet(m[t].fields),
         NEW type
  PROVE  LET p == BuildSiteProfile(r, type)
         IN  /\ IsSequence(p.fields)
             /\ \A i \in DOMAIN p.fields : p.fields[i].selector # {}
             /\ r.configs = <<>> /\ p.fields # <<>> =>
                  \E m \in r.memory : \E t \in DOMAIN m :
                    /\ ToSet(p.fields) \subseteq m[t].fields
                    /\ IF m[t].container = {} THEN p.container = "div"
                                              ELSE p.container \in m[t].container
<1> DEFINE first == UNION {{m[t] : t \in DOMAIN m \cap {type}} : m \in r.memory}
           container == UNION {s.container : s \in first}
           fields == {f \in UNION {s.fields : s \in first} : f.selector # {}}
           configs == {f \in ToSet(r.configs) : f.selector # {}}
           p == BuildSiteProfile(r, type)
<1>1. /\ p.container = IF container = {} THEN "div" ELSE CHOOSE c \in container : TRUE
      /\ p.fields = IF r.configs # <<>> THEN Kept(r.configs, configs) ELSE SetToSeq(fields)
  BY DEF BuildSiteProfile
<1>2. \A s \in first : \E m \in r.memory : type \in DOMAIN m /\ s = m[type]
  OBVIOUS
<1> HIDE DEF p
<1>3. CASE r.configs # <<>>
  <2>1. p.fields \in Seq(ToSet(r.configs) \cap configs)
    BY <1>1, <1>3, KeptIsSequence
  <2>2. \A f \in ToSet(p.fields) : f.selector # {}
    BY <2>1, OfASet
  <2>3. \A i \in DOMAIN p.fields : p.fields[i] \in ToSet(p.fields)
    BY DEF ToSet
  <2>4. IsSequence(p.fields)
    BY <2>1, OfASet
  <2>5. QED
    BY <1>3, <2>2, <2>3, <2>4 DEF p
<1>4. CASE r.configs = <<>> /\ first = {}
  <2>1. fields = {}
    BY <1>4
  <2>2. p.fields = SetToSeq({})
    BY <1>1, <1>4, <2>1
  <2>3. p.fields \in Seq({})
    BY <2>2, SetToSeqIs, FS_EmptySet
  <2>4. p.fields = <<>> /\ IsSequence(p.fields)
    <3>1. Len(p.fields) \in Nat /\ p.fields \in [1..Len(p.fields) -> {}]
      BY <2>3, LenProperties
    <3>2. 1..Len(p.fields) = {}
      BY <3>1
    <3>3. Len(p.fields) = 0
      <4>1. PICK n \in Nat : n = Len(p.fields)
        BY <3>1
      <4>2. 1..n = {}
        BY <3>2, <4>1
      <4>3. n = 0
        BY <4>2
      <4>4. QED
        BY <4>1, <4>3
    <3>4. QED
      BY <2>3, <3>3, EmptySeq, OfASet
  <2>5. DOMAIN p.fields = {}
    BY <2>4
  <2>6. QED
    BY <2>4, <2>5 DEF p
<1>5. CASE r.configs = <<>> /\ first # {}
  <2>1. PICK m \in r.memory : type \in DOMAIN m
    BY <1>2, <1>5
  <2>2. first = {m[type]}
    <3>1. \A s \in first : s = m[type]
      BY <1>2, <2>1
    <3> HIDE DEF first
    <3>2. QED
      BY <1>5, <3>1
  <2>3. /\ container = m[type].container
        /\ fields = {f \in m[type].fields : f.selector # {}}
    BY <2>2
  <2> HIDE DEF container, fields, first
  <2>4. IsFiniteSet(fields)
    <3>1. IsFiniteSet(m[type].fields)
      BY <2>1
    <3>2. fields \in SUBSET m[type].fields
      BY <2>3
    <3>3. QED
      BY <3>1, <3>2, FS_Subset
  <2>5. p.fields \in Seq(fields)
    BY <1>1, <1>5, <2>4, SetToSeqIs
  <2>6. IsSequence(p.fields) /\ ToSet(p.fields) \subseteq fields
    BY <2>5, OfASet
  <2>7. \A i \in DOMAIN p.fields : p.fields[i] \in ToSet(p.fields)
    BY DEF ToSet
  <2>8. \A i \in DOMAIN p.fields : p.fields[i].selector # {}
    BY <2>3, <2>6, <2>7
  <2>9. /\ ToSet(p.fields) \subseteq m[type].fields
        /\ IF m[type].container = {} THEN p.container = "div"
                                     ELSE p.container \in m[type].container
    BY <1>1, <2>3, <2>6
  <2>10. QED
    BY <2>1, <2>6, <2>8, <2>9 DEF p
<1>6. QED
  BY <1>3, <1>4, <1>5

\* What ParseNumber returns.
LEMMA PriceIs ==
  ASSUME NEW s \in Seq(PriceMarks)
  PROVE  LET kept == Kernel(s)
         IN  /\ \A t \in ParseNumber(s) : IsFloat(t) /\ Count(t, "1") = Count(kept, "1")
             /\ PlainNumber(kept) =>
                  \E t \in ParseNumber(s) : Len(t) = Len(kept) /\ Cuts(t) = Cuts(kept)
<1> DEFINE kept == Kernel(s)
           dotted == [i \in DOMAIN kept |-> IF kept[i] = "," THEN "." ELSE kept[i]]
           m == Len(kept)
<1>1. PriceMarks \ {"x"} = {"1", ".", ",", "-"}
  BY DEF PriceMarks
<1>2. kept = Kept(s, {"1", ".", ",", "-"})
  BY <1>1 DEF Kernel
<1>3. ParseNumber(s) = {t \in {dotted} : IsFloat(t)}
  BY <1>2 DEF ParseNumber
<1>4. kept \in Seq(PriceMarks)
  <2>1. IsSequence(s)
    BY OfASet
  <2>2. kept \in Seq(ToSet(s) \cap {"1", ".", ",", "-"})
    BY <1>2, <2>1, KeptIsSequence
  <2> HIDE DEF kept
  <2>3. ToSet(s) \cap {"1", ".", ",", "-"} \subseteq PriceMarks
    BY DEF PriceMarks
  <2>4. QED
    BY <2>2, <2>3, SeqMonotonic
<1> HIDE DEF kept
<1>5. m \in Nat /\ DOMAIN kept = 1..m /\ kept \in [1..m -> PriceMarks]
  BY <1>4, LenProperties
<1>6. /\ dotted \in [1..m -> PriceMarks]
      /\ \A i \in 1..m : dotted[i] = IF kept[i] = "," THEN "." ELSE kept[i]
  BY <1>5 DEF PriceMarks
<1> HIDE DEF m, dotted
<1>7. Len(dotted) = m /\ DOMAIN dotted = 1..m
  BY <1>5, <1>6, FunctionIsSeq
<1>8. Cuts(dotted) = Cuts(kept) /\ Cuts(dotted) = {i \in DOMAIN dotted : dotted[i] = "."}
  <2>1. \A i \in 1..m : /\ dotted[i] \in {".", ","} <=> kept[i] \in {".", ","}
                        /\ dotted[i] \in {".", ","} <=> dotted[i] = "."
    BY <1>6
  <2>2. QED
    BY <1>5, <1>7, <2>1 DEF Cuts
<1>9. Count(dotted, ".") = Cardinality(Cuts(kept))
  BY <1>8 DEF Count
<1>10. Count(dotted, "1") = Count(kept, "1")
  <2>1. \A i \in 1..m : dotted[i] = "1" <=> kept[i] = "1"
    BY <1>6
  <2>2. {i \in DOMAIN dotted : dotted[i] = "1"} = {i \in DOMAIN kept : kept[i] = "1"}
    BY <1>5, <1>7, <2>1
  <2>3. QED
    BY <2>2 DEF Count
<1>11. ASSUME PlainNumber(kept) PROVE Cardinality(Cuts(kept)) <= 1
  <2> DEFINE C == Cuts(kept)
  <2>1. \A i, j \in C : i = j
    BY <1>11 DEF PlainNumber
  <2> HIDE DEF C
  <2>2. CASE C = {}
    <3>1. Cardinality(C) = 0
      BY <2>2, FS_EmptySet
    <3>2. QED
      BY <3>1 DEF C
  <2>3. CASE C # {}
    <3>1. PICK i \in C : C = {i}
      BY <2>1, <2>3
    <3>2. Cardinality(C) = 1
      BY <3>1, FS_Singleton
    <3>3. QED
      BY <3>2 DEF C
  <2>4. QED
    BY <2>2, <2>3
<1>12. ASSUME PlainNumber(kept) PROVE IsFloat(dotted)
  <2>a. "1" \in ToSet(kept) /\ "-" \notin ToSet(Tail(kept))
    BY <1>12 DEF PlainNumber
  <2>b. Cardinality(Cuts(kept)) <= 1
    BY <1>11, <1>12
  <2>1. Count(dotted, "1") > 0
    <3> DEFINE ones == {i \in DOMAIN dotted : dotted[i] = "1"}
    <3>1. PICK i \in 1..m : kept[i] = "1"
      BY <1>5, <2>a DEF ToSet
    <3>2. i \in ones
      BY <1>6, <1>7, <3>1
    <3>3. ones \in SUBSET (1..m)
      BY <1>7
    <3> HIDE DEF ones
    <3>4. IsFiniteSet(1..m)
      <4>1. m \in Int
        BY <1>5
      <4>2. QED
        BY <4>1, FS_Interval
    <3>5. IsFiniteSet(ones)
      BY <3>3, <3>4, FS_Subset
    <3>6. Cardinality(ones) \in Nat /\ Cardinality(ones) # 0
      BY <3>2, <3>5, FS_CardinalityType, FS_EmptySet
    <3>7. Cardinality(ones) > 0
      BY <3>6
    <3>8. QED
      BY <3>7 DEF Count, ones
  <2>2. ASSUME NEW i \in 1..m, dotted[i] = "-" PROVE i = 1
    <3>1. kept[i] = "-"
      BY <1>6, <2>2
    <3>2. SUFFICES ASSUME i # 1 PROVE FALSE
      OBVIOUS
    <3>3. i \in Nat /\ i - 1 \in 1..m - 1 /\ m # 0 /\ i = i - 1 + 1
      <4>1. m \in Nat
        BY <1>5
      <4>2. i \in Nat /\ 1 <= i /\ i <= m
        BY <4>1
      <4>3. QED
        BY <3>2, <4>1, <4>2
    <3>4. kept # <<>>
      BY <1>5, <3>3, EmptySeq DEF m
    <3>5. /\ Tail(kept) \in Seq(PriceMarks) /\ Len(Tail(kept)) = m - 1
          /\ \A j \in 1..m - 1 : Tail(kept)[j] = kept[j + 1]
      BY <1>4, <3>4, HeadTailProperties DEF m
    <3>6. DOMAIN Tail(kept) = 1..m - 1
      BY <3>5, LenProperties
    <3>7. Tail(kept)[i - 1] = "-"
      BY <3>1, <3>3, <3>5
    <3>8. "-" \in ToSet(Tail(kept))
      BY <3>3, <3>6, <3>7 DEF ToSet
    <3>9. QED
      BY <2>a, <3>8
  <2>3. QED
    BY <1>7, <1>9, <2>b, <2>1, <2>2 DEF IsFloat
<1>13. Len(dotted) = Len(kept) /\ Cuts(dotted) = Cuts(kept)
  BY <1>7, <1>8 DEF m
<1> HIDE DEF kept
<1>14. QED
  BY <1>3, <1>10, <1>12, <1>13 DEF kept

(***************************************************************************)
(* From the agent's answer to the values of records, whatever the answer,  *)
(* the page and the texts are: a profile is of one page type (main.rs      *)
(* 572), a record has values of its own container only (selector.rs 27),   *)
(* and what comes out of a price is a number of its digits (selector.rs    *)
(* 128): the very number, when the text has no other mark than one that    *)
(* separates decimals.  A separator of thousands is read as one of         *)
(* decimals, and a unit with a full stop drops the value.                  *)
(***************************************************************************)
THEOREM RecordsStayOwn == Spec => []RecordsAreOwn
<1>1. Init => RecordsAreOwn
  BY DEF Init, RecordsAreOwn, ProfileIsOfOnePageType, NoRecordBorrows, PricesAreRead
<1>2. ASSUME RecordsAreOwn, [Next]_vars PROVE RecordsAreOwn'
  <2>1. CASE Extraction
    <3>1. PICK r \in Responses, containers \in Containers :
            \E type \in UNION {DOMAIN m : m \in r.memory} \cup {"none"} :
              LET profile == BuildSiteProfile(r, type)
              IN /\ type = "none" => \A m \in r.memory : DOMAIN m = {}
                 /\ Call("extract", [response |-> r, type |-> type, containers |-> containers],
                         [profile |-> profile,
                          records |-> ExtractRecords(containers, profile.fields)])
      BY <2>1 DEF Extraction
    <3>2. PICK type :
            Call("extract", [response |-> r, type |-> type, containers |-> containers],
                 [profile |-> BuildSiteProfile(r, type),
                  records |-> ExtractRecords(containers, BuildSiteProfile(r, type).fields)])
      BY <3>1
    <3> DEFINE p == BuildSiteProfile(r, type)
               records == ExtractRecords(containers, p.fields)
    <3>3. /\ call' = "extract" /\ input'.response = r /\ input'.containers = containers
          /\ output'.profile = p /\ output'.records = records
      BY <3>2 DEF Call
    <3>4. /\ IsSequence(r.configs)
          /\ \A m1, m2 \in r.memory : m1 = m2
          /\ \A m \in r.memory : \A t \in DOMAIN m : IsFiniteSet(m[t].fields)
          /\ IsSequence(containers)
      BY ParsersAssumption
    <3>5. /\ IsSequence(p.fields)
          /\ \A i \in DOMAIN p.fields : p.fields[i].selector # {}
          /\ r.configs = <<>> /\ p.fields # <<>> =>
               \E m \in r.memory : \E t \in DOMAIN m :
                 /\ ToSet(p.fields) \subseteq m[t].fields
                 /\ IF m[t].container = {} THEN p.container = "div"
                                           ELSE p.container \in m[t].container
      BY <3>4, ProfileIs
    <3>6. ProfileIsOfOnePageType'
      <4> HIDE DEF p
      <4>1. QED
        BY <3>3, <3>5 DEF ProfileIsOfOnePageType
    <3>7. Own(records, containers, p.fields)
      <4> HIDE DEF p
      <4>1. QED
        BY <3>4, <3>5, RecordsAre
    <3>8. NoRecordBorrows'
      <4> HIDE DEF p, records
      <4>1. QED
        BY <3>3, <3>7 DEF NoRecordBorrows
    <3>9. PricesAreRead'
      BY <3>3 DEF PricesAreRead
    <3>10. QED
      BY <3>6, <3>8, <3>9 DEF RecordsAreOwn
  <2>2. CASE ReadPrice
    <3>1. PICK s \in Prices : Call("price", s, ParseNumber(s))
      BY <2>2 DEF ReadPrice
    <3>2. call' = "price" /\ input' = s /\ output' = ParseNumber(s)
      BY <3>1 DEF Call
    <3>3. s \in Seq(PriceMarks)
      BY ParsersAssumption
    <3>4. PricesAreRead'
      BY <3>2, <3>3, PriceIs DEF PricesAreRead
    <3>5. ProfileIsOfOnePageType' /\ NoRecordBorrows'
      BY <3>2 DEF ProfileIsOfOnePageType, NoRecordBorrows
    <3>6. QED
      BY <3>4, <3>5 DEF RecordsAreOwn
  <2>3. CASE Read /\ ~ Extraction /\ ~ ReadPrice
    <3>1. call' # "extract" /\ call' # "price"
      BY <2>3 DEF Read, Call, ReadAnswer, Sanitize, ReadLinks, DetectAntiBot, Summary,
                  NavigatePath, Interact
    <3>2. QED
      BY <3>1 DEF RecordsAreOwn, ProfileIsOfOnePageType, NoRecordBorrows, PricesAreRead
  <2>4. CASE Return
    BY <2>4 DEF Return, RecordsAreOwn, ProfileIsOfOnePageType, NoRecordBorrows, PricesAreRead
  <2>5. CASE UNCHANGED vars
    <3>1. call' = call /\ input' = input /\ output' = output
      BY <2>5 DEF vars
    <3>2. ProfileIsOfOnePageType'
      BY <1>2, <3>1 DEF RecordsAreOwn, ProfileIsOfOnePageType
    <3>3. NoRecordBorrows'
      BY <1>2, <3>1 DEF RecordsAreOwn, NoRecordBorrows
    <3>4. PricesAreRead'
      BY <1>2, <3>1 DEF RecordsAreOwn, PricesAreRead
    <3>5. QED
      BY <3>2, <3>3, <3>4 DEF RecordsAreOwn
  <2>6. QED
    BY <1>2, <2>1, <2>2, <2>3, <2>4, <2>5 DEF Next
<1>3. QED
  BY <1>1, <1>2, PTL DEF Spec

-----------------------------------------------------------------------------
(* Folds.                                                                  *)

\* it goes through the sets of places up to n as Goes says.
Through(it, n, Vs, base, next) ==
  /\ it[{}] = base
  /\ \A w \in SUBSET (1..n) : w # {} /\ it[w \ {Max(w)}] \in Vs =>
       it[w] = next[Max(w)][it[w \ {Max(w)}]]

\* c goes through the places up to n, one by one.
Walks(c, n, Vs, base, next) ==
  /\ c \in [0..n -> Vs]
  /\ c[0] = base
  /\ \A k \in 1..n : c[k] = next[k][c[k - 1]]

\* base and every next[k] are of Vs.
Moves(n, Vs, base, next) ==
  /\ n \in Nat
  /\ base \in Vs
  /\ next \in [1..n -> [Vs -> Vs]]

\* c goes to all.
Ends(c, n, Vs, base, next, all) == Walks(c, n, Vs, base, next) /\ c[n] = all

\* What goes through the sets of places goes through the places one by one.
LEMMA FoldSteps ==
  ASSUME NEW Vs, NEW base, NEW n, NEW next, Moves(n, Vs, base, next),
         NEW it, Through(it, n, Vs, base, next)
  PROVE  \E c : Ends(c, n, Vs, base, next, it[1..n])
<1> DEFINE c == [k \in 0..n |-> it[1..k]]
           S == {k \in Nat : k <= n => it[1..k] \in Vs}
<1>0. n \in Nat /\ base \in Vs /\ next \in [1..n -> [Vs -> Vs]]
  BY DEF Moves
<1>1. 1..0 = {} /\ it[{}] = base
  BY DEF Through
<1>2. ASSUME NEW k \in Nat, k + 1 <= n, it[1..k] \in Vs
      PROVE  it[1..k + 1] = next[k + 1][it[1..k]]
  <2> DEFINE j == k + 1
  <2>1. j \in Nat /\ j > 0 /\ j - 1 = k
    BY <1>2
  <2>2. 1..j \in SUBSET (1..n)
    BY <1>0, <1>2
  <2> HIDE DEF j
  <2>3. Max(1..j) = j /\ (1..j) \ {j} = 1..k /\ 1..j # {}
    BY <2>1, PlacesUpTo
  <2>4. it[1..j] = next[j][it[1..k]]
    BY <1>2, <2>2, <2>3 DEF Through
  <2>5. QED
    BY <2>4 DEF j
<1>3. 0 \in S
  BY <1>0, <1>1
<1>4. ASSUME NEW k \in Nat, k \in S PROVE k + 1 \in S
  <2>1. SUFFICES ASSUME k + 1 <= n PROVE it[1..k + 1] \in Vs
    BY <1>0
  <2>2. it[1..k] \in Vs /\ k + 1 \in 1..n
    BY <1>0, <1>4, <2>1
  <2>3. it[1..k + 1] = next[k + 1][it[1..k]]
    BY <1>2, <2>1, <2>2
  <2>4. QED
    BY <1>0, <2>2, <2>3
<1> HIDE DEF S
<1>5. Nat \subseteq S
  BY <1>3, <1>4, SetInduction
<1>6. \A k \in 0..n : it[1..k] \in Vs
  BY <1>0, <1>5 DEF S
<1>7. c \in [0..n -> Vs] /\ c[0] = base /\ c[n] = it[1..n]
  <2>1. 0 \in 0..n /\ n \in 0..n
    BY <1>0
  <2>2. QED
    BY <1>0, <1>1, <1>6, <2>1
<1>8. ASSUME NEW k \in 1..n PROVE c[k] = next[k][c[k - 1]]
  <2>1. k - 1 \in Nat /\ k - 1 + 1 = k /\ k <= n /\ k - 1 \in 0..n /\ k \in 0..n
    BY <1>0
  <2>2. it[1..k] = next[k][it[1..k - 1]]
    BY <1>0, <1>2, <1>6, <2>1
  <2>3. QED
    BY <2>1, <2>2
<1> HIDE DEF c
<1>9. Ends(c, n, Vs, base, next, it[1..n])
  BY <1>7, <1>8 DEF Walks, Ends
<1>10. QED
  BY <1>9

\* c counts the bytes of a text, character by character.
BytesGo(c, s) ==
  /\ Bytes(s) = c[Len(s)]
  /\ c[0] = 0
  /\ \A k \in 0..Len(s) : c[k] \in Nat
  /\ \A k \in 1..Len(s) : c[k] = c[k - 1] + s[k]

\* Such a c there is.
LEMMA BytesFold ==
  ASSUME NEW s \in Seq(Nat)
  PROVE  \E c : BytesGo(c, s)
<1> DEFINE n == Len(s)
           It(g) == g = [w \in SUBSET (1..n) |->
                           IF w = {} THEN 0 ELSE g[w \ {Max(w)}] + s[Max(w)]]
           it == CHOOSE g : It(g)
           next == [k \in 1..n |-> [v \in Nat |-> v + s[k]]]
<1>1. n \in Nat /\ DOMAIN s = 1..n /\ \A k \in 1..n : s[k] \in Nat
  BY LenProperties, ElementOfSeq
<1>2. Bytes(s) = it[1..n]
  BY <1>1 DEF Bytes, FoldLeft, MapThenFoldSet
<1> HIDE DEF n
<1>3. 0 \in Nat
  OBVIOUS
<1>4. next \in [1..n -> [Nat -> Nat]]
  BY <1>1
<1>5. \A k \in 1..n, v \in Nat : next[k][v] = v + s[k]
  OBVIOUS
<1> HIDE DEF next
<1>6. \E g : It(g)
  <2>1. PICK g \in [SUBSET (1..n) -> Nat] : Goes(g, n, 0, next)
    BY <1>1, <1>3, <1>4, SetRecursion
  <2>2. ASSUME NEW w \in SUBSET (1..n), w # {}
        PROVE  g[w] = g[w \ {Max(w)}] + s[Max(w)]
    <3>1. Max(w) \in 1..n /\ w \ {Max(w)} \in SUBSET (1..n)
      BY <1>1, <2>2, MaxOf
    <3>2. g[w \ {Max(w)}] \in Nat
      BY <2>1, <3>1
    <3>3. QED
      BY <1>5, <2>1, <2>2, <3>1, <3>2 DEF Goes
  <2>3. It(g)
    BY <2>1, <2>2 DEF Goes
  <2>4. QED
    BY <2>3
<1>7. It(it)
  BY <1>6
<1> HIDE DEF it
<1>8. it[{}] = 0
  BY <1>7
<1>9. ASSUME NEW w \in SUBSET (1..n), w # {}, it[w \ {Max(w)}] \in Nat
      PROVE  it[w] = next[Max(w)][it[w \ {Max(w)}]]
  <2>1. Max(w) \in 1..n
    BY <1>1, <1>9, MaxOf
  <2>2. it[w] = it[w \ {Max(w)}] + s[Max(w)]
    BY <1>7, <1>9
  <2>3. QED
    BY <1>5, <1>9, <2>1, <2>2
<1>10. Through(it, n, Nat, 0, next)
  BY <1>8, <1>9 DEF Through
<1>11. PICK c : Ends(c, n, Nat, 0, next, it[1..n])
  <2>1. Moves(n, Nat, 0, next)
    BY <1>1, <1>3, <1>4 DEF Moves
  <2>2. QED
    BY <1>10, <2>1, FoldSteps
<1>12. /\ c \in [0..n -> Nat] /\ c[0] = 0 /\ c[n] = it[1..n]
       /\ \A k \in 1..n : c[k] = next[k][c[k - 1]]
  BY <1>11 DEF Walks, Ends
<1>13. ASSUME NEW k \in 1..n PROVE c[k] = c[k - 1] + s[k]
  <2>1. k - 1 \in 0..n
    BY <1>1
  <2>2. QED
    BY <1>5, <1>12, <2>1
<1>14. BytesGo(c, s)
  BY <1>1, <1>2, <1>12, <1>13 DEF n, BytesGo
<1>15. QED
  BY <1>14

\* c puts sequences one after the other, one by one.
FlatGo(c, U, seqs) ==
  /\ Flat(seqs) = c[Len(seqs)]
  /\ c[0] = <<>>
  /\ \A k \in 0..Len(seqs) : c[k] \in Seq(U)
  /\ \A k \in 1..Len(seqs) : c[k] = c[k - 1] \o seqs[k]

\* Such a c there is.
LEMMA FlatFold ==
  ASSUME NEW U, NEW seqs \in Seq(Seq(U))
  PROVE  \E c : FlatGo(c, U, seqs)
<1> DEFINE n == Len(seqs)
           It(g) == g = [w \in SUBSET (1..n) |->
                           IF w = {} THEN <<>> ELSE g[w \ {Max(w)}] \o seqs[Max(w)]]
           it == CHOOSE g : It(g)
           next == [k \in 1..n |-> [v \in Seq(U) |-> v \o seqs[k]]]
<1>1. n \in Nat /\ DOMAIN seqs = 1..n /\ \A k \in 1..n : seqs[k] \in Seq(U)
  BY LenProperties, ElementOfSeq
<1>2. Flat(seqs) = it[1..n]
  BY <1>1 DEF Flat, FoldLeft, MapThenFoldSet
<1> HIDE DEF n
<1>3. <<>> \in Seq(U)
  BY EmptySeq
<1>4. next \in [1..n -> [Seq(U) -> Seq(U)]]
  <2>1. \A k \in 1..n, v \in Seq(U) : v \o seqs[k] \in Seq(U)
    BY <1>1, ConcatProperties
  <2>2. QED
    BY <2>1
<1>5. \A k \in 1..n, v \in Seq(U) : next[k][v] = v \o seqs[k]
  OBVIOUS
<1> HIDE DEF next
<1>6. \E g : It(g)
  <2>1. PICK g \in [SUBSET (1..n) -> Seq(U)] : Goes(g, n, <<>>, next)
    BY <1>1, <1>3, <1>4, SetRecursion
  <2>2. ASSUME NEW w \in SUBSET (1..n), w # {}
        PROVE  g[w] = g[w \ {Max(w)}] \o seqs[Max(w)]
    <3>1. Max(w) \in 1..n /\ w \ {Max(w)} \in SUBSET (1..n)
      BY <1>1, <2>2, MaxOf
    <3>2. g[w \ {Max(w)}] \in Seq(U)
      BY <2>1, <3>1
    <3>3. QED
      BY <1>5, <2>1, <2>2, <3>1, <3>2 DEF Goes
  <2>3. It(g)
    BY <2>1, <2>2 DEF Goes
  <2>4. QED
    BY <2>3
<1>7. It(it)
  BY <1>6
<1> HIDE DEF it
<1>8. it[{}] = <<>>
  BY <1>7
<1>9. ASSUME NEW w \in SUBSET (1..n), w # {}, it[w \ {Max(w)}] \in Seq(U)
      PROVE  it[w] = next[Max(w)][it[w \ {Max(w)}]]
  <2>1. Max(w) \in 1..n
    BY <1>1, <1>9, MaxOf
  <2>2. it[w] = it[w \ {Max(w)}] \o seqs[Max(w)]
    BY <1>7, <1>9
  <2>3. QED
    BY <1>5, <1>9, <2>1, <2>2
<1>10. Through(it, n, Seq(U), <<>>, next)
  BY <1>8, <1>9 DEF Through
<1>11. PICK c : Ends(c, n, Seq(U), <<>>, next, it[1..n])
  <2>1. Moves(n, Seq(U), <<>>, next)
    BY <1>1, <1>3, <1>4 DEF Moves
  <2>2. QED
    BY <1>10, <2>1, FoldSteps
<1>12. /\ c \in [0..n -> Seq(U)] /\ c[0] = <<>> /\ c[n] = it[1..n]
       /\ \A k \in 1..n : c[k] = next[k][c[k - 1]]
  BY <1>11 DEF Walks, Ends
<1>13. ASSUME NEW k \in 1..n PROVE c[k] = c[k - 1] \o seqs[k]
  <2>1. k - 1 \in 0..n
    BY <1>1
  <2>2. QED
    BY <1>5, <1>12, <2>1
<1>14. FlatGo(c, U, seqs)
  BY <1>1, <1>2, <1>12, <1>13 DEF n, FlatGo
<1>15. QED
  BY <1>14

\* A text has a number of bytes, none of them when it is empty, and as many as it
\* has characters when each is of one byte.
LEMMA BytesAre ==
  ASSUME NEW s \in Seq(Nat)
  PROVE  /\ Bytes(s) \in Nat
         /\ s = <<>> => Bytes(s) = 0
         /\ (\A i \in 1..Len(s) : s[i] = 1) => Bytes(s) = Len(s)
<1> DEFINE n == Len(s)
<1>1. n \in Nat
  BY LenProperties
<1>2. PICK c : BytesGo(c, s)
  BY BytesFold
<1>3. /\ Bytes(s) = c[n] /\ c[0] = 0
      /\ \A k \in 0..n : c[k] \in Nat
      /\ \A k \in 1..n : c[k] = c[k - 1] + s[k]
  BY <1>2 DEF BytesGo
<1>4. s = <<>> => n = 0
  BY EmptySeq
<1>5. ASSUME \A i \in 1..n : s[i] = 1 PROVE c[n] = n
  <2> DEFINE S == {k \in Nat : k <= n => c[k] = k}
  <2>1. 0 \in S
    BY <1>3
  <2>2. ASSUME NEW k \in Nat, k \in S PROVE k + 1 \in S
    <3>1. SUFFICES ASSUME k + 1 <= n PROVE c[k + 1] = k + 1
      OBVIOUS
    <3>2. c[k] = k /\ k + 1 \in 1..n /\ k + 1 - 1 = k
      BY <1>1, <2>2, <3>1
    <3>3. c[k + 1] = c[k] + s[k + 1] /\ s[k + 1] = 1
      BY <1>3, <1>5, <3>2
    <3>4. QED
      BY <3>2, <3>3
  <2> HIDE DEF S
  <2>3. Nat \subseteq S
    BY <2>1, <2>2, SetInduction
  <2>4. QED
    BY <1>1, <2>3 DEF S
<1> HIDE DEF n
<1>6. c[n] \in Nat
  BY <1>1, <1>3
<1>7. QED
  BY <1>3, <1>4, <1>5, <1>6 DEF n

\* Two texts have their bytes together.
LEMMA BytesTogether ==
  ASSUME NEW s \in Seq(Nat), NEW t \in Seq(Nat)
  PROVE  Bytes(s \o t) = Bytes(s) + Bytes(t)
<1> DEFINE u == s \o t
           n == Len(s)
           m == Len(t)
<1>1. /\ n \in Nat /\ m \in Nat /\ u \in Seq(Nat) /\ Len(u) = n + m
      /\ \A i \in 1..n : u[i] = s[i] /\ s[i] \in Nat
      /\ \A i \in 1..m : u[n + i] = t[i] /\ t[i] \in Nat
  <2>1. n \in Nat /\ m \in Nat /\ u \in Seq(Nat) /\ Len(u) = n + m
    BY ConcatProperties, LenProperties
  <2>2. \A i \in 1..n + m : u[i] = IF i <= n THEN s[i] ELSE t[i - n]
    BY ConcatProperties
  <2>3. ASSUME NEW i \in 1..n PROVE u[i] = s[i] /\ s[i] \in Nat
    <3>1. i \in 1..n + m /\ i <= n
      BY <2>1
    <3>2. s[i] \in Nat
      BY ElementOfSeq
    <3>3. QED
      BY <2>2, <3>1, <3>2
  <2>4. ASSUME NEW i \in 1..m PROVE u[n + i] = t[i] /\ t[i] \in Nat
    <3>1. n + i \in 1..n + m /\ ~ n + i <= n /\ n + i - n = i
      BY <2>1
    <3>2. t[i] \in Nat
      BY ElementOfSeq
    <3>3. QED
      BY <2>2, <3>1, <3>2
  <2>5. QED
    BY <2>1, <2>3, <2>4
<1> HIDE DEF u
<1>2. PICK c : BytesGo(c, s)
  BY BytesFold
<1>3. PICK d : BytesGo(d, t)
  BY BytesFold
<1>4. PICK e : BytesGo(e, u)
  BY <1>1, BytesFold
<1>5. /\ Bytes(s) = c[n] /\ c[0] = 0
      /\ \A k \in 0..n : c[k] \in Nat
      /\ \A k \in 1..n : c[k] = c[k - 1] + s[k]
  BY <1>2 DEF BytesGo
<1>6. /\ Bytes(t) = d[m] /\ d[0] = 0
      /\ \A k \in 0..m : d[k] \in Nat
      /\ \A k \in 1..m : d[k] = d[k - 1] + t[k]
  BY <1>3 DEF BytesGo
<1>7. /\ Bytes(u) = e[n + m] /\ e[0] = 0
      /\ \A k \in 1..n + m : e[k] = e[k - 1] + u[k]
  BY <1>1, <1>4 DEF BytesGo
<1> HIDE DEF n, m
<1> DEFINE S == {k \in Nat : k <= n => e[k] = c[k]}
           T == {k \in Nat : k <= m => e[n + k] = c[n] + d[k]}
<1>8. Nat \subseteq S
  <2>1. 0 \in S
    BY <1>5, <1>7
  <2>2. ASSUME NEW k \in Nat, k \in S PROVE k + 1 \in S
    <3>1. SUFFICES ASSUME k + 1 <= n PROVE e[k + 1] = c[k + 1]
      OBVIOUS
    <3> DEFINE j == k + 1
    <3>2. e[k] = c[k] /\ j \in 1..n /\ j \in 1..(n + m) /\ j - 1 = k
      BY <1>1, <2>2, <3>1
    <3> HIDE DEF j
    <3>3. e[j] = e[j - 1] + u[j]
      BY <1>7, <3>2
    <3>4. c[j] = c[j - 1] + s[j] /\ u[j] = s[j]
      BY <1>1, <1>5, <3>2
    <3>5. QED
      BY <3>2, <3>3, <3>4 DEF j
  <2> HIDE DEF S
  <2>3. QED
    BY <2>1, <2>2, SetInduction
<1>9. e[n] = c[n] /\ c[n] \in Nat
  BY <1>1, <1>5, <1>8
<1>10. Nat \subseteq T
  <2>1. 0 \in T
    BY <1>1, <1>6, <1>9
  <2>2. ASSUME NEW k \in Nat, k \in T PROVE k + 1 \in T
    <3>1. SUFFICES ASSUME k + 1 <= m PROVE e[n + (k + 1)] = c[n] + d[k + 1]
      OBVIOUS
    <3> DEFINE j == k + 1
               i == n + (k + 1)
               x == c[n]
               y == d[k]
               z == t[k + 1]
    <3>2. /\ e[n + k] = x + y /\ j \in 1..m /\ i \in 1..(n + m) /\ i = n + j
          /\ i - 1 = n + k /\ j - 1 = k /\ k \in 0..m /\ z = t[j]
      BY <1>1, <2>2, <3>1
    <3> HIDE DEF i, j
    <3>3. u[i] = t[j] /\ t[j] \in Nat
      BY <1>1, <3>2
    <3>4. y \in Nat /\ x \in Nat
      BY <1>6, <1>9, <3>2
    <3> HIDE DEF x, y, z
    <3>5. e[i] = e[i - 1] + u[i] /\ d[j] = d[j - 1] + t[j]
      BY <1>6, <1>7, <3>2
    <3>6. e[i] = (x + y) + z /\ d[j] = y + z
      BY <3>2, <3>3, <3>5 DEF y
    <3>7. e[i] = x + d[j]
      BY <3>2, <3>3, <3>4, <3>6
    <3>8. QED
      BY <3>7 DEF i, j, x
  <2> HIDE DEF T
  <2>3. QED
    BY <2>1, <2>2, SetInduction
<1>11. e[n + m] = c[n] + d[m]
  BY <1>1, <1>10
<1>12. QED
  BY <1>5, <1>6, <1>7, <1>11 DEF u

\* Flat makes one sequence, and of a single sequence that one.
LEMMA FlatIs ==
  ASSUME NEW U, NEW seqs \in Seq(Seq(U))
  PROVE  Flat(seqs) \in Seq(U) /\ (Len(seqs) = 1 => Flat(seqs) = seqs[1])
<1> DEFINE n == Len(seqs)
<1>1. n \in Nat /\ DOMAIN seqs = 1..n
  BY LenProperties
<1>2. PICK c : FlatGo(c, U, seqs)
  BY FlatFold
<1>3. /\ Flat(seqs) = c[n] /\ c[0] = <<>>
      /\ \A k \in 0..n : c[k] \in Seq(U)
      /\ \A k \in 1..n : c[k] = c[k - 1] \o seqs[k]
  BY <1>2 DEF FlatGo
<1>4. Flat(seqs) \in Seq(U)
  BY <1>1, <1>3
<1>5. ASSUME n = 1 PROVE Flat(seqs) = seqs[1]
  <2>0. 1 \in 1..n /\ 1 - 1 = 0
    BY <1>5
  <2>1. c[1] = <<>> \o seqs[1]
    BY <1>3, <2>0
  <2>2. seqs[1] \in Seq(U)
    BY <2>0, ElementOfSeq
  <2>3. <<>> \o seqs[1] = seqs[1]
    BY <2>2, ConcatEmptySeq
  <2>4. QED
    BY <1>3, <1>5, <2>1, <2>3
<1>6. QED
  BY <1>4, <1>5

\* What is kept of a sequence of one member.
LEMMA KeptOfOne ==
  ASSUME NEW U, NEW s \in Seq(U), Len(s) = 1, NEW set
  PROVE  Kept(s, set) = IF s[1] \in set THEN s ELSE <<>>
<1>1. DOMAIN s = 1..1
  BY LenProperties
<1>2. CASE s[1] \in set
  BY <1>1, <1>2, KeepsAll
<1>3. CASE s[1] \notin set
  <2>1. PICK m, h : Keeps(h, m, s, 1, set)
    BY <1>1, KeptIs
  <2>2. {i \in 1..1 : s[i] \in set} = {}
    BY <1>3
  <2>3. m \in Nat /\ Runs(h, m, {}) /\ Kept(s, set) = [k \in 1..m |-> s[h[k]]]
    BY <2>1, <2>2 DEF Keeps
  <2>4. m = 0
    BY <2>3 DEF Runs
  <2>5. 1..0 = {}
    OBVIOUS
  <2>6. QED
    BY <1>3, <2>3, <2>4, <2>5
<1>4. QED
  BY <1>2, <1>3

\* The blocks of a page are scripts of the page.
LEMMA BlocksAre ==
  ASSUME NEW page, IsSequence(page)
  PROVE  ExtractSpaJson(page) \in Seq(ToSet(page))
<1> DEFINE parts == [k \in DOMAIN Sources |->
                       Kept(page, {b \in ToSet(page) : b.source = Sources[k] /\ b.valid})]
<1>1. DOMAIN Sources = 1..4
  BY DEF Sources
<1>2. ASSUME NEW k \in 1..4 PROVE parts[k] \in Seq(ToSet(page))
  <2> DEFINE set == {b \in ToSet(page) : b.source = Sources[k] /\ b.valid}
  <2>1. Kept(page, set) \in Seq(ToSet(page) \cap set)
    BY KeptIsSequence
  <2>2. ToSet(page) \cap set \subseteq ToSet(page)
    OBVIOUS
  <2>3. Kept(page, set) \in Seq(ToSet(page))
    BY <2>1, <2>2, SeqMonotonic
  <2>4. QED
    BY <1>1, <2>3
<1>3. parts \in [1..4 -> Seq(ToSet(page))]
  BY <1>1, <1>2
<1>4. ExtractSpaJson(page) = Flat(parts)
  BY DEF ExtractSpaJson
<1> HIDE DEF parts
<1>5. parts \in Seq(Seq(ToSet(page)))
  <2>1. 4 \in Nat
    OBVIOUS
  <2>2. QED
    BY <1>3, <2>1, FunctionIsSeq
<1>6. QED
  BY <1>4, <1>5, FlatIs

\* A page of one script has that block or none.
LEMMA BlocksOfOne ==
  ASSUME NEW U, NEW page \in Seq(U), Len(page) = 1
  PROVE  ExtractSpaJson(page) = <<>> \/ ExtractSpaJson(page) = page
<1> DEFINE n == Len(Sources)
<1>0. n \in Nat /\ DOMAIN Sources = 1..n
  BY DEF Sources
<1> DEFINE set(k) == {b \in ToSet(page) : b.source = Sources[k] /\ b.valid}
           parts == [k \in DOMAIN Sources |-> Kept(page, set(k))]
<1>1. DOMAIN Sources = 1..n /\ \A j, k \in 1..n : Sources[j] = Sources[k] => j = k
  BY <1>0 DEF Sources
<1> HIDE DEF n
<1>2. page # <<>>
  BY EmptySeq
<1>3. ASSUME NEW k \in 1..n
      PROVE  parts[k] = <<>> \/ (parts[k] = page /\ page[1].source = Sources[k])
  <2>1. parts[k] = Kept(page, set(k))
    BY <1>1
  <2>2. page[1] \in set(k) => page[1].source = Sources[k]
    OBVIOUS
  <2> HIDE DEF set
  <2>3. Kept(page, set(k)) = IF page[1] \in set(k) THEN page ELSE <<>>
    BY KeptOfOne
  <2>4. QED
    BY <2>1, <2>2, <2>3
<1>4. parts \in [1..n -> Seq(U)]
  <2>1. <<>> \in Seq(U)
    BY EmptySeq
  <2>2. \A k \in 1..n : parts[k] \in Seq(U)
    BY <1>3, <2>1
  <2> HIDE DEF set
  <2>3. QED
    BY <1>0, <1>1, <2>2
<1>5. ExtractSpaJson(page) = Flat(parts)
  BY DEF ExtractSpaJson
<1> HIDE DEF set, parts
<1>7. parts \in Seq(Seq(U)) /\ Len(parts) = n
  BY <1>0, <1>4, FunctionIsSeq
<1>8. PICK c : FlatGo(c, U, parts)
  BY <1>7, FlatFold
<1>9. Flat(parts) = c[n] /\ c[0] = <<>>
  BY <1>7, <1>8 DEF FlatGo
<1>15. \A j \in 1..n : c[j] = c[j - 1] \o parts[j]
  BY <1>7, <1>8 DEF FlatGo
<1> DEFINE Found(k) == \E j \in 1..n : j <= k /\ page[1].source = Sources[j]
           S == {k \in Nat : k <= n => c[k] = <<>> \/ (c[k] = page /\ Found(k))}
<1>10. 0 \in S
  BY <1>0, <1>9
<1>11. ASSUME NEW k \in Nat, k \in S PROVE k + 1 \in S
  <2>1. SUFFICES ASSUME k + 1 <= n
                 PROVE  c[k + 1] = <<>> \/ (c[k + 1] = page /\ Found(k + 1))
    OBVIOUS
  <2>2. k + 1 \in 1..n /\ k + 1 - 1 = k
    BY <1>0, <2>1
  <2>3. c[k + 1] = c[k] \o parts[k + 1]
    <3> DEFINE j == k + 1
    <3>1. j \in 1..n /\ j - 1 = k
      BY <2>2
    <3> HIDE DEF j
    <3>2. c[j] = c[j - 1] \o parts[j]
      BY <1>15, <3>1
    <3>3. QED
      BY <3>1, <3>2 DEF j
  <2>4. c[k] = <<>> \/ (c[k] = page /\ Found(k))
    BY <1>0, <1>11, <2>1
  <2>5. Found(k) => Found(k + 1) /\ page[1].source # Sources[k + 1]
    BY <1>0, <1>1, <2>2
  <2>6. page[1].source = Sources[k + 1] => Found(k + 1)
    BY <1>0, <2>2
  <2> HIDE DEF Found
  <2>7. <<>> \o page = page /\ page \o <<>> = page /\ <<>> \o <<>> = <<>>
    BY ConcatEmptySeq, EmptySeq
  <2>8. QED
    BY <1>2, <1>3, <2>2, <2>3, <2>4, <2>5, <2>6, <2>7
<1> HIDE DEF S
<1>12. Nat \subseteq S
  BY <1>10, <1>11, SetInduction
<1>13. c[n] = <<>> \/ c[n] = page
  BY <1>0, <1>12 DEF S
<1>14. QED
  BY <1>5, <1>9, <1>13

\* What is of single bytes has as many bytes as characters.
LEMMA OnesAre ==
  ASSUME NEW s \in Seq({1})
  PROVE  s \in Seq(Nat) /\ Bytes(s) = Len(s)
<1>1. {1} \subseteq Nat
  OBVIOUS
<1>2. s \in Seq(Nat)
  BY <1>1, SeqMonotonic
<1>3. \A i \in 1..Len(s) : s[i] = 1
  <2>1. SUFFICES ASSUME NEW i \in 1..Len(s) PROVE s[i] \in {1}
    OBVIOUS
  <2>2. QED
    BY ElementOfSeq
<1>4. QED
  BY <1>2, <1>3, BytesAre

\* The first n members of a sequence.
LEMMA FirstOnes ==
  ASSUME NEW U, NEW s \in Seq(U), NEW n \in Nat, n <= Len(s)
  PROVE  SubSeq(s, 1, n) \in Seq(U) /\ Len(SubSeq(s, 1, n)) = n
<1>1. Len(s) \in Nat /\ n \in Int /\ 1 \in Int
  BY LenProperties
<1>2. \A i \in 1..n : s[i] \in U
  <2>1. SUFFICES ASSUME NEW i \in 1..n PROVE s[i] \in U
    OBVIOUS
  <2>2. i \in 1..Len(s)
    BY <1>1
  <2>3. QED
    BY <2>2, ElementOfSeq
<1>3. /\ SubSeq(s, 1, n) \in Seq(U)
      /\ Len(SubSeq(s, 1, n)) = (IF 1 <= n THEN n - 1 + 1 ELSE 0)
  BY <1>1, <1>2, SubSeqProperties
<1>4. QED
  BY <1>3

\* t is of single bytes, or begins with as many of them as per.
Opens(a, b, t, per) ==
  /\ a \in Seq({1})
  /\ b \in Seq(Nat)
  /\ t = a \o b
  /\ b = <<>> \/ per <= Len(a)

\* So for some a and b.
Plain(t, per) == \E a, b : Opens(a, b, t, per)

\* Such a text can be cut where it is plain.
LEMMA PlainIsCut ==
  ASSUME NEW t, NEW per \in Nat, Plain(t, per), NEW n \in Nat, n <= per, Bytes(t) > n
  PROVE  Cut(t, n) # {}
<1>1. PICK a, b : Opens(a, b, t, per)
  BY DEF Plain
<1>2. a \in Seq({1}) /\ b \in Seq(Nat) /\ t = a \o b /\ (b = <<>> \/ per <= Len(a))
  BY <1>1 DEF Opens
<1>3. a \in Seq(Nat) /\ Bytes(a) = Len(a) /\ Len(a) \in Nat /\ Len(b) \in Nat
  BY <1>2, OnesAre, LenProperties
<1>4. n <= Len(a)
  <2>1. CASE b = <<>>
    <3>1. t = a
      BY <1>2, <2>1, ConcatEmptySeq
    <3>2. QED
      BY <1>3, <3>1
  <2>2. CASE per <= Len(a)
    BY <1>3, <2>2
  <2>3. QED
    BY <1>2, <2>1, <2>2
<1> DEFINE u == SubSeq(a, 1, n)
<1>5. u \in Seq({1}) /\ Len(u) = n
  BY <1>2, <1>4, FirstOnes
<1>6. Bytes(u) = n
  BY <1>5, OnesAre
<1>7. SubSeq(t, 1, n) = u
  <2>1. CASE n = 0
    <3>1. 1 \in Int /\ 0 \in Int /\ 0 < 1
      OBVIOUS
    <3>2. SubSeq(t, 1, 0) = <<>> /\ SubSeq(a, 1, 0) = <<>>
      BY <3>1, SubSeqEmpty
    <3>3. QED
      BY <2>1, <3>2
  <2>2. CASE n # 0
    <3>1. 1 \in 1..Len(a) /\ n \in 1..Len(a)
      BY <1>3, <1>4, <2>2
    <3>2. QED
      BY <1>2, <1>3, <3>1, SubSeqOfConcat1
  <2>3. QED
    BY <2>1, <2>2
<1> HIDE DEF u
<1>8. n \in 0..Len(t)
  <2>1. Len(t) = Len(a) + Len(b)
    BY <1>2, <1>3, ConcatProperties
  <2>2. QED
    BY <1>3, <1>4, <2>1
<1>9. u \in Prefixes(t)
  BY <1>7, <1>8 DEF Prefixes
<1>10. QED
  BY <1>6, <1>9 DEF Cut

\* The mark and a block are texts of bytes.
LEMMA MarkIs == Mark \in Seq(Nat)
<1>1. Mark \in Seq(1..4) /\ 1..4 \subseteq Nat
  BY PageDataAssumption
<1>2. QED
  BY <1>1, SeqMonotonic

\* A cut text has no more bytes than asked, and the mark's.
LEMMA ShortenedIs ==
  ASSUME NEW s \in Seq(Nat), NEW n \in Nat, NEW t \in Shortened(s, n)
  PROVE  t \in Seq(Nat) /\ Bytes(t) <= n + Bytes(Mark)
<1>1. Mark \in Seq(Nat) /\ Bytes(Mark) \in Nat /\ Bytes(s) \in Nat
  BY MarkIs, BytesAre
<1>2. CASE Bytes(s) <= n
  <2>1. t = s
    BY <1>2 DEF Shortened
  <2>2. QED
    BY <1>1, <1>2, <2>1
<1>3. CASE ~ Bytes(s) <= n
  <2>1. PICK u \in Cut(s, n) : t = u \o Mark
    BY <1>3 DEF Shortened
  <2>2. PICK l \in 0..Len(s) : u = SubSeq(s, 1, l)
    BY <2>1 DEF Cut, Prefixes
  <2>3. Bytes(u) = n
    BY <2>1 DEF Cut
  <2>4. Len(s) \in Nat
    BY LenProperties
  <2>5. l \in Nat /\ l <= Len(s)
    BY <2>4
  <2>7. u \in Seq(Nat)
    BY <2>2, <2>5, FirstOnes
  <2>8. t \in Seq(Nat) /\ Bytes(t) = Bytes(u) + Bytes(Mark)
    BY <1>1, <2>1, <2>7, ConcatProperties, BytesTogether
  <2>9. QED
    BY <1>1, <2>3, <2>8
<1>4. QED
  BY <1>2, <1>3

\* A text of single bytes can be cut anywhere, and is plain as far as that.
LEMMA ShortenedIsPlain ==
  ASSUME NEW s \in Seq({1}), NEW n \in Nat
  PROVE  Shortened(s, n) # {} /\ \A t \in Shortened(s, n) : Plain(t, n)
<1>1. s \in Seq(Nat) /\ Bytes(s) \in Nat /\ Bytes(s) = Len(s) /\ Len(s) \in Nat
  BY OnesAre, BytesAre
<1>2. Plain(s, n)
  <2>1. <<>> \in Seq(Nat) /\ s = s \o <<>>
    BY <1>1, ConcatEmptySeq, EmptySeq
  <2>2. Opens(s, <<>>, s, n)
    BY <2>1 DEF Opens
  <2>3. QED
    BY <2>2 DEF Plain
<1>3. CASE Bytes(s) <= n
  <2>1. Shortened(s, n) = {s}
    BY <1>3 DEF Shortened
  <2>2. QED
    BY <1>2, <2>1
<1>4. CASE Bytes(s) > n
  <2>1. Shortened(s, n) = {u \o Mark : u \in Cut(s, n)}
    <3>1. ~ Bytes(s) <= n
      BY <1>1, <1>4
    <3>2. QED
      BY <3>1 DEF Shortened
  <2>2. Cut(s, n) # {}
    <3>1. n <= n
      OBVIOUS
    <3>2. QED
      BY <1>2, <1>4, <3>1, PlainIsCut
  <2>3. ASSUME NEW u \in Cut(s, n) PROVE Plain(u \o Mark, n)
    <3>1. PICK l \in 0..Len(s) : u = SubSeq(s, 1, l)
      BY DEF Cut, Prefixes
    <3>2. Bytes(u) = n
      BY DEF Cut
    <3>3. l \in Nat /\ l <= Len(s)
      BY <1>1
    <3>4. u \in Seq({1})
      BY <3>1, <3>3, FirstOnes
    <3>5. Len(u) = n
      BY <3>2, <3>4, OnesAre
    <3>6. n <= Len(u) /\ Mark \in Seq(Nat)
      BY <3>5, MarkIs
    <3>7. Opens(u, Mark, u \o Mark, n)
      BY <3>4, <3>6 DEF Opens
    <3>8. QED
      BY <3>7 DEF Plain
  <2>4. QED
    BY <2>1, <2>2, <2>3
<1>5. Bytes(s) <= n \/ Bytes(s) > n
  BY <1>1
<1>6. QED
  BY <1>3, <1>4, <1>5

\* Texts can be put together in either order.
LEMMA Regrouped ==
  ASSUME NEW s \in Seq(Nat), NEW t \in Seq(Nat), NEW u \in Seq(Nat)
  PROVE  (s \o t) \o u = s \o (t \o u)
<1> DEFINE Joins(U) == \A a, b, c \in Seq(U) : (a \o b) \o c = a \o (b \o c)
<1>1. \A U : Joins(U)
  BY ConcatAssociative
<1> HIDE DEF Joins
<1>2. Joins(Nat)
  BY <1>1
<1>3. QED
  BY <1>2 DEF Joins

\* A text between two of single bytes stays plain.
LEMMA PlainBetween ==
  ASSUME NEW t, NEW per \in Nat, Plain(t, per),
         NEW head, NEW last, head \in Seq({1}), last \in Seq({1})
  PROVE  Plain(head \o t \o last, per)
<1>1. PICK a, b : Opens(a, b, t, per)
  BY DEF Plain
<1>2. a \in Seq({1}) /\ b \in Seq(Nat) /\ t = a \o b /\ (b = <<>> \/ per <= Len(a))
  BY <1>1 DEF Opens
<1>3. /\ a \in Seq(Nat) /\ head \in Seq(Nat) /\ last \in Seq(Nat)
      /\ Len(a) \in Nat /\ Len(head) \in Nat
  BY <1>2, OnesAre, LenProperties
<1> DEFINE c == head \o a
           x == head \o t \o last
<1>4. c \in Seq({1}) /\ Len(c) = Len(head) + Len(a)
  BY <1>2, ConcatProperties
<1>5. (head \o a) \o b = head \o (a \o b)
  <2>1. head \in Seq(Nat) /\ a \in Seq(Nat) /\ b \in Seq(Nat)
    BY <1>2, <1>3
  <2>2. QED
    BY <2>1, Regrouped
<1>6. x = c \o b \o last
  BY <1>2, <1>5
<1> HIDE DEF c, x
<1>7. CASE b = <<>>
  <2>1. c \o b = c
    BY <1>4, <1>7, ConcatEmptySeq
  <2>2. c \o last \in Seq({1})
    BY <1>4, ConcatProperties
  <2>3. <<>> \in Seq(Nat) /\ (c \o last) \o <<>> = c \o last
    BY <2>2, ConcatEmptySeq, EmptySeq
  <2>4. Opens(c \o last, <<>>, x, per)
    BY <1>6, <2>1, <2>2, <2>3 DEF Opens
  <2>5. QED
    BY <2>4 DEF Plain, x
<1>8. CASE per <= Len(a)
  <2>1. c \in Seq(Nat)
    BY <1>4, OnesAre
  <2>2. x = c \o (b \o last) /\ b \o last \in Seq(Nat)
    <3>1. b \in Seq(Nat) /\ last \in Seq(Nat)
      BY <1>2, <1>3
    <3>2. (c \o b) \o last = c \o (b \o last)
      BY <2>1, <3>1, Regrouped
    <3>3. b \o last \in Seq(Nat)
      BY <3>1, ConcatProperties
    <3>4. QED
      BY <1>6, <3>2, <3>3
  <2>3. per <= Len(c)
    BY <1>3, <1>4, <1>8
  <2>4. Opens(c, b \o last, x, per)
    BY <1>4, <2>2, <2>3 DEF Opens
  <2>5. QED
    BY <2>4 DEF Plain, x
<1>9. QED
  BY <1>2, <1>7, <1>8

\* What is shown of a block is a text, and plain when the skeleton is of single bytes.
LEMMA ShownIs ==
  ASSUME NEW b, b.skeleton \in Seq(Nat), NEW per \in Nat
  PROVE  /\ \A x \in Shown(b, per) : x \in Seq(Nat)
         /\ b.skeleton \in Seq({1}) =>
              Shown(b, per) # {} /\ \A x \in Shown(b, per) : Plain(x, per)
<1> DEFINE head == [i \in 1..Header |-> 1]
           last == <<1>>
<1>1. head \in Seq({1})
  <2>1. head \in [1..Header -> {1}] /\ Header \in Nat
    BY PageDataAssumption
  <2>2. QED
    BY <2>1, FunctionIsSeq
<1>2. last \in Seq({1})
  OBVIOUS
<1>3. Shown(b, per) = {head \o t \o last : t \in Shortened(b.skeleton, per)}
  BY DEF Shown
<1> HIDE DEF head, last
<1>4. head \in Seq(Nat) /\ last \in Seq(Nat)
  BY <1>1, <1>2, OnesAre
<1>5. ASSUME NEW t \in Shortened(b.skeleton, per) PROVE head \o t \o last \in Seq(Nat)
  <2>1. t \in Seq(Nat)
    BY ShortenedIs
  <2>2. head \o t \in Seq(Nat)
    BY <1>4, <2>1, ConcatProperties
  <2>3. QED
    BY <1>4, <2>2, ConcatProperties
<1>6. ASSUME b.skeleton \in Seq({1})
      PROVE  Shown(b, per) # {} /\ \A x \in Shown(b, per) : Plain(x, per)
  <2>1. /\ Shortened(b.skeleton, per) # {}
        /\ \A t \in Shortened(b.skeleton, per) : Plain(t, per)
    BY <1>6, ShortenedIsPlain
  <2>2. \A t \in Shortened(b.skeleton, per) : Plain(head \o t \o last, per)
    BY <1>1, <1>2, <2>1, PlainBetween
  <2>3. QED
    BY <1>3, <2>1, <2>2
<1>7. QED
  BY <1>3, <1>5, <1>6

\* What a summary is.
LEMMA SummaryIs ==
  ASSUME NEW page, IsSequence(page), \A b \in ToSet(page) : b.skeleton \in Seq(1..4),
         NEW max \in Nat
  PROVE  LET out == Summarize(ExtractSpaJson(page), max)
         IN  /\ \A t \in out : Bytes(t) <= max + Bytes(Mark)
             /\ Len(page) = 1 /\ ToSet(page[1].skeleton) \subseteq {1} => out # {}
<1> DEFINE blocks == ExtractSpaJson(page)
           out == Summarize(blocks, max)
           per == Max({max \div Len(blocks), MinPerBlock})
           parts == [i \in DOMAIN blocks |-> Shown(blocks[i], per)]
           shown == [i \in DOMAIN blocks |-> CHOOSE t \in parts[i] : TRUE]
           n == Len(blocks)
<1>1. blocks \in Seq(ToSet(page)) /\ n \in Nat /\ DOMAIN blocks = 1..n
  BY BlocksAre, LenProperties
<1>2. \A b \in ToSet(page) : b.skeleton \in Seq(Nat)
  <2>1. 1..4 \subseteq Nat
    OBVIOUS
  <2>2. QED
    BY <2>1, SeqMonotonic
<1>3. \A i \in 1..n : blocks[i] \in ToSet(page)
  BY <1>1, ElementOfSeq
<1>4. Bytes(Mark) \in Nat
  BY MarkIs, BytesAre
<1>5. out = IF blocks = <<>> THEN {<<>>}
            ELSE IF \E i \in DOMAIN parts : parts[i] = {} THEN {}
            ELSE Shortened(Flat(shown), max)
  BY DEF Summarize
<1>6. CASE blocks = <<>>
  <2>1. out = {<<>>} /\ <<>> \in Seq(Nat)
    BY <1>5, <1>6, EmptySeq
  <2>2. Bytes(<<>>) = 0
    BY <2>1, BytesAre
  <2>3. QED
    BY <1>4, <2>1, <2>2
<1>7. CASE blocks # <<>>
  <2>1. n > 0
    BY <1>1, <1>7, EmptySeq
  <2>2. per \in Nat /\ per >= max \div n
    <3>1. max \div n \in Nat /\ MinPerBlock \in Nat
      <4>1. n \in Nat \ {0}
        BY <1>1, <2>1
      <4> HIDE DEF n
      <4>2. max \div n \in Int
        BY <4>1
      <4>3. max \div n >= 0
        BY <4>1
      <4>4. QED
        BY <4>2, <4>3, PageDataAssumption
    <3> DEFINE q == max \div n
    <3>2. per = Max({q, MinPerBlock})
      OBVIOUS
    <3> HIDE DEF q, per
    <3>3. q \in Nat
      BY <3>1 DEF q
    <3>4. CASE q >= MinPerBlock
      <4>1. {q, MinPerBlock} \in SUBSET Int /\ q \in {q, MinPerBlock}
            /\ \A y \in {q, MinPerBlock} : q >= y
        BY <3>1, <3>3, <3>4
      <4>2. per = q
        BY <3>2, <4>1, MaxIs
      <4>3. QED
        BY <3>3, <4>2 DEF q
    <3>5. CASE ~ q >= MinPerBlock
      <4>1. {q, MinPerBlock} \in SUBSET Int /\ MinPerBlock \in {q, MinPerBlock}
            /\ \A y \in {q, MinPerBlock} : MinPerBlock >= y
        BY <3>1, <3>3, <3>5
      <4>2. per = MinPerBlock /\ MinPerBlock >= q
        BY <3>1, <3>2, <3>3, <3>5, <4>1, MaxIs
      <4>3. QED
        BY <3>1, <4>2 DEF q
    <3>6. QED
      BY <3>4, <3>5
  <2>3. DOMAIN parts = 1..n /\ \A i \in 1..n : parts[i] = Shown(blocks[i], per)
    BY <1>1
  <2>4. shown = [i \in 1..n |-> CHOOSE t \in parts[i] : TRUE]
    BY <1>1
  <2>5. out = IF \E i \in 1..n : parts[i] = {} THEN {} ELSE Shortened(Flat(shown), max)
    BY <1>5, <1>7, <2>3
  <2> HIDE DEF per, parts, shown, out, blocks, n
  <2>6. ASSUME \A i \in 1..n : parts[i] # {}
        PROVE  /\ shown \in Seq(Seq(Nat)) /\ Len(shown) = n
               /\ \A i \in 1..n : shown[i] \in parts[i]
    <3>1. \A i \in 1..n : shown[i] \in parts[i]
      BY <2>4, <2>6
    <3>2. ASSUME NEW i \in 1..n PROVE shown[i] \in Seq(Nat)
      <4>1. blocks[i].skeleton \in Seq(Nat)
        BY <1>2, <1>3
      <4>2. shown[i] \in Shown(blocks[i], per)
        BY <2>3, <3>1
      <4>3. QED
        BY <2>2, <4>1, <4>2, ShownIs
    <3>3. shown \in [1..n -> Seq(Nat)]
      BY <2>4, <3>2
    <3>4. QED
      BY <1>1, <3>1, <3>3, FunctionIsSeq
  <2>7. ASSUME NEW t \in out PROVE Bytes(t) <= max + Bytes(Mark)
    <3>1. (\A i \in 1..n : parts[i] # {}) /\ t \in Shortened(Flat(shown), max)
      BY <2>5
    <3>2. Flat(shown) \in Seq(Nat)
      BY <2>6, <3>1, FlatIs
    <3>3. QED
      BY <3>1, <3>2, ShortenedIs
  <2>8. ASSUME Len(page) = 1, ToSet(page[1].skeleton) \subseteq {1} PROVE out # {}
    <3>1. blocks = page
      BY <1>7, <2>8, SequenceIs, BlocksOfOne DEF blocks
    <3>2. n = 1 /\ blocks[1] \in ToSet(page)
      BY <1>3, <2>1, <2>8, <3>1 DEF n
    <3>3. blocks[1].skeleton \in Seq({1}) /\ blocks[1].skeleton \in Seq(Nat)
      <4>1. page[1].skeleton \in Seq(Nat)
        BY <1>2, <3>1, <3>2
      <4>2. IsSequence(page[1].skeleton)
        BY <4>1, OfASet
      <4>3. page[1].skeleton \in Seq(ToSet(page[1].skeleton))
        BY <4>2 DEF IsSequence
      <4>4. page[1].skeleton \in Seq({1})
        BY <2>8, <4>3, SeqMonotonic
      <4>5. QED
        BY <3>1, <4>1, <4>4
    <3>4. parts[1] # {} /\ \A x \in parts[1] : Plain(x, per)
      BY <2>2, <2>3, <3>2, <3>3, ShownIs
    <3>5. shown \in Seq(Seq(Nat)) /\ Len(shown) = 1 /\ shown[1] \in parts[1]
      BY <2>6, <3>2, <3>4
    <3>6. Flat(shown) = shown[1] /\ Flat(shown) \in Seq(Nat) /\ Plain(Flat(shown), per)
      BY <3>4, <3>5, FlatIs
    <3>7. out = Shortened(Flat(shown), max)
      BY <2>5, <3>2, <3>4
    <3>8. max <= per
      <4>1. max \div 1 = max
        OBVIOUS
      <4>2. QED
        BY <2>2, <3>2, <4>1
    <3>9. Bytes(Flat(shown)) \in Nat
      BY <3>6, BytesAre
    <3>10. Bytes(Flat(shown)) > max => Cut(Flat(shown), max) # {}
      BY <2>2, <3>6, <3>8, PlainIsCut
    <3>11. CASE Bytes(Flat(shown)) <= max
      BY <3>7, <3>11 DEF Shortened
    <3>12. CASE ~ Bytes(Flat(shown)) <= max
      <4>1. Cut(Flat(shown), max) # {}
        BY <3>9, <3>10, <3>12
      <4>2. out = {t \o Mark : t \in Cut(Flat(shown), max)}
        BY <3>7, <3>12 DEF Shortened
      <4>3. QED
        BY <4>1, <4>2
    <3>13. QED
      BY <3>11, <3>12
  <2>9. QED
    BY <2>7, <2>8 DEF out, blocks
<1>8. QED
  BY <1>6, <1>7

(***************************************************************************)
(* A summary is never more than its mark longer than asked, and a single   *)
(* block of single bytes is always summarized.                             *)
(***************************************************************************)
THEOREM SummariesFit == Spec => []SummaryBounded
<1>1. Init => SummaryBounded
  BY DEF Init, SummaryBounded
<1>2. ASSUME SummaryBounded, [Next]_vars PROVE SummaryBounded'
  <2>1. CASE Summary
    <3>1. PICK page \in Scripts, max \in Limits :
            Call("summary", [page |-> page, max |-> max], Summarize(ExtractSpaJson(page), max))
      BY <2>1 DEF Summary
    <3>2. /\ IsSequence(page) /\ max \in Nat
          /\ \A b \in ToSet(page) : b.skeleton \in Seq(1..4)
      BY ParsersAssumption
    <3> DEFINE out == Summarize(ExtractSpaJson(page), max)
    <3>3. /\ \A t \in out : Bytes(t) <= max + Bytes(Mark)
          /\ Len(page) = 1 /\ ToSet(page[1].skeleton) \subseteq {1} => out # {}
      BY <3>2, SummaryIs
    <3>4. output' = out /\ input'.page = page /\ input'.max = max
      BY <3>1 DEF Call
    <3> HIDE DEF out
    <3>5. QED
      BY <3>3, <3>4 DEF SummaryBounded
  <2>2. CASE Read /\ ~ Summary
    <3>1. call' # "summary"
      BY <2>2 DEF Read, Call, ReadAnswer, Sanitize, ReadLinks, DetectAntiBot, NavigatePath,
                  Extraction, ReadPrice, Interact
    <3>2. QED
      BY <3>1 DEF SummaryBounded
  <2>3. CASE Return
    BY <2>3 DEF Return, SummaryBounded
  <2>4. CASE UNCHANGED vars
    BY <1>2, <2>4 DEF vars, SummaryBounded
  <2>5. QED
    BY <1>2, <2>1, <2>2, <2>3, <2>4 DEF Next
<1>3. QED
  BY <1>1, <1>2, PTL DEF Spec

\* The greatest of some numbers up to n.
LEMMA MaxUpTo ==
  ASSUME NEW n \in Nat, NEW S \in SUBSET (0..n), S # {}
  PROVE  Max(S) \in S /\ \A y \in S : Max(S) >= y
<1> DEFINE T == {n - y : y \in S}
<1>1. T \in SUBSET Nat /\ T # {}
  OBVIOUS
<1>2. Min(T) \in T /\ \A y \in T : Min(T) <= y
  BY <1>1, MinOf
<1>3. PICK x \in S : Min(T) = n - x
  BY <1>2
<1>4. \A y \in S : x >= y
  <2>1. SUFFICES ASSUME NEW y \in S PROVE x >= y
    OBVIOUS
  <2>2. n - y \in T
    OBVIOUS
  <2>3. n - x <= n - y
    BY <1>2, <1>3, <2>2
  <2>4. QED
    BY <2>3
<1>5. S \in SUBSET Int
  OBVIOUS
<1>6. Max(S) = x
  BY <1>4, <1>5, MaxIs
<1>7. QED
  BY <1>4, <1>6

\* What stands before place i decides how many backslashes do.
LEMMA SlashesAre ==
  ASSUME NEW t, NEW i \in Nat, i > 0
  PROVE  /\ Slashes(t, i) \in 0..i - 1
         /\ Slashes(t, i + 1) = IF t[i] = "slash" THEN Slashes(t, i) + 1 ELSE 0
         /\ Slashes(t, 1) = 0
<1> DEFINE S(n) == {k \in 0..(n - 1) : \A j \in (n - k)..(n - 1) : t[j] = "slash"}
           m == Slashes(t, i)
<1>1. /\ m = Max(S(i))
      /\ Slashes(t, i + 1) = Max(S(i + 1))
      /\ Slashes(t, 1) = Max(S(1))
  BY DEF Slashes
<1> HIDE DEF m
<1>2. i - 1 \in Nat /\ S(i) \in SUBSET (0..i - 1) /\ 0 \in S(i)
  OBVIOUS
<1>3. m \in S(i) /\ \A y \in S(i) : m >= y
  BY <1>1, <1>2, MaxUpTo
<1>4. m \in 0..i - 1
  BY <1>2, <1>3
<1>5. ASSUME t[i] = "slash" PROVE Max(S(i + 1)) = m + 1
  <2>1. m + 1 \in S(i + 1)
    <3>1. m + 1 \in 0..(i + 1 - 1)
      BY <1>4
    <3>2. ASSUME NEW j \in (i + 1 - (m + 1))..(i + 1 - 1) PROVE t[j] = "slash"
      <4>1. j = i \/ j \in (i - m)..(i - 1)
        BY <1>4
      <4>2. QED
        BY <1>3, <1>5, <4>1
    <3>3. QED
      BY <3>1, <3>2
  <2>2. ASSUME NEW y \in S(i + 1) PROVE m + 1 >= y
    <3>1. y \in 0..i /\ \A j \in (i + 1 - y)..i : t[j] = "slash"
      OBVIOUS
    <3>2. CASE y = 0
      BY <1>4, <3>2
    <3>3. CASE y > 0
      <4>1. y - 1 \in 0..(i - 1)
        BY <3>1, <3>3
      <4>2. ASSUME NEW j \in (i - (y - 1))..(i - 1) PROVE t[j] = "slash"
        <5>1. j \in (i + 1 - y)..i
          BY <3>1
        <5>2. QED
          BY <3>1, <5>1
      <4>3. y - 1 \in S(i)
        BY <4>1, <4>2
      <4>4. m >= y - 1
        BY <1>3, <4>3
      <4>5. QED
        BY <1>4, <3>1, <4>4
    <3>4. QED
      BY <3>1, <3>2, <3>3
  <2>3. S(i + 1) \in SUBSET Int
    OBVIOUS
  <2> HIDE DEF S
  <2>4. QED
    BY <2>1, <2>2, <2>3, MaxIs
<1>6. ASSUME t[i] # "slash" PROVE Max(S(i + 1)) = 0
  <2>1. 0 \in S(i + 1) /\ S(i + 1) \in SUBSET Int
    OBVIOUS
  <2>2. ASSUME NEW y \in S(i + 1) PROVE 0 >= y
    <3>1. y \in 0..i /\ \A j \in (i + 1 - y)..i : t[j] = "slash"
      OBVIOUS
    <3>2. y > 0 => i \in (i + 1 - y)..i
      BY <3>1
    <3>3. QED
      BY <1>6, <3>1, <3>2
  <2> HIDE DEF S
  <2>3. QED
    BY <2>1, <2>2, MaxIs
<1>7. Max(S(1)) = 0
  <2>1. 0 \in S(1) /\ S(1) \in SUBSET Int /\ \A y \in S(1) : 0 >= y
    OBVIOUS
  <2> HIDE DEF S
  <2>2. QED
    BY <2>1, MaxIs
<1>8. QED
  BY <1>1, <1>4, <1>5, <1>6, <1>7 DEF m

\* What is escaped: what follows a backslash that is not.
LEMMA EscapedIs ==
  ASSUME NEW t
  PROVE  /\ ~ Escaped(t, 1)
         /\ \A i \in Nat : i > 0 =>
              (Escaped(t, i + 1) <=> t[i] = "slash" /\ ~ Escaped(t, i))
<1>1. Slashes(t, 1) = 0
  <2>1. 1 \in Nat /\ 1 > 0
    OBVIOUS
  <2>2. QED
    BY <2>1, SlashesAre
<1>2. ~ Escaped(t, 1)
  BY <1>1 DEF Escaped
<1>3. ASSUME NEW i \in Nat, i > 0
      PROVE  Escaped(t, i + 1) <=> t[i] = "slash" /\ ~ Escaped(t, i)
  <2>1. /\ Slashes(t, i) \in 0..i - 1
        /\ Slashes(t, i + 1) = IF t[i] = "slash" THEN Slashes(t, i) + 1 ELSE 0
    BY <1>3, SlashesAre
  <2>2. Slashes(t, i) \in Nat
    BY <2>1
  <2>3. (Slashes(t, i) + 1) % 2 = 1 <=> Slashes(t, i) % 2 # 1
    BY <2>2
  <2>4. QED
    BY <2>1, <2>3 DEF Escaped
<1>4. QED
  BY <1>2, <1>3

\* t and u are the same up to n.
Same(t, u, n) == \A j \in 1..n : t[j] = u[j]

\* Then the same is escaped, and there are as many quotes.
LEMMA SameEscapes ==
  ASSUME NEW t, NEW u, NEW n \in Nat, Same(t, u, n)
  PROVE  /\ \A i \in 1..n + 1 : Escaped(t, i) = Escaped(u, i)
         /\ \A i \in 0..n : Quotes(t, i) = Quotes(u, i)
<1>1. ASSUME NEW i \in 1..n + 1 PROVE Escaped(t, i) = Escaped(u, i)
  <2> DEFINE S(w) == {k \in 0..(i - 1) : \A j \in (i - k)..(i - 1) : w[j] = "slash"}
  <2>1. ASSUME NEW k \in 0..(i - 1), NEW j \in (i - k)..(i - 1) PROVE t[j] = u[j]
    <3>1. j \in 1..n
      OBVIOUS
    <3>2. QED
      BY <3>1 DEF Same
  <2>2. S(t) = S(u)
    BY <2>1
  <2>3. QED
    BY <2>2 DEF Escaped, Slashes
<1>2. ASSUME NEW i \in 0..n PROVE Quotes(t, i) = Quotes(u, i)
  <2> DEFINE S(w) == {j \in 1..i : w[j] = "quote" /\ ~ Escaped(w, j)}
  <2>1. ASSUME NEW j \in 1..i PROVE t[j] = u[j] /\ Escaped(t, j) = Escaped(u, j)
    <3>1. j \in 1..n /\ j \in 1..n + 1
      OBVIOUS
    <3>2. QED
      BY <1>1, <3>1 DEF Same
  <2>2. S(t) = S(u)
    BY <2>1
  <2>3. QED
    BY <2>2 DEF Quotes
<1>3. QED
  BY <1>1, <1>2

\* A quote that is not escaped is one more.
LEMMA QuotesAre ==
  ASSUME NEW t
  PROVE  /\ Quotes(t, 0) = 0
         /\ \A i \in Nat :
              /\ Quotes(t, i) \in Nat
              /\ Quotes(t, i + 1) = Quotes(t, i)
                   + (IF t[i + 1] = "quote" /\ ~ Escaped(t, i + 1) THEN 1 ELSE 0)
<1> DEFINE T == {j \in Nat : t[j] = "quote" /\ ~ Escaped(t, j)}
<1>1. ASSUME NEW i \in Nat PROVE Quotes(t, i) = Cardinality({j \in 1..i : j \in T})
  <2>1. {j \in 1..i : t[j] = "quote" /\ ~ Escaped(t, j)} = {j \in 1..i : j \in T}
    OBVIOUS
  <2>2. QED
    BY <2>1 DEF Quotes
<1>2. \A i \in Nat : i + 1 \in T <=> t[i + 1] = "quote" /\ ~ Escaped(t, i + 1)
  OBVIOUS
<1> HIDE DEF T
<1>3. Quotes(t, 0) = 0
  <2>1. {j \in 1..0 : j \in T} = {}
    OBVIOUS
  <2>2. Quotes(t, 0) = Cardinality({j \in 1..0 : j \in T})
    BY <1>1
  <2>3. QED
    BY <2>1, <2>2, FS_EmptySet
<1>4. ASSUME NEW i \in Nat
      PROVE  /\ Quotes(t, i) \in Nat
             /\ Quotes(t, i + 1) = Quotes(t, i) + (IF i + 1 \in T THEN 1 ELSE 0)
  <2>1. i + 1 \in Nat
    OBVIOUS
  <2>2. /\ Cardinality({j \in 1..i : j \in T}) \in Nat
        /\ Cardinality({j \in 1..i + 1 : j \in T})
             = Cardinality({j \in 1..i : j \in T}) + (IF i + 1 \in T THEN 1 ELSE 0)
    BY OneMorePlace
  <2>3. /\ Quotes(t, i) = Cardinality({j \in 1..i : j \in T})
        /\ Quotes(t, i + 1) = Cardinality({j \in 1..i + 1 : j \in T})
    BY <1>1, <2>1
  <2>4. QED
    BY <2>2, <2>3
<1>5. QED
  BY <1>2, <1>3, <1>4

\* A text on its way to being mended: what has been written is in order, `hex` digits
\* are due, and what comes next is escaped or not.
Mending(o, hex, esc) ==
  /\ o \in Seq(Chars)
  /\ hex \in Nat
  /\ Escaped(o, Len(o) + 1) = esc
  /\ \A i \in 1..Len(o) : o[i] = "slash" => Quotes(o, i) % 2 = 1
  /\ \A i \in 1..Len(o) : o[i] = "d" => ~ Escaped(o, i)
  /\ \A i \in 1..Len(o) : o[i] = "u" /\ Escaped(o, i) =>
       /\ i + HexDigits <= Len(o) + hex
       /\ \A j \in (i + 1)..(i + HexDigits) : j <= Len(o) => o[j] = "d"

\* A character that may come next leaves a text on its way.
LEMMA MendingGoesOn ==
  ASSUME NEW o, NEW hex, NEW esc \in BOOLEAN, Mending(o, hex, esc), NEW c \in Chars,
         c = "slash" => Quotes(o, Len(o)) % 2 = 1,
         esc => c # "d" /\ hex = 0,
         hex > 0 => c = "d",
         NEW due, due = IF hex > 0 THEN hex - 1
                        ELSE IF esc /\ c = "u" THEN HexDigits ELSE 0,
         NEW escapes \in BOOLEAN, escapes <=> c = "slash" /\ ~ esc
  PROVE  LET p == Append(o, c)
         IN  /\ Mending(p, due, escapes)
             /\ Len(p) = Len(o) + 1
             /\ Quotes(p, Len(p)) = Quotes(o, Len(o)) + (IF c = "quote" /\ ~ esc THEN 1 ELSE 0)
<1> DEFINE p == Append(o, c)
           n == Len(o)
<1>1. o \in Seq(Chars) /\ n \in Nat /\ hex \in Nat /\ HexDigits \in Nat
  BY LenProperties, AgentAnswerAssumption DEF Mending
<1>2. /\ p \in Seq(Chars) /\ Len(p) = n + 1 /\ p[n + 1] = c
      /\ \A i \in 1..n : p[i] = o[i]
  BY <1>1, AppendProperties
<1>3. Escaped(o, n + 1) = esc
  BY DEF Mending
<1>4. \A i \in 1..n : o[i] = "slash" => Quotes(o, i) % 2 = 1
  BY DEF Mending
<1>5. \A i \in 1..n : o[i] = "d" => ~ Escaped(o, i)
  BY DEF Mending
<1>6. \A i \in 1..n : o[i] = "u" /\ Escaped(o, i) =>
        /\ i + HexDigits <= n + hex
        /\ \A j \in (i + 1)..(i + HexDigits) : j <= n => o[j] = "d"
  BY DEF Mending
<1> HIDE DEF p, n
<1>7. Same(p, o, n)
  BY <1>2 DEF Same
<1>8. /\ \A i \in 1..n + 1 : Escaped(p, i) = Escaped(o, i)
      /\ \A i \in 0..n : Quotes(p, i) = Quotes(o, i)
  BY <1>1, <1>7, SameEscapes
<1>9. Escaped(p, n + 1) = esc
  BY <1>1, <1>3, <1>8
<1>10. Escaped(p, n + 1 + 1) = escapes
  <2>1. n + 1 \in Nat /\ n + 1 > 0
    BY <1>1
  <2>2. Escaped(p, n + 1 + 1) <=> p[n + 1] = "slash" /\ ~ Escaped(p, n + 1)
    BY <2>1, EscapedIs
  <2>3. Escaped(p, n + 1 + 1) \in BOOLEAN
    BY DEF Escaped
  <2>4. QED
    BY <1>2, <1>9, <2>2, <2>3
<1>11. /\ Quotes(p, n + 1) = Quotes(o, n) + (IF c = "quote" /\ ~ esc THEN 1 ELSE 0)
       /\ Quotes(o, n) \in Nat
  <2>1. /\ Quotes(p, n) \in Nat
        /\ Quotes(p, n + 1) = Quotes(p, n)
             + (IF p[n + 1] = "quote" /\ ~ Escaped(p, n + 1) THEN 1 ELSE 0)
    BY <1>1, QuotesAre
  <2>2. Quotes(p, n) = Quotes(o, n)
    BY <1>1, <1>8
  <2>3. QED
    BY <1>2, <1>9, <2>1, <2>2
<1>12. due \in Nat
  BY <1>1
<1>13. ASSUME NEW i \in 1..n + 1, p[i] = "slash" PROVE Quotes(p, i) % 2 = 1
  <2>1. CASE i \in 1..n
    <3>1. o[i] = "slash" /\ Quotes(p, i) = Quotes(o, i)
      BY <1>1, <1>2, <1>8, <1>13, <2>1
    <3>2. QED
      BY <1>4, <2>1, <3>1
  <2>2. CASE i = n + 1
    <3>1. c = "slash"
      BY <1>2, <1>13, <2>2
    <3>2. Quotes(p, n + 1) = Quotes(o, n)
      BY <1>11, <3>1
    <3>3. QED
      BY <2>2, <3>1, <3>2 DEF n
  <2>3. QED
    BY <1>1, <2>1, <2>2
<1>14. ASSUME NEW i \in 1..n + 1, p[i] = "d" PROVE ~ Escaped(p, i)
  <2>1. CASE i \in 1..n
    <3>1. o[i] = "d" /\ Escaped(p, i) = Escaped(o, i)
      BY <1>1, <1>2, <1>8, <1>14, <2>1
    <3>2. QED
      BY <1>5, <2>1, <3>1
  <2>2. CASE i = n + 1
    BY <1>2, <1>9, <1>14, <2>2
  <2>3. QED
    BY <1>1, <2>1, <2>2
<1>15. ASSUME NEW i \in 1..n + 1, p[i] = "u", Escaped(p, i)
       PROVE  /\ i + HexDigits <= n + 1 + due
              /\ \A j \in (i + 1)..(i + HexDigits) : j <= n + 1 => p[j] = "d"
  <2>1. CASE i \in 1..n
    <3>1. o[i] = "u" /\ Escaped(o, i)
      BY <1>1, <1>2, <1>8, <1>15, <2>1
    <3>2. /\ i + HexDigits <= n + hex
          /\ \A j \in (i + 1)..(i + HexDigits) : j <= n => o[j] = "d"
      BY <1>6, <2>1, <3>1
    <3>3. i + HexDigits <= n + 1 + due
      BY <1>1, <3>2
    <3>4. ASSUME NEW j \in (i + 1)..(i + HexDigits), j <= n + 1 PROVE p[j] = "d"
      <4>1. CASE j <= n
        <5>1. j \in 1..n
          BY <1>1, <2>1, <4>1
        <5>2. QED
          BY <1>2, <3>2, <4>1, <5>1
      <4>2. CASE j = n + 1
        <5>1. hex > 0
          BY <1>1, <3>2, <4>2
        <5>2. QED
          BY <1>2, <4>2, <5>1
      <4>3. QED
        BY <1>1, <3>4, <4>1, <4>2
    <3>5. QED
      BY <3>3, <3>4
  <2>2. CASE i = n + 1
    <3>1. c = "u" /\ esc
      BY <1>2, <1>9, <1>15, <2>2
    <3>2. due = HexDigits
      BY <1>1, <3>1
    <3>3. QED
      BY <1>1, <2>2, <3>2
  <2>3. QED
    BY <1>1, <2>1, <2>2
<1>16. Mending(p, due, escapes)
  BY <1>2, <1>10, <1>12, <1>13, <1>14, <1>15 DEF Mending
<1>17. QED
  BY <1>2, <1>11, <1>16 DEF p, n

\* What comes next is not escaped, or it is.
Closed(o, hex) == Mending(o, hex, FALSE)
Open(o) == Mending(o, 0, TRUE)

\* What comes next when nothing is escaped, and when it is a backslash, and after one.
LEMMA NextInMending ==
  ASSUME NEW o, NEW hex, NEW c \in Chars
  PROVE  LET p == Append(o, c)
         IN  /\ Closed(o, hex) /\ c # "slash" /\ (hex > 0 => c = "d") =>
                  /\ Closed(p, IF hex > 0 THEN hex - 1 ELSE 0)
                  /\ Len(p) = Len(o) + 1
                  /\ Quotes(p, Len(p)) = Quotes(o, Len(o)) + (IF c = "quote" THEN 1 ELSE 0)
             /\ Closed(o, 0) /\ c = "slash" /\ Quotes(o, Len(o)) % 2 = 1 =>
                  /\ Open(p)
                  /\ Len(p) = Len(o) + 1
                  /\ Quotes(p, Len(p)) = Quotes(o, Len(o))
             /\ Open(o) /\ c # "d" /\ (c = "slash" => Quotes(o, Len(o)) % 2 = 1) =>
                  /\ Closed(p, IF c = "u" THEN HexDigits ELSE 0)
                  /\ Len(p) = Len(o) + 1
                  /\ Quotes(p, Len(p)) = Quotes(o, Len(o))
<1> DEFINE p == Append(o, c)
<1>1. ASSUME Closed(o, hex), c # "slash", hex > 0 => c = "d"
      PROVE  /\ Closed(p, IF hex > 0 THEN hex - 1 ELSE 0)
             /\ Len(p) = Len(o) + 1
             /\ Quotes(p, Len(p)) = Quotes(o, Len(o)) + (IF c = "quote" THEN 1 ELSE 0)
  <2> DEFINE due == IF hex > 0 THEN hex - 1 ELSE 0
  <2>1. due = IF hex > 0 THEN hex - 1 ELSE IF FALSE /\ c = "u" THEN HexDigits ELSE 0
    OBVIOUS
  <2> HIDE DEF due
  <2>2. /\ Mending(p, due, FALSE) /\ Len(p) = Len(o) + 1
        /\ Quotes(p, Len(p)) = Quotes(o, Len(o)) + (IF c = "quote" /\ ~ FALSE THEN 1 ELSE 0)
    BY <1>1, <2>1, MendingGoesOn DEF Closed
  <2>3. QED
    BY <2>2 DEF due, Closed
<1>2. ASSUME Closed(o, 0), c = "slash", Quotes(o, Len(o)) % 2 = 1
      PROVE  /\ Open(p)
             /\ Len(p) = Len(o) + 1
             /\ Quotes(p, Len(p)) = Quotes(o, Len(o))
  <2> DEFINE esc == FALSE
             escapes == TRUE
             z == 0
  <2>1. Mending(o, z, esc)
    BY <1>2 DEF Closed
  <2>2. esc \in BOOLEAN /\ escapes \in BOOLEAN /\ ~ esc /\ escapes /\ z = 0
    OBVIOUS
  <2> HIDE DEF esc, escapes, z
  <2>3. /\ ~ z > 0
        /\ (escapes <=> c = "slash" /\ ~ esc)
        /\ z = IF z > 0 THEN z - 1 ELSE IF esc /\ c = "u" THEN HexDigits ELSE 0
    BY <1>2, <2>2
  <2>4. /\ Mending(p, z, escapes) /\ Len(p) = Len(o) + 1
        /\ Quotes(p, Len(p)) = Quotes(o, Len(o)) + (IF c = "quote" /\ ~ esc THEN 1 ELSE 0)
    BY <1>2, <2>3, <2>1, <2>2, MendingGoesOn
  <2>5. Quotes(o, Len(o)) \in Nat
    <3>1. o \in Seq(Chars)
      BY <2>1 DEF Mending
    <3>2. QED
      BY <3>1, LenProperties, QuotesAre
  <2>6. Quotes(p, Len(p)) = Quotes(o, Len(o))
    BY <1>2, <2>4, <2>5, <2>2
  <2>7. QED
    BY <2>4, <2>6 DEF escapes, z, Open
<1>3. ASSUME Open(o), c # "d", c = "slash" => Quotes(o, Len(o)) % 2 = 1
      PROVE  /\ Closed(p, IF c = "u" THEN HexDigits ELSE 0)
             /\ Len(p) = Len(o) + 1
             /\ Quotes(p, Len(p)) = Quotes(o, Len(o))
  <2> DEFINE due == IF c = "u" THEN HexDigits ELSE 0
  <2> DEFINE esc == TRUE
             escapes == FALSE
             z == 0
  <2>1. Mending(o, z, esc)
    BY <1>3 DEF Open
  <2>2. esc \in BOOLEAN /\ escapes \in BOOLEAN /\ esc /\ ~ escapes /\ z = 0
    OBVIOUS
  <2> HIDE DEF esc, escapes, z
  <2>3. /\ ~ z > 0
        /\ (escapes <=> c = "slash" /\ ~ esc)
        /\ due = IF z > 0 THEN z - 1 ELSE IF esc /\ c = "u" THEN HexDigits ELSE 0
    BY <1>3, <2>2
  <2> HIDE DEF due
  <2>4. (esc => c # "d" /\ z = 0) /\ (z > 0 => c = "d")
    BY <1>3, <2>3, <2>2
  <2>5. /\ Mending(p, due, escapes) /\ Len(p) = Len(o) + 1
        /\ Quotes(p, Len(p)) = Quotes(o, Len(o)) + (IF c = "quote" /\ ~ esc THEN 1 ELSE 0)
    BY <1>3, <2>3, <2>1, <2>2, <2>4, MendingGoesOn
  <2>6. Quotes(o, Len(o)) \in Nat
    <3>1. o \in Seq(Chars)
      BY <2>1 DEF Mending
    <3>2. QED
      BY <3>1, LenProperties, QuotesAre
  <2>7. Quotes(p, Len(p)) = Quotes(o, Len(o))
    BY <2>5, <2>6, <2>2
  <2>8. QED
    BY <2>5, <2>7 DEF escapes, due, Closed
<1>4. QED
  BY <1>1, <1>2, <1>3

\* What the reader of escapes holds, and what it holds first.
Scans == [mode : {"text", "string", "slash"}, hex : Nat, out : Seq(Chars)]
ScanStart == [mode |-> "text", hex |-> 0, out |-> <<>>]

\* r is st with one more character read.
ScanTo(st, c, r) ==
  /\ r \in Scans
  /\ st.hex > 0 => r.mode = st.mode /\ r.hex = st.hex - 1 /\ r.out = Append(st.out, c)
  /\ st.hex = 0 /\ st.mode = "slash" =>
       /\ r.mode = "string"
       /\ r.hex = IF c = "u" THEN HexDigits ELSE 0
       /\ r.out = st.out \o (IF c = "d" THEN <<"slash", "slash", c>> ELSE <<"slash", c>>)
  /\ st.hex = 0 /\ st.mode = "string" /\ c = "slash" =>
       r.mode = "slash" /\ r.hex = 0 /\ r.out = st.out
  /\ st.hex = 0 /\ st.mode # "slash" /\ ~ (st.mode = "string" /\ c = "slash") =>
       /\ r.mode = IF c # "quote" THEN st.mode
                   ELSE IF st.mode = "text" THEN "string" ELSE "text"
       /\ r.hex = 0
       /\ r.out = Append(st.out, c)

\* Scan does that.
LEMMA ScanIs ==
  ASSUME NEW st \in Scans, NEW c \in Chars
  PROVE  ScanTo(st, c, Scan(st, c))
<1> DEFINE r == Scan(st, c)
<1>1. /\ st.hex \in Nat /\ st.out \in Seq(Chars) /\ st.mode \in {"text", "string", "slash"}
      /\ st = [mode |-> st.mode, hex |-> st.hex, out |-> st.out]
      /\ HexDigits \in Nat
  BY AgentAnswerAssumption DEF Scans
<1>2. Append(st.out, c) \in Seq(Chars)
  BY <1>1, AppendProperties
<1>3. CASE st.hex > 0
  <2>1. r = [st EXCEPT !.hex = st.hex - 1, !.out = Append(st.out, c)]
    BY <1>3 DEF Scan
  <2>2. r.mode = st.mode /\ r.hex = st.hex - 1 /\ r.out = Append(st.out, c)
    BY <1>1, <2>1
  <2>3. r = [mode |-> st.mode, hex |-> st.hex - 1, out |-> Append(st.out, c)]
    BY <1>1, <2>1
  <2>4. st.hex - 1 \in Nat
    BY <1>1, <1>3
  <2>5. r \in Scans
    BY <1>1, <1>2, <2>3, <2>4 DEF Scans
  <2> HIDE DEF r
  <2>6. ~ st.hex = 0
    BY <1>1, <1>3
  <2>7. ScanTo(st, c, r)
    BY <2>2, <2>5, <2>6 DEF ScanTo
  <2>8. QED
    BY <2>7 DEF r
<1>4. CASE st.hex = 0 /\ st.mode = "slash"
  <2> DEFINE more == IF c = "d" THEN <<"slash", "slash", c>> ELSE <<"slash", c>>
             hex == IF c = "u" THEN HexDigits ELSE 0
  <2>0. (c \in ValidEscape <=> c # "d") /\ ~ st.hex > 0
    BY <1>4 DEF Chars, ValidEscape
  <2>1. r = [mode |-> "string", hex |-> hex, out |-> st.out \o more]
    <3>1. more = IF c \in ValidEscape THEN <<"slash", c>> ELSE <<"slash", "slash", c>>
      BY <2>0
    <3>2. r = [mode |-> "string", hex |-> hex,
               out |-> st.out \o (IF c \in ValidEscape THEN <<"slash", c>>
                                  ELSE <<"slash", "slash", c>>)]
      BY <1>4, <2>0, Zenon DEF Scan
    <3> HIDE DEF more, hex
    <3>3. QED
      BY <3>1, <3>2
  <2>2. <<"slash", "slash", c>> \in Seq(Chars) /\ <<"slash", c>> \in Seq(Chars)
    BY DEF Chars, ValidEscape
  <2>3. st.out \o more \in Seq(Chars)
    BY <1>1, <2>2, ConcatProperties
  <2>4. hex \in Nat
    BY <1>1
  <2> HIDE DEF more, hex
  <2>5. r.mode = "string" /\ r.hex = hex /\ r.out = st.out \o more
    BY <2>1
  <2>6. r \in Scans
    BY <2>1, <2>3, <2>4 DEF Scans
  <2> HIDE DEF r
  <2>7. ScanTo(st, c, r)
    BY <1>4, <2>0, <2>5, <2>6 DEF more, hex, ScanTo
  <2>8. QED
    BY <2>7 DEF r
<1>5. CASE st.hex = 0 /\ st.mode = "string" /\ c = "slash"
  <2>1. r = [st EXCEPT !.mode = "slash"]
    BY <1>5 DEF Scan
  <2>2. r = [mode |-> "slash", hex |-> 0, out |-> st.out]
    BY <1>1, <1>5, <2>1
  <2>3. r \in Scans
    BY <1>1, <2>2 DEF Scans
  <2>4. r.mode = "slash" /\ r.hex = 0 /\ r.out = st.out
    BY <2>2
  <2> HIDE DEF r
  <2>5. ScanTo(st, c, r)
    BY <1>5, <2>3, <2>4 DEF ScanTo
  <2>6. QED
    BY <2>5 DEF r
<1>6. CASE st.hex = 0 /\ st.mode # "slash" /\ ~ (st.mode = "string" /\ c = "slash")
  <2> DEFINE mode == IF c # "quote" THEN st.mode
                     ELSE IF st.mode = "text" THEN "string" ELSE "text"
  <2>1. r = [mode |-> mode, hex |-> 0, out |-> Append(st.out, c)]
    BY <1>6 DEF Scan
  <2>2. mode \in {"text", "string", "slash"}
    BY <1>1
  <2>3. r.mode = mode /\ r.hex = 0 /\ r.out = Append(st.out, c)
    BY <2>1
  <2> HIDE DEF mode
  <2>4. r \in Scans
    BY <1>2, <2>1, <2>2 DEF Scans
  <2> HIDE DEF r
  <2>5. r.mode = IF c # "quote" THEN st.mode
                 ELSE IF st.mode = "text" THEN "string" ELSE "text"
    BY <2>3 DEF mode
  <2>6. ~ st.hex > 0
    BY <1>6
  <2>7. ScanTo(st, c, r)
    BY <1>6, <2>3, <2>4, <2>5, <2>6, Zenon DEF ScanTo
  <2>8. QED
    BY <2>7 DEF r
<1>7. st.hex > 0 \/ st.hex = 0
  BY <1>1
<1>8. QED
  BY <1>3, <1>4, <1>5, <1>6, <1>7

\* c reads a text, character by character.
ScanGo(c, s) ==
  /\ FoldLeft(Scan, ScanStart, s) = c[Len(s)]
  /\ c[0] = ScanStart
  /\ \A k \in 0..Len(s) : c[k] \in Scans
  /\ \A k \in 1..Len(s) : c[k] = Scan(c[k - 1], s[k])

\* Such a c there is.
LEMMA ScanFold ==
  ASSUME NEW s \in Seq(Chars)
  PROVE  \E c : ScanGo(c, s)
<1> DEFINE n == Len(s)
           It(g) == g = [w \in SUBSET (1..n) |->
                           IF w = {} THEN ScanStart ELSE Scan(g[w \ {Max(w)}], s[Max(w)])]
           it == CHOOSE g : It(g)
           next == [k \in 1..n |-> [v \in Scans |-> Scan(v, s[k])]]
<1>1. n \in Nat /\ DOMAIN s = 1..n /\ \A k \in 1..n : s[k] \in Chars
  BY LenProperties, ElementOfSeq
<1>2. FoldLeft(Scan, ScanStart, s) = it[1..n]
  BY <1>1 DEF FoldLeft, MapThenFoldSet
<1> HIDE DEF n
<1>3. ScanStart \in Scans
  <2>1. 0 \in Nat /\ <<>> \in Seq(Chars)
    BY EmptySeq
  <2>2. QED
    BY <2>1 DEF Scans, ScanStart
<1>4. next \in [1..n -> [Scans -> Scans]]
  <2>1. \A k \in 1..n, v \in Scans : Scan(v, s[k]) \in Scans
    BY <1>1, ScanIs DEF ScanTo
  <2>2. QED
    BY <2>1
<1>5. \A k \in 1..n, v \in Scans : next[k][v] = Scan(v, s[k])
  OBVIOUS
<1> HIDE DEF next
<1>6. \E g : It(g)
  <2>1. PICK g \in [SUBSET (1..n) -> Scans] : Goes(g, n, ScanStart, next)
    BY <1>1, <1>3, <1>4, SetRecursion
  <2>2. ASSUME NEW w \in SUBSET (1..n), w # {}
        PROVE  g[w] = Scan(g[w \ {Max(w)}], s[Max(w)])
    <3>1. Max(w) \in 1..n /\ w \ {Max(w)} \in SUBSET (1..n)
      BY <1>1, <2>2, MaxOf
    <3>2. g[w \ {Max(w)}] \in Scans
      BY <2>1, <3>1
    <3>3. QED
      BY <1>5, <2>1, <2>2, <3>1, <3>2 DEF Goes
  <2>3. It(g)
    BY <2>1, <2>2 DEF Goes
  <2>4. QED
    BY <2>3
<1>7. It(it)
  BY <1>6
<1> HIDE DEF it
<1>8. it[{}] = ScanStart
  BY <1>7
<1>9. ASSUME NEW w \in SUBSET (1..n), w # {}, it[w \ {Max(w)}] \in Scans
      PROVE  it[w] = next[Max(w)][it[w \ {Max(w)}]]
  <2>1. Max(w) \in 1..n
    BY <1>1, <1>9, MaxOf
  <2>2. it[w] = Scan(it[w \ {Max(w)}], s[Max(w)])
    BY <1>7, <1>9
  <2>3. QED
    BY <1>5, <1>9, <2>1, <2>2
<1>10. Through(it, n, Scans, ScanStart, next)
  BY <1>8, <1>9 DEF Through
<1>11. PICK c : Ends(c, n, Scans, ScanStart, next, it[1..n])
  <2>1. Moves(n, Scans, ScanStart, next)
    BY <1>1, <1>3, <1>4 DEF Moves
  <2>2. QED
    BY <1>10, <2>1, FoldSteps
<1>12. /\ c \in [0..n -> Scans] /\ c[0] = ScanStart /\ c[n] = it[1..n]
       /\ \A k \in 1..n : c[k] = next[k][c[k - 1]]
  BY <1>11 DEF Walks, Ends
<1>13. ASSUME NEW k \in 1..n PROVE c[k] = Scan(c[k - 1], s[k])
  <2>1. k - 1 \in 0..n
    BY <1>1
  <2>2. QED
    BY <1>5, <1>12, <2>1
<1>14. ScanGo(c, s)
  BY <1>1, <1>2, <1>12, <1>13 DEF n, ScanGo
<1>15. QED
  BY <1>14

\* Two or three characters are put after a text one by one.
LEMMA OneByOne ==
  ASSUME NEW U, NEW o \in Seq(U), NEW x \in U, NEW y \in U, NEW z \in U
  PROVE  /\ o \o <<x, y>> = Append(Append(o, x), y)
         /\ o \o <<x, y, z>> = Append(Append(Append(o, x), y), z)
<1> DEFINE n == Len(o)
           p == Append(o, x)
           q == Append(p, y)
           r == Append(q, z)
<1>1. n \in Nat
  BY LenProperties
<1>2. /\ p \in Seq(U) /\ Len(p) = n + 1 /\ p[n + 1] = x
      /\ \A i \in 1..n : p[i] = o[i]
  BY AppendProperties
<1> HIDE DEF p
<1>3. /\ q \in Seq(U) /\ Len(q) = n + 2 /\ q[n + 2] = y
      /\ \A i \in 1..n + 1 : q[i] = p[i]
  <2>1. /\ q \in Seq(U) /\ Len(q) = Len(p) + 1 /\ q[Len(p) + 1] = y
        /\ \A i \in 1..Len(p) : q[i] = p[i]
    BY <1>2, AppendProperties
  <2>2. Len(p) + 1 = n + 2
    BY <1>1, <1>2
  <2>3. QED
    BY <1>2, <2>1, <2>2
<1> HIDE DEF q
<1>4. /\ r \in Seq(U) /\ Len(r) = n + 3 /\ r[n + 3] = z
      /\ \A i \in 1..n + 2 : r[i] = q[i]
  <2>1. /\ r \in Seq(U) /\ Len(r) = Len(q) + 1 /\ r[Len(q) + 1] = z
        /\ \A i \in 1..Len(q) : r[i] = q[i]
    BY <1>3, AppendProperties
  <2>2. Len(q) + 1 = n + 3
    BY <1>1, <1>3
  <2>3. QED
    BY <1>3, <2>1, <2>2
<1> HIDE DEF r
<1>5. o \o <<x, y>> = q
  <2> DEFINE t == <<x, y>>
             u == o \o t
  <2>1. t \in Seq(U) /\ Len(t) = 2 /\ t[1] = x /\ t[2] = y
    OBVIOUS
  <2> HIDE DEF t
  <2>2. /\ u \in Seq(U) /\ Len(u) = n + 2
        /\ \A i \in 1..n + 2 : u[i] = IF i <= n THEN o[i] ELSE t[i - n]
    <3>1. /\ u \in Seq(U) /\ Len(u) = Len(o) + Len(t)
          /\ \A i \in 1..Len(o) + Len(t) : u[i] = IF i <= Len(o) THEN o[i] ELSE t[i - Len(o)]
      BY <2>1, ConcatProperties
    <3>2. Len(o) + Len(t) = n + 2
      BY <2>1
    <3> HIDE DEF u
    <3>3. QED
      BY <3>1, <3>2
  <2> HIDE DEF u
  <2>3. ASSUME NEW i \in 1..n + 2 PROVE u[i] = q[i]
    <3>1. u[i] = IF i <= n THEN o[i] ELSE t[i - n]
      BY <2>2
    <3>2. CASE i <= n
      <4>1. i \in 1..n /\ i \in 1..n + 1
        BY <1>1, <3>2
      <4>2. QED
        BY <1>2, <1>3, <3>1, <3>2, <4>1
    <3>3. CASE i = n + 1
      <4>1. n + 1 \in 1..n + 1 /\ i - n = 1 /\ ~ i <= n
        BY <1>1, <3>3
      <4>2. QED
        BY <1>2, <1>3, <2>1, <3>1, <3>3, <4>1
    <3>4. CASE i = n + 2
      <4>1. i - n = 2 /\ ~ i <= n
        BY <1>1, <3>4
      <4>2. QED
        BY <1>3, <2>1, <3>1, <3>4, <4>1
    <3>5. QED
      BY <1>1, <3>2, <3>3, <3>4
  <2>4. u = q
    BY <1>3, <2>2, <2>3, SeqEqual
  <2>5. QED
    BY <2>4 DEF u, t
<1>6. o \o <<x, y, z>> = r
  <2> DEFINE t == <<x, y, z>>
             u == o \o t
  <2>1. t \in Seq(U) /\ Len(t) = 3 /\ t[1] = x /\ t[2] = y /\ t[3] = z
    OBVIOUS
  <2> HIDE DEF t
  <2>2. /\ u \in Seq(U) /\ Len(u) = n + 3
        /\ \A i \in 1..n + 3 : u[i] = IF i <= n THEN o[i] ELSE t[i - n]
    <3>1. /\ u \in Seq(U) /\ Len(u) = Len(o) + Len(t)
          /\ \A i \in 1..Len(o) + Len(t) : u[i] = IF i <= Len(o) THEN o[i] ELSE t[i - Len(o)]
      BY <2>1, ConcatProperties
    <3>2. Len(o) + Len(t) = n + 3
      BY <2>1
    <3> HIDE DEF u
    <3>3. QED
      BY <3>1, <3>2
  <2> HIDE DEF u
  <2>3. ASSUME NEW i \in 1..n + 3 PROVE u[i] = r[i]
    <3>1. u[i] = IF i <= n THEN o[i] ELSE t[i - n]
      BY <2>2
    <3>2. CASE i <= n
      <4>1. i \in 1..n /\ i \in 1..n + 1 /\ i \in 1..n + 2
        BY <1>1, <3>2
      <4>2. QED
        BY <1>2, <1>3, <1>4, <3>1, <3>2, <4>1
    <3>3. CASE i = n + 1
      <4>1. n + 1 \in 1..n + 1 /\ n + 1 \in 1..n + 2 /\ i - n = 1 /\ ~ i <= n
        BY <1>1, <3>3
      <4>2. QED
        BY <1>2, <1>3, <1>4, <2>1, <3>1, <3>3, <4>1
    <3>4. CASE i = n + 2
      <4>1. n + 2 \in 1..n + 2 /\ i - n = 2 /\ ~ i <= n
        BY <1>1, <3>4
      <4>2. QED
        BY <1>3, <1>4, <2>1, <3>1, <3>4, <4>1
    <3>5. CASE i = n + 3
      <4>1. i - n = 3 /\ ~ i <= n
        BY <1>1, <3>5
      <4>2. QED
        BY <1>4, <2>1, <3>1, <3>5, <4>1
    <3>6. QED
      BY <1>1, <3>2, <3>3, <3>4, <3>5
  <2>4. u = r
    BY <1>4, <2>2, <2>3, SeqEqual
  <2>5. QED
    BY <2>4 DEF u, t
<1>7. QED
  BY <1>5, <1>6 DEF p, q, r

\* The bad escapes among the first k characters.
BadUpTo(s, k) == Cardinality({i \in 1..k : i \in BadEscapes(s)})

\* Where sanitize_json_escapes is when it has read k characters of s.
Mended(st, s, k) ==
  /\ st \in Scans
  /\ st.mode = "slash" <=> Escaped(s, k + 1)
  /\ st.mode = "slash" => st.hex = 0
  /\ st.mode = "text" <=> Quotes(s, k) % 2 = 0
  /\ Closed(st.out, st.hex)
  /\ Quotes(st.out, Len(st.out)) % 2 = Quotes(s, k) % 2
  /\ \A j \in (k + 1)..(k + st.hex) : j \in DOMAIN s /\ s[j] = "d"
  /\ Len(st.out) = k + BadUpTo(s, k) - (IF st.mode = "slash" THEN 1 ELSE 0)
  /\ BadEscapes(s) = {} => \A i \in 1..Len(st.out) : st.out[i] = s[i]

\* Quotes are even or not.
LEMMA OneMoreQuote ==
  ASSUME NEW a \in Nat, NEW b \in Nat, a % 2 = b % 2
  PROVE  (a + 1) % 2 = (b + 1) % 2 /\ ((a + 1) % 2 = 0 <=> a % 2 # 0) /\ (a % 2 = 1 <=> a % 2 # 0)
  OBVIOUS

\* The next character of s.
LEMMA NextIs ==
  ASSUME NEW s \in Seq(Chars), JsonText(s), NEW k \in Nat, k + 1 <= Len(s)
  PROVE  LET c == s[k + 1]
             esc == Escaped(s, k + 1)
         IN  /\ c \in Chars
             /\ k + 1 \in 1..Len(s)
             /\ Escaped(s, k + 2) <=> c = "slash" /\ ~ esc
             /\ Quotes(s, k) \in Nat
             /\ Quotes(s, k + 1) = Quotes(s, k) + (IF c = "quote" /\ ~ esc THEN 1 ELSE 0)
             /\ c = "slash" => Quotes(s, k) % 2 = 1
             /\ c = "u" /\ esc =>
                  \A j \in (k + 2)..(k + 1 + HexDigits) : j \in DOMAIN s /\ s[j] = "d"
             /\ BadUpTo(s, k) \in Nat
             /\ BadUpTo(s, k + 1) = BadUpTo(s, k) + (IF c = "d" /\ esc THEN 1 ELSE 0)
             /\ esc => k > 0 /\ s[k] = "slash"
<1> DEFINE c == s[k + 1]
           esc == Escaped(s, k + 1)
<1>1. Len(s) \in Nat /\ DOMAIN s = 1..Len(s)
  BY LenProperties
<1>2. k + 1 \in 1..Len(s) /\ k + 1 \in Nat /\ k + 1 > 0 /\ k + 1 + 1 = k + 2
  BY <1>1
<1>3. c \in Chars
  BY <1>2, ElementOfSeq
<1>4. Escaped(s, k + 2) <=> c = "slash" /\ ~ esc
  BY <1>2, EscapedIs
<1>5. /\ Quotes(s, k) \in Nat
      /\ Quotes(s, k + 1) = Quotes(s, k) + (IF c = "quote" /\ ~ esc THEN 1 ELSE 0)
  BY QuotesAre
<1>6. c = "slash" => Quotes(s, k + 1) % 2 = 1
  BY <1>1, <1>2 DEF JsonText
<1>7. c = "u" /\ esc =>
        \A j \in (k + 2)..(k + 1 + HexDigits) : j \in DOMAIN s /\ s[j] = "d"
  BY <1>1, <1>2 DEF JsonText
<1>8. k + 1 \in BadEscapes(s) <=> c = "d" /\ esc
  BY <1>1, <1>2 DEF BadEscapes
<1>9. /\ BadUpTo(s, k) \in Nat
      /\ BadUpTo(s, k + 1) = BadUpTo(s, k) + (IF k + 1 \in BadEscapes(s) THEN 1 ELSE 0)
  <2> DEFINE T == BadEscapes(s)
  <2> HIDE DEF T
  <2>1. /\ Cardinality({i \in 1..k : i \in T}) \in Nat
        /\ Cardinality({i \in 1..k + 1 : i \in T})
             = Cardinality({i \in 1..k : i \in T}) + (IF k + 1 \in T THEN 1 ELSE 0)
    BY OneMorePlace
  <2>2. QED
    BY <2>1 DEF BadUpTo, T
<1>10. ASSUME esc PROVE k > 0 /\ s[k] = "slash"
  <2>1. k # 0
    BY <1>10, EscapedIs
  <2>2. k > 0
    BY <2>1
  <2>3. QED
    BY <1>10, <2>2, EscapedIs
<1>11. c = "slash" => Quotes(s, k) % 2 = 1
  BY <1>5, <1>6
<1> HIDE DEF c, esc
<1>12. BadUpTo(s, k + 1) = BadUpTo(s, k) + (IF c = "d" /\ esc THEN 1 ELSE 0)
  BY <1>8, <1>9
<1>13. QED
  BY <1>2, <1>3, <1>4, <1>5, <1>7, <1>9, <1>10, <1>11, <1>12 DEF c, esc

\* What has been written when no escape was bad is what was read.
Echoes(o, s) == \A i \in 1..Len(o) : o[i] = s[i]

\* It stays so with the next character.
LEMMA EchoGoesOn ==
  ASSUME NEW U, NEW o \in Seq(U), NEW s, NEW c \in U, Echoes(o, s), c = s[Len(o) + 1]
  PROVE  Echoes(Append(o, c), s)
<1> DEFINE n == Len(o)
           p == Append(o, c)
<1>1. n \in Nat
  BY LenProperties
<1>2. Len(p) = n + 1 /\ p[n + 1] = c /\ \A i \in 1..n : p[i] = o[i]
  BY AppendProperties
<1> HIDE DEF p
<1>3. \A i \in 1..n : o[i] = s[i]
  BY DEF Echoes
<1>4. c = s[n + 1]
  OBVIOUS
<1> HIDE DEF n
<1>5. ASSUME NEW i \in 1..n + 1 PROVE p[i] = s[i]
  <2>1. CASE i \in 1..n
    BY <1>2, <1>3, <2>1
  <2>2. CASE i = n + 1
    BY <1>2, <1>4, <2>2
  <2>3. QED
    BY <1>1, <2>1, <2>2
<1>6. QED
  BY <1>2, <1>5 DEF Echoes, p

\* Reading one more character goes on with it.
LEMMA MendedGoesOn ==
  ASSUME NEW s \in Seq(Chars), JsonText(s), NEW k \in Nat, k + 1 <= Len(s),
         NEW st, Mended(st, s, k)
  PROVE  Mended(Scan(st, s[k + 1]), s, k + 1)
<1> DEFINE c == s[k + 1]
           esc == Escaped(s, k + 1)
           r == Scan(st, c)
           o == st.out
           n == Len(o)
           H == HexDigits
           q == Quotes(s, k)
           w == Quotes(o, n)
           bad == BadUpTo(s, k)
<1>0. SUFFICES Mended(r, s, k + 1)
  OBVIOUS
<1>1. /\ c \in Chars /\ k + 1 \in 1..Len(s)
      /\ Escaped(s, k + 2) <=> c = "slash" /\ ~ esc
      /\ q \in Nat
      /\ Quotes(s, k + 1) = q + (IF c = "quote" /\ ~ esc THEN 1 ELSE 0)
      /\ c = "slash" => q % 2 = 1
      /\ bad \in Nat
      /\ BadUpTo(s, k + 1) = bad + (IF c = "d" /\ esc THEN 1 ELSE 0)
      /\ esc => k > 0 /\ s[k] = "slash"
  BY NextIs
<1>2. c = "u" /\ esc => \A j \in (k + 2)..(k + 1 + H) : j \in DOMAIN s /\ s[j] = "d"
  BY NextIs
<1>3. /\ st \in Scans
      /\ st.mode = "slash" <=> esc
      /\ st.mode = "slash" => st.hex = 0
      /\ st.mode = "text" <=> q % 2 = 0
      /\ Closed(o, st.hex)
      /\ w % 2 = q % 2
      /\ n = k + bad - (IF st.mode = "slash" THEN 1 ELSE 0)
  BY DEF Mended
<1>4. \A j \in (k + 1)..(k + st.hex) : j \in DOMAIN s /\ s[j] = "d"
  BY DEF Mended
<1>5. BadEscapes(s) = {} => Echoes(o, s)
  BY DEF Mended, Echoes
<1>6. /\ o \in Seq(Chars) /\ n \in Nat /\ w \in Nat /\ H \in Nat
      /\ st.hex \in Nat /\ st.mode \in {"text", "string", "slash"}
  BY <1>3, LenProperties, QuotesAre, AgentAnswerAssumption DEF Scans
<1>7. ScanTo(st, c, r)
  BY <1>1, <1>3, ScanIs
<1>8. BadEscapes(s) = {} => bad = 0
  <2>1. ASSUME BadEscapes(s) = {} PROVE {i \in 1..k : i \in BadEscapes(s)} = {}
    BY <2>1
  <2>2. QED
    BY <2>1, FS_EmptySet DEF BadUpTo
<1>9. BadEscapes(s) = {} => ~ (c = "d" /\ esc)
  BY <1>1, LenProperties DEF BadEscapes
<1>10. r \in Scans
  BY <1>7 DEF ScanTo
<1>11. k + 1 + 1 = k + 2
  OBVIOUS
<1> HIDE DEF c, esc, r, o, n, H, q, w, bad
<1>12. CASE st.hex > 0
  <2>1. k + 1 \in (k + 1)..(k + st.hex)
    BY <1>6, <1>12
  <2>2. c = "d" /\ ~ esc
    BY <1>3, <1>4, <1>12, <2>1 DEF c
  <2>3. r.mode = st.mode /\ r.hex = st.hex - 1 /\ r.out = Append(o, c)
    BY <1>7, <1>12 DEF ScanTo, o
  <2>4. /\ Closed(r.out, r.hex) /\ Len(r.out) = n + 1
        /\ Quotes(r.out, Len(r.out)) = w
    <3>1. /\ Closed(Append(o, c), st.hex - 1) /\ Len(Append(o, c)) = n + 1
          /\ Quotes(Append(o, c), Len(Append(o, c))) = w + 0
      BY <1>1, <1>3, <1>12, <2>2, NextInMending DEF n, w
    <3>2. QED
      BY <1>6, <2>3, <3>1
  <2>5. \A j \in (k + 1 + 1)..(k + 1 + r.hex) : j \in DOMAIN s /\ s[j] = "d"
    BY <1>4, <1>6, <2>3
  <2>6. BadEscapes(s) = {} => Echoes(r.out, s)
    <3>1. SUFFICES ASSUME BadEscapes(s) = {} PROVE Echoes(Append(o, c), s)
      BY <2>3
    <3>2. n + 1 = k + 1
      BY <1>3, <1>8, <2>2, <3>1
    <3>3. c = s[Len(o) + 1]
      BY <3>2 DEF c, n
    <3>4. QED
      BY <1>1, <1>5, <1>6, <3>1, <3>3, EchoGoesOn
  <2>7. QED
    <3>0. Quotes(s, k + 1) = q
      BY <1>1, <2>2
    <3>1. r.mode = "slash" <=> Escaped(s, k + 1 + 1)
      BY <1>1, <1>3, <1>11, <1>12, <2>2, <2>3
    <3>2. r.mode = "slash" => r.hex = 0
      BY <1>3, <1>12, <2>3
    <3>3. r.mode = "text" <=> Quotes(s, k + 1) % 2 = 0
      BY <1>3, <2>3, <3>0
    <3>4. Quotes(r.out, Len(r.out)) % 2 = Quotes(s, k + 1) % 2
      BY <1>3, <2>4, <3>0
    <3>5. Len(r.out) = k + 1 + BadUpTo(s, k + 1) - (IF r.mode = "slash" THEN 1 ELSE 0)
      BY <1>1, <1>3, <1>12, <2>2, <2>3, <2>4
    <3>6. BadEscapes(s) = {} => \A i \in 1..Len(r.out) : r.out[i] = s[i]
      BY <2>6 DEF Echoes
    <3>7. QED
      BY <1>10, <3>1, <3>2, <3>3, <3>4, <3>5, <3>6, <2>4, <2>5 DEF Mended
<1>13. CASE st.hex = 0 /\ st.mode = "slash"
  <2> DEFINE p == Append(o, "slash")
             due == IF c = "u" THEN H ELSE 0
  <2>1. /\ esc /\ q % 2 = 1 /\ w % 2 = 1 /\ k > 0 /\ s[k] = "slash" /\ n = k + bad - 1
        /\ ~ Escaped(s, k + 2) /\ Quotes(s, k + 1) = q
    <3>1. q % 2 # 0
      BY <1>3, <1>13
    <3>2. q % 2 = 1
      BY <1>1, <3>1
    <3>3. QED
      BY <1>1, <1>3, <1>13, <3>2
  <2>2. /\ r.mode = "string" /\ r.hex = due
        /\ r.out = o \o (IF c = "d" THEN <<"slash", "slash", c>> ELSE <<"slash", c>>)
    BY <1>7, <1>13 DEF ScanTo, H, o
  <2>3. "slash" \in Chars
    BY DEF Chars, ValidEscape
  <2>4. /\ Open(p) /\ Len(p) = n + 1 /\ Quotes(p, Len(p)) = w
        /\ p \in Seq(Chars)
    <3>1. Closed(o, 0) /\ Quotes(o, Len(o)) % 2 = 1
      BY <1>3, <1>13, <2>1 DEF w, n
    <3>2. /\ Open(p) /\ Len(p) = Len(o) + 1
          /\ Quotes(p, Len(p)) = Quotes(o, Len(o))
      BY <2>3, <3>1, NextInMending
    <3>3. QED
      BY <1>6, <3>2 DEF Open, Mending, w, n
  <2>5. BadEscapes(s) = {} => Echoes(p, s)
    <3>1. SUFFICES ASSUME BadEscapes(s) = {} PROVE Echoes(p, s)
      OBVIOUS
    <3>2. n + 1 = k
      BY <1>8, <2>1, <3>1
    <3>3. "slash" = s[Len(o) + 1]
      BY <2>1, <3>2 DEF n
    <3>4. QED
      BY <1>5, <1>6, <2>3, <3>1, <3>3, EchoGoesOn
  <2> HIDE DEF p
  <2>6. \A j \in (k + 1 + 1)..(k + 1 + r.hex) : j \in DOMAIN s /\ s[j] = "d"
    <3>1. CASE c = "u"
      BY <1>2, <1>11, <2>1, <2>2, <3>1
    <3>2. CASE c # "u"
      <4>1. r.hex = 0
        BY <2>2, <3>2
      <4>2. QED
        BY <4>1
    <3>3. QED
      BY <3>1, <3>2
  <2>7. CASE c # "d"
    <3>1. r.out = Append(p, c)
      BY <1>1, <1>6, <2>2, <2>3, <2>7, OneByOne DEF p
    <3>2. Closed(r.out, due) /\ Len(r.out) = n + 2 /\ Quotes(r.out, Len(r.out)) = w
      <4>1. c = "slash" => Quotes(p, Len(p)) % 2 = 1
        BY <2>1, <2>4
      <4>2. /\ Closed(Append(p, c), IF c = "u" THEN H ELSE 0)
            /\ Len(Append(p, c)) = Len(p) + 1
            /\ Quotes(Append(p, c), Len(Append(p, c))) = Quotes(p, Len(p))
        BY <1>1, <2>4, <2>7, <4>1, NextInMending DEF H
      <4>3. QED
        BY <1>6, <2>4, <3>1, <4>2
    <3>3. BadEscapes(s) = {} => Echoes(r.out, s)
      <4>1. SUFFICES ASSUME BadEscapes(s) = {} PROVE Echoes(Append(p, c), s)
        BY <3>1
      <4>2. Len(p) + 1 = k + 1
        BY <1>8, <2>1, <2>4, <4>1
      <4>3. c = s[Len(p) + 1]
        BY <4>2 DEF c
      <4>4. QED
        BY <1>1, <2>4, <2>5, <4>1, <4>3, EchoGoesOn
    <3>4. BadUpTo(s, k + 1) = bad
      BY <1>1, <2>7
    <3>5. n + 2 = k + 1 + bad
      BY <1>1, <1>6, <2>1
    <3>6. QED
      <4>1. r.mode = "slash" <=> Escaped(s, k + 1 + 1)
        BY <1>11, <2>1, <2>2
      <4>2. r.mode = "slash" => r.hex = 0
        BY <2>2
      <4>3. r.mode = "text" <=> Quotes(s, k + 1) % 2 = 0
        BY <2>1, <2>2
      <4>4. Quotes(r.out, Len(r.out)) % 2 = Quotes(s, k + 1) % 2
        BY <2>1, <3>2
      <4>5. Len(r.out) = k + 1 + BadUpTo(s, k + 1) - (IF r.mode = "slash" THEN 1 ELSE 0)
        BY <1>1, <1>6, <2>2, <3>2, <3>4, <3>5
      <4>6. BadEscapes(s) = {} => \A i \in 1..Len(r.out) : r.out[i] = s[i]
        BY <3>3 DEF Echoes
      <4>7. QED
        BY <1>10, <4>1, <4>2, <4>3, <4>4, <4>5, <4>6, <2>2, <2>6, <3>2 DEF Mended
  <2>8. CASE c = "d"
    <3> DEFINE p2 == Append(p, "slash")
    <3>1. r.out = Append(p2, c)
      <4>1. r.out = o \o <<"slash", "slash", c>>
        BY <2>2, <2>8
      <4>2. o \o <<"slash", "slash", c>> = Append(Append(Append(o, "slash"), "slash"), c)
        <5>1. o \in Seq(Chars) /\ "slash" \in Chars /\ c \in Chars
          BY <1>1, <1>6, <2>3
        <5>2. QED
          BY <5>1, OneByOne
      <4>3. QED
        BY <4>1, <4>2 DEF p
    <3>2. Closed(p2, 0) /\ Len(p2) = n + 2 /\ Quotes(p2, Len(p2)) = w
      <4>1. Quotes(p, Len(p)) % 2 = 1
        BY <2>1, <2>4
      <4>2. /\ Closed(p2, IF "slash" = "u" THEN HexDigits ELSE 0)
            /\ Len(p2) = Len(p) + 1
            /\ Quotes(p2, Len(p2)) = Quotes(p, Len(p))
        BY <2>3, <2>4, <4>1, NextInMending
      <4>3. QED
        BY <1>6, <2>4, <4>2
    <3> HIDE DEF p2
    <3>3. Closed(r.out, 0) /\ Len(r.out) = n + 3 /\ Quotes(r.out, Len(r.out)) = w
      <4>1. /\ Closed(Append(p2, c), 0)
            /\ Len(Append(p2, c)) = Len(p2) + 1
            /\ Quotes(Append(p2, c), Len(Append(p2, c))) = Quotes(p2, Len(p2))
        <5>1. /\ Closed(Append(p2, c), IF 0 > 0 THEN 0 - 1 ELSE 0)
              /\ Len(Append(p2, c)) = Len(p2) + 1
              /\ Quotes(Append(p2, c), Len(Append(p2, c)))
                   = Quotes(p2, Len(p2)) + (IF c = "quote" THEN 1 ELSE 0)
          BY <1>1, <2>8, <3>2, NextInMending
        <5>2. QED
          BY <1>6, <2>8, <3>2, <5>1
      <4>2. QED
        BY <1>6, <3>1, <3>2, <4>1
    <3>4. BadEscapes(s) # {} /\ BadUpTo(s, k + 1) = bad + 1 /\ due = 0
      BY <1>1, <1>9, <2>1, <2>8
    <3>5. n + 3 = k + 1 + (bad + 1)
      BY <1>1, <1>6, <2>1
    <3>6. QED
      <4>1. r.mode = "slash" <=> Escaped(s, k + 1 + 1)
        BY <1>11, <2>1, <2>2
      <4>2. r.mode = "slash" => r.hex = 0
        BY <2>2
      <4>3. r.mode = "text" <=> Quotes(s, k + 1) % 2 = 0
        BY <2>1, <2>2
      <4>4. Quotes(r.out, Len(r.out)) % 2 = Quotes(s, k + 1) % 2
        BY <2>1, <3>3
      <4>5. Len(r.out) = k + 1 + BadUpTo(s, k + 1) - (IF r.mode = "slash" THEN 1 ELSE 0)
        BY <1>1, <1>6, <2>2, <3>3, <3>4, <3>5
      <4>6. BadEscapes(s) = {} => \A i \in 1..Len(r.out) : r.out[i] = s[i]
        BY <3>4 DEF Echoes
      <4>7. QED
        BY <1>10, <4>1, <4>2, <4>3, <4>4, <4>5, <4>6, <2>2, <2>6, <3>3, <3>4 DEF Mended
  <2>9. QED
    BY <2>7, <2>8
<1>14. CASE st.hex = 0 /\ st.mode = "string" /\ c = "slash"
  <2>1. r.mode = "slash" /\ r.hex = 0 /\ r.out = o
    BY <1>7, <1>14 DEF ScanTo, o
  <2>2. /\ ~ esc /\ Escaped(s, k + 2) /\ Quotes(s, k + 1) = q /\ q % 2 # 0
        /\ BadUpTo(s, k + 1) = bad
    BY <1>1, <1>3, <1>14
  <2>3. n = k + 1 + bad - 1
    BY <1>1, <1>3, <1>6, <1>14
  <2>4. \A j \in (k + 1 + 1)..(k + 1 + r.hex) : j \in DOMAIN s /\ s[j] = "d"
    BY <2>1
  <2>5. Closed(r.out, 0)
    BY <1>3, <1>14, <2>1
  <2>6. QED
    <3>1. r.mode = "slash" <=> Escaped(s, k + 1 + 1)
      BY <1>11, <2>1, <2>2
    <3>2. r.mode = "slash" => r.hex = 0
      BY <2>1
    <3>3. r.mode = "text" <=> Quotes(s, k + 1) % 2 = 0
      BY <2>1, <2>2
    <3>4. Quotes(r.out, Len(r.out)) % 2 = Quotes(s, k + 1) % 2
      BY <1>3, <2>1, <2>2 DEF n, w
    <3>5. Len(r.out) = k + 1 + BadUpTo(s, k + 1) - (IF r.mode = "slash" THEN 1 ELSE 0)
      BY <2>1, <2>2, <2>3 DEF n
    <3>6. BadEscapes(s) = {} => \A i \in 1..Len(r.out) : r.out[i] = s[i]
      BY <1>5, <2>1 DEF Echoes
    <3>7. QED
      BY <1>10, <3>1, <3>2, <3>3, <3>4, <3>5, <3>6, <2>1, <2>4, <2>5 DEF Mended
<1>15. CASE st.hex = 0 /\ st.mode # "slash" /\ ~ (st.mode = "string" /\ c = "slash")
  <2>1. /\ r.mode = IF c # "quote" THEN st.mode
                    ELSE IF st.mode = "text" THEN "string" ELSE "text"
        /\ r.hex = 0
        /\ r.out = Append(o, c)
    BY <1>7, <1>15 DEF ScanTo, o
  <2>2. ~ esc /\ c # "slash"
    <3>1. c = "slash" => st.mode # "text"
      BY <1>1, <1>3
    <3>2. QED
      BY <1>3, <1>6, <1>15, <3>1
  <2>3. /\ Closed(r.out, 0) /\ Len(r.out) = n + 1
        /\ Quotes(r.out, Len(r.out)) = w + (IF c = "quote" THEN 1 ELSE 0)
    <3>1. /\ Closed(Append(o, c), 0) /\ Len(Append(o, c)) = Len(o) + 1
          /\ Quotes(Append(o, c), Len(Append(o, c)))
               = Quotes(o, Len(o)) + (IF c = "quote" THEN 1 ELSE 0)
      BY <1>1, <1>3, <1>15, <2>2, NextInMending
    <3>2. QED
      BY <2>1, <3>1 DEF n, w
  <2>4. BadEscapes(s) = {} => Echoes(r.out, s)
    <3>1. SUFFICES ASSUME BadEscapes(s) = {} PROVE Echoes(Append(o, c), s)
      BY <2>1
    <3>2. n + 1 = k + 1
      BY <1>3, <1>8, <2>2, <3>1
    <3>3. c = s[Len(o) + 1]
      BY <3>2 DEF c, n
    <3>4. QED
      BY <1>1, <1>5, <1>6, <3>1, <3>3, EchoGoesOn
  <2>5. /\ ~ Escaped(s, k + 2) /\ BadUpTo(s, k + 1) = bad
        /\ Quotes(s, k + 1) = q + (IF c = "quote" THEN 1 ELSE 0)
    BY <1>1, <2>2
  <2>6. \A j \in (k + 1 + 1)..(k + 1 + r.hex) : j \in DOMAIN s /\ s[j] = "d"
    BY <2>1
  <2>7. r.mode # "slash" /\ n + 1 = k + 1 + bad
    BY <1>1, <1>3, <1>6, <1>15, <2>1
  <2>8. /\ r.mode = "text" <=> Quotes(s, k + 1) % 2 = 0
        /\ Quotes(r.out, Len(r.out)) % 2 = Quotes(s, k + 1) % 2
    <3>1. CASE c = "quote"
      <4>1. (w + 1) % 2 = (q + 1) % 2 /\ ((q + 1) % 2 = 0 <=> q % 2 # 0)
        BY <1>1, <1>3, <1>6, OneMoreQuote
      <4>2. r.mode = "text" <=> st.mode # "text"
        BY <2>1, <3>1
      <4>3. QED
        BY <1>3, <2>3, <2>5, <3>1, <4>1, <4>2
    <3>2. CASE c # "quote"
      <4>1. r.mode = st.mode /\ Quotes(s, k + 1) = q /\ Quotes(r.out, Len(r.out)) = w
        BY <1>1, <1>6, <2>1, <2>3, <2>5, <3>2
      <4>2. QED
        BY <1>3, <4>1
    <3>3. QED
      BY <3>1, <3>2
  <2>9. QED
    <3>1. r.mode = "slash" <=> Escaped(s, k + 1 + 1)
      BY <1>11, <2>5, <2>7
    <3>2. r.mode = "slash" => r.hex = 0
      BY <2>7
    <3>3. r.mode = "text" <=> Quotes(s, k + 1) % 2 = 0
      BY <2>8
    <3>4. Quotes(r.out, Len(r.out)) % 2 = Quotes(s, k + 1) % 2
      BY <2>8
    <3>5. Len(r.out) = k + 1 + BadUpTo(s, k + 1) - (IF r.mode = "slash" THEN 1 ELSE 0)
      <4>1. Len(r.out) = n + 1 /\ BadUpTo(s, k + 1) = bad /\ n + 1 = k + 1 + bad
        BY <2>3, <2>5, <2>7
      <4>2. (IF r.mode = "slash" THEN 1 ELSE 0) = 0
        BY <2>7
      <4>3. k + 1 + bad = k + 1 + bad - 0
        BY <1>1
      <4>4. QED
        BY <4>1, <4>2, <4>3
    <3>6. BadEscapes(s) = {} => \A i \in 1..Len(r.out) : r.out[i] = s[i]
      BY <2>4 DEF Echoes
    <3>7. QED
      BY <1>10, <3>1, <3>2, <3>3, <3>4, <3>5, <3>6, <2>1, <2>3, <2>6 DEF Mended
<1>16. st.hex = 0 \/ st.hex > 0
  BY <1>6
<1>17. QED
  BY <1>12, <1>13, <1>14, <1>15, <1>16

\* What sanitize_json_escapes returns.
LEMMA SanitizedIs ==
  ASSUME NEW s \in Seq(Chars), JsonText(s)
  PROVE  LET t == SanitizeJsonEscapes(s)
         IN  /\ JsonText(t)
             /\ BadEscapes(t) = {}
             /\ Len(t) = Len(s) + Cardinality(BadEscapes(s))
             /\ BadEscapes(s) = {} => t = s
<1> DEFINE n == Len(s)
           t == SanitizeJsonEscapes(s)
<1>1. n \in Nat /\ DOMAIN s = 1..n
  BY LenProperties
<1>2. PICK c : ScanGo(c, s)
  BY ScanFold
<1>3. /\ FoldLeft(Scan, ScanStart, s) = c[n] /\ c[0] = ScanStart
      /\ \A k \in 1..n : c[k] = Scan(c[k - 1], s[k])
  BY <1>2 DEF ScanGo
<1> DEFINE S == {k \in Nat : k <= n => Mended(c[k], s, k)}
<1> HIDE DEF n
<1>4. 0 \in S
  <2>1. ~ Escaped(s, 1) /\ ~ Escaped(<<>>, 1)
    BY EscapedIs
  <2>2. Quotes(s, 0) = 0 /\ Quotes(<<>>, 0) = 0
    BY QuotesAre
  <2>3. <<>> \in Seq(Chars) /\ Len(<<>>) = 0
    BY EmptySeq
  <2>4. BadUpTo(s, 0) = 0
    <3>1. {i \in 1..0 : i \in BadEscapes(s)} = {}
      OBVIOUS
    <3>2. QED
      BY <3>1, FS_EmptySet DEF BadUpTo
  <2>5. Closed(<<>>, 0)
    <3>1. Escaped(<<>>, 0 + 1) = FALSE
      BY <2>1 DEF Escaped
    <3>2. \A i \in 1..0 : FALSE
      OBVIOUS
    <3>3. Mending(<<>>, 0, FALSE)
      BY <2>3, <3>1, <3>2 DEF Mending
    <3>4. QED
      BY <3>3 DEF Closed
  <2> DEFINE st == ScanStart
  <2>6. st \in Scans /\ st.mode = "text" /\ st.hex = 0 /\ st.out = <<>>
    BY <2>3 DEF ScanStart, Scans
  <2> HIDE DEF st
  <2>7. Mended(st, s, 0)
    <3>1. st.mode = "slash" <=> Escaped(s, 0 + 1)
      BY <2>1, <2>6
    <3>2. st.mode = "text" <=> Quotes(s, 0) % 2 = 0
      BY <2>2, <2>6
    <3>3. Closed(st.out, st.hex)
      BY <2>5, <2>6
    <3>4. Quotes(st.out, Len(st.out)) % 2 = Quotes(s, 0) % 2
      BY <2>2, <2>3, <2>6
    <3>5. \A j \in (0 + 1)..(0 + st.hex) : j \in DOMAIN s /\ s[j] = "d"
      BY <2>6
    <3>6. Len(st.out) = 0 + BadUpTo(s, 0) - (IF st.mode = "slash" THEN 1 ELSE 0)
      BY <2>3, <2>4, <2>6
    <3>7. BadEscapes(s) = {} => \A i \in 1..Len(st.out) : st.out[i] = s[i]
      BY <2>3, <2>6
    <3>8. QED
      BY <2>6, <3>1, <3>2, <3>3, <3>4, <3>5, <3>6, <3>7 DEF Mended
  <2>8. QED
    BY <1>3, <2>7 DEF st
<1>5. ASSUME NEW k \in Nat, k \in S PROVE k + 1 \in S
  <2>1. SUFFICES ASSUME k + 1 <= n PROVE Mended(c[k + 1], s, k + 1)
    OBVIOUS
  <2>2. Mended(c[k], s, k)
    BY <1>1, <1>5, <2>1
  <2>3. k + 1 \in 1..n /\ k + 1 - 1 = k
    BY <1>1, <2>1
  <2>4. c[k + 1] = Scan(c[k], s[k + 1])
    BY <1>3, <2>3
  <2>5. QED
    BY <2>1, <2>2, <2>4, MendedGoesOn DEF n
<1> HIDE DEF S
<1>6. Nat \subseteq S
  BY <1>4, <1>5, SetInduction
<1> DEFINE st == c[n]
           o == st.out
<1>7. Mended(st, s, n)
  BY <1>1, <1>6 DEF S
<1> HIDE DEF st
<1>8. st.mode = "text" /\ st.mode # "slash"
  <2>1. Quotes(s, n) % 2 = 0
    BY DEF JsonText, n
  <2>2. st.mode = "text"
    BY <1>7, <2>1 DEF Mended
  <2>3. QED
    BY <2>2
<1>9. t = o
  <2>1. t = IF st.mode = "slash" THEN Append(st.out, "slash") ELSE st.out
    BY <1>3 DEF SanitizeJsonEscapes, ScanStart, st
  <2>2. QED
    BY <1>8, <2>1
<1>10. st.hex = 0
  <2>1. st.hex \in Nat
    BY <1>7 DEF Mended, Scans
  <2>2. \A j \in (n + 1)..(n + st.hex) : j \in DOMAIN s
    BY <1>7 DEF Mended
  <2>3. st.hex > 0 => n + 1 \in (n + 1)..(n + st.hex)
    BY <1>1, <2>1
  <2>4. n + 1 \notin 1..n
    BY <1>1
  <2>5. QED
    BY <1>1, <2>1, <2>2, <2>3, <2>4
<1>11. Mending(o, 0, FALSE)
  BY <1>7, <1>10 DEF Mended, Closed
<1> DEFINE m == Len(o)
<1>12. m \in Nat /\ o \in Seq(Chars) /\ DOMAIN o = 1..m
  BY <1>11, LenProperties DEF Mending
<1>13. \A i \in 1..m : o[i] = "slash" => Quotes(o, i) % 2 = 1
  BY <1>11 DEF Mending
<1>14. \A i \in 1..m : o[i] = "d" => ~ Escaped(o, i)
  BY <1>11 DEF Mending
<1>15. \A i \in 1..m : o[i] = "u" /\ Escaped(o, i) =>
         /\ i + HexDigits <= m + 0
         /\ \A j \in (i + 1)..(i + HexDigits) : j <= m => o[j] = "d"
  BY <1>11 DEF Mending
<1>16. JsonText(o)
  <2>1. Quotes(o, m) % 2 = 0
    BY <1>7 DEF Mended, JsonText, n
  <2>2. ASSUME NEW i \in 1..m, o[i] = "u" /\ Escaped(o, i),
               NEW j \in (i + 1)..(i + HexDigits)
        PROVE  j \in 1..m /\ o[j] = "d"
    <3>1. HexDigits \in Nat
      BY AgentAnswerAssumption
    <3>2. i + HexDigits <= m + 0
      BY <1>15, <2>2
    <3>3. j \in 1..m /\ j <= m
      BY <1>12, <3>1, <3>2
    <3>4. QED
      BY <1>15, <2>2, <3>3
  <2> HIDE DEF m
  <2>3. QED
    BY <1>12, <1>13, <2>1, <2>2 DEF JsonText, m
<1>17. BadEscapes(o) = {}
  BY <1>12, <1>14 DEF BadEscapes
<1>18. m = n + Cardinality(BadEscapes(s))
  <2>1. BadUpTo(s, n) = Cardinality(BadEscapes(s))
    <3>1. {i \in 1..n : i \in BadEscapes(s)} = BadEscapes(s)
      BY <1>1 DEF BadEscapes
    <3>2. QED
      BY <3>1 DEF BadUpTo
  <2>2. m = n + BadUpTo(s, n) - (IF st.mode = "slash" THEN 1 ELSE 0)
    BY <1>7 DEF Mended
  <2>3. m + (IF st.mode = "slash" THEN 1 ELSE 0) = n + BadUpTo(s, n) /\ BadUpTo(s, n) \in Int
    <3>1. BadUpTo(s, n) \in Nat
      <4>1. /\ IsFiniteSet(1..n)
            /\ {i \in 1..n : i \in BadEscapes(s)} \subseteq 1..n
        BY <1>1, FS_Interval
      <4>2. QED
        BY <4>1, FS_Subset, FS_CardinalityType DEF BadUpTo
    <3>2. QED
      BY <1>1, <1>8, <2>2, <3>1
  <2>4. QED
    BY <1>8, <1>12, <2>1, <2>3
<1>19. ASSUME BadEscapes(s) = {} PROVE o = s
  <2>1. Cardinality(BadEscapes(s)) = 0
    BY <1>19, FS_EmptySet
  <2>2. m = n
    BY <1>1, <1>18, <2>1
  <2>3. \A i \in 1..m : o[i] = s[i]
    BY <1>7, <1>19 DEF Mended
  <2>4. QED
    BY <1>12, <2>2, <2>3, SeqEqual DEF n
<1>20. QED
  BY <1>9, <1>16, <1>17, <1>18, <1>19 DEF n

(***************************************************************************)
(* What the agent answers is read as AnswersAreRead says: ObjectsAreFound, *)
(* and sanitize_json_escapes (main.rs 432) doubles the backslash of every  *)
(* escape whose letter JSON does not know, and changes nothing else, in    *)
(* texts of any length in which every \u has its digits.                   *)
(***************************************************************************)
THEOREM AnswersStayRead == Spec => []AnswersAreRead
<1>1. Init => SanitizeMendsEscapes
  BY DEF Init, SanitizeMendsEscapes
<1>2. ASSUME SanitizeMendsEscapes, [Next]_vars PROVE SanitizeMendsEscapes'
  <2>1. CASE Sanitize
    <3>1. PICK s \in Texts : Call("sanitize", s, SanitizeJsonEscapes(s))
      BY <2>1 DEF Sanitize
    <3>2. s \in Seq(Chars)
      BY ParsersAssumption
    <3>3. input' = s /\ output' = SanitizeJsonEscapes(s)
      BY <3>1 DEF Call
    <3> DEFINE t == SanitizeJsonEscapes(s)
    <3>4. ASSUME JsonText(s)
          PROVE  /\ JsonText(t)
                 /\ BadEscapes(t) = {}
                 /\ Len(t) = Len(s) + Cardinality(BadEscapes(s))
                 /\ BadEscapes(s) = {} => t = s
      BY <3>2, <3>4, SanitizedIs
    <3>5. QED
      BY <3>3, <3>4 DEF SanitizeMendsEscapes
  <2>2. CASE Read /\ ~ Sanitize
    <3>1. call' # "sanitize"
      BY <2>2 DEF Read, Call, ReadAnswer, Summary, ReadLinks, DetectAntiBot, NavigatePath,
                  Extraction, ReadPrice, Interact
    <3>2. QED
      BY <3>1 DEF SanitizeMendsEscapes
  <2>3. CASE Return
    BY <2>3 DEF Return, SanitizeMendsEscapes
  <2>4. CASE UNCHANGED vars
    BY <1>2, <2>4 DEF vars, SanitizeMendsEscapes
  <2>5. QED
    BY <1>2, <2>1, <2>2, <2>3, <2>4 DEF Next
<1>3. Spec => []SanitizeMendsEscapes
  BY <1>1, <1>2, PTL DEF Spec
<1>4. EveryReaderFindsIt /\ NoObjectIsLostToAPanic /\ SanitizeMendsEscapes => AnswersAreRead
  BY DEF AnswersAreRead
<1>5. QED
  BY <1>3, <1>4, ObjectsAreFound, PTL

-----------------------------------------------------------------------------
(* Paths into the data of a page.                                          *)

\* A sequence with one more member.
LEMMA Grown ==
  ASSUME NEW U, NEW s \in Seq(U), NEW x \in U
  PROVE  LET t == Append(s, x)
         IN  /\ t \in Seq(U) /\ Len(t) = Len(s) + 1 /\ t # <<>>
             /\ t[Len(s) + 1] = x /\ \A i \in 1..Len(s) : t[i] = s[i]
             /\ Front(t) = s /\ Last(t) = x
<1> DEFINE t == Append(s, x)
           n == Len(s)
<1>1. /\ n \in Nat /\ t \in Seq(U) /\ Len(t) = n + 1
      /\ t[n + 1] = x /\ \A i \in 1..n : t[i] = s[i]
  BY AppendProperties, LenProperties
<1> HIDE DEF t
<1>2. Last(t) = x /\ t # <<>>
  BY <1>1, EmptySeq DEF Last
<1>3. Front(t) = s
  <2> DEFINE f == SubSeq(t, 1, n)
  <2>1. Front(t) = f
    BY <1>1 DEF Front
  <2>2. \A i \in 1..n : t[i] \in U
    BY <1>1, ElementOfSeq
  <2>3. f \in Seq(U) /\ Len(f) = n /\ \A i \in 1..n : f[i] = s[i]
    BY <1>1, <2>2, SubSeqProperties
  <2> HIDE DEF f
  <2>4. f = s
    BY <2>3, SeqEqual
  <2>5. QED
    BY <2>1, <2>4
<1>4. QED
  BY <1>1, <1>2, <1>3 DEF t

\* c and d begin alike and go on alike up to n.
Twins(n, c, d) ==
  /\ n \in Nat
  /\ c[0] = d[0]
  /\ \A k \in 1..n : c[k - 1] = d[k - 1] => c[k] = d[k]

\* They are alike there.
LEMMA Alike ==
  ASSUME NEW n, NEW c, NEW d, Twins(n, c, d)
  PROVE  c[n] = d[n]
<1> DEFINE S == {k \in Nat : k <= n => c[k] = d[k]}
<1>0. /\ n \in Nat /\ c[0] = d[0]
      /\ \A k \in 1..n : c[k - 1] = d[k - 1] => c[k] = d[k]
  BY DEF Twins
<1>1. 0 \in S
  BY <1>0
<1>2. ASSUME NEW k \in Nat, k \in S PROVE k + 1 \in S
  <2> DEFINE j == k + 1
  <2>1. SUFFICES ASSUME j <= n PROVE c[j] = d[j]
    OBVIOUS
  <2>2. j \in 1..n /\ j - 1 = k /\ c[k] = d[k]
    BY <1>0, <1>2, <2>1
  <2> HIDE DEF j
  <2>3. QED
    BY <1>0, <2>2
<1> HIDE DEF S
<1>3. Nat \subseteq S
  BY <1>1, <1>2, SetInduction
<1>4. QED
  BY <1>0, <1>3 DEF S

\* What Flat returns with one more sequence at the end.
LEMMA FlatGoesOn ==
  ASSUME NEW U, NEW seqs \in Seq(Seq(U)), NEW x \in Seq(U)
  PROVE  Flat(Append(seqs, x)) = Flat(seqs) \o x
<1> DEFINE n == Len(seqs)
           more == Append(seqs, x)
<1>1. /\ n \in Nat /\ more \in Seq(Seq(U)) /\ Len(more) = n + 1
      /\ more[n + 1] = x /\ \A i \in 1..n : more[i] = seqs[i]
  BY Grown, LenProperties
<1> HIDE DEF more
<1>2. PICK c : FlatGo(c, U, seqs)
  BY FlatFold
<1>3. PICK d : FlatGo(d, U, more)
  BY <1>1, FlatFold
<1>4. Flat(seqs) = c[n] /\ c[0] = <<>> /\ \A k \in 1..n : c[k] = c[k - 1] \o seqs[k]
  BY <1>2 DEF FlatGo
<1> DEFINE m == n + 1
<1>5. /\ Flat(more) = d[m] /\ d[0] = <<>> /\ more[m] = x
      /\ \A k \in 1..m : d[k] = d[k - 1] \o more[k]
  BY <1>1, <1>3 DEF FlatGo
<1> HIDE DEF n
<1>6. m \in 1..m /\ m - 1 = n /\ \A k \in 1..n : k \in 1..m
  BY <1>1
<1> HIDE DEF m
<1>7. ASSUME NEW k \in 1..n, c[k - 1] = d[k - 1] PROVE c[k] = d[k]
  <2>1. d[k] = d[k - 1] \o more[k] /\ c[k] = c[k - 1] \o seqs[k] /\ more[k] = seqs[k]
    BY <1>1, <1>4, <1>5, <1>6
  <2>2. QED
    BY <1>7, <2>1
<1>8. c[n] = d[n]
  <2>1. Twins(n, c, d)
    BY <1>1, <1>4, <1>5, <1>7 DEF Twins
  <2>2. QED
    BY <2>1, Alike
<1>9. d[m] = d[n] \o x
  BY <1>5, <1>6
<1>10. QED
  BY <1>4, <1>5, <1>8, <1>9 DEF more

\* Parts of a path, of which there is one at least; and x read into them.
Parted(T) == {parts \in Seq(Seq(T)) : parts # <<>>}
Put(parts, x, m) ==
  IF x = m THEN Append(parts, <<>>)
  ELSE [parts EXCEPT ![Len(parts)] = Append(@, x)]

\* A mark ends the last part, anything else goes into it.
LEMMA PutIs ==
  ASSUME NEW T, NEW parts \in Parted(T), NEW x \in T, NEW m
  PROVE  /\ Put(parts, x, m) \in Parted(T)
         /\ x = m => Front(Put(parts, x, m)) = parts /\ Last(Put(parts, x, m)) = <<>>
         /\ x # m => /\ Front(Put(parts, x, m)) = Front(parts)
                     /\ Last(Put(parts, x, m)) = Append(Last(parts), x)
<1> DEFINE n == Len(parts)
           r == Put(parts, x, m)
<1>1. parts \in Seq(Seq(T)) /\ n \in Nat /\ n > 0 /\ n \in 1..n
  <2>1. parts \in Seq(Seq(T)) /\ parts # <<>>
    BY DEF Parted
  <2>2. n \in Nat /\ n # 0
    BY <2>1, LenProperties, EmptySeq
  <2>3. QED
    BY <2>1, <2>2
<1>2. parts[n] \in Seq(T) /\ Append(parts[n], x) \in Seq(T)
  <2>1. parts[n] \in Seq(T)
    BY <1>1, ElementOfSeq
  <2>2. QED
    BY <2>1, AppendProperties
<1>3. CASE x = m
  <2>1. r = Append(parts, <<>>)
    BY <1>3 DEF Put
  <2>2. <<>> \in Seq(T)
    BY EmptySeq
  <2> HIDE DEF r
  <2> DEFINE U == Seq(T)
             none == <<>>
  <2>3. parts \in Seq(U) /\ none \in U /\ r = Append(parts, none)
    BY <1>1, <2>1, <2>2
  <2> HIDE DEF U, none
  <2>4. r \in Seq(U) /\ r # <<>> /\ Front(r) = parts /\ Last(r) = none
    BY <2>3, Grown
  <2>5. r \in Parted(T)
    BY <2>4 DEF Parted, U
  <2>6. QED
    BY <1>3, <2>4, <2>5 DEF r, none
<1>4. CASE x # m
  <2> DEFINE e == Append(parts[n], x)
  <2>1. r = [parts EXCEPT ![n] = e]
    BY <1>4 DEF Put
  <2> HIDE DEF r, e
  <2>2. e \in Seq(T)
    BY <1>2 DEF e
  <2>3. /\ r \in Seq(Seq(T)) /\ Len(r) = n
        /\ \A j \in 1..n : r[j] = IF j = n THEN e ELSE parts[j]
    BY <1>1, <2>1, <2>2, ExceptSeq
  <2>4. r \in Parted(T) /\ Last(r) = e
    BY <1>1, <2>3, EmptySeq DEF Parted, Last
  <2>5. Front(r) = Front(parts)
    <3> DEFINE f == SubSeq(r, 1, n - 1)
               g == SubSeq(parts, 1, n - 1)
    <3>1. Front(r) = f /\ Front(parts) = g
      BY <2>3 DEF Front
    <3>2. \A i \in 1..(n - 1) : r[i] \in Seq(T) /\ parts[i] \in Seq(T) /\ r[i] = parts[i]
      <4>1. SUFFICES ASSUME NEW i \in 1..(n - 1)
                     PROVE  r[i] \in Seq(T) /\ parts[i] \in Seq(T) /\ r[i] = parts[i]
        OBVIOUS
      <4>2. i \in 1..n /\ i # n
        BY <1>1
      <4>3. QED
        BY <1>1, <2>3, <4>2, ElementOfSeq
    <3>3. n - 1 \in Nat /\ n - 1 - 1 + 1 = n - 1
      BY <1>1
    <3>4. /\ f \in Seq(Seq(T)) /\ Len(f) = n - 1 /\ \A i \in 1..(n - 1) : f[i] = r[i]
          /\ g \in Seq(Seq(T)) /\ Len(g) = n - 1 /\ \A i \in 1..(n - 1) : g[i] = parts[i]
      BY <3>2, <3>3, SubSeqProperties
    <3> HIDE DEF f, g
    <3>5. f = g
      <4> DEFINE U == Seq(T)
      <4>1. f \in Seq(U) /\ g \in Seq(U) /\ Len(f) = Len(g)
        BY <3>4
      <4>2. \A i \in 1..Len(f) : f[i] = g[i]
        BY <3>2, <3>4
      <4> HIDE DEF U
      <4>3. QED
        BY <4>1, <4>2, SeqEqual
    <3>6. QED
      BY <3>1, <3>5
  <2>6. Last(parts) = parts[n]
    BY DEF Last
  <2>7. QED
    BY <1>4, <2>4, <2>5, <2>6 DEF r, e
<1>5. QED
  BY <1>3, <1>4

\* Parts are the first ones and the last.
LEMMA PartedIs ==
  ASSUME NEW T, NEW parts \in Parted(T)
  PROVE  /\ Front(parts) \in Seq(Seq(T)) /\ Last(parts) \in Seq(T)
         /\ parts = Append(Front(parts), Last(parts))
<1> DEFINE n == Len(parts)
           f == SubSeq(parts, 1, n - 1)
           t == Append(f, parts[n])
<1>1. parts \in Seq(Seq(T)) /\ n \in Nat /\ n > 0 /\ n \in 1..n
  <2>1. parts \in Seq(Seq(T)) /\ parts # <<>>
    BY DEF Parted
  <2>2. n \in Nat /\ n # 0
    BY <2>1, LenProperties, EmptySeq
  <2>3. QED
    BY <2>1, <2>2
<1>2. Front(parts) = f /\ Last(parts) = parts[n] /\ parts[n] \in Seq(T)
  BY <1>1, ElementOfSeq DEF Front, Last
<1>3. \A i \in 1..(n - 1) : parts[i] \in Seq(T)
  BY <1>1, ElementOfSeq
<1>4. n - 1 \in Nat /\ n - 1 - 1 + 1 = n - 1 /\ n - 1 + 1 = n
  BY <1>1
<1>5. f \in Seq(Seq(T)) /\ Len(f) = n - 1 /\ \A i \in 1..(n - 1) : f[i] = parts[i]
  BY <1>3, <1>4, SubSeqProperties
<1> HIDE DEF f
<1>6. /\ t \in Seq(Seq(T)) /\ Len(t) = n - 1 + 1
      /\ t[n - 1 + 1] = parts[n] /\ \A i \in 1..(n - 1) : t[i] = f[i]
  BY <1>2, <1>5, Grown
<1> HIDE DEF t
<1>7. Len(t) = n /\ \A i \in 1..n : t[i] = parts[i]
  <2>1. ASSUME NEW i \in 1..n PROVE t[i] = parts[i]
    <3>1. i \in 1..(n - 1) \/ i = n
      BY <1>1
    <3>2. CASE i \in 1..(n - 1)
      <4>1. t[i] = f[i] /\ f[i] = parts[i]
        BY <1>5, <1>6, <3>2
      <4>2. QED
        BY <4>1
    <3>3. CASE i = n
      <4>1. t[n] = parts[n]
        BY <1>4, <1>6
      <4>2. QED
        BY <3>3, <4>1
    <3>4. QED
      BY <3>1, <3>2, <3>3
  <2>2. QED
    BY <1>4, <1>6, <2>1
<1>8. parts = t
  BY <1>1, <1>6, <1>7, SeqEqual
<1>9. QED
  BY <1>2, <1>5, <1>8 DEF t

\* The parts of nothing.
LEMMA OnePart ==
  ASSUME NEW T
  PROVE  <<<<>>>> \in Parted(T) /\ Front(<<<<>>>>) = <<>> /\ Last(<<<<>>>>) = <<>>
<1> DEFINE one == <<<<>>>>
           none == <<>>
           U == Seq(T)
<1>1. one = Append(none, none)
  OBVIOUS
<1>2. none \in U /\ none \in Seq(U)
  BY EmptySeq
<1> HIDE DEF one, none, U
<1>3. one \in Seq(U) /\ one # <<>> /\ Front(one) = none /\ Last(one) = none
  BY <1>1, <1>2, Grown
<1>4. one \in Parted(T)
  BY <1>3 DEF Parted, U
<1>5. QED
  BY <1>3, <1>4 DEF one, none

\* c parts a path, mark by mark and word by word.
SplitGo(c, T, s, m) ==
  /\ Split(s, m) = c[Len(s)]
  /\ c[0] = <<<<>>>>
  /\ \A k \in 0..Len(s) : c[k] \in Parted(T)
  /\ \A k \in 1..Len(s) : c[k] = Put(c[k - 1], s[k], m)

\* Such a c there is.
LEMMA SplitFold ==
  ASSUME NEW T, NEW s \in Seq(T), NEW m
  PROVE  \E c : SplitGo(c, T, s, m)
<1> DEFINE n == Len(s)
           It(g) == g = [w \in SUBSET (1..n) |->
                           IF w = {} THEN <<<<>>>> ELSE Put(g[w \ {Max(w)}], s[Max(w)], m)]
           it == CHOOSE g : It(g)
           next == [k \in 1..n |-> [v \in Parted(T) |-> Put(v, s[k], m)]]
<1>1. n \in Nat /\ DOMAIN s = 1..n /\ \A k \in 1..n : s[k] \in T
  BY LenProperties, ElementOfSeq
<1>2. Split(s, m) = it[1..n]
  BY <1>1 DEF Split, Put, FoldLeft, MapThenFoldSet
<1> HIDE DEF n
<1>3. <<<<>>>> \in Parted(T)
  BY OnePart
<1>4. next \in [1..n -> [Parted(T) -> Parted(T)]]
  <2>1. \A k \in 1..n, v \in Parted(T) : Put(v, s[k], m) \in Parted(T)
    BY <1>1, PutIs
  <2>2. QED
    BY <2>1
<1>5. \A k \in 1..n, v \in Parted(T) : next[k][v] = Put(v, s[k], m)
  OBVIOUS
<1> HIDE DEF next
<1>6. \E g : It(g)
  <2>1. PICK g \in [SUBSET (1..n) -> Parted(T)] : Goes(g, n, <<<<>>>>, next)
    BY <1>1, <1>3, <1>4, SetRecursion
  <2>2. ASSUME NEW w \in SUBSET (1..n), w # {}
        PROVE  g[w] = Put(g[w \ {Max(w)}], s[Max(w)], m)
    <3>1. Max(w) \in 1..n /\ w \ {Max(w)} \in SUBSET (1..n)
      BY <1>1, <2>2, MaxOf
    <3>2. g[w \ {Max(w)}] \in Parted(T)
      BY <2>1, <3>1
    <3>3. QED
      BY <1>5, <2>1, <2>2, <3>1, <3>2 DEF Goes
  <2>3. It(g)
    BY <2>1, <2>2 DEF Goes
  <2>4. QED
    BY <2>3
<1>7. It(it)
  BY <1>6
<1> HIDE DEF it
<1>8. it[{}] = <<<<>>>>
  BY <1>7
<1>9. ASSUME NEW w \in SUBSET (1..n), w # {}, it[w \ {Max(w)}] \in Parted(T)
      PROVE  it[w] = next[Max(w)][it[w \ {Max(w)}]]
  <2>1. Max(w) \in 1..n
    BY <1>1, <1>9, MaxOf
  <2>2. it[w] = Put(it[w \ {Max(w)}], s[Max(w)], m)
    BY <1>7, <1>9
  <2>3. QED
    BY <1>5, <1>9, <2>1, <2>2
<1>10. Through(it, n, Parted(T), <<<<>>>>, next)
  BY <1>8, <1>9 DEF Through
<1>11. PICK c : Ends(c, n, Parted(T), <<<<>>>>, next, it[1..n])
  <2>1. Moves(n, Parted(T), <<<<>>>>, next)
    BY <1>1, <1>3, <1>4 DEF Moves
  <2>2. QED
    BY <1>10, <2>1, FoldSteps
<1>12. /\ c \in [0..n -> Parted(T)] /\ c[0] = <<<<>>>> /\ c[n] = it[1..n]
       /\ \A k \in 1..n : c[k] = next[k][c[k - 1]]
  BY <1>11 DEF Walks, Ends
<1>13. ASSUME NEW k \in 1..n PROVE c[k] = Put(c[k - 1], s[k], m)
  <2>1. k - 1 \in 0..n
    BY <1>1
  <2>2. QED
    BY <1>5, <1>12, <2>1
<1>14. SplitGo(c, T, s, m)
  BY <1>1, <1>2, <1>12, <1>13 DEF n, SplitGo
<1>15. QED
  BY <1>14

\* The parts of a path with one more mark or word.
LEMMA SplitGoesOn ==
  ASSUME NEW T, NEW s \in Seq(T), NEW x \in T, NEW m
  PROVE  /\ Split(s, m) \in Parted(T)
         /\ Split(Append(s, x), m) = Put(Split(s, m), x, m)
<1> DEFINE n == Len(s)
           t == Append(s, x)
<1>1. /\ n \in Nat /\ t \in Seq(T) /\ Len(t) = n + 1
      /\ t[n + 1] = x /\ \A i \in 1..n : t[i] = s[i]
  BY Grown, LenProperties
<1> HIDE DEF t
<1>2. PICK c : SplitGo(c, T, s, m)
  BY SplitFold
<1>3. PICK d : SplitGo(d, T, t, m)
  BY <1>1, SplitFold
<1>4. /\ Split(s, m) = c[n] /\ c[0] = <<<<>>>> /\ \A k \in 0..n : c[k] \in Parted(T)
      /\ \A k \in 1..n : c[k] = Put(c[k - 1], s[k], m)
  BY <1>2 DEF SplitGo
<1> DEFINE l == n + 1
<1>5. /\ Split(t, m) = d[l] /\ d[0] = <<<<>>>> /\ t[l] = x
      /\ \A k \in 1..l : d[k] = Put(d[k - 1], t[k], m)
  BY <1>1, <1>3 DEF SplitGo
<1> HIDE DEF n
<1>6. l \in 1..l /\ l - 1 = n /\ n \in 0..n /\ \A k \in 1..n : k \in 1..l
  BY <1>1
<1> HIDE DEF l
<1>7. ASSUME NEW k \in 1..n, c[k - 1] = d[k - 1] PROVE c[k] = d[k]
  <2>1. d[k] = Put(d[k - 1], t[k], m) /\ c[k] = Put(c[k - 1], s[k], m) /\ t[k] = s[k]
    BY <1>1, <1>4, <1>5, <1>6
  <2>2. QED
    BY <1>7, <2>1
<1>8. c[n] = d[n]
  <2>1. c[0] = d[0]
    BY <1>4, <1>5
  <2>2. Twins(n, c, d)
    BY <1>1, <1>7, <2>1 DEF Twins
  <2>3. QED
    BY <2>2, Alike
<1>9. d[l] = Put(d[n], x, m) /\ c[n] \in Parted(T)
  BY <1>4, <1>5, <1>6
<1>10. QED
  BY <1>4, <1>5, <1>8, <1>9 DEF t

\* The parts of a path are such.
LEMMA SplitIs ==
  ASSUME NEW T, NEW s \in Seq(T), NEW m
  PROVE  Split(s, m) \in Parted(T) /\ Split(<<>>, m) = <<<<>>>>
<1>1. PICK c : SplitGo(c, T, s, m)
  BY SplitFold
<1>2. Split(s, m) = c[Len(s)] /\ \A k \in 0..Len(s) : c[k] \in Parted(T)
  BY <1>1 DEF SplitGo
<1>3. Len(s) \in 0..Len(s)
  BY LenProperties
<1>4. <<>> \in Seq(T) /\ Len(<<>>) = 0
  BY EmptySeq
<1> DEFINE none == <<>>
<1>5. PICK d : SplitGo(d, T, none, m)
  BY <1>4, SplitFold
<1>6. Split(none, m) = d[0] /\ d[0] = <<<<>>>>
  BY <1>4, <1>5 DEF SplitGo
<1>7. QED
  BY <1>2, <1>3, <1>6

\* The first parts of a path, and the last.
LEMMA PartsGoOn ==
  ASSUME NEW T, NEW s \in Seq(T), NEW x \in T, NEW m
  PROVE  LET t == Append(s, x)
         IN  /\ x = m => /\ Front(Split(t, m)) = Append(Front(Split(s, m)), Last(Split(s, m)))
                         /\ Last(Split(t, m)) = <<>>
             /\ x # m => /\ Front(Split(t, m)) = Front(Split(s, m))
                         /\ Last(Split(t, m)) = Append(Last(Split(s, m)), x)
<1> DEFINE parts == Split(s, m)
           t == Append(s, x)
<1>1. parts \in Parted(T) /\ Split(t, m) = Put(parts, x, m)
  BY SplitGoesOn
<1> HIDE DEF parts, t
<1>2. /\ x = m => Front(Split(t, m)) = parts /\ Last(Split(t, m)) = <<>>
      /\ x # m => /\ Front(Split(t, m)) = Front(parts)
                  /\ Last(Split(t, m)) = Append(Last(parts), x)
  BY <1>1, PutIs
<1>3. parts = Append(Front(parts), Last(parts))
  BY <1>1, PartedIs
<1>4. QED
  BY <1>2, <1>3 DEF parts, t

\* A segment: where its first bracket is, what is before it, and the rest, parted
\* after each index; the steps of what is before, of an index, and of indices.
Opening(seg) == {i \in DOMAIN seg : seg[i] = "["}
OpensAt(seg) == IF Opening(seg) = {} THEN Len(seg) + 1 ELSE Min(Opening(seg))
HeadOf(seg) == SubSeq(seg, 1, OpensAt(seg) - 1)
RestOf(seg) == SubSeq(seg, OpensAt(seg), Len(seg))
Chunks(seg) == Split(RestOf(seg), "]")
WordStep(name) ==
  IF name = <<>> THEN <<>>
  ELSE <<IF Len(name) = 1 THEN ByName(name[1]) ELSE NoStep>>
IndexStep(chunk) ==
  IF Len(chunk) = 2 /\ chunk[2] \in Digits THEN ByIndex(chunk[2]) ELSE NoStep
IndexSteps(chunks) == [i \in DOMAIN chunks |-> IndexStep(chunks[i])]

\* The steps that the words T make.
StepsFrom(T) == [name : T \cup {"none"}, index : BOOLEAN]

\* The steps of a segment.
LEMMA StepsAre ==
  ASSUME NEW seg
  PROVE  Steps(seg) = WordStep(HeadOf(seg)) \o IndexSteps(Front(Chunks(seg)))
  BY DEF Steps, WordStep, HeadOf, IndexSteps, IndexStep, Chunks, RestOf, OpensAt, Opening

\* The first bracket of a segment.
LEMMA OpensAtIs ==
  ASSUME NEW T, NEW seg \in Seq(T)
  PROVE  /\ OpensAt(seg) \in 1..(Len(seg) + 1)
         /\ Opening(seg) # {} =>
              /\ OpensAt(seg) <= Len(seg) /\ seg[OpensAt(seg)] = "["
              /\ \A i \in 1..Len(seg) : seg[i] = "[" => OpensAt(seg) <= i
<1> DEFINE n == Len(seg)
<1>1. n \in Nat /\ DOMAIN seg = 1..n
  BY LenProperties
<1>2. Opening(seg) \in SUBSET (1..n)
  BY <1>1 DEF Opening
<1>3. CASE Opening(seg) = {}
  BY <1>1, <1>3 DEF OpensAt
<1>4. CASE Opening(seg) # {}
  <2> DEFINE m == Min(Opening(seg))
  <2>1. m \in Opening(seg) /\ \A i \in Opening(seg) : m <= i
    <3>1. Opening(seg) \in SUBSET Nat
      BY <1>1, <1>2
    <3>2. QED
      BY <1>4, <3>1, MinOf
  <2>2. OpensAt(seg) = m
    BY <1>4 DEF OpensAt
  <2> HIDE DEF m
  <2>3. m \in 1..n /\ seg[m] = "[" /\ \A i \in 1..n : seg[i] = "[" => m <= i
    BY <1>1, <2>1 DEF Opening
  <2>4. QED
    BY <1>1, <2>2, <2>3
<1>5. QED
  BY <1>3, <1>4

\* A segment is of the words and marks that are in it.
LEMMA SegmentIs ==
  ASSUME NEW T, NEW seg \in Seq(T)
  PROVE  /\ HeadOf(seg) \in Seq(T) /\ RestOf(seg) \in Seq(T)
         /\ Opening(seg) = {} => HeadOf(seg) = seg /\ RestOf(seg) = <<>>
<1> DEFINE n == Len(seg)
           a == OpensAt(seg)
<1>1. n \in Nat /\ a \in 1..(n + 1)
  BY OpensAtIs, LenProperties
<1>2. \A i \in 1..n : seg[i] \in T
  BY ElementOfSeq
<1>3. HeadOf(seg) \in Seq(T)
  <2>1. a - 1 \in Int /\ \A i \in 1..(a - 1) : i \in 1..n
    BY <1>1
  <2> HIDE DEF a
  <2>2. SubSeq(seg, 1, a - 1) \in Seq(T)
    BY <1>2, <2>1, SubSeqProperties
  <2>3. QED
    BY <2>2 DEF HeadOf, a
<1>4. RestOf(seg) \in Seq(T)
  <2>1. a \in Int /\ n \in Int /\ \A i \in a..n : i \in 1..n
    BY <1>1
  <2> HIDE DEF a, n
  <2>2. SubSeq(seg, a, n) \in Seq(T)
    BY <1>2, <2>1, SubSeqProperties
  <2>3. QED
    BY <2>2 DEF RestOf, a, n
<1>5. ASSUME Opening(seg) = {} PROVE HeadOf(seg) = seg /\ RestOf(seg) = <<>>
  <2>1. a = n + 1 /\ n + 1 - 1 = n
    BY <1>1, <1>5 DEF OpensAt
  <2>2. HeadOf(seg) = SubSeq(seg, 1, n)
    BY <2>1 DEF HeadOf
  <2>3. SubSeq(seg, 1, n) = seg
    BY SubSeqFull
  <2>4. SubSeq(seg, n + 1, n) = <<>>
    BY <1>1, SubSeqEmpty
  <2>5. QED
    BY <2>1, <2>2, <2>3, <2>4 DEF RestOf
<1>6. QED
  BY <1>3, <1>4, <1>5

\* A segment with one more word or mark.
LEMMA SegmentGoesOn ==
  ASSUME NEW T, NEW seg \in Seq(T), NEW c \in T
  PROVE  LET t == Append(seg, c)
         IN  /\ Opening(t) = {} <=> Opening(seg) = {} /\ c # "["
             /\ Opening(seg) # {} =>
                  HeadOf(t) = HeadOf(seg) /\ RestOf(t) = Append(RestOf(seg), c)
             /\ Opening(seg) = {} /\ c = "[" => HeadOf(t) = seg /\ RestOf(t) = <<c>>
<1> DEFINE n == Len(seg)
           m == n + 1
           t == Append(seg, c)
<1>1. /\ n \in Nat /\ t \in Seq(T) /\ Len(t) = m
      /\ t[m] = c /\ \A i \in 1..n : t[i] = seg[i]
  BY Grown, LenProperties
<1>2. DOMAIN seg = 1..n /\ DOMAIN t = 1..m
  BY <1>1, LenProperties
<1>3. m \in 1..m /\ m - 1 = n /\ \A i \in 1..m : i \in 1..n \/ i = m
  BY <1>1
<1>4. \A i \in 1..n : i \in 1..m
  BY <1>1
<1> HIDE DEF t, n, m
<1>5. Opening(t) = {} <=> Opening(seg) = {} /\ c # "["
  BY <1>1, <1>2, <1>3, <1>4 DEF Opening
<1>6. \A i \in 1..m : t[i] \in T
  BY <1>1, ElementOfSeq
<1>7. \A i \in 1..n : seg[i] \in T
  BY ElementOfSeq DEF n
<1>8. ASSUME NEW a \in 1..m PROVE SubSeq(t, 1, a - 1) = SubSeq(seg, 1, a - 1)
  <2>1. a - 1 \in Nat /\ 1 \in Int /\ \A i \in 1..(a - 1) : i \in 1..n
    BY <1>1 DEF m
  <2>2. \A i \in 1..(a - 1) : t[i] \in T /\ seg[i] \in T /\ t[i] = seg[i]
    BY <1>1, <1>4, <1>6, <1>7, <2>1
  <2> DEFINE b == a - 1
             f == SubSeq(t, 1, b)
             g == SubSeq(seg, 1, b)
  <2>3. b \in Nat /\ b - 1 + 1 = b /\ \A i \in 1..b : 1 + i - 1 = i
    BY <2>1
  <2> HIDE DEF b
  <2>4. /\ f \in Seq(T) /\ Len(f) = b /\ \A i \in 1..b : f[i] = t[i]
        /\ g \in Seq(T) /\ Len(g) = b /\ \A i \in 1..b : g[i] = seg[i]
    <3>1. \A i \in 1..b : t[i] \in T /\ seg[i] \in T
      BY <2>2 DEF b
    <3>2. f \in Seq(T) /\ Len(f) = b /\ \A i \in 1..b : f[i] = t[i]
      BY <2>3, <3>1, SubSeqProperties
    <3>3. g \in Seq(T) /\ Len(g) = b /\ \A i \in 1..b : g[i] = seg[i]
      BY <2>3, <3>1, SubSeqProperties
    <3>4. QED
      BY <3>2, <3>3
  <2> HIDE DEF f, g
  <2>5. f = g
    BY <2>2, <2>4, SeqEqual DEF b
  <2>6. QED
    BY <2>5 DEF b, f, g
<1>9. ASSUME NEW a \in 1..m PROVE SubSeq(t, a, m) = Append(SubSeq(seg, a, n), c)
  <2>1. SubSeq(t, a, m) = SubSeq(t, a, m - 1) \o <<t[m]>>
    <3>1. t \in Seq(T) /\ Len(t) = m /\ m \in Nat
      BY <1>1, <1>3 DEF m
    <3> HIDE DEF t, m
    <3>2. a \in 1..Len(t) /\ m \in a..Len(t)
      BY <3>1
    <3>3. QED
      BY <3>1, <3>2, SubSeqRecursiveSecond
  <2> DEFINE f == SubSeq(t, a, n)
             g == SubSeq(seg, a, n)
             l == n - a + 1
  <2>2. a \in Int /\ n \in Int /\ l \in Nat /\ \A i \in a..n : i \in 1..n
    BY <1>1 DEF m
  <2>3. \A i \in a..n : t[i] \in T /\ seg[i] \in T /\ t[i] = seg[i]
    BY <1>1, <1>7, <2>2
  <2>4. \A i \in 1..l : a + i - 1 \in a..n
    BY <2>2
  <2>5. (IF a <= n THEN n - a + 1 ELSE 0) = l
    BY <1>1, <2>2 DEF m
  <2> HIDE DEF l
  <2>6. f \in Seq(T) /\ Len(f) = l /\ \A i \in 1..l : f[i] = t[a + i - 1]
    BY <2>2, <2>3, <2>5, SubSeqProperties DEF l
  <2>7. g \in Seq(T) /\ Len(g) = l /\ \A i \in 1..l : g[i] = seg[a + i - 1]
    BY <2>2, <2>3, <2>5, SubSeqProperties DEF l
  <2> HIDE DEF f, g
  <2>8. \A i \in 1..l : f[i] = g[i]
    BY <2>3, <2>4, <2>6, <2>7
  <2>9. f = g
    BY <2>6, <2>7, <2>8, SeqEqual
  <2>10. g \o <<c>> = Append(g, c)
    BY <2>7, AppendIsConcat
  <2>11. QED
    BY <1>1, <1>3, <2>1, <2>9, <2>10 DEF f, g
<1>10. ASSUME Opening(seg) # {}
       PROVE  HeadOf(t) = HeadOf(seg) /\ RestOf(t) = Append(RestOf(seg), c)
  <2> DEFINE a == OpensAt(seg)
             b == OpensAt(t)
  <2>1. a \in 1..n /\ seg[a] = "[" /\ \A i \in 1..n : seg[i] = "[" => a <= i
    BY <1>1, <1>10, OpensAtIs DEF n
  <2>2. b \in 1..m /\ t[b] = "[" /\ \A i \in 1..m : t[i] = "[" => b <= i
    BY <1>1, <1>5, <1>10, OpensAtIs DEF m
  <2> HIDE DEF a, b
  <2>3. b <= a
    BY <1>1, <1>4, <2>1, <2>2
  <2>4. a \in Nat /\ b \in Nat /\ a <= n
    BY <1>1, <2>1, <2>2
  <2>5. b \in 1..n
    BY <1>1, <2>2, <2>3, <2>4
  <2>6. a = b
    BY <1>1, <2>1, <2>2, <2>3, <2>4, <2>5
  <2>7. a \in 1..m
    BY <1>4, <2>1
  <2>8. /\ HeadOf(t) = SubSeq(t, 1, a - 1) /\ HeadOf(seg) = SubSeq(seg, 1, a - 1)
        /\ RestOf(t) = SubSeq(t, a, m) /\ RestOf(seg) = SubSeq(seg, a, n)
    BY <1>1, <2>6 DEF HeadOf, RestOf, a, b, n
  <2>9. QED
    BY <1>8, <1>9, <2>7, <2>8
<1>11. ASSUME Opening(seg) = {}, c = "[" PROVE HeadOf(t) = seg /\ RestOf(t) = <<c>>
  <2> DEFINE b == OpensAt(t)
  <2>1. b \in 1..m /\ t[b] = "["
    BY <1>1, <1>5, <1>11, OpensAtIs DEF m
  <2>2. b \notin 1..n
    BY <1>1, <1>2, <1>11, <2>1 DEF Opening
  <2>3. b = m
    BY <1>3, <2>1, <2>2
  <2> HIDE DEF b
  <2>4. HeadOf(t) = SubSeq(t, 1, m - 1) /\ RestOf(t) = SubSeq(t, m, m)
    BY <1>1, <2>3 DEF HeadOf, RestOf, b
  <2>5. SubSeq(t, 1, m - 1) = SubSeq(seg, 1, n)
    BY <1>3, <1>8
  <2>6. SubSeq(seg, 1, n) = seg
    BY SubSeqFull DEF n
  <2>7. SubSeq(t, m, m) = Append(SubSeq(seg, m, n), c)
    BY <1>3, <1>9
  <2>8. SubSeq(seg, m, n) = <<>>
    BY <1>1, SubSeqEmpty DEF m
  <2>9. Append(<<>>, c) = <<c>>
    OBVIOUS
  <2>10. QED
    BY <2>4, <2>5, <2>6, <2>7, <2>8, <2>9
<1>12. QED
  BY <1>5, <1>10, <1>11 DEF t

\* What f makes of the members of s.
MapOf(f, s) == [i \in DOMAIN s |-> f[s[i]]]

\* f is for the members of s, and for x.
Maps(f, U, V, s, x) == f \in [U -> V] /\ s \in Seq(U) /\ x \in U

\* What it makes of one more.
LEMMA MapGoesOn ==
  ASSUME NEW f, NEW U, NEW V, NEW s, NEW x, Maps(f, U, V, s, x)
  PROVE  /\ MapOf(f, s) \in Seq(V)
         /\ MapOf(f, Append(s, x)) = Append(MapOf(f, s), f[x])
<1> DEFINE n == Len(s)
           m == n + 1
           t == Append(s, x)
           p == MapOf(f, s)
           q == MapOf(f, t)
           r == Append(p, f[x])
<1>0. f \in [U -> V] /\ s \in Seq(U) /\ x \in U
  BY DEF Maps
<1>1. /\ n \in Nat /\ t \in Seq(U) /\ Len(t) = m
      /\ t[m] = x /\ \A i \in 1..n : t[i] = s[i]
  BY <1>0, Grown, LenProperties
<1>2. DOMAIN s = 1..n /\ DOMAIN t = 1..m /\ \A i \in 1..n : s[i] \in U
  BY <1>0, <1>1, LenProperties, ElementOfSeq
<1>3. \A i \in 1..m : t[i] \in U
  BY <1>1, ElementOfSeq
<1>4. m \in Nat /\ m \in 1..m /\ \A i \in 1..m : i \in 1..n \/ i = m
  BY <1>1
<1>5. \A i \in 1..n : i \in 1..m
  BY <1>1
<1> HIDE DEF n, m, t
<1>6. p = [i \in 1..n |-> f[s[i]]] /\ q = [i \in 1..m |-> f[t[i]]]
  BY <1>2 DEF MapOf
<1> HIDE DEF p, q
<1>7. p \in [1..n -> V] /\ q \in [1..m -> V] /\ f[x] \in V
  BY <1>0, <1>2, <1>3, <1>6
<1>8. p \in Seq(V) /\ Len(p) = n /\ q \in Seq(V) /\ Len(q) = m
  BY <1>1, <1>4, <1>7, FunctionIsSeq
<1>9. /\ r \in Seq(V) /\ Len(r) = m
      /\ r[m] = f[x] /\ \A i \in 1..n : r[i] = p[i]
  BY <1>7, <1>8, Grown DEF m
<1> HIDE DEF r
<1>10. \A i \in 1..m : q[i] = r[i]
  BY <1>1, <1>4, <1>5, <1>6, <1>9
<1>11. q = r
  BY <1>8, <1>9, <1>10, SeqEqual
<1>12. QED
  BY <1>8, <1>11 DEF p, q, r, t

\* The steps of words and of indices are of the words in them.
LEMMA StepTypes ==
  ASSUME NEW T
  PROVE  /\ \A name \in Seq(T) : WordStep(name) \in Seq(StepsFrom(T))
         /\ \A chunk \in Seq(T) : IndexStep(chunk) \in StepsFrom(T)
<1>1. /\ NoStep \in StepsFrom(T)
      /\ \A n \in T : ByName(n) \in StepsFrom(T) /\ ByIndex(n) \in StepsFrom(T)
  BY DEF NoStep, ByName, ByIndex, StepsFrom
<1>2. \A name \in Seq(T) : WordStep(name) \in Seq(StepsFrom(T))
  <2>1. SUFFICES ASSUME NEW name \in Seq(T) PROVE WordStep(name) \in Seq(StepsFrom(T))
    OBVIOUS
  <2> DEFINE V == StepsFrom(T)
  <2>2. CASE name = <<>>
    <3>1. WordStep(name) = <<>>
      BY <2>2 DEF WordStep
    <3>2. QED
      BY <3>1, EmptySeq
  <2>3. CASE name # <<>>
    <3> DEFINE e == IF Len(name) = 1 THEN ByName(name[1]) ELSE NoStep
    <3>1. Len(name) = 1 => name[1] \in T
      BY ElementOfSeq
    <3>2. e \in V
      BY <1>1, <3>1
    <3>3. WordStep(name) = <<e>>
      BY <2>3 DEF WordStep
    <3> HIDE DEF e, V
    <3>4. <<e>> \in Seq(V)
      BY <3>2
    <3>5. QED
      BY <3>3, <3>4 DEF V
  <2>4. QED
    BY <2>2, <2>3
<1>3. \A chunk \in Seq(T) : IndexStep(chunk) \in StepsFrom(T)
  <2>1. SUFFICES ASSUME NEW chunk \in Seq(T) PROVE IndexStep(chunk) \in StepsFrom(T)
    OBVIOUS
  <2>2. Len(chunk) = 2 => chunk[2] \in T
    BY ElementOfSeq
  <2>3. CASE Len(chunk) = 2 /\ chunk[2] \in Digits
    BY <1>1, <2>2, <2>3 DEF IndexStep
  <2>4. CASE ~ (Len(chunk) = 2 /\ chunk[2] \in Digits)
    BY <1>1, <2>4 DEF IndexStep
  <2>5. QED
    BY <2>3, <2>4
<1>4. QED
  BY <1>2, <1>3

\* The steps of one more index.
LEMMA IndexStepsGoOn ==
  ASSUME NEW T, NEW chunks \in Seq(Seq(T)), NEW b \in Seq(T)
  PROVE  /\ IndexSteps(chunks) \in Seq(StepsFrom(T))
         /\ IndexSteps(Append(chunks, b)) = Append(IndexSteps(chunks), IndexStep(b))
<1> DEFINE U == Seq(T)
           V == StepsFrom(T)
           f == [chunk \in U |-> IndexStep(chunk)]
           t == Append(chunks, b)
<1>1. f \in [U -> V]
  BY StepTypes
<1>2. chunks \in Seq(U) /\ b \in U
  OBVIOUS
<1>3. \A chunk \in U : f[chunk] = IndexStep(chunk)
  OBVIOUS
<1> HIDE DEF U, V, f
<1>4. t \in Seq(U)
  BY <1>2, Grown
<1> HIDE DEF t
<1>5. ASSUME NEW s \in Seq(U) PROVE IndexSteps(s) = MapOf(f, s)
  <2>1. \A i \in DOMAIN s : s[i] \in U
    BY LenProperties, ElementOfSeq
  <2>2. \A i \in DOMAIN s : IndexStep(s[i]) = f[s[i]]
    BY <1>3, <2>1
  <2>3. QED
    BY <2>2 DEF IndexSteps, MapOf
<1>6. MapOf(f, chunks) \in Seq(V) /\ MapOf(f, t) = Append(MapOf(f, chunks), f[b])
  <2>1. Maps(f, U, V, chunks, b)
    BY <1>1, <1>2 DEF Maps
  <2>2. QED
    BY <2>1, MapGoesOn DEF t
<1>7. QED
  BY <1>2, <1>3, <1>4, <1>5, <1>6 DEF t, V

\* The steps of a segment are of the words in it.
LEMMA SegmentSteps ==
  ASSUME NEW T, NEW seg \in Seq(T)
  PROVE  /\ Chunks(seg) \in Parted(T)
         /\ WordStep(HeadOf(seg)) \in Seq(StepsFrom(T))
         /\ IndexSteps(Front(Chunks(seg))) \in Seq(StepsFrom(T))
         /\ Steps(seg) \in Seq(StepsFrom(T))
<1>1. HeadOf(seg) \in Seq(T) /\ RestOf(seg) \in Seq(T)
  BY SegmentIs
<1>2. Chunks(seg) \in Parted(T)
  BY <1>1, SplitIs DEF Chunks
<1>3. Front(Chunks(seg)) \in Seq(Seq(T)) /\ <<>> \in Seq(T)
  BY <1>2, PartedIs, EmptySeq
<1>4. WordStep(HeadOf(seg)) \in Seq(StepsFrom(T))
  BY <1>1, StepTypes
<1>5. IndexSteps(Front(Chunks(seg))) \in Seq(StepsFrom(T))
  BY <1>3, IndexStepsGoOn
<1>6. QED
  BY <1>2, <1>4, <1>5, StepsAre, ConcatProperties

\* The steps of segments, the way of a path, and what is done of it before its
\* last segment.
StepsOf(segs) == [i \in DOMAIN segs |-> Steps(segs[i])]
Way(path) == Flat(StepsOf(Split(path, ".")))
Done(path) == Flat(StepsOf(Front(Split(path, "."))))

\* The steps of one more segment.
LEMMA StepsOfGoOn ==
  ASSUME NEW T, NEW segs \in Seq(Seq(T)), NEW seg \in Seq(T)
  PROVE  /\ StepsOf(segs) \in Seq(Seq(StepsFrom(T)))
         /\ StepsOf(Append(segs, seg)) = Append(StepsOf(segs), Steps(seg))
<1> DEFINE U == Seq(T)
           V == Seq(StepsFrom(T))
           f == [s \in U |-> Steps(s)]
           t == Append(segs, seg)
<1>1. f \in [U -> V]
  BY SegmentSteps
<1>2. segs \in Seq(U) /\ seg \in U
  OBVIOUS
<1>3. \A s \in U : f[s] = Steps(s)
  OBVIOUS
<1> HIDE DEF U, V, f
<1>4. t \in Seq(U)
  BY <1>2, Grown
<1> HIDE DEF t
<1>5. ASSUME NEW s \in Seq(U) PROVE StepsOf(s) = MapOf(f, s)
  <2>1. \A i \in DOMAIN s : s[i] \in U
    BY LenProperties, ElementOfSeq
  <2>2. \A i \in DOMAIN s : Steps(s[i]) = f[s[i]]
    BY <1>3, <2>1
  <2>3. QED
    BY <2>2 DEF StepsOf, MapOf
<1>6. MapOf(f, segs) \in Seq(V) /\ MapOf(f, t) = Append(MapOf(f, segs), f[seg])
  <2>1. Maps(f, U, V, segs, seg)
    BY <1>1, <1>2 DEF Maps
  <2>2. QED
    BY <2>1, MapGoesOn DEF t
<1>7. QED
  BY <1>2, <1>3, <1>4, <1>5, <1>6 DEF t, V

\* The way of a path is what is done of it and the steps of its last segment.
LEMMA WayIs ==
  ASSUME NEW T, NEW path \in Seq(T)
  PROVE  /\ Done(path) \in Seq(StepsFrom(T)) /\ Way(path) \in Seq(StepsFrom(T))
         /\ Last(Split(path, ".")) \in Seq(T)
         /\ Way(path) = Done(path) \o Steps(Last(Split(path, ".")))
<1> DEFINE parts == Split(path, ".")
           f == Front(parts)
           l == Last(parts)
           V == StepsFrom(T)
<1>1. parts \in Parted(T)
  BY SplitIs
<1>2. f \in Seq(Seq(T)) /\ l \in Seq(T) /\ parts = Append(f, l)
  BY <1>1, PartedIs
<1> HIDE DEF f, l, parts
<1>3. StepsOf(f) \in Seq(Seq(V)) /\ StepsOf(parts) = Append(StepsOf(f), Steps(l))
  BY <1>2, StepsOfGoOn
<1>4. Steps(l) \in Seq(V)
  BY <1>2, SegmentSteps
<1> HIDE DEF V
<1>5. Flat(StepsOf(parts)) = Flat(StepsOf(f)) \o Steps(l)
  BY <1>3, <1>4, FlatGoesOn
<1>6. Flat(StepsOf(f)) \in Seq(V)
  BY <1>3, FlatIs
<1>7. Flat(StepsOf(f)) \o Steps(l) \in Seq(V)
  BY <1>4, <1>6, ConcatProperties
<1>8. QED
  BY <1>2, <1>5, <1>6, <1>7 DEF parts, f, l, V, Way, Done

\* What is done with one more word or mark.
LEMMA DoneGoesOn ==
  ASSUME NEW T, NEW path \in Seq(T), NEW x \in T
  PROVE  LET t == Append(path, x)
         IN  /\ x = "." => Done(t) = Way(path) /\ Last(Split(t, ".")) = <<>>
             /\ x # "." => /\ Done(t) = Done(path)
                           /\ Last(Split(t, ".")) = Append(Last(Split(path, ".")), x)
<1> DEFINE t == Append(path, x)
           parts == Split(path, ".")
<1>1. /\ x = "." => Front(Split(t, ".")) = Append(Front(parts), Last(parts))
                    /\ Last(Split(t, ".")) = <<>>
      /\ x # "." => /\ Front(Split(t, ".")) = Front(parts)
                    /\ Last(Split(t, ".")) = Append(Last(parts), x)
  BY PartsGoOn
<1>2. parts = Append(Front(parts), Last(parts))
  BY SplitIs, PartedIs
<1> HIDE DEF t, parts
<1>3. QED
  BY <1>1, <1>2 DEF Way, Done, t, parts

\* A member can be put at the end before or after another sequence in front.
LEMMA AppendAfter ==
  ASSUME NEW U, NEW s \in Seq(U), NEW t \in Seq(U), NEW x \in U
  PROVE  s \o Append(t, x) = Append(s \o t, x)
<1> DEFINE n == Len(s)
           m == Len(t)
           l == n + m + 1
           e == Append(t, x)
           p == s \o e
           o == s \o t
           q == Append(o, x)
<1>1. n \in Nat /\ m \in Nat
  BY LenProperties
<1>2. /\ e \in Seq(U) /\ Len(e) = m + 1 /\ e[m + 1] = x
      /\ \A i \in 1..m : e[i] = t[i]
  BY Grown
<1> HIDE DEF e
<1>3. /\ p \in Seq(U) /\ Len(p) = l
      /\ \A i \in 1..l : p[i] = IF i <= n THEN s[i] ELSE e[i - n]
  <2>1. /\ p \in Seq(U) /\ Len(p) = n + Len(e)
        /\ \A i \in 1..(n + Len(e)) : p[i] = IF i <= n THEN s[i] ELSE e[i - n]
    BY <1>2, ConcatProperties
  <2>2. n + Len(e) = l
    BY <1>1, <1>2
  <2>3. QED
    BY <2>1, <2>2
<1>4. /\ o \in Seq(U) /\ Len(o) = n + m
      /\ \A i \in 1..(n + m) : o[i] = IF i <= n THEN s[i] ELSE t[i - n]
  BY ConcatProperties
<1> HIDE DEF o, p
<1>5. /\ q \in Seq(U) /\ Len(q) = l /\ q[l] = x
      /\ \A i \in 1..(n + m) : q[i] = o[i]
  BY <1>4, Grown
<1> HIDE DEF q, n, m
<1>6. ASSUME NEW i \in 1..l PROVE p[i] = q[i]
  <2>1. CASE i = l
    <3>1. i \in 1..l /\ ~ i <= n /\ i - n = m + 1
      BY <1>1, <2>1
    <3>2. QED
      BY <1>2, <1>3, <1>5, <2>1, <3>1
  <2>2. CASE i # l
    <3>1. i \in 1..(n + m)
      BY <1>1, <2>2
    <3>2. q[i] = IF i <= n THEN s[i] ELSE t[i - n]
      BY <1>4, <1>5, <3>1
    <3>3. ~ i <= n => i - n \in 1..m
      BY <1>1, <3>1
    <3>4. QED
      BY <1>2, <1>3, <3>2, <3>3
  <2>3. QED
    BY <2>1, <2>2
<1>7. p = q
  BY <1>3, <1>5, <1>6, SeqEqual
<1>8. QED
  BY <1>7 DEF p, q, o, e

\* Where a path has been read to: in the name of its last segment, of which b has
\* been read, or among the indices, with b read of the next one; w: the steps before.
InName(path, w, b) ==
  LET seg == Last(Split(path, "."))
  IN  Opening(seg) = {} /\ b = seg /\ w = Done(path)
InIndex(path, w, b) ==
  LET seg == Last(Split(path, "."))
  IN  /\ Opening(seg) # {} /\ b = Last(Chunks(seg))
      /\ w = Done(path) \o (WordStep(HeadOf(seg)) \o IndexSteps(Front(Chunks(seg))))

\* Either of them.
LEMMA SomewhereIn ==
  ASSUME NEW path
  PROVE  \E w, b : InName(path, w, b) \/ InIndex(path, w, b)
  BY DEF InName, InIndex

\* The steps of no index.
LEMMA NoIndex == IndexSteps(<<>>) = <<>>
<1>1. DOMAIN <<>> = {}
  OBVIOUS
<1>2. QED
  BY <1>1 DEF IndexSteps

\* The way when a name is being read.
LEMMA InNameIs ==
  ASSUME NEW T, NEW path \in Seq(T), NEW w, NEW b, InName(path, w, b)
  PROVE  /\ w \in Seq(StepsFrom(T)) /\ b \in Seq(T)
         /\ Way(path) = w \o WordStep(b)
<1> DEFINE seg == Last(Split(path, "."))
           V == StepsFrom(T)
<1>1. Opening(seg) = {} /\ b = seg /\ w = Done(path)
  BY DEF InName
<1>2. w \in Seq(V) /\ b \in Seq(T) /\ Way(path) = w \o Steps(b)
  BY <1>1, WayIs
<1>3. HeadOf(b) = b /\ RestOf(b) = <<>>
  BY <1>1, <1>2, SegmentIs
<1>4. Chunks(b) = <<<<>>>>
  BY <1>2, <1>3, SplitIs DEF Chunks
<1>5. Front(Chunks(b)) = <<>>
  BY <1>4, OnePart
<1>6. Steps(b) = WordStep(b) \o <<>>
  BY <1>3, <1>5, StepsAre, NoIndex
<1>7. WordStep(b) \in Seq(V)
  BY <1>2, StepTypes
<1>8. WordStep(b) \o <<>> = WordStep(b)
  BY <1>7, ConcatEmptySeq
<1>9. QED
  BY <1>2, <1>6, <1>8

\* The way when an index is being read.
LEMMA InIndexIs ==
  ASSUME NEW T, NEW path \in Seq(T), NEW w, NEW b, InIndex(path, w, b)
  PROVE  w \in Seq(StepsFrom(T)) /\ b \in Seq(T) /\ Way(path) = w
<1> DEFINE seg == Last(Split(path, "."))
           V == StepsFrom(T)
<1>1. /\ b = Last(Chunks(seg))
      /\ w = Done(path) \o (WordStep(HeadOf(seg)) \o IndexSteps(Front(Chunks(seg))))
  BY DEF InIndex
<1>2. Way(path) \in Seq(V) /\ Way(path) = Done(path) \o Steps(seg) /\ seg \in Seq(T)
  BY WayIs
<1>3. Way(path) = w
  BY <1>1, <1>2, StepsAre
<1>4. Chunks(seg) \in Parted(T)
  BY <1>2, SegmentSteps
<1>5. b \in Seq(T)
  BY <1>1, <1>4, PartedIs
<1>6. QED
  BY <1>2, <1>3, <1>5

\* Nothing has been read of an empty path.
LEMMA NothingIn == InName(<<>>, <<>>, <<>>)
<1> DEFINE none == <<>>
           T == {"."}
<1>1. none \in Seq(T) /\ Split(none, ".") = <<<<>>>>
  BY EmptySeq, SplitIs
<1>2. Front(<<<<>>>>) = <<>> /\ Last(<<<<>>>>) = <<>>
  BY OnePart
<1>3. StepsOf(<<>>) = <<>>
  <2>1. DOMAIN <<>> = {}
    OBVIOUS
  <2>2. QED
    BY <2>1 DEF StepsOf
<1>4. Flat(<<>>) = <<>>
  <2>1. <<>> \in Seq(Seq(T)) /\ Len(<<>>) = 0
    BY EmptySeq
  <2> DEFINE e == <<>>
  <2>2. PICK c : FlatGo(c, T, e)
    BY <2>1, FlatFold
  <2>3. QED
    BY <2>1, <2>2 DEF FlatGo
<1>5. Done(none) = <<>>
  BY <1>1, <1>2, <1>3, <1>4 DEF Done
<1>6. Opening(<<>>) = {}
  BY DEF Opening
<1>7. QED
  BY <1>1, <1>2, <1>5, <1>6 DEF InName

\* A dot ends a segment.
LEMMA DotIn ==
  ASSUME NEW T, NEW path \in Seq(T), "." \in T
  PROVE  InName(Append(path, "."), Way(path), <<>>)
<1>1. /\ Done(Append(path, ".")) = Way(path)
      /\ Last(Split(Append(path, "."), ".")) = <<>>
  BY DoneGoesOn
<1>2. Opening(<<>>) = {}
  BY DEF Opening
<1>3. QED
  BY <1>1, <1>2 DEF InName

\* Anything but a dot or a bracket goes into a name.
LEMMA NameGoesOn ==
  ASSUME NEW T, NEW path \in Seq(T), NEW w, NEW b, InName(path, w, b),
         NEW c \in T, c # ".", c # "["
  PROVE  InName(Append(path, c), w, Append(b, c))
<1> DEFINE seg == Last(Split(path, "."))
<1>1. Opening(seg) = {} /\ b = seg /\ w = Done(path)
  BY DEF InName
<1>2. seg \in Seq(T)
  BY WayIs
<1>3. /\ Done(Append(path, c)) = Done(path)
      /\ Last(Split(Append(path, c), ".")) = Append(seg, c)
  BY DoneGoesOn
<1> HIDE DEF seg
<1>4. Opening(Append(seg, c)) = {}
  BY <1>1, <1>2, SegmentGoesOn
<1>5. QED
  BY <1>1, <1>3, <1>4 DEF InName

\* A bracket ends a name.
LEMMA NameOpens ==
  ASSUME NEW T, NEW path \in Seq(T), NEW w, NEW b, InName(path, w, b), "[" \in T
  PROVE  InIndex(Append(path, "["), w \o WordStep(b), <<"[">>)
<1> DEFINE seg == Last(Split(path, "."))
           c == "["
           t == Append(seg, c)
<1>1. Opening(seg) = {} /\ b = seg /\ w = Done(path) /\ seg \in Seq(T)
  BY WayIs DEF InName
<1>2. c \in T /\ c # "." /\ c # "]" /\ c = "["
  OBVIOUS
<1>3. Done(Append(path, c)) = Done(path) /\ Last(Split(Append(path, c), ".")) = t
  BY <1>2, DoneGoesOn
<1> HIDE DEF seg, c
<1>4. Opening(t) # {} /\ HeadOf(t) = seg /\ RestOf(t) = <<c>>
  BY <1>1, <1>2, SegmentGoesOn
<1> HIDE DEF t
<1> DEFINE none == <<>>
<1>5. none \in Seq(T) /\ <<c>> = Append(none, c) /\ Split(none, "]") = <<<<>>>>
  BY EmptySeq, SplitIs
<1>6. Front(<<<<>>>>) = none /\ Last(<<<<>>>>) = none
  BY OnePart
<1>7. Front(Chunks(t)) = none /\ Last(Chunks(t)) = <<c>>
  <2> HIDE DEF none
  <2>1. /\ Front(Split(Append(none, c), "]")) = Front(Split(none, "]"))
        /\ Last(Split(Append(none, c), "]")) = Append(Last(Split(none, "]")), c)
    BY <1>2, <1>5, PartsGoOn
  <2>2. QED
    BY <1>4, <1>5, <1>6, <2>1 DEF Chunks
<1>8. WordStep(b) \in Seq(StepsFrom(T))
  BY <1>1, StepTypes
<1>9. WordStep(b) \o <<>> = WordStep(b)
  BY <1>8, ConcatEmptySeq
<1>10. InIndex(Append(path, c), w \o WordStep(b), <<c>>)
  BY <1>1, <1>3, <1>4, <1>7, <1>9, NoIndex DEF InIndex
<1>11. QED
  BY <1>10 DEF c

\* The rest of a segment with one more word or mark.
LEMMA RestGoesOn ==
  ASSUME NEW T, NEW seg \in Seq(T), Opening(seg) # {}, NEW c \in T
  PROVE  /\ Opening(Append(seg, c)) # {}
         /\ HeadOf(Append(seg, c)) = HeadOf(seg)
         /\ RestOf(Append(seg, c)) = Append(RestOf(seg), c)
  BY SegmentGoesOn

\* Anything but a dot or a closing bracket goes into an index.
LEMMA IndexGoesOn ==
  ASSUME NEW T, NEW path \in Seq(T), NEW w, NEW b, InIndex(path, w, b),
         NEW c \in T, c # ".", c # "]"
  PROVE  InIndex(Append(path, c), w, Append(b, c))
<1> DEFINE seg == Last(Split(path, "."))
           t == Append(seg, c)
           rest == RestOf(seg)
<1>1. /\ Opening(seg) # {} /\ b = Last(Chunks(seg)) /\ seg \in Seq(T)
      /\ w = Done(path) \o (WordStep(HeadOf(seg)) \o IndexSteps(Front(Chunks(seg))))
  BY WayIs DEF InIndex
<1>2. Done(Append(path, c)) = Done(path) /\ Last(Split(Append(path, c), ".")) = t
  BY DoneGoesOn
<1> HIDE DEF seg
<1>3. /\ Opening(t) # {} /\ HeadOf(t) = HeadOf(seg) /\ RestOf(t) = Append(rest, c)
      /\ rest \in Seq(T)
  <2>1. Opening(t) # {} /\ HeadOf(t) = HeadOf(seg) /\ RestOf(t) = Append(rest, c)
    BY <1>1, RestGoesOn
  <2>2. rest \in Seq(T)
    BY <1>1, SegmentIs
  <2>3. QED
    BY <2>1, <2>2
<1> HIDE DEF t, rest
<1>4. /\ Front(Chunks(t)) = Front(Chunks(seg))
      /\ Last(Chunks(t)) = Append(Last(Chunks(seg)), c)
  BY <1>3, PartsGoOn DEF Chunks, rest
<1>5. QED
  BY <1>1, <1>2, <1>3, <1>4 DEF InIndex

\* A closing bracket ends an index.
LEMMA IndexCloses ==
  ASSUME NEW T, NEW path \in Seq(T), NEW w, NEW b, InIndex(path, w, b), "]" \in T
  PROVE  InIndex(Append(path, "]"), Append(w, IndexStep(b)), <<>>)
<1> DEFINE seg == Last(Split(path, "."))
           c == "]"
           t == Append(seg, c)
           rest == RestOf(seg)
           d == Done(path)
           h == WordStep(HeadOf(seg))
           f == Front(Chunks(seg))
           i == IndexSteps(f)
           V == StepsFrom(T)
<1>1. /\ Opening(seg) # {} /\ b = Last(Chunks(seg)) /\ seg \in Seq(T)
      /\ w = d \o (h \o i)
  BY WayIs DEF InIndex
<1>2. c \in T /\ c # "." /\ c = "]" /\ c # "["
  OBVIOUS
<1>3. Done(Append(path, c)) = d /\ Last(Split(Append(path, c), ".")) = t
  BY <1>2, DoneGoesOn
<1> HIDE DEF seg, c
<1>4. /\ Opening(t) # {} /\ HeadOf(t) = HeadOf(seg) /\ RestOf(t) = Append(rest, c)
      /\ rest \in Seq(T)
  <2>1. Opening(t) # {} /\ HeadOf(t) = HeadOf(seg) /\ RestOf(t) = Append(rest, c)
    BY <1>1, <1>2, RestGoesOn
  <2>2. rest \in Seq(T)
    BY <1>1, SegmentIs
  <2>3. QED
    BY <2>1, <2>2
<1> HIDE DEF t, rest
<1>5. Front(Chunks(t)) = Append(f, b) /\ Last(Chunks(t)) = <<>>
  BY <1>1, <1>2, <1>4, PartsGoOn DEF Chunks, rest
<1>6. f \in Seq(Seq(T)) /\ b \in Seq(T)
  BY <1>1, SegmentSteps, PartedIs
<1>7. d \in Seq(V) /\ h \in Seq(V) /\ i \in Seq(V) /\ IndexStep(b) \in V
  BY <1>1, <1>6, WayIs, SegmentSteps, StepTypes
<1> HIDE DEF f
<1>8. IndexSteps(Append(f, b)) = Append(i, IndexStep(b))
  BY <1>6, IndexStepsGoOn
<1> DEFINE x == IndexStep(b)
<1> HIDE DEF d, h, i, V, x
<1>9. d \o (h \o Append(i, x)) = Append(w, x)
  <2>1. h \o Append(i, x) = Append(h \o i, x)
    BY <1>7, AppendAfter DEF x
  <2>2. h \o i \in Seq(V)
    BY <1>7, ConcatProperties
  <2>3. d \o Append(h \o i, x) = Append(d \o (h \o i), x)
    BY <1>7, <2>2, AppendAfter DEF x
  <2>4. QED
    BY <1>1, <2>1, <2>3
<1>10. InIndex(Append(path, c), Append(w, x), <<>>)
  <2>1. WordStep(HeadOf(t)) = h /\ IndexSteps(Front(Chunks(t))) = Append(i, x)
    BY <1>4, <1>5, <1>8 DEF h, x
  <2>2. QED
    BY <1>3, <1>4, <1>5, <1>9, <2>1 DEF InIndex
<1>11. QED
  BY <1>10 DEF c, x

\* Of two that run through the same set, each is a beginning of the other.
LEMMA RunsAlike ==
  ASSUME NEW P \in SUBSET Nat, NEW m \in Nat, NEW l \in Nat, NEW h, NEW g,
         Runs(h, m, P), Runs(g, l, P)
  PROVE  m <= l /\ \A j \in 1..m : h[j] = g[j]
<1> DEFINE S == {k \in Nat : k <= m => k <= l /\ \A j \in 1..k : h[j] = g[j]}
<1>1. /\ \A k \in 1..m : h[k] \in Nat /\ h[k] \in P
      /\ \A k \in 1..l : g[k] \in Nat /\ g[k] \in P
      /\ \A i \in P : \E k \in 1..m : h[k] = i
      /\ \A i \in P : \E k \in 1..l : g[k] = i
  BY DEF Runs
<1>2. /\ \A j, k \in 1..m : j < k <=> h[j] < h[k]
      /\ \A j, k \in 1..l : j < k <=> g[j] < g[k]
  BY DEF Runs
<1>3. 0 \in S
  OBVIOUS
<1>4. ASSUME NEW k \in Nat, k \in S PROVE k + 1 \in S
  <2> DEFINE a == k + 1
  <2>0. a \in Nat /\ k < a /\ \A j \in Nat : j < a => j <= k
    OBVIOUS
  <2> HIDE DEF a
  <2>1. SUFFICES ASSUME a <= m PROVE a <= l /\ \A j \in 1..a : h[j] = g[j]
    BY <2>0 DEF a
  <2>2. k <= m /\ k <= l /\ \A j \in 1..k : h[j] = g[j]
    BY <1>4, <2>0, <2>1
  <2>3. a \in 1..m
    BY <2>0, <2>1 DEF a
  <2>4. PICK i \in 1..l : g[i] = h[a]
    BY <1>1, <2>3
  <2>5. a <= i
    <3>1. SUFFICES ASSUME i < a PROVE FALSE
      BY <2>0
    <3>2. i \in 1..k /\ i \in 1..m
      BY <2>0, <2>2, <3>1
    <3>3. h[i] = g[i] /\ h[i] < h[a]
      BY <1>2, <2>2, <2>3, <3>1, <3>2
    <3>4. QED
      BY <1>1, <2>3, <2>4, <3>3
  <2>6. a \in 1..l
    BY <2>0, <2>5 DEF a
  <2>7. PICK j \in 1..m : h[j] = g[a]
    BY <1>1, <2>6
  <2>8. a <= j
    <3>1. SUFFICES ASSUME j < a PROVE FALSE
      BY <2>0
    <3>2. j \in 1..k /\ j \in 1..l
      BY <2>0, <2>2, <3>1
    <3>3. h[j] = g[j] /\ g[j] < g[a]
      BY <1>2, <2>2, <2>6, <3>1, <3>2
    <3>4. QED
      BY <1>1, <2>6, <2>7, <3>3
  <2>9. i = a
    <3>1. SUFFICES ASSUME a < i PROVE FALSE
      BY <2>0, <2>5
    <3>2. g[a] < g[i]
      BY <1>2, <2>6, <3>1
    <3>3. h[j] < h[a]
      BY <2>4, <2>7, <3>2
    <3>4. j < a
      BY <1>2, <2>3, <3>3
    <3>5. QED
      BY <2>0, <2>8, <3>4
  <2>10. \A x \in 1..a : x \in 1..k \/ x = a
    BY <2>0
  <2>11. QED
    BY <2>2, <2>4, <2>6, <2>9, <2>10
<1> HIDE DEF S
<1>5. m \in S
  BY <1>3, <1>4, SetInduction
<1>6. QED
  BY <1>5 DEF S

\* So there is one that runs through a set.
LEMMA RunsOnce ==
  ASSUME NEW P \in SUBSET Nat, NEW m \in Nat, NEW l \in Nat, NEW h, NEW g,
         Runs(h, m, P), Runs(g, l, P)
  PROVE  m = l /\ \A j \in 1..m : h[j] = g[j]
<1>1. m <= l /\ \A j \in 1..m : h[j] = g[j]
  BY RunsAlike
<1>2. l <= m
  BY RunsAlike
<1>3. QED
  BY <1>1, <1>2

\* The members of a set are kept in the end as in the beginning.
LEMMA KeptGoesOn ==
  ASSUME NEW U, NEW s \in Seq(U), NEW c \in U, NEW set
  PROVE  /\ Kept(s, set) \in Seq(U)
         /\ Kept(Append(s, c), set)
              = IF c \in set THEN Append(Kept(s, set), c) ELSE Kept(s, set)
<1> DEFINE t == Append(s, c)
           n == Len(s)
           o == n + 1
           p == {i \in 1..n : s[i] \in set}
           q == {i \in 1..o : t[i] \in set}
<1>1. n \in Nat /\ DOMAIN s = 1..n /\ \A i \in 1..n : s[i] \in U
  BY LenProperties, ElementOfSeq
<1>2. /\ t \in Seq(U) /\ Len(t) = o /\ t[o] = c
      /\ \A i \in 1..n : t[i] = s[i]
  BY Grown
<1>3. o \in Nat /\ n < o /\ \A i \in 1..o : i \in 1..n \/ i = o
  BY <1>1
<1>3a. o \in 1..o /\ \A i \in 1..n : i \in 1..o /\ i < o
  BY <1>1
<1>4. DOMAIN t = 1..o
  BY <1>2, LenProperties
<1> HIDE DEF n, o, t
<1>5. PICK m, h : Keeps(h, m, s, n, set)
  BY <1>1, KeptIs
<1>6. PICK l, g : Keeps(g, l, t, o, set)
  BY <1>3, <1>4, KeptIs
<1>7. /\ m \in Nat /\ Runs(h, m, p)
      /\ Kept(s, set) = [k \in 1..m |-> s[h[k]]]
      /\ Len(Kept(s, set)) = m
  BY <1>5 DEF Keeps
<1>8. /\ l \in Nat /\ Runs(g, l, q)
      /\ Kept(t, set) = [k \in 1..l |-> t[g[k]]]
      /\ Len(Kept(t, set)) = l
  BY <1>6 DEF Keeps
<1>9. p \in SUBSET Nat /\ q \in SUBSET Nat
  BY <1>1, <1>3
<1>10. q = IF c \in set THEN p \cup {o} ELSE p
  BY <1>2, <1>3, <1>3a
<1>11. \A i \in p : i \in 1..n
  OBVIOUS
<1> HIDE DEF p, q
<1>12. \A k \in 1..m : h[k] \in 1..n
  BY <1>7, <1>11 DEF Runs
<1>13. Kept(s, set) \in Seq(U)
  <2>1. [k \in 1..m |-> s[h[k]]] \in [1..m -> U]
    BY <1>1, <1>12
  <2>2. QED
    BY <1>7, <2>1, FunctionIsSeq
<1>14. CASE c \notin set
  <2>0. p \in SUBSET Nat /\ m \in Nat /\ l \in Nat /\ Runs(h, m, p) /\ Runs(g, l, p)
    BY <1>7, <1>8, <1>9, <1>10, <1>14
  <2>1. m = l
    BY <2>0, RunsOnce
  <2>1a. \A j \in 1..m : h[j] = g[j]
    BY <2>0, RunsOnce
  <2>2. \A j \in 1..m : t[g[j]] = s[h[j]]
    BY <1>2, <1>12, <2>1, <2>1a
  <2>3. Kept(t, set) = Kept(s, set)
    BY <1>7, <1>8, <2>1, <2>2
  <2>4. QED
    BY <1>13, <1>14, <2>3 DEF t
<1>15. CASE c \in set
  <2> DEFINE r == m + 1
             f == [k \in 1..r |-> IF k <= m THEN h[k] ELSE o]
  <2>1. /\ r \in Nat /\ \A k \in 1..r : k \in 1..m \/ k = r
        /\ \A k \in 1..m : k \in 1..r /\ k < r /\ k <= m
        /\ r \in 1..r /\ ~ r <= m
    BY <1>7
  <2>2. DOMAIN f = 1..r /\ f[r] = o /\ \A k \in 1..m : f[k] = h[k]
    BY <2>1
  <2>3. f \in [1..r -> q]
    <3>1. \A k \in 1..r : f[k] \in q
      <4>1. \A k \in 1..m : h[k] \in p
        BY <1>7 DEF Runs
      <4> HIDE DEF f
      <4>2. QED
        BY <1>10, <1>15, <2>1, <2>2, <4>1
    <3>2. f = [k \in 1..r |-> f[k]]
      OBVIOUS
    <3> HIDE DEF f
    <3>3. QED
      BY <3>1, <3>2
  <2> HIDE DEF f
  <2>4. \A j, k \in 1..r : j < k <=> f[j] < f[k]
    <3>1. SUFFICES ASSUME NEW j \in 1..r, NEW k \in 1..r PROVE j < k <=> f[j] < f[k]
      OBVIOUS
    <3>2. CASE j \in 1..m /\ k \in 1..m
      BY <1>7, <2>2, <3>2 DEF Runs
    <3>3. CASE j \in 1..m /\ k = r
      <4>1. f[j] \in 1..n /\ f[k] = o
        BY <1>12, <2>2, <3>3
      <4>2. f[j] < f[k] /\ j < k
        BY <1>3a, <2>1, <3>3, <4>1
      <4>3. QED
        BY <4>2
    <3>4. CASE j = r /\ k \in 1..m
      <4>1. f[k] \in 1..n /\ f[j] = o
        BY <1>12, <2>2, <3>4
      <4>2. ~ f[j] < f[k] /\ ~ j < k
        <5>1. f[k] < o /\ k < r
          BY <1>3a, <2>1, <3>4, <4>1
        <5>2. QED
          BY <1>3, <2>1, <3>4, <4>1, <5>1
      <4>3. QED
        BY <4>2
    <3>5. CASE j = r /\ k = r
      BY <1>3, <2>1, <2>2, <3>5
    <3>6. QED
      BY <2>1, <3>2, <3>3, <3>4, <3>5
  <2>5. \A i \in q : \E k \in 1..r : f[k] = i
    <3>1. SUFFICES ASSUME NEW i \in q PROVE \E k \in 1..r : f[k] = i
      OBVIOUS
    <3>2. CASE i = o
      BY <2>1, <2>2, <3>2
    <3>3. CASE i \in p
      <4>1. PICK k \in 1..m : h[k] = i
        BY <1>7, <3>3 DEF Runs
      <4>2. QED
        BY <2>1, <2>2, <4>1
    <3>4. QED
      BY <1>10, <1>15, <3>2, <3>3
  <2>6. Runs(f, r, q)
    BY <2>3, <2>4, <2>5 DEF Runs
  <2>7. r = l /\ \A j \in 1..r : f[j] = g[j]
    BY <1>8, <1>9, <2>1, <2>6, RunsOnce
  <2> DEFINE u == Kept(s, set)
             v == Kept(t, set)
             w == Append(u, c)
  <2>8. w \in Seq(U) /\ Len(w) = r /\ w[r] = c /\ \A i \in 1..m : w[i] = u[i]
    BY <1>7, <1>13, Grown
  <2>9. \A j \in 1..r : v[j] = t[f[j]]
    BY <1>8, <2>7
  <2>10. v \in Seq(U) /\ Len(v) = r
    <3>1. \A j \in 1..r : t[f[j]] \in U
      <4>1. \A j \in 1..r : f[j] \in 1..o
        BY <1>3a, <1>12, <2>1, <2>2
      <4>2. QED
        BY <1>2, <4>1, ElementOfSeq
    <3> DEFINE q2 == [k \in 1..r |-> t[f[k]]]
    <3>2. q2 \in [1..r -> U]
      BY <3>1
    <3>3. v = q2
      BY <1>8, <2>7
    <3> HIDE DEF q2, v
    <3>4. q2 \in Seq(U) /\ Len(q2) = r
      BY <2>1, <3>2, FunctionIsSeq
    <3>5. QED
      BY <3>3, <3>4
  <2>11. \A j \in 1..m : u[j] = s[h[j]]
    BY <1>7
  <2> HIDE DEF u, v, w
  <2>12. ASSUME NEW j \in 1..r PROVE v[j] = w[j]
    <3>1. CASE j = r
      BY <1>2, <2>1, <2>2, <2>8, <2>9, <3>1
    <3>2. CASE j \in 1..m
      <4>1. v[j] = t[h[j]] /\ h[j] \in 1..n
        BY <1>12, <2>2, <2>9, <3>2
      <4>2. QED
        BY <1>2, <2>8, <2>11, <3>2, <4>1
    <3>3. QED
      BY <2>1, <3>1, <3>2
  <2>13. v = w
    BY <2>8, <2>10, <2>12, SeqEqual
  <2>14. QED
    BY <1>13, <1>15, <2>13 DEF t, u, v, w
<1>16. QED
  BY <1>14, <1>15

\* Nothing is kept of nothing.
LEMMA NothingKept ==
  ASSUME NEW set
  PROVE  Kept(<<>>, set) = <<>>
<1> DEFINE n == 0
           s == <<>>
<1>1. n \in Nat /\ DOMAIN s = 1..n
  OBVIOUS
<1>2. PICK m, h : Keeps(h, m, s, n, set)
  BY <1>1, KeptIs
<1>3. m \in Nat /\ h \in [1..m -> {i \in 1..n : s[i] \in set}]
      /\ Kept(s, set) = [k \in 1..m |-> s[h[k]]]
  BY <1>2 DEF Keeps, Runs
<1>4. m = 0
  <2>1. SUFFICES ASSUME 1 \in 1..m PROVE FALSE
    BY <1>3
  <2>2. h[1] \in 1..n
    BY <1>3, <2>1
  <2>3. QED
    BY <2>2
<1>5. QED
  BY <1>3, <1>4

\* A beginning of a sequence with the next member.
LEMMA PrefixGrows ==
  ASSUME NEW U, NEW s \in Seq(U), NEW k \in Nat, k + 1 <= Len(s)
  PROVE  /\ SubSeq(s, 1, k) \in Seq(U) /\ s[k + 1] \in U
         /\ SubSeq(s, 1, k + 1) = Append(SubSeq(s, 1, k), s[k + 1])
<1> DEFINE n == Len(s)
           a == k + 1
           p == SubSeq(s, 1, k)
<1>1. n \in Nat /\ \A i \in 1..n : s[i] \in U
  BY LenProperties, ElementOfSeq
<1>2. a \in 1..n /\ 1 \in 1..n /\ a - 1 = k /\ 1 \in 1..n
  BY <1>1
<1> HIDE DEF n
<1>3. \A i \in 1..k : s[i] \in U
  BY <1>1, <1>2
<1>4. p \in Seq(U)
  BY <1>3, SubSeqProperties
<1>5. s[a] \in U
  BY <1>1, <1>2
<1> HIDE DEF a
<1>6. a \in 1..Len(s) /\ 1 \in 1..Len(s) /\ a \in 1..Len(s)
  BY <1>2 DEF n
<1>7. SubSeq(s, 1, a) = SubSeq(s, 1, a - 1) \o <<s[a]>>
  <2>1. 1 \in 1..Len(s) /\ a \in 1..Len(s)
    BY <1>6
  <2>2. QED
    BY <2>1, SubSeqRecursiveSecond
<1>8. SubSeq(s, 1, a) = p \o <<s[a]>>
  BY <1>2, <1>7
<1> HIDE DEF p
<1>9. p \o <<s[a]>> = Append(p, s[a])
  BY <1>4, <1>5, AppendProperties
<1>10. QED
  BY <1>4, <1>5, <1>8, <1>9 DEF a, p

\* A pair.
LEMMA PairIs ==
  ASSUME NEW U, NEW x \in U, NEW y \in U
  PROVE  Append(<<x>>, y) = <<x, y>>
<1> DEFINE none == <<>>
           p == <<x, y>>
<1>1. none \in Seq(U) /\ p \in Seq(U) /\ Append(none, x) = <<x>>
  BY EmptySeq
<1>2. none \o p = Append(Append(none, x), y)
  <2> HIDE DEF none
  <2>1. /\ none \o <<x, y>> = Append(Append(none, x), y)
        /\ none \o <<x, y, y>> = Append(Append(Append(none, x), y), y)
    BY <1>1, OneByOne
  <2>2. QED
    BY <2>1
<1>3. none \o p = p
  <2> HIDE DEF p
  <2>1. QED
    BY <1>1, ConcatEmptySeq
<1>4. QED
  BY <1>1, <1>2, <1>3

\* A path has been read up to the end of a step, and leads along way.
Reached(path, way) ==
  \/ Way(path) = way /\ \E w, b : InName(path, w, b)
  \/ InIndex(path, way, <<>>)

\* A number in brackets leads to the member of that index.
LEMMA IndexReached ==
  ASSUME NEW T, PathMarks \subseteq T, NEW path \in Seq(T), NEW way, Reached(path, way),
         NEW d \in T \cap Digits, d \notin PathMarks
  PROVE  LET t == path \o <<"[", d, "]">>
         IN  t \in Seq(T) /\ Reached(t, Append(way, ByIndex(d)))
<1> DEFINE open == "["
           close == "]"
           none == <<>>
           p1 == Append(path, open)
           p2 == Append(p1, d)
           p3 == Append(p2, close)
           b == <<open, d>>
<1>1. /\ open \in T /\ open # "." /\ open # "]" /\ close \in T /\ d \in T
      /\ d # "." /\ d # "]" /\ d \in Digits
  BY DEF PathMarks
<1> HIDE DEF open, close
<1>2. p1 \in Seq(T) /\ p2 \in Seq(T) /\ p3 \in Seq(T)
  BY <1>1, AppendProperties
<1>3. path \o <<open, d, close>> = p3
  BY <1>1, OneByOne
<1> HIDE DEF p1, p2, p3
<1>4. InIndex(p1, way, <<open>>)
  <2>1. CASE Way(path) = way /\ \E w, x : InName(path, w, x)
    <3>1. PICK w, x : InName(path, w, x)
      BY <2>1
    <3>2. way = w \o WordStep(x)
      BY <2>1, <3>1, InNameIs
    <3>3. InIndex(Append(path, "["), w \o WordStep(x), <<"[">>)
      BY <1>1, <3>1, NameOpens DEF open
    <3>4. QED
      BY <3>2, <3>3 DEF p1, open
  <2>2. CASE InIndex(path, way, none)
    <3>1. InIndex(Append(path, open), way, Append(none, open))
      <4> HIDE DEF none
      <4>1. QED
        BY <1>1, <2>2, IndexGoesOn
    <3>2. Append(none, open) = <<open>>
      OBVIOUS
    <3>3. QED
      BY <3>1, <3>2 DEF p1
  <2>3. QED
    BY <2>1, <2>2 DEF Reached
<1>5. InIndex(p2, way, b)
  <2> DEFINE one == <<open>>
  <2>1. Append(one, d) = b
    BY <1>1, PairIs
  <2> HIDE DEF one
  <2>2. InIndex(Append(p1, d), way, Append(one, d))
    BY <1>1, <1>2, <1>4, IndexGoesOn DEF one
  <2>3. QED
    BY <2>1, <2>2 DEF p2
<1>6. IndexStep(b) = ByIndex(d)
  <2>1. Len(b) = 2 /\ b[2] = d
    OBVIOUS
  <2>2. QED
    BY <1>1, <2>1 DEF IndexStep
<1> HIDE DEF b
<1>7. InIndex(p3, Append(way, ByIndex(d)), <<>>)
  <2>1. InIndex(Append(p2, "]"), Append(way, IndexStep(b)), <<>>)
    BY <1>1, <1>2, <1>5, IndexCloses DEF close
  <2>2. QED
    BY <1>6, <2>1 DEF p3, close
<1>8. QED
  BY <1>2, <1>3, <1>7 DEF Reached, open, close

\* The step of a name of one word.
LEMMA OneWord ==
  ASSUME NEW x
  PROVE  WordStep(<<x>>) = <<ByName(x)>>
<1> DEFINE s == <<x>>
<1>1. s # <<>> /\ Len(s) = 1 /\ s[1] = x
  OBVIOUS
<1>2. WordStep(s) = <<ByName(x)>>
  <2> HIDE DEF s
  <2>1. QED
    BY <1>1 DEF WordStep
<1>3. QED
  BY <1>2

\* A name of one word that has been read is a step more.
LEMMA NameIsRead ==
  ASSUME NEW T, NEW path \in Seq(T), NEW w, NEW x \in T, InName(path, w, <<x>>)
  PROVE  w \in Seq(StepsFrom(T)) /\ Way(path) = Append(w, ByName(x))
<1> DEFINE b == <<x>>
           V == StepsFrom(T)
<1>1. WordStep(b) = <<ByName(x)>>
  BY OneWord
<1>0. InName(path, w, b)
  OBVIOUS
<1> HIDE DEF b
<1>2. w \in Seq(V) /\ Way(path) = w \o WordStep(b)
  BY <1>0, InNameIs
<1>3. ByName(x) \in V
  BY DEF ByName, StepsFrom
<1> DEFINE y == ByName(x)
<1> HIDE DEF V, y
<1>4. w \o <<y>> = Append(w, y)
  BY <1>2, <1>3, AppendProperties DEF y
<1>5. QED
  BY <1>1, <1>2, <1>4 DEF V, y

\* A word after a dot leads to the member of that name.
LEMMA NameReached ==
  ASSUME NEW T, PathMarks \subseteq T, NEW path \in Seq(T), NEW way, Reached(path, way),
         NEW x \in T, x \notin PathMarks
  PROVE  LET t == path \o <<".", x>>
         IN  t \in Seq(T) /\ Reached(t, Append(way, ByName(x)))
<1> DEFINE dot == "."
           none == <<>>
           p1 == Append(path, dot)
           p2 == Append(p1, x)
<1>1. dot \in T /\ x # "." /\ x # "["
  BY DEF PathMarks
<1>2. Way(path) = way
  BY InIndexIs DEF Reached
<1>3. InName(Append(path, "."), Way(path), <<>>)
  BY <1>1, DotIn
<1>4. InName(p1, way, none)
  BY <1>2, <1>3
<1> HIDE DEF dot
<1>5. p1 \in Seq(T) /\ p2 \in Seq(T)
  BY <1>1, AppendProperties
<1>6. path \o <<dot, x>> = p2
  BY <1>1, OneByOne
<1> HIDE DEF p1
<1>7. Append(none, x) = <<x>>
  OBVIOUS
<1> HIDE DEF none
<1>8. InName(p2, way, <<x>>)
  <2>1. InName(Append(p1, x), way, Append(none, x))
    BY <1>1, <1>4, <1>5, NameGoesOn
  <2>2. QED
    BY <1>7, <2>1
<1> HIDE DEF p2
<1>9. Way(p2) = Append(way, ByName(x))
  BY <1>5, <1>8, NameIsRead
<1>10. QED
  BY <1>5, <1>6, <1>8, <1>9 DEF Reached, dot

\* Nothing has been reached at first.
LEMMA NothingReached == Reached(<<>>, <<>>)
<1> DEFINE T == {"."}
           none == <<>>
<1>1. none \in Seq(T) /\ InName(none, none, none)
  BY EmptySeq, NothingIn
<1> HIDE DEF none, T
<1>2. Way(none) = none \o WordStep(none)
  BY <1>1, InNameIs
<1>3. WordStep(<<>>) = <<>>
  BY DEF WordStep
<1>4. <<>> \o <<>> = <<>>
  OBVIOUS
<1>5. QED
  BY <1>1, <1>2, <1>3, <1>4 DEF Reached, none

\* The first word of a path leads to the member of that name.
LEMMA FirstReached ==
  ASSUME NEW T, NEW x \in T, x \notin PathMarks
  PROVE  <<x>> \in Seq(T) /\ Reached(<<x>>, <<ByName(x)>>)
<1> DEFINE none == <<>>
           p == Append(none, x)
<1>1. x # "." /\ x # "["
  BY DEF PathMarks
<1>2. none \in Seq(T) /\ InName(none, none, none)
  BY EmptySeq, NothingIn
<1>3. p = <<x>> /\ Append(none, ByName(x)) = <<ByName(x)>>
  OBVIOUS
<1> HIDE DEF none
<1>4. InName(p, none, p) /\ p \in Seq(T)
  BY <1>1, <1>2, NameGoesOn, AppendProperties
<1> HIDE DEF p
<1>5. Way(p) = Append(none, ByName(x))
  <2>1. InName(p, none, <<x>>)
    BY <1>3, <1>4
  <2>2. QED
    BY <1>4, <2>1, NameIsRead
<1>6. QED
  BY <1>3, <1>4, <1>5 DEF Reached

\* The path that a node is spelled with leads to it.
LEMMA NodeIsReached ==
  ASSUME NEW node, IsNode(node)
  PROVE  Way(Spell(node)) = node
<1> DEFINE V == ToSet(node)
           n == Len(node)
           T == PathMarks \cup {node[i].name : i \in DOMAIN node}
           text(i) == IF node[i].index THEN <<"[", node[i].name, "]">>
                      ELSE IF i = 1 THEN <<node[i].name>> ELSE <<".", node[i].name>>
           texts == [i \in DOMAIN node |-> text(i)]
           U == Seq(T)
<1>1. node \in Seq(V)
  BY DEF IsNode, IsSequence
<1>2. n \in Nat /\ DOMAIN node = 1..n
  BY <1>1, LenProperties
<1>3. ASSUME NEW i \in 1..n
      PROVE  /\ node[i].name \in T /\ node[i].name \notin PathMarks
             /\ node[i].index => node[i].name \in Digits /\ node[i] = ByIndex(node[i].name)
             /\ ~ node[i].index => node[i] = ByName(node[i].name)
  BY <1>2 DEF IsNode, ByName, ByIndex
<1>4. PathMarks \subseteq T /\ "[" \in T /\ "]" \in T /\ "." \in T
  BY DEF PathMarks
<1>5. Spell(node) = Flat(texts)
  BY DEF Spell
<1> HIDE DEF n, T, V
<1>6. \A i \in 1..n : texts[i] = text(i)
  BY <1>2
<1>7. texts \in Seq(U) /\ Len(texts) = n
  <2>1. ASSUME NEW i \in 1..n PROVE text(i) \in U
    <3> DEFINE x == node[i].name
    <3>1. x \in T
      BY <1>3
    <3> HIDE DEF x
    <3>2. <<"[", x, "]">> \in U /\ <<x>> \in U /\ <<".", x>> \in U
      BY <1>4, <3>1
    <3>3. QED
      BY <3>2 DEF x
  <2>2. texts \in [1..n -> U]
    BY <1>2, <2>1
  <2> HIDE DEF texts, U
  <2>3. QED
    BY <1>2, <2>2, FunctionIsSeq
<1> HIDE DEF texts
<1>8. PICK c : FlatGo(c, T, texts)
  BY <1>7, FlatFold
<1>9. /\ Flat(texts) = c[n] /\ c[0] = <<>>
      /\ \A k \in 1..n : c[k] = c[k - 1] \o texts[k]
  BY <1>7, <1>8 DEF FlatGo
<1> DEFINE S == {k \in Nat : k <= n => c[k] \in U /\ Reached(c[k], SubSeq(node, 1, k))}
<1>10. 0 \in S
  <2>1. SubSeq(node, 1, 0) = <<>>
    BY SubSeqEmpty
  <2>2. <<>> \in U
    BY EmptySeq
  <2>3. QED
    BY <1>9, <2>1, <2>2, NothingReached
<1>11. ASSUME NEW k \in Nat, k \in S PROVE k + 1 \in S
  <2> DEFINE a == k + 1
             x == node[a].name
             p == c[k]
             way == SubSeq(node, 1, k)
  <2>1. a \in Nat /\ k < a /\ a - 1 = k /\ a >= 1
    OBVIOUS
  <2>2. SUFFICES ASSUME a <= n PROVE c[a] \in U /\ Reached(c[a], SubSeq(node, 1, a))
    BY <2>1
  <2>3. p \in U /\ Reached(p, way)
    BY <1>2, <1>11, <2>1, <2>2
  <2>4. SubSeq(node, 1, a) = Append(way, node[a])
    BY <1>1, <2>2, PrefixGrows DEF n
  <2> HIDE DEF a
  <2>5. a \in 1..n
    BY <2>1, <2>2
  <2>6. c[a] = p \o text(a)
    BY <1>6, <1>9, <2>1, <2>5
  <2> HIDE DEF p, way
  <2>7. /\ x \in T /\ x \notin PathMarks
        /\ node[a].index => x \in Digits /\ node[a] = ByIndex(x)
        /\ ~ node[a].index => node[a] = ByName(x)
    BY <1>3, <2>5
  <2>8. CASE node[a].index
    <3>1. text(a) = <<"[", x, "]">>
      BY <2>8
    <3> HIDE DEF x, S
    <3>2. p \o <<"[", x, "]">> \in U /\ Reached(p \o <<"[", x, "]">>, Append(way, ByIndex(x)))
      BY <1>4, <2>3, <2>7, <2>8, IndexReached
    <3>3. QED
      BY <2>4, <2>6, <2>7, <2>8, <3>1, <3>2
  <2>9. CASE ~ node[a].index /\ a = 1
    <3>1. text(a) = <<x>>
      BY <2>9
    <3>2. k = 0
      BY <2>1, <2>9
    <3>3. p = <<>> /\ way = <<>>
      BY <1>9, <3>2, SubSeqEmpty DEF p, way
    <3> HIDE DEF x, S
    <3>4. <<x>> \in U /\ Reached(<<x>>, <<ByName(x)>>)
      BY <2>7, FirstReached
    <3>5. <<>> \o <<x>> = <<x>>
      BY <3>4, ConcatEmptySeq
    <3>6. Append(<<>>, ByName(x)) = <<ByName(x)>>
      OBVIOUS
    <3>7. QED
      BY <2>4, <2>6, <2>7, <2>9, <3>1, <3>3, <3>4, <3>5, <3>6
  <2>10. CASE ~ node[a].index /\ a # 1
    <3>1. text(a) = <<".", x>>
      BY <2>10
    <3> HIDE DEF x, S
    <3>2. p \o <<".", x>> \in U /\ Reached(p \o <<".", x>>, Append(way, ByName(x)))
      BY <1>4, <2>3, <2>7, NameReached
    <3>3. QED
      BY <2>4, <2>6, <2>7, <2>10, <3>1, <3>2
  <2>11. QED
    BY <2>8, <2>9, <2>10
<1> HIDE DEF S
<1>12. n \in S
  BY <1>2, <1>10, <1>11, SetInduction
<1>13. c[n] \in U /\ Reached(c[n], SubSeq(node, 1, n))
  BY <1>2, <1>12 DEF S
<1>14. SubSeq(node, 1, n) = node
  BY <1>1, SubSeqFull DEF n
<1>15. Way(c[n]) = SubSeq(node, 1, n)
  BY <1>13, InIndexIs DEF Reached
<1>16. QED
  BY <1>5, <1>9, <1>14, <1>15

\* The names of steps.
Names(w) == [i \in DOMAIN w |-> w[i].name]

\* The names of one step more.
LEMMA NamesGoOn ==
  ASSUME NEW T, NEW w \in Seq(StepsFrom(T)), NEW x \in StepsFrom(T)
  PROVE  Names(Append(w, x)) = Append(Names(w), x.name)
<1> DEFINE V == StepsFrom(T)
           U == T \cup {"none"}
           f == [y \in V |-> y.name]
<1>1. f \in [V -> U]
  BY DEF StepsFrom
<1>2. f[x] = x.name
  OBVIOUS
<1>3. Append(w, x) \in Seq(V)
  BY AppendProperties
<1>4. ASSUME NEW s \in Seq(V) PROVE Names(s) = MapOf(f, s)
  <2>1. \A i \in DOMAIN s : s[i] \in V
    BY ElementOfSeq, LenProperties
  <2>2. \A i \in DOMAIN s : f[s[i]] = s[i].name
    BY <2>1
  <2> HIDE DEF f
  <2>3. QED
    BY <2>2 DEF Names, MapOf
<1> HIDE DEF f
<1>5. MapOf(f, Append(w, x)) = Append(MapOf(f, w), f[x])
  <2>1. Maps(f, V, U, w, x)
    BY <1>1 DEF Maps
  <2>2. QED
    BY <2>1, MapGoesOn
<1>6. Names(Append(w, x)) = MapOf(f, Append(w, x)) /\ Names(w) = MapOf(f, w)
  BY <1>3, <1>4
<1>7. QED
  BY <1>2, <1>5, <1>6

\* Steps of which one is in no document.
Bad(w) == \E i \in DOMAIN w : w[i].name \in PathMarks \cup {"none"}

\* Such a step stays.
LEMMA BadTogether ==
  ASSUME NEW U, NEW w \in Seq(U), NEW v \in Seq(U)
  PROVE  Bad(w \o v) <=> Bad(w) \/ Bad(v)
<1> DEFINE n == Len(w)
           m == Len(v)
           o == w \o v
           l == n + m
           set == PathMarks \cup {"none"}
<1>1. n \in Nat /\ m \in Nat /\ DOMAIN w = 1..n /\ DOMAIN v = 1..m
  BY LenProperties
<1>2. /\ o \in Seq(U) /\ Len(o) = l
      /\ \A i \in 1..l : o[i] = IF i <= n THEN w[i] ELSE v[i - n]
  BY ConcatProperties
<1>3. DOMAIN o = 1..l
  BY <1>2, LenProperties
<1> HIDE DEF n, m, o, set
<1>4. /\ Bad(w) <=> \E i \in 1..n : w[i].name \in set
      /\ Bad(v) <=> \E i \in 1..m : v[i].name \in set
      /\ Bad(o) <=> \E i \in 1..l : o[i].name \in set
  BY <1>1, <1>3 DEF Bad, set
<1>5. ASSUME NEW i \in 1..n PROVE i \in 1..l /\ o[i] = w[i]
  <2>1. i \in 1..l /\ i <= n
    BY <1>1
  <2>2. QED
    BY <1>2, <2>1
<1>6. ASSUME NEW i \in 1..m PROVE n + i \in 1..l /\ o[n + i] = v[i]
  <2> DEFINE z == n + i
  <2>1. z \in 1..l /\ ~ z <= n /\ z - n = i
    BY <1>1
  <2> HIDE DEF z, l
  <2>2. o[z] = v[i]
    BY <1>2, <2>1
  <2>3. QED
    BY <2>1, <2>2 DEF z
<1>7. ASSUME NEW i \in 1..l PROVE i \in 1..n \/ (i - n \in 1..m /\ o[i] = v[i - n])
  <2>1. i \in 1..n \/ (~ i <= n /\ i - n \in 1..m)
    BY <1>1
  <2>2. QED
    BY <1>2, <2>1
<1>8. ASSUME Bad(w) PROVE Bad(o)
  <2>1. PICK i \in 1..n : w[i].name \in set
    BY <1>4, <1>8
  <2>2. i \in 1..l /\ o[i].name \in set
    BY <1>5, <2>1
  <2>3. QED
    BY <1>4, <2>2
<1>9. ASSUME Bad(v) PROVE Bad(o)
  <2>1. PICK i \in 1..m : v[i].name \in set
    BY <1>4, <1>9
  <2>2. n + i \in 1..l /\ o[n + i].name \in set
    BY <1>6, <2>1
  <2>3. QED
    BY <1>4, <2>2
<1>10. ASSUME Bad(o) PROVE Bad(w) \/ Bad(v)
  <2>1. PICK i \in 1..l : o[i].name \in set
    BY <1>4, <1>10
  <2>2. CASE i \in 1..n
    BY <1>4, <1>5, <2>1, <2>2
  <2>3. CASE i - n \in 1..m /\ o[i] = v[i - n]
    BY <1>4, <2>1, <2>3
  <2>4. QED
    BY <1>7, <2>2, <2>3
<1>11. QED
  BY <1>8, <1>9, <1>10 DEF o

\* A name is of no document when it is a mark, or of two characters or more.
LEMMA BadWord ==
  ASSUME NEW T, NEW b \in Seq(T)
  PROVE  Bad(WordStep(b)) <=>
           Len(b) > 1 \/ (Len(b) = 1 /\ b[1] \in PathMarks \cup {"none"})
<1>1. Len(b) \in Nat /\ (b = <<>> <=> Len(b) = 0)
  BY LenProperties, EmptySeq
<1>2. CASE b = <<>>
  <2>1. DOMAIN <<>> = {}
    OBVIOUS
  <2>2. QED
    BY <1>1, <1>2, <2>1 DEF Bad, WordStep
<1>3. CASE b # <<>>
  <2> DEFINE x == IF Len(b) = 1 THEN ByName(b[1]) ELSE NoStep
             s == <<x>>
  <2>1. WordStep(b) = s
    BY <1>3 DEF WordStep
  <2>2. x.name = IF Len(b) = 1 THEN b[1] ELSE "none"
    BY DEF ByName, NoStep
  <2> HIDE DEF x
  <2>3. DOMAIN s = {1} /\ s[1] = x
    OBVIOUS
  <2> HIDE DEF s
  <2>4. Bad(s) <=> x.name \in PathMarks \cup {"none"}
    BY <2>3 DEF Bad
  <2>5. CASE Len(b) = 1
    BY <2>1, <2>2, <2>4, <2>5
  <2>6. CASE Len(b) # 1
    <3>1. Len(b) > 1
      BY <1>1, <1>3, <2>6
    <3>2. Bad(s)
      BY <2>2, <2>4, <2>6
    <3>3. QED
      BY <2>1, <3>1, <3>2
  <2>7. QED
    BY <2>5, <2>6
<1>4. QED
  BY <1>2, <1>3

\* And stays so.
LEMMA BadWordStays ==
  ASSUME NEW T, NEW b \in Seq(T), NEW c \in T, b # <<>>
  PROVE  Bad(WordStep(Append(b, c)))
<1> DEFINE t == Append(b, c)
<1>1. Len(b) \in Nat /\ Len(b) # 0 /\ t \in Seq(T) /\ Len(t) = Len(b) + 1
  BY LenProperties, EmptySeq, AppendProperties
<1> HIDE DEF t
<1>2. Len(t) > 1
  BY <1>1
<1>3. QED
  BY <1>1, <1>2, BadWord DEF t

\* Of no name there is no step.
LEMMA NoWord ==
  ASSUME NEW V, NEW w \in Seq(V)
  PROVE  w \o WordStep(<<>>) = w
<1>1. WordStep(<<>>) = <<>>
  BY DEF WordStep
<1>2. QED
  BY <1>1, ConcatEmptySeq

\* A path that has a step of no document keeps it.
LEMMA BadStays ==
  ASSUME NEW T, PathMarks \subseteq T, NEW path \in Seq(T), NEW c \in T, Bad(Way(path))
  PROVE  Bad(Way(Append(path, c)))
<1> DEFINE t == Append(path, c)
           V == StepsFrom(T)
<1>1. t \in Seq(T) /\ Way(path) \in Seq(V)
  BY AppendProperties, WayIs
<1>2. "." \in T /\ "[" \in T /\ "]" \in T
  BY DEF PathMarks
<1>3. CASE c = "."
  <2>1. InName(t, Way(path), <<>>)
    BY <1>2, <1>3, DotIn
  <2> DEFINE none == <<>>
  <2>2. InName(t, Way(path), none)
    BY <2>1
  <2> HIDE DEF none, t
  <2>3. Way(t) = Way(path) \o WordStep(none)
    BY <1>1, <2>2, InNameIs
  <2>4. Way(t) = Way(path)
    BY <1>1, <2>3, NoWord DEF none
  <2>5. QED
    BY <2>4 DEF t
<1>4. ASSUME NEW w, NEW b, InName(path, w, b), c # "." PROVE Bad(Way(t))
  <2>1. w \in Seq(V) /\ b \in Seq(T) /\ Way(path) = w \o WordStep(b)
    BY <1>4, InNameIs
  <2>2. CASE c = "["
    <3>1. InIndex(t, Way(path), <<"[">>)
      BY <1>2, <1>4, <2>1, <2>2, NameOpens
    <3> DEFINE one == <<"[">>
    <3>2. InIndex(t, Way(path), one)
      BY <3>1
    <3> HIDE DEF one, t
    <3>3. Way(t) = Way(path)
      BY <1>1, <3>2, InIndexIs
    <3>4. QED
      BY <3>3
  <2>3. CASE c # "["
    <3> DEFINE e == Append(b, c)
    <3>1. InName(t, w, e)
      BY <1>4, <2>3, NameGoesOn
    <3>2. e \in Seq(T)
      BY <2>1, AppendProperties
    <3>3. WordStep(b) \in Seq(V) /\ WordStep(e) \in Seq(V)
      BY <2>1, <3>2, StepTypes
    <3>4. Bad(w) \/ Bad(WordStep(b))
      BY <2>1, <3>3, BadTogether
    <3>5. Bad(WordStep(b)) => Bad(WordStep(e))
      <4>1. SUFFICES ASSUME Bad(WordStep(b)) PROVE Bad(WordStep(e))
        OBVIOUS
      <4>2. Len(b) > 1 \/ (Len(b) = 1 /\ b[1] \in PathMarks \cup {"none"})
        BY <2>1, <4>1, BadWord
      <4>3. b # <<>>
        BY <4>2, EmptySeq
      <4>4. QED
        BY <2>1, <4>3, BadWordStays
    <3> HIDE DEF e, t
    <3>6. Way(t) = w \o WordStep(e)
      BY <1>1, <3>1, InNameIs
    <3>7. QED
      BY <2>1, <3>3, <3>4, <3>5, <3>6, BadTogether
  <2>4. QED
    BY <2>2, <2>3
<1>5. ASSUME NEW w, NEW b, InIndex(path, w, b), c # "." PROVE Bad(Way(t))
  <2>1. w \in Seq(V) /\ b \in Seq(T) /\ Way(path) = w
    BY <1>5, InIndexIs
  <2>2. CASE c = "]"
    <3> DEFINE x == IndexStep(b)
               none == <<>>
    <3>1. InIndex(t, Append(w, x), none)
      BY <1>2, <1>5, <2>2, IndexCloses
    <3>2. x \in V
      BY <2>1, StepTypes
    <3> HIDE DEF x, none, t, V
    <3>3. Way(t) = Append(w, x)
      BY <1>1, <3>1, InIndexIs DEF V
    <3>4. Append(w, x) = w \o <<x>> /\ <<x>> \in Seq(V)
      BY <2>1, <3>2, AppendProperties
    <3> DEFINE v == <<x>>
    <3> HIDE DEF v
    <3>5. Way(t) = w \o v /\ v \in Seq(V)
      BY <3>3, <3>4 DEF v
    <3>6. QED
      BY <2>1, <3>5, BadTogether
  <2>3. CASE c # "]"
    <3> DEFINE e == Append(b, c)
    <3>1. InIndex(t, w, e)
      BY <1>5, <2>3, IndexGoesOn
    <3> HIDE DEF e, t
    <3>2. Way(t) = w
      BY <1>1, <3>1, InIndexIs
    <3>3. QED
      BY <2>1, <3>2
  <2>4. QED
    BY <2>2, <2>3
<1>6. QED
  BY <1>3, <1>4, <1>5, SomewhereIn

\* What has been read of a path whose words are all in its steps so far: nothing yet
\* of a name, a name, or of an index all, its opening bracket, or its number too.
Starts(path, W) == \E w : InName(path, w, <<>>) /\ Kept(path, W) = Names(w)
Named(path, W) ==
  \E w : \E x \in W : /\ InName(path, w, <<x>>) /\ x # "none"
                      /\ Kept(path, W) = Append(Names(w), x)
Indexed(path, W) == \E w : InIndex(path, w, <<>>) /\ Kept(path, W) = Names(w)
Opened(path, W) == \E w : InIndex(path, w, <<"[">>) /\ Kept(path, W) = Names(w)
Numbered(path, W) ==
  \E w : \E x \in W : /\ InIndex(path, w, <<"[", x>>)
                      /\ Kept(path, W) = Append(Names(w), x)

\* Marks and words.
Worded(T, W) == PathMarks \subseteq T /\ W = T \ PathMarks

\* The marks are no words, and all the rest is.
LEMMA Words ==
  ASSUME NEW T, NEW W, Worded(T, W)
  PROVE  /\ "." \in T /\ "[" \in T /\ "]" \in T
         /\ \A c \in T : c \in W <=> c # "." /\ c # "[" /\ c # "]"
  BY DEF Worded, PathMarks

\* A mark is not kept.
LEMMA MarkNotKept ==
  ASSUME NEW T, NEW W, Worded(T, W), NEW path \in Seq(T), NEW c \in T, c \notin W
  PROVE  Kept(Append(path, c), W) = Kept(path, W)
  BY KeptGoesOn

\* A word is.
LEMMA WordKept ==
  ASSUME NEW T, NEW W, Worded(T, W), NEW path \in Seq(T), NEW c \in T, c \in W
  PROVE  Kept(Append(path, c), W) = Append(Kept(path, W), c)
  BY KeptGoesOn

\* After a dot, or at first.
LEMMA StartGoesOn ==
  ASSUME NEW T, NEW W, Worded(T, W), NEW path \in Seq(T), Starts(path, W), NEW c \in T
  PROVE  LET t == Append(path, c)
         IN  /\ c = "." => Starts(t, W)
             /\ c = "[" => Opened(t, W)
             /\ c # "." /\ c # "[" => Named(t, W) \/ Bad(Way(t))
<1> DEFINE t == Append(path, c)
           V == StepsFrom(T)
           none == <<>>
<1>1. PICK w : InName(path, w, none) /\ Kept(path, W) = Names(w)
  BY DEF Starts
<1>2. t \in Seq(T)
  BY AppendProperties
<1> HIDE DEF none
<1>3. w \in Seq(V) /\ Way(path) = w \o WordStep(none)
  BY <1>1, InNameIs
<1>4. w \o WordStep(none) = w /\ Way(path) = w
  BY <1>3, NoWord DEF none
<1>5. CASE c = "."
  <2>1. InName(t, Way(path), <<>>)
    BY <1>5, Words, DotIn
  <2>2. Kept(t, W) = Kept(path, W)
    BY <1>5, Words, MarkNotKept
  <2>3. QED
    BY <1>1, <1>4, <1>5, <2>1, <2>2 DEF Starts
<1>6. CASE c = "["
  <2>1. InIndex(t, w \o WordStep(none), <<"[">>)
    BY <1>1, <1>6, Words, NameOpens
  <2>2. Kept(t, W) = Kept(path, W)
    BY <1>6, Words, MarkNotKept
  <2>3. Opened(t, W)
    BY <1>1, <1>4, <2>1, <2>2 DEF Opened
  <2>4. QED
    BY <1>6, <2>3
<1>7. CASE c # "." /\ c # "["
  <2> DEFINE e == Append(none, c)
             b == <<c>>
  <2>1. InName(t, w, e)
    BY <1>1, <1>7, NameGoesOn
  <2>2. e = b
    BY DEF none
  <2>3. /\ b \in Seq(T) /\ Len(b) = 1 /\ b[1] = c
    OBVIOUS
  <2> HIDE DEF e, b, t
  <2>4. InName(t, w, b)
    BY <2>1, <2>2
  <2>5. CASE c \in PathMarks \cup {"none"}
    <3>1. Bad(WordStep(b))
      BY <2>3, <2>5, BadWord
    <3>2. Way(t) = w \o WordStep(b) /\ WordStep(b) \in Seq(V)
      BY <1>2, <2>3, <2>4, InNameIs, StepTypes
    <3>3. Bad(Way(t))
      BY <1>3, <3>1, <3>2, BadTogether
    <3>4. QED
      BY <1>7, <3>3 DEF t
  <2>6. CASE c \notin PathMarks \cup {"none"}
    <3>1. c \in W /\ c # "none"
      BY <2>6 DEF Worded
    <3>2. Kept(t, W) = Append(Kept(path, W), c)
      BY <3>1, WordKept DEF t
    <3>3. Named(t, W)
      BY <1>1, <2>4, <3>1, <3>2 DEF Named, b
    <3>4. QED
      BY <1>7, <3>3 DEF t
  <2>7. QED
    BY <2>5, <2>6
<1>8. QED
  BY <1>5, <1>6, <1>7

\* After a name.
LEMMA NamedGoesOn ==
  ASSUME NEW T, NEW W, Worded(T, W), NEW path \in Seq(T), Named(path, W), NEW c \in T
  PROVE  LET t == Append(path, c)
         IN  /\ c = "." => Starts(t, W)
             /\ c = "[" => Opened(t, W)
             /\ c # "." /\ c # "[" => Bad(Way(t))
<1> DEFINE t == Append(path, c)
           V == StepsFrom(T)
<1>0. PICK w : \E x \in W : /\ InName(path, w, <<x>>)
                            /\ Kept(path, W) = Append(Names(w), x)
  BY DEF Named
<1>1. PICK x \in W : InName(path, w, <<x>>) /\ Kept(path, W) = Append(Names(w), x)
  BY <1>0
<1> DEFINE b == <<x>>
           v == Append(w, ByName(x))
<1>2. t \in Seq(T) /\ x \in T
  BY AppendProperties DEF Worded
<1>3. w \in Seq(V) /\ Way(path) = v
  BY <1>1, <1>2, NameIsRead
<1>4. InName(path, w, b) /\ b \in Seq(T) /\ b # <<>>
  BY <1>1, <1>2
<1> HIDE DEF b, t
<1>5. Way(path) = w \o WordStep(b)
  BY <1>4, InNameIs
<1>6. Names(v) = Append(Names(w), x)
  <2>1. ByName(x) \in V /\ ByName(x).name = x
    BY <1>2 DEF ByName, StepsFrom
  <2>2. QED
    BY <1>3, <2>1, NamesGoOn
<1> HIDE DEF v
<1>7. CASE c = "."
  <2>1. InName(t, Way(path), <<>>)
    BY <1>7, Words, DotIn DEF t
  <2>2. Kept(t, W) = Kept(path, W)
    BY <1>7, Words, MarkNotKept DEF t
  <2>3. Starts(t, W)
    BY <1>1, <1>3, <1>6, <2>1, <2>2 DEF Starts
  <2>4. QED
    BY <1>7, <2>3 DEF t
<1>8. CASE c = "["
  <2>1. InIndex(t, w \o WordStep(b), <<"[">>)
    BY <1>4, <1>8, Words, NameOpens DEF t
  <2>2. Kept(t, W) = Kept(path, W)
    BY <1>8, Words, MarkNotKept DEF t
  <2>3. InIndex(t, v, <<"[">>)
    BY <1>3, <1>5, <2>1
  <2>4. Opened(t, W)
    BY <1>1, <1>6, <2>2, <2>3 DEF Opened
  <2>5. QED
    BY <1>8, <2>4 DEF t
<1>9. CASE c # "." /\ c # "["
  <2> DEFINE e == Append(b, c)
  <2>1. InName(t, w, e)
    BY <1>4, <1>9, NameGoesOn DEF t
  <2>2. e \in Seq(T)
    BY <1>4, AppendProperties
  <2>3. Bad(WordStep(e))
    BY <1>4, BadWordStays
  <2> HIDE DEF e
  <2>4. Way(t) = w \o WordStep(e) /\ WordStep(e) \in Seq(V)
    BY <1>2, <2>1, <2>2, InNameIs, StepTypes
  <2>5. Bad(Way(t))
    BY <1>3, <2>3, <2>4, BadTogether
  <2>6. QED
    BY <1>9, <2>5 DEF t
<1>10. QED
  BY <1>7, <1>8, <1>9

\* After an index.
LEMMA IndexedGoesOn ==
  ASSUME NEW T, NEW W, Worded(T, W), NEW path \in Seq(T), Indexed(path, W), NEW c \in T
  PROVE  LET t == Append(path, c)
         IN  /\ c = "." => Starts(t, W)
             /\ c = "[" => Opened(t, W)
<1> DEFINE t == Append(path, c)
           none == <<>>
<1>1. PICK w : InIndex(path, w, none) /\ Kept(path, W) = Names(w)
  BY DEF Indexed
<1> HIDE DEF none
<1>2. Way(path) = w
  BY <1>1, InIndexIs
<1>3. CASE c = "."
  <2>1. InName(t, Way(path), <<>>)
    BY <1>3, Words, DotIn
  <2>2. Kept(t, W) = Kept(path, W)
    BY <1>3, Words, MarkNotKept
  <2>3. QED
    BY <1>1, <1>2, <1>3, <2>1, <2>2 DEF Starts
<1>4. CASE c = "["
  <2> DEFINE e == Append(none, c)
  <2>0. c # "." /\ c # "]"
    BY <1>4
  <2>1. InIndex(t, w, e)
    BY <1>1, <2>0, IndexGoesOn
  <2>2. e = <<"[">>
    BY <1>4 DEF none
  <2>3. Kept(t, W) = Kept(path, W)
    BY <1>4, Words, MarkNotKept
  <2>4. Opened(t, W)
    BY <1>1, <2>1, <2>2, <2>3 DEF Opened
  <2>5. QED
    BY <1>4, <2>4
<1>5. QED
  BY <1>3, <1>4

\* After an opening bracket.
LEMMA OpenedGoesOn ==
  ASSUME NEW T, NEW W, Worded(T, W), NEW path \in Seq(T), Opened(path, W), NEW c \in T
  PROVE  LET t == Append(path, c)
         IN  /\ c = "." => Starts(t, W)
             /\ c \in W => Numbered(t, W)
<1> DEFINE t == Append(path, c)
           open == "["
           one == <<open>>
<1>1. PICK w : InIndex(path, w, one) /\ Kept(path, W) = Names(w)
  BY DEF Opened
<1>2. open \in T
  BY Words
<1> HIDE DEF open
<1>3. Append(one, c) = <<open, c>>
  BY <1>2, PairIs
<1> HIDE DEF one
<1>4. Way(path) = w
  BY <1>1, InIndexIs
<1>5. CASE c = "."
  <2>1. InName(t, Way(path), <<>>)
    BY <1>5, Words, DotIn
  <2>2. Kept(t, W) = Kept(path, W)
    BY <1>5, Words, MarkNotKept
  <2>3. Starts(t, W)
    BY <1>1, <1>4, <2>1, <2>2 DEF Starts
  <2>4. QED
    BY <1>5, <2>3, Words
<1>6. CASE c \in W
  <2>1. c # "." /\ c # "]"
    BY <1>6, Words
  <2>2. InIndex(t, w, Append(one, c))
    BY <1>1, <2>1, IndexGoesOn
  <2>3. Kept(t, W) = Append(Names(w), c)
    BY <1>1, <1>6, WordKept
  <2> HIDE DEF t
  <2>4. Numbered(t, W)
    BY <1>3, <1>6, <2>2, <2>3 DEF Numbered, open
  <2>5. QED
    BY <2>1, <2>4 DEF t
<1>7. QED
  BY <1>5, <1>6

\* After a number.
LEMMA NumberedGoesOn ==
  ASSUME NEW T, NEW W, Worded(T, W), NEW path \in Seq(T), Numbered(path, W)
  PROVE  LET t == Append(path, "]")
         IN  Indexed(t, W) \/ Bad(Way(t))
<1> DEFINE t == Append(path, "]")
           V == StepsFrom(T)
           open == "["
<1>0. PICK w : \E x \in W : /\ InIndex(path, w, <<open, x>>)
                            /\ Kept(path, W) = Append(Names(w), x)
  BY DEF Numbered
<1>1. PICK x \in W : InIndex(path, w, <<open, x>>) /\ Kept(path, W) = Append(Names(w), x)
  BY <1>0
<1> DEFINE b == <<open, x>>
           s == IndexStep(b)
           v == Append(w, s)
           none == <<>>
<1>2. "]" \in T /\ "]" \notin W /\ x \in T
  BY Words DEF Worded
<1>3. t \in Seq(T)
  BY <1>2, AppendProperties
<1>4. Len(b) = 2 /\ b[2] = x /\ InIndex(path, w, b)
  BY <1>1
<1> HIDE DEF b
<1>5. w \in Seq(V) /\ b \in Seq(T)
  BY <1>4, InIndexIs
<1>6. InIndex(t, v, none)
  BY <1>2, <1>4, IndexCloses
<1>7. Kept(t, W) = Append(Names(w), x)
  BY <1>1, <1>2, MarkNotKept
<1>8. s \in V
  BY <1>5, StepTypes
<1> HIDE DEF t
<1>9. CASE x \in Digits
  <2>1. s.name = x
    BY <1>4, <1>9 DEF IndexStep, ByIndex
  <2>2. Names(v) = Append(Names(w), s.name)
    BY <1>5, <1>8, NamesGoOn
  <2>3. Indexed(t, W)
    BY <1>6, <1>7, <2>1, <2>2 DEF Indexed
  <2>4. QED
    BY <2>3 DEF t
<1>10. CASE x \notin Digits
  <2>1. s.name = "none"
    BY <1>4, <1>10 DEF IndexStep, NoStep, ByName
  <2> HIDE DEF s, none, V
  <2>2. Way(t) = v
    <3> HIDE DEF v
    <3>1. QED
      BY <1>3, <1>6, InIndexIs
  <2>3. v = w \o <<s>> /\ <<s>> \in Seq(V)
    BY <1>5, <1>8, AppendProperties DEF V
  <2>4. Bad(<<s>>)
    <3> DEFINE one == <<s>>
    <3>1. DOMAIN one = {1} /\ one[1] = s
      OBVIOUS
    <3> HIDE DEF one
    <3>2. Bad(one)
      BY <2>1, <3>1 DEF Bad
    <3>3. QED
      BY <3>2 DEF one
  <2> DEFINE one == <<s>>
  <2> HIDE DEF one
  <2>5. Way(t) = w \o one /\ one \in Seq(V) /\ Bad(one)
    BY <2>2, <2>3, <2>4 DEF one
  <2>6. Bad(Way(t))
    BY <1>5, <2>5, BadTogether DEF V
  <2>7. QED
    BY <2>6 DEF t
<1>11. QED
  BY <1>9, <1>10

\* Every bracket of a path is closed, and followed by a dot or a bracket.
Shut(p) ==
  \A i \in DOMAIN p :
    /\ p[i] = "[" => i + 2 <= Len(p) /\ p[i + 2] = "]"
    /\ p[i] = "]" => i = Len(p) \/ p[i + 1] \in {".", "["}

\* Where the first k marks and words of such a path lead.
Leads(p, k, W) ==
  LET s == SubSeq(p, 1, k)
  IN  \/ Bad(Way(s))
      \/ Starts(s, W)
      \/ Named(s, W)
      \/ Indexed(s, W) /\ k >= 1 /\ p[k] = "]"
      \/ Opened(s, W) /\ k >= 1 /\ p[k] = "["
      \/ Numbered(s, W) /\ k >= 2 /\ p[k - 1] = "["

\* And one more.
LEMMA LeadsOn ==
  ASSUME NEW T, NEW W, Worded(T, W), NEW p \in Seq(T), Shut(p),
         NEW k \in Nat, k + 1 <= Len(p), Leads(p, k, W)
  PROVE  Leads(p, k + 1, W)
<1> DEFINE a == k + 1
           n == Len(p)
           s == SubSeq(p, 1, k)
           t == SubSeq(p, 1, a)
           c == p[a]
<1>1. s \in Seq(T) /\ c \in T /\ t = Append(s, c)
  BY PrefixGrows
<1>2. n \in Nat /\ DOMAIN p = 1..n
  BY LenProperties
<1>2a. a <= n
  OBVIOUS
<1> HIDE DEF s, t, n
<1>3. a \in 1..n /\ a \in Nat /\ a >= 1 /\ a - 1 = k
  BY <1>2, <1>2a
<1>4. /\ \A i \in 1..n : p[i] = "[" => i + 2 <= n /\ p[i + 2] = "]"
      /\ \A i \in 1..n : p[i] = "]" => i = n \/ p[i + 1] \in {".", "["}
  <2>1. \A i \in DOMAIN p :
          /\ p[i] = "[" => i + 2 <= Len(p) /\ p[i + 2] = "]"
          /\ p[i] = "]" => i = Len(p) \/ p[i + 1] \in {".", "["}
    BY DEF Shut
  <2>2. DOMAIN p = 1..n /\ Len(p) = n
    BY <1>2 DEF n
  <2>3. QED
    BY <2>1, <2>2
<1>5. \/ Bad(Way(s)) \/ Starts(s, W) \/ Named(s, W)
      \/ Indexed(s, W) /\ k >= 1 /\ p[k] = "]"
      \/ Opened(s, W) /\ k >= 1 /\ p[k] = "["
      \/ Numbered(s, W) /\ k >= 2 /\ p[k - 1] = "["
  BY DEF Leads, s
<1>6. ASSUME Bad(Way(t)) \/ Starts(t, W) \/ Named(t, W) PROVE Leads(p, a, W)
  BY <1>6 DEF Leads, t
<1>7. ASSUME Opened(t, W), c = "[" PROVE Leads(p, a, W)
  BY <1>3, <1>7 DEF Leads, t
<1>8. CASE Bad(Way(s))
  <2>1. Bad(Way(t))
    BY <1>1, <1>8, BadStays DEF Worded
  <2>2. QED
    BY <1>6, <2>1
<1>9. CASE Starts(s, W)
  <2>1. /\ c = "." => Starts(t, W)
        /\ c = "[" => Opened(t, W)
        /\ c # "." /\ c # "[" => Named(t, W) \/ Bad(Way(t))
    BY <1>1, <1>9, StartGoesOn
  <2>2. QED
    BY <1>6, <1>7, <2>1
<1>10. CASE Named(s, W)
  <2>1. /\ c = "." => Starts(t, W)
        /\ c = "[" => Opened(t, W)
        /\ c # "." /\ c # "[" => Bad(Way(t))
    BY <1>1, <1>10, NamedGoesOn
  <2>2. QED
    BY <1>6, <1>7, <2>1
<1>11. CASE Indexed(s, W) /\ k >= 1 /\ p[k] = "]"
  <2>1. k \in 1..n /\ k # n
    BY <1>2, <1>3, <1>11
  <2>2. c \in {".", "["}
    BY <1>4, <1>11, <2>1
  <2>3. /\ c = "." => Starts(t, W)
        /\ c = "[" => Opened(t, W)
    BY <1>1, <1>11, IndexedGoesOn
  <2>4. QED
    BY <1>6, <1>7, <2>2, <2>3
<1>12. CASE Opened(s, W) /\ k >= 1 /\ p[k] = "["
  <2>1. k \in 1..n /\ a + 1 = k + 2
    BY <1>2, <1>3, <1>12
  <2>2. k + 2 <= n /\ p[a + 1] = "]"
    BY <1>4, <1>12, <2>1
  <2>3. a # n /\ a + 1 # n + 1 /\ a + 1 \in 1..n
    BY <1>2, <1>3, <2>2
  <2>4. c # "]"
    <3>1. SUFFICES ASSUME c = "]" PROVE FALSE
      OBVIOUS
    <3>2. p[a + 1] \in {".", "["}
      BY <1>3, <1>4, <2>3, <3>1
    <3>3. QED
      BY <2>2, <3>2
  <2>5. c # "["
    <3>1. SUFFICES ASSUME c = "[" PROVE FALSE
      OBVIOUS
    <3> DEFINE b == a + 1
    <3>2. b \in Nat /\ b + 1 = a + 2
      BY <1>3
    <3>3. a + 2 <= n /\ p[b + 1] = "]"
      BY <1>3, <1>4, <3>1, <3>2
    <3>4. b \in 1..n /\ b # n
      BY <1>2, <1>3, <3>3
    <3>5. p[b] = "]"
      BY <2>2
    <3> HIDE DEF b
    <3>6. p[b + 1] \in {".", "["}
      BY <1>4, <3>4, <3>5
    <3>7. QED
      BY <3>3, <3>6
  <2>6. CASE c = "."
    <3>1. Starts(t, W)
      BY <1>1, <1>12, <2>6, OpenedGoesOn
    <3>2. QED
      BY <1>6, <3>1
  <2>7. CASE c # "."
    <3>1. c \in W
      BY <1>1, <2>4, <2>5, <2>7, Words
    <3>2. Numbered(t, W)
      BY <1>1, <1>12, <3>1, OpenedGoesOn
    <3>3. a >= 2 /\ p[a - 1] = "["
      BY <1>3, <1>12
    <3> HIDE DEF a
    <3>4. Leads(p, a, W)
      BY <3>2, <3>3 DEF Leads, t
    <3>5. QED
      BY <3>4 DEF a
  <2>8. QED
    BY <2>6, <2>7
<1>13. CASE Numbered(s, W) /\ k >= 2 /\ p[k - 1] = "["
  <2> DEFINE j == k - 1
  <2>1. j \in 1..n /\ j + 2 = a
    BY <1>2, <1>3, <1>13
  <2>2. p[j] = "["
    BY <1>13
  <2> HIDE DEF j
  <2>3. p[j + 2] = "]"
    BY <1>4, <2>1, <2>2
  <2>4. c = "]"
    BY <2>1, <2>3
  <2>5. Indexed(t, W) \/ Bad(Way(t))
    BY <1>1, <1>13, <2>4, NumberedGoesOn
  <2>6. Indexed(t, W) => Leads(p, a, W)
    BY <1>3, <2>4 DEF Leads, t
  <2>7. QED
    BY <1>6, <2>5, <2>6
<1>14. QED
  BY <1>5, <1>8, <1>9, <1>10, <1>11, <1>12, <1>13

\* A path whose brackets are closed leads nowhere but along its own words.
LEMMA OwnWords ==
  ASSUME NEW T, NEW W, Worded(T, W), NEW p \in Seq(T), Shut(p), ~ Bad(Way(p))
  PROVE  Names(Way(p)) = Kept(p, W)
<1> DEFINE n == Len(p)
           S == {k \in Nat : k <= n => Leads(p, k, W)}
<1>1. n \in Nat /\ DOMAIN p = 1..n
  BY LenProperties
<1> HIDE DEF n
<1>2. 0 \in S
  <2>1. SubSeq(p, 1, 0) = <<>>
    BY SubSeqEmpty
  <2>2. Starts(<<>>, W)
    <3>1. DOMAIN <<>> = {}
      OBVIOUS
    <3>2. Names(<<>>) = <<>>
      BY <3>1 DEF Names
    <3>3. QED
      BY <3>2, NothingIn, NothingKept DEF Starts
  <2>3. Leads(p, 0, W)
    BY <2>1, <2>2 DEF Leads
  <2>4. QED
    BY <2>3
<1>3. ASSUME NEW k \in Nat, k \in S PROVE k + 1 \in S
  <2>1. SUFFICES ASSUME k + 1 <= n PROVE Leads(p, k + 1, W)
    OBVIOUS
  <2>2. Leads(p, k, W)
    BY <1>1, <1>3, <2>1
  <2>3. QED
    BY <2>1, <2>2, LeadsOn DEF n
<1> HIDE DEF S
<1>4. Leads(p, n, W)
  <2>1. n \in S
    BY <1>1, <1>2, <1>3, SetInduction
  <2>2. QED
    BY <1>1, <2>1 DEF S
<1>5. SubSeq(p, 1, n) = p
  BY SubSeqFull DEF n
<1>6. /\ \A i \in 1..n : p[i] = "[" => i + 2 <= n
  BY <1>1 DEF Shut, n
<1>7. \/ Starts(p, W) \/ Named(p, W) \/ Indexed(p, W)
      \/ n >= 1 /\ p[n] = "["
      \/ n >= 2 /\ p[n - 1] = "["
  BY <1>4, <1>5 DEF Leads
<1>8. CASE Starts(p, W)
  <2> DEFINE none == <<>>
             V == StepsFrom(T)
  <2>1. PICK w : InName(p, w, none) /\ Kept(p, W) = Names(w)
    BY <1>8 DEF Starts
  <2> HIDE DEF none
  <2>2. w \in Seq(V) /\ Way(p) = w \o WordStep(none)
    BY <2>1, InNameIs
  <2>3. w \o WordStep(none) = w
    BY <2>2, NoWord DEF none
  <2>4. QED
    BY <2>1, <2>2, <2>3
<1>9. CASE Named(p, W)
  <2>0. PICK w : \E x \in W : InName(p, w, <<x>>) /\ Kept(p, W) = Append(Names(w), x)
    BY <1>9 DEF Named
  <2>1. PICK x \in W : InName(p, w, <<x>>) /\ Kept(p, W) = Append(Names(w), x)
    BY <2>0
  <2>2. x \in T
    BY DEF Worded
  <2>3. w \in Seq(StepsFrom(T)) /\ Way(p) = Append(w, ByName(x))
    BY <2>1, <2>2, NameIsRead
  <2>4. ByName(x) \in StepsFrom(T) /\ ByName(x).name = x
    BY <2>2 DEF ByName, StepsFrom
  <2>5. Names(Append(w, ByName(x))) = Append(Names(w), ByName(x).name)
    BY <2>3, <2>4, NamesGoOn
  <2>6. QED
    BY <2>1, <2>3, <2>4, <2>5
<1>10. CASE Indexed(p, W)
  <2> DEFINE none == <<>>
  <2>1. PICK w : InIndex(p, w, none) /\ Kept(p, W) = Names(w)
    BY <1>10 DEF Indexed
  <2> HIDE DEF none
  <2>2. Way(p) = w
    BY <2>1, InIndexIs
  <2>3. QED
    BY <2>1, <2>2
<1>11. ~ (n >= 1 /\ p[n] = "[")
  BY <1>1, <1>6
<1>12. ~ (n >= 2 /\ p[n - 1] = "[")
  <2>1. SUFFICES ASSUME n >= 2, p[n - 1] = "[" PROVE FALSE
    OBVIOUS
  <2> DEFINE j == n - 1
  <2>2. j \in 1..n /\ ~ j + 2 <= n
    BY <1>1, <2>1
  <2> HIDE DEF j
  <2>3. QED
    BY <1>6, <2>1, <2>2 DEF j
<1>13. QED
  BY <1>7, <1>8, <1>9, <1>10, <1>11, <1>12

\* The steps of a node of a document.
LEMMA NodeIsGood ==
  ASSUME NEW node, IsNode(node)
  PROVE  ~ Bad(node)
  BY DEF IsNode, Bad

(***************************************************************************)
(* The path a node is spelled with leads to it and to no other, and a path *)
(* whose brackets are closed leads nowhere but along its own words: of the *)
(* names read so far, all are words of the path, in its order, unless one  *)
(* step at least is in no document, and such a step stays.                 *)
(***************************************************************************)
THEOREM NodesAreReached == Spec => []EveryNodeHasItsPath
<1>1. Init => EveryNodeHasItsPath
  BY DEF Init, EveryNodeHasItsPath
<1>2. ASSUME EveryNodeHasItsPath, [Next]_vars PROVE EveryNodeHasItsPath'
  <2>1. CASE NavigatePath
    <3>1. PICK doc \in Documents, p \in Paths :
                 Call("navigate", [doc |-> doc, path |-> p], Navigate(doc, p))
      BY <2>1 DEF NavigatePath
    <3>2. input'.path = p /\ input'.doc = doc /\ output' = Navigate(doc, p)
      BY <3>1 DEF Call
    <3> DEFINE A == ToSet(p)
               T == A \cup PathMarks
               W == {c \in A : c \notin PathMarks}
    <3>3. IsSequence(p) /\ \A node \in doc : IsNode(node)
      BY ParsersAssumption
    <3>4. p \in Seq(A)
      BY <3>3 DEF IsSequence
    <3>5. p \in Seq(T)
      BY <3>4
    <3>6. Worded(T, W)
      BY DEF Worded
    <3>7. Navigate(doc, p) = {Way(p)} \cap doc
      BY DEF Navigate, Way, StepsOf
    <3>8. \A node \in doc : p = Spell(node) => Navigate(doc, p) = {node}
      <4>1. SUFFICES ASSUME NEW node \in doc, p = Spell(node) PROVE Navigate(doc, p) = {node}
        OBVIOUS
      <4>2. Way(p) = node
        BY <3>3, <4>1, NodeIsReached
      <4>3. QED
        BY <3>7, <4>2
    <3> HIDE DEF T, W
    <3>9. ASSUME Shut(p), NEW node \in Navigate(doc, p)
          PROVE  [i \in DOMAIN node |-> node[i].name] = Kept(p, W)
      <4>1. node = Way(p) /\ node \in doc
        BY <3>7, <3>9
      <4>2. ~ Bad(Way(p))
        BY <3>3, <4>1, NodeIsGood
      <4>3. Names(Way(p)) = Kept(p, W)
        BY <3>5, <3>6, <3>9, <4>2, OwnWords
      <4>4. QED
        BY <4>1, <4>3 DEF Names
    <3>10. EveryNodeHasItsPath'
      BY <3>2, <3>8, <3>9 DEF EveryNodeHasItsPath, Shut, W
    <3>11. QED
      BY <3>10
  <2>2. CASE Read /\ ~ NavigatePath
    <3>1. call' # "navigate"
      BY <2>2 DEF Read, Call, ReadAnswer, Summary, ReadLinks, DetectAntiBot, Sanitize,
                  Extraction, ReadPrice, Interact
    <3>2. QED
      BY <3>1 DEF EveryNodeHasItsPath
  <2>3. CASE Return
    BY <2>3 DEF Return, EveryNodeHasItsPath
  <2>4. CASE UNCHANGED vars
    BY <1>2, <2>4 DEF vars, EveryNodeHasItsPath
  <2>5. QED
    BY <1>2, <2>1, <2>2, <2>3, <2>4 DEF Next
<1>3. QED
  BY <1>1, <1>2, PTL DEF Spec

(***************************************************************************)
(* What a page holds besides its markup is read: the provider named is one *)
(* of the surest, summaries fit, and every node has its path.              *)
(***************************************************************************)
THEOREM PageDataStaysRead == Spec => []PageDataIsRead
<1>1. SurestProvider /\ SummaryBounded /\ EveryNodeHasItsPath => PageDataIsRead
  BY DEF PageDataIsRead
<1>2. QED
  BY <1>1, SurestIsNamed, SummariesFit, NodesAreReached, PTL

=============================================================================
