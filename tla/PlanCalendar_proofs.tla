-------------------------- MODULE PlanCalendar_proofs --------------------------
(***************************************************************************)
(* Proofs about PlanCalendar: what an edit of the plan may not lose, and     *)
(* that it keeps the daily budget.                                          *)
(***************************************************************************)
EXTENDS PlanCalendar, FiniteSetTheorems, SequenceTheorems, TLAPS

-----------------------------------------------------------------------------
(* Induction                                                                *)

\* The segments below the members of a set of numbers are finite sets, of which
\* one is the smallest.
LEMMA LeastNatural ==
  ASSUME NEW S \in SUBSET Nat, S # {}
  PROVE  \E n \in S : \A m \in S : n <= m
  <1> DEFINE Segments == {0 .. n : n \in S}
             R == StrictSubsetOrdering(Int)
             F == FiniteSubsetsOf(Int)
  <1>1. IsWellFoundedOn(R, F)
    BY FS_StrictSubsetOrderingWellFounded
  <1>2. Segments \subseteq F
    <2>1. \A n \in S : IsFiniteSet(0 .. n)
      BY FS_Interval
    <2>2. \A n \in S : 0 .. n \in F
      BY <2>1 DEF FiniteSubsetsOf
    <2> HIDE DEF F
    <2> QED BY <2>2
  <1>3. Segments # {}
    OBVIOUS
  <1>4. \E A \in Segments : \A B \in Segments : <<B, A>> \notin R
    <2> HIDE DEF Segments, R, F
    <2> QED BY <1>1, <1>2, <1>3, WFMin
  <1>5. PICK n \in S : \A m \in S : <<0 .. m, 0 .. n>> \notin R
    BY <1>4
  <1>6. ASSUME NEW m \in S, m < n PROVE FALSE
    <2>1. 0 .. m \subseteq 0 .. n /\ n \in 0 .. n /\ n \notin 0 .. m
      BY <1>6
    <2>2. 0 .. m \in SUBSET Int /\ 0 .. n \in SUBSET Int /\ 0 .. m # 0 .. n
      BY <2>1
    <2>3. <<0 .. m, 0 .. n>> \in R
      BY <2>1, <2>2 DEF StrictSubsetOrdering
    <2> QED BY <1>5, <2>3
  <1> QED BY <1>6

\* A set with 0, and with n + 1 for every n in it, has all numbers.
LEMMA Induction ==
  ASSUME NEW S, 0 \in S, \A n \in Nat : n \in S => n + 1 \in S
  PROVE  \A n \in Nat : n \in S
  <1> SUFFICES ASSUME Nat \ S # {} PROVE FALSE
    OBVIOUS
  <1>1. PICK n \in Nat \ S : \A m \in Nat \ S : n <= m
    <2> DEFINE D == Nat \ S
    <2> D \in SUBSET Nat /\ D # {}
      OBVIOUS
    <2> HIDE DEF D
    <2>1. \E n \in D : \A m \in D : n <= m
      BY LeastNatural
    <2> QED BY <2>1 DEF D
  <1>2. n # 0 /\ n - 1 \in Nat /\ ~ (n <= n - 1) /\ n = (n - 1) + 1
    OBVIOUS
  <1>3. n - 1 \in S
    BY <1>1, <1>2
  <1> QED BY <1>2, <1>3

-----------------------------------------------------------------------------
(* Sessions of a plan                                                       *)

Fields == {"id", "topic", "at", "minutes", "activity", "done"}

IsSession(s) ==
  /\ DOMAIN s = Fields /\ s = [f \in Fields |-> s[f]]
  /\ s.at \in Nat /\ s.minutes \in Nat /\ s.done \in BOOLEAN

IsList(sessions) == \E S : sessions \in Seq(S) /\ \A s \in S : IsSession(s)

LEMMA ListFacts ==
  ASSUME NEW sessions, IsList(sessions)
  PROVE  /\ Len(sessions) \in Nat /\ DOMAIN sessions = 1 .. Len(sessions)
         /\ sessions = [i \in 1 .. Len(sessions) |-> sessions[i]]
         /\ \A i \in 1 .. Len(sessions) : IsSession(sessions[i])
  <1>1. PICK S : sessions \in Seq(S) /\ \A s \in S : IsSession(s)
    BY DEF IsList
  <1>2. /\ Len(sessions) \in Nat /\ DOMAIN sessions = 1 .. Len(sessions)
        /\ sessions = [i \in 1 .. Len(sessions) |-> sessions[i]]
        /\ \A i \in 1 .. Len(sessions) : sessions[i] \in S
    BY <1>1
  <1> QED BY <1>1, <1>2

LEMMA EmptyList ==
  IsList(<< >>)
  <1> DEFINE S == {}
  <1>1. << >> \in Seq(S) /\ \A s \in S : IsSession(s)
    OBVIOUS
  <1> HIDE DEF S
  <1> QED BY <1>1 DEF IsList

LEMMA ListFromFunction ==
  ASSUME NEW n \in Nat, NEW x, DOMAIN x = 1 .. n, x = [i \in 1 .. n |-> x[i]],
         \A i \in 1 .. n : IsSession(x[i])
  PROVE  IsList(x) /\ Len(x) = n
  <1> DEFINE S == {x[i] : i \in 1 .. n}
  <1>1. x \in [1 .. n -> S]
    OBVIOUS
  <1>2. x \in Seq(S) /\ Len(x) = n
    <2> HIDE DEF S
    <2> QED BY <1>1, IsASeq, LenProperties
  <1>3. \A s \in S : IsSession(s)
    OBVIOUS
  <1> HIDE DEF S
  <1> QED BY <1>2, <1>3 DEF IsList

LEMMA ListAppend ==
  ASSUME NEW sessions, IsList(sessions), NEW s, IsSession(s)
  PROVE  /\ IsList(Append(sessions, s)) /\ Len(Append(sessions, s)) = Len(sessions) + 1
         /\ \A i \in 1 .. Len(sessions) : Append(sessions, s)[i] = sessions[i]
         /\ Append(sessions, s)[Len(sessions) + 1] = s
  <1>1. PICK S : sessions \in Seq(S) /\ \A r \in S : IsSession(r)
    BY DEF IsList
  <1> DEFINE T == S \cup {s}
  <1>2. sessions \in Seq(T) /\ s \in T /\ \A r \in T : IsSession(r)
    BY <1>1, SeqMonotonic
  <1> HIDE DEF T
  <1>3. Append(sessions, s) \in Seq(T)
    BY <1>2
  <1>4. /\ Len(Append(sessions, s)) = Len(sessions) + 1
        /\ \A i \in 1 .. Len(sessions) : Append(sessions, s)[i] = sessions[i]
        /\ Append(sessions, s)[Len(sessions) + 1] = s
    BY <1>2
  <1> QED BY <1>2, <1>3, <1>4 DEF IsList

LEMMA ListConcat ==
  ASSUME NEW a, IsList(a), NEW b, IsList(b)
  PROVE  /\ IsList(a \o b) /\ Len(a \o b) = Len(a) + Len(b)
         /\ \A i \in 1 .. Len(a) : (a \o b)[i] = a[i]
         /\ \A i \in Len(a) + 1 .. Len(a) + Len(b) : (a \o b)[i] = b[i - Len(a)]
  <1>1. PICK S : a \in Seq(S) /\ \A r \in S : IsSession(r)
    BY DEF IsList
  <1>2. PICK T : b \in Seq(T) /\ \A r \in T : IsSession(r)
    BY DEF IsList
  <1> DEFINE U == S \cup T
  <1>3. a \in Seq(U) /\ b \in Seq(U) /\ \A r \in U : IsSession(r)
    BY <1>1, <1>2, SeqMonotonic
  <1> HIDE DEF U
  <1>4. /\ a \o b \in Seq(U) /\ Len(a \o b) = Len(a) + Len(b)
        /\ \A i \in 1 .. Len(a) + Len(b) :
             (a \o b)[i] = IF i <= Len(a) THEN a[i] ELSE b[i - Len(a)]
    BY <1>3, ConcatProperties
  <1>5. Len(a) \in Nat /\ Len(b) \in Nat
    BY <1>3
  <1> QED BY <1>3, <1>4, <1>5 DEF IsList

\* A session that is changed in place.
LEMMA ListExcept ==
  ASSUME NEW sessions, IsList(sessions), NEW i \in 1 .. Len(sessions), NEW s, IsSession(s)
  PROVE  /\ IsList([sessions EXCEPT ![i] = s])
         /\ Len([sessions EXCEPT ![i] = s]) = Len(sessions)
         /\ [sessions EXCEPT ![i] = s][i] = s
         /\ \A j \in 1 .. Len(sessions) : j # i => [sessions EXCEPT ![i] = s][j] = sessions[j]
  <1> DEFINE n == Len(sessions)
             x == [sessions EXCEPT ![i] = s]
  <1>1. /\ n \in Nat /\ DOMAIN sessions = 1 .. n
        /\ sessions = [j \in 1 .. n |-> sessions[j]]
        /\ \A j \in 1 .. n : IsSession(sessions[j])
    BY ListFacts
  <1> HIDE DEF n
  <1>2. /\ DOMAIN x = 1 .. n /\ x = [j \in 1 .. n |-> x[j]]
        /\ \A j \in 1 .. n : x[j] = IF j = i THEN s ELSE sessions[j]
    BY <1>1
  <1>3. \A j \in 1 .. n : IsSession(x[j])
    BY <1>1, <1>2
  <1> HIDE DEF x
  <1>4. IsList(x) /\ Len(x) = n
    BY <1>1, <1>2, <1>3, ListFromFunction
  <1>5. i \in 1 .. n
    BY DEF n
  <1> QED BY <1>2, <1>4, <1>5 DEF n, x

LEMMA SessionAt ==
  ASSUME NEW s, IsSession(s), NEW at \in Nat
  PROVE  /\ IsSession([s EXCEPT !.at = at]) /\ [s EXCEPT !.at = at].at = at
         /\ \A f \in Fields \ {"at"} : [s EXCEPT !.at = at][f] = s[f]
  BY DEF IsSession, Fields

LEMMA SessionDone ==
  ASSUME NEW s, IsSession(s), NEW done \in BOOLEAN
  PROVE  /\ IsSession([s EXCEPT !.done = done]) /\ [s EXCEPT !.done = done].done = done
         /\ \A f \in Fields \ {"done"} : [s EXCEPT !.done = done][f] = s[f]
  BY DEF IsSession, Fields

-----------------------------------------------------------------------------
(* Picked                                                                   *)

\* The sequence that Picked builds, position by position.
LEMMA PickedSteps ==
  ASSUME NEW x, Len(x) \in Nat, NEW chosen
  PROVE  \E g : /\ g[0] = << >> /\ Picked(x, chosen) = g[Len(x)]
                /\ \A n \in 1 .. Len(x) :
                     g[n] = IF n \in chosen THEN Append(g[n - 1], x[n]) ELSE g[n - 1]
  <1> DEFINE Next1(prior, n) == IF n \in chosen THEN Append(prior, x[n]) ELSE prior
             Form(g, m) == g = [n \in 0 .. m |-> IF n = 0 THEN << >> ELSE Next1(g[n - 1], n)]
             S == {m \in Nat : \E g : Form(g, m)}
  <1>1. 0 \in S
    <2> DEFINE g == [n \in 0 .. 0 |-> << >>]
    <2>1. Form(g, 0)
      OBVIOUS
    <2> QED BY <2>1
  <1>2. ASSUME NEW m \in Nat, m \in S PROVE m + 1 \in S
    <2>1. PICK g : Form(g, m)
      BY <1>2
    <2> DEFINE h == [n \in 0 .. m + 1 |-> IF n <= m THEN g[n] ELSE Next1(g[m], m + 1)]
    <2> HIDE DEF Next1
    <2>2. \A n \in 0 .. m : g[n] = IF n = 0 THEN << >> ELSE Next1(g[n - 1], n)
      BY <2>1
    <2>3. \A n \in 0 .. m + 1 : h[n] = IF n = 0 THEN << >> ELSE Next1(h[n - 1], n)
      <3> SUFFICES ASSUME NEW n \in 0 .. m + 1
                   PROVE  h[n] = IF n = 0 THEN << >> ELSE Next1(h[n - 1], n)
        OBVIOUS
      <3>1. CASE n = 0
        BY <2>2, <3>1
      <3>2. CASE n \in 1 .. m
        <4>1. h[n] = g[n] /\ h[n - 1] = g[n - 1]
          BY <3>2
        <4> QED BY <2>2, <3>2, <4>1
      <3>3. CASE n = m + 1
        <4>1. h[n] = Next1(g[m], m + 1) /\ h[n - 1] = g[m]
          BY <3>3
        <4> QED BY <3>3, <4>1
      <3> QED BY <3>1, <3>2, <3>3
    <2>4. Form(h, m + 1)
      BY <2>3
    <2>5. m + 1 \in Nat
      OBVIOUS
    <2> HIDE DEF h, Form
    <2> QED BY <2>4, <2>5
  <1> HIDE DEF S
  <1>3. \E g : Form(g, Len(x))
    <2>1. Len(x) \in S
      BY <1>1, <1>2, Induction
    <2> QED BY <2>1 DEF S
  <1> DEFINE upTo == CHOOSE g : Form(g, Len(x))
  <1>4. Form(upTo, Len(x))
    BY <1>3
  <1>5. Picked(x, chosen) = upTo[Len(x)]
    BY DEF Picked
  <1> HIDE DEF upTo, Next1
  <1>6. upTo[0] = << >> /\ \A n \in 1 .. Len(x) : upTo[n] = Next1(upTo[n - 1], n)
    BY <1>4
  <1> QED BY <1>5, <1>6 DEF Next1

\* What is picked are the chosen elements, and all of them.
LEMMA PickedFacts ==
  ASSUME NEW S, NEW x \in Seq(S), NEW chosen
  PROVE  /\ Picked(x, chosen) \in Seq(S)
         /\ \A i \in DOMAIN x \cap chosen :
              \E j \in DOMAIN Picked(x, chosen) : Picked(x, chosen)[j] = x[i]
         /\ \A j \in DOMAIN Picked(x, chosen) :
              \E i \in DOMAIN x \cap chosen : Picked(x, chosen)[j] = x[i]
  <1>1. Len(x) \in Nat /\ DOMAIN x = 1 .. Len(x)
    OBVIOUS
  <1>2. PICK g : /\ g[0] = << >> /\ Picked(x, chosen) = g[Len(x)]
                 /\ \A n \in 1 .. Len(x) :
                      g[n] = IF n \in chosen THEN Append(g[n - 1], x[n]) ELSE g[n - 1]
    BY <1>1, PickedSteps
  <1> DEFINE Good(n) ==
        /\ g[n] \in Seq(S)
        /\ \A i \in (1 .. n) \cap chosen : \E j \in 1 .. Len(g[n]) : g[n][j] = x[i]
        /\ \A j \in 1 .. Len(g[n]) : \E i \in (1 .. n) \cap chosen : g[n][j] = x[i]
             N == {n \in Nat : n <= Len(x) => Good(n)}
  <1>3. 0 \in N
    <2>1. Good(0)
      BY <1>2
    <2> HIDE DEF Good
    <2> QED BY <2>1
  <1>4. ASSUME NEW n \in Nat, n \in N PROVE n + 1 \in N
    <2> SUFFICES ASSUME n + 1 <= Len(x) PROVE Good(n + 1)
      OBVIOUS
    <2>1. Good(n) /\ n + 1 \in 1 .. Len(x) /\ (n + 1) - 1 = n /\ x[n + 1] \in S
      BY <1>1, <1>4
    <2>2. g[n + 1] = IF n + 1 \in chosen THEN Append(g[n], x[n + 1]) ELSE g[n]
      BY <1>2, <2>1
    <2>3. \A i \in 1 .. n + 1 : i \in 1 .. n \/ i = n + 1
      OBVIOUS
    <2>4. \A i \in 1 .. n : i \in 1 .. n + 1
      OBVIOUS
    <2>5. CASE n + 1 \in chosen
      <3> DEFINE a == g[n]
                 b == g[n + 1]
                 e == x[n + 1]
      <3>1. a \in Seq(S) /\ b = Append(a, e) /\ e \in S
        BY <2>1, <2>2, <2>5
      <3>2. /\ b \in Seq(S) /\ Len(b) = Len(a) + 1 /\ Len(a) \in Nat
            /\ \A j \in 1 .. Len(a) : b[j] = a[j]
            /\ b[Len(a) + 1] = e
        BY <3>1
      <3>3. /\ \A i \in (1 .. n) \cap chosen : \E j \in 1 .. Len(a) : a[j] = x[i]
            /\ \A j \in 1 .. Len(a) : \E i \in (1 .. n) \cap chosen : a[j] = x[i]
        BY <2>1
      <3> HIDE DEF a, b
      <3>4. \A j \in 1 .. Len(b) : j \in 1 .. Len(a) \/ j = Len(a) + 1
        BY <3>2
      <3>5. \A j \in 1 .. Len(a) : j \in 1 .. Len(b)
        BY <3>2
      <3>6. Len(a) + 1 \in 1 .. Len(b)
        BY <3>2
      <3>7. ASSUME NEW i \in (1 .. n + 1) \cap chosen
            PROVE  \E j \in 1 .. Len(b) : b[j] = x[i]
        <4>1. CASE i \in 1 .. n
          <5>1. PICK j \in 1 .. Len(a) : a[j] = x[i]
            BY <3>3, <3>7, <4>1
          <5> QED BY <3>2, <3>5, <5>1
        <4>2. CASE i = n + 1
          BY <3>2, <3>6, <4>2
        <4> QED BY <2>3, <3>7, <4>1, <4>2
      <3>8. ASSUME NEW j \in 1 .. Len(b)
            PROVE  \E i \in (1 .. n + 1) \cap chosen : b[j] = x[i]
        <4>1. CASE j \in 1 .. Len(a)
          <5>1. PICK i \in (1 .. n) \cap chosen : a[j] = x[i]
            BY <3>3, <4>1
          <5> QED BY <2>4, <3>2, <4>1, <5>1
        <4>2. CASE j = Len(a) + 1
          <5>1. n + 1 \in (1 .. n + 1) \cap chosen
            BY <2>5
          <5> QED BY <3>2, <4>2, <5>1
        <4> QED BY <3>4, <4>1, <4>2
      <3> QED BY <3>2, <3>7, <3>8 DEF b
    <2>6. CASE n + 1 \notin chosen
      <3>1. g[n + 1] = g[n]
        BY <2>2, <2>6
      <3>2. (1 .. n + 1) \cap chosen = (1 .. n) \cap chosen
        BY <2>3, <2>4, <2>6
      <3> QED BY <2>1, <3>1, <3>2
    <2> QED BY <2>5, <2>6
  <1> HIDE DEF N
  <1>5. Len(x) \in N
    BY <1>1, <1>3, <1>4, Induction
  <1>6. Good(Len(x))
    BY <1>1, <1>5 DEF N
  <1>7. DOMAIN g[Len(x)] = 1 .. Len(g[Len(x)])
    BY <1>6
  <1> QED BY <1>1, <1>2, <1>6, <1>7

LEMMA PickedList ==
  ASSUME NEW sessions, IsList(sessions), NEW chosen
  PROVE  /\ IsList(Picked(sessions, chosen))
         /\ \A i \in DOMAIN sessions \cap chosen :
              \E j \in DOMAIN Picked(sessions, chosen) :
                Picked(sessions, chosen)[j] = sessions[i]
         /\ \A j \in DOMAIN Picked(sessions, chosen) :
              \E i \in DOMAIN sessions \cap chosen :
                Picked(sessions, chosen)[j] = sessions[i]
  <1>1. PICK S : sessions \in Seq(S) /\ \A s \in S : IsSession(s)
    BY DEF IsList
  <1>2. Picked(sessions, chosen) \in Seq(S)
    BY <1>1, PickedFacts
  <1> QED BY <1>1, <1>2, PickedFacts DEF IsList

-----------------------------------------------------------------------------
(* Days                                                                     *)

\* Division has one result.
LEMMA OneQuotient ==
  ASSUME NEW n \in Nat \ {0}, NEW p \in Int, NEW q \in Int,
         NEW r \in 0 .. n - 1, NEW s \in 0 .. n - 1, n * p + r = n * q + s
  PROVE  p = q /\ r = s
  <1>1. ASSUME NEW x \in Int, NEW y \in Int, NEW u \in 0 .. n - 1, NEW v \in 0 .. n - 1,
               n * x + u = n * y + v, x < y
        PROVE  FALSE
    <2> DEFINE d == y - x
    <2>1. d \in Nat \ {0} /\ y = x + d
      BY <1>1
    <2>2. n * y = n * x + n * d
      BY <2>1
    <2>3. n * d >= n
      BY <2>1
    <2>4. n * x \in Int /\ n * d \in Int /\ n * y \in Int
      BY <2>1
    <2> HIDE DEF d
    <2> QED BY <1>1, <2>2, <2>3, <2>4
  <1>2. ~ (p < q) /\ ~ (q < p)
    BY <1>1
  <1> QED BY <1>2

LEMMA NextDay ==
  ASSUME NEW at \in Int
  PROVE  /\ DayOf(at + Slots) = DayOf(at) + 1
         /\ (at + Slots) % Slots = at % Slots
  <1>1. Slots \in Nat \ {0}
    BY CalendarAssumption
  <1> DEFINE p == at \div Slots
             q == (at + Slots) \div Slots
             r == at % Slots
             s == (at + Slots) % Slots
  <1>2. /\ p \in Int /\ r \in 0 .. Slots - 1 /\ at = Slots * p + r
    BY <1>1
  <1>3. /\ q \in Int /\ s \in 0 .. Slots - 1 /\ at + Slots = Slots * q + s
    BY <1>1
  <1> HIDE DEF p, q, r, s
  <1>4. Slots * (p + 1) = Slots * p + Slots /\ Slots * p \in Int /\ Slots * q \in Int
    BY <1>1, <1>2, <1>3
  <1>5. Slots * (p + 1) + r = Slots * q + s
    BY <1>1, <1>2, <1>3, <1>4
  <1>6. p + 1 = q /\ r = s
    BY <1>1, <1>2, <1>3, <1>5, OneQuotient
  <1> QED BY <1>6 DEF p, q, r, s, DayOf

LEMMA DayType ==
  ASSUME NEW at \in Nat
  PROVE  DayOf(at) \in Nat
  <1>1. Slots \in Nat \ {0}
    BY CalendarAssumption
  <1> QED BY <1>1 DEF DayOf

-----------------------------------------------------------------------------
(* Displacement                                                             *)

\* What making room for the session id does to the others: nothing, or an open
\* one goes on by whole days, to this day at the latest.
Postpones(old, new, id, day) ==
  /\ IsList(new) /\ Len(new) = Len(old)
  /\ \A i \in 1 .. Len(old) :
       \/ new[i] = old[i]
       \/ /\ ~old[i].done /\ new[i] = [old[i] EXCEPT !.at = new[i].at]
          /\ new[i].at > old[i].at /\ (new[i].at - old[i].at) % Slots = 0
          /\ DayOf(new[i].at) <= day

LEMMA PostponedDay ==
  ASSUME NEW old, IsList(old), NEW sessions, NEW id, NEW day \in Nat, NEW incoming,
         Postpones(old, sessions, id, day)
  PROVE  Postpones(old, Settle(sessions, id, day, incoming).sessions, id, day + 1)
  <1> DEFINE over == Overflow(sessions, id, day, incoming)
             new == Postponed(sessions, over)
             n == Len(old)
  <1>1. /\ Len(sessions) = n /\ n \in Nat /\ DOMAIN sessions = 1 .. n
        /\ \A i \in 1 .. n : IsSession(sessions[i]) /\ IsSession(old[i])
    BY ListFacts DEF Postpones
  <1>2. \A i \in over : i \in 1 .. n /\ ~sessions[i].done /\ DayOf(sessions[i].at) = day
    BY <1>1 DEF Overflow, OpenOn
  <1>3. Settle(sessions, id, day, incoming).sessions = new
    BY DEF Settle
  <1>4. Slots \in Nat \ {0}
    BY CalendarAssumption
  <1> HIDE DEF over
  <1>5. /\ DOMAIN new = 1 .. n /\ new = [i \in 1 .. n |-> new[i]]
        /\ \A i \in 1 .. n : new[i] = IF i \in over
             THEN [sessions[i] EXCEPT !.at = @ + Slots] ELSE sessions[i]
    BY <1>1 DEF Postponed
  <1> HIDE DEF new, n
  <1>6. ASSUME NEW i \in 1 .. n
        PROVE  /\ IsSession(new[i])
               /\ \/ new[i] = old[i]
                  \/ /\ ~old[i].done /\ new[i] = [old[i] EXCEPT !.at = new[i].at]
                     /\ new[i].at > old[i].at /\ (new[i].at - old[i].at) % Slots = 0
                     /\ DayOf(new[i].at) <= day + 1
    <2> DEFINE o == old[i]
               s == sessions[i]
    <2>1. IsSession(s) /\ IsSession(o) /\ s.at \in Nat /\ o.at \in Nat
      BY <1>1 DEF IsSession
    <2>2. \/ s = o
          \/ /\ ~o.done /\ s = [o EXCEPT !.at = s.at]
             /\ s.at > o.at /\ (s.at - o.at) % Slots = 0 /\ DayOf(s.at) <= day
      BY DEF Postpones, n
    <2>3. CASE i \notin over
      <3>1. new[i] = s
        BY <1>5, <2>3
      <3>2. DayOf(s.at) \in Nat
        BY <2>1, DayType
      <3>3. DayOf(s.at) <= day => DayOf(s.at) <= day + 1
        BY <3>2
      <3> HIDE DEF s, o
      <3>4. \/ s = o
            \/ /\ ~o.done /\ s = [o EXCEPT !.at = s.at]
               /\ s.at > o.at /\ (s.at - o.at) % Slots = 0 /\ DayOf(s.at) <= day + 1
        BY <2>2, <3>3
      <3> QED BY <2>1, <3>1, <3>4 DEF o
    <2>4. CASE i \in over
      <3> DEFINE at == s.at + Slots
                 r == [s EXCEPT !.at = at]
      <3>1. new[i] = r
        BY <1>5, <2>4
      <3>2. ~s.done /\ DayOf(s.at) = day
        BY <1>2, <2>4
      <3> HIDE DEF s, o
      <3>3. /\ at \in Nat /\ at = s.at + Slots
            /\ DayOf(at) = day + 1
        <4>1. s.at \in Int
          BY <2>1
        <4>2. DayOf(s.at + Slots) = DayOf(s.at) + 1
          BY <4>1, NextDay
        <4> QED BY <1>4, <2>1, <3>2, <4>2
      <3>4. /\ IsSession(r) /\ r.at = at
        BY <2>1, <3>3, SessionAt DEF IsSession
      <3>5. /\ ~o.done /\ r = [o EXCEPT !.at = at]
        <4>1. CASE s = o
          BY <3>2, <4>1
        <4>2. CASE ~o.done /\ s = [o EXCEPT !.at = s.at]
          <5>1. [[o EXCEPT !.at = s.at] EXCEPT !.at = at] = [o EXCEPT !.at = at]
            BY <2>1 DEF IsSession, Fields
          <5> QED BY <4>2, <5>1
        <4> QED BY <2>2, <4>1, <4>2
      <3>6. at > o.at /\ (at - o.at) % Slots = 0
        <4>1. CASE s = o
          <5>1. at - o.at = 0 + Slots /\ at > o.at
            BY <1>4, <2>1, <3>3, <4>1
          <5>2. (0 + Slots) % Slots = 0 % Slots
            BY NextDay
          <5>3. 0 % Slots = 0
            BY <1>4
          <5> QED BY <5>1, <5>2, <5>3
        <4>2. CASE s.at > o.at /\ (s.at - o.at) % Slots = 0
          <5>1. at - o.at = (s.at - o.at) + Slots /\ at > o.at /\ s.at - o.at \in Int
            BY <1>4, <2>1, <3>3, <4>2
          <5>2. ((s.at - o.at) + Slots) % Slots = (s.at - o.at) % Slots
            BY <5>1, NextDay
          <5> QED BY <4>2, <5>1, <5>2
        <4> QED BY <2>2, <4>1, <4>2
      <3>7. DayOf(at) <= day + 1
        BY <3>3
      <3> HIDE DEF r, at
      <3> QED BY <3>1, <3>4, <3>5, <3>6, <3>7 DEF o
    <2> QED BY <2>3, <2>4
  <1>7. IsList(new) /\ Len(new) = n
    BY <1>1, <1>5, <1>6, ListFromFunction
  <1>8. Postpones(old, new, id, day + 1)
    BY <1>6, <1>7 DEF Postpones, n
  <1> QED BY <1>3, <1>8

\* A day that is settled changes nothing.
LEMMA SettledDay ==
  ASSUME NEW sessions, IsList(sessions), NEW id, NEW day, NEW incoming,
         Settle(sessions, id, day, incoming).settled
  PROVE  Settle(sessions, id, day, incoming).sessions = sessions
  <1> DEFINE over == Overflow(sessions, id, day, incoming)
  <1>1. /\ Settle(sessions, id, day, incoming).settled <=> over = {}
        /\ Settle(sessions, id, day, incoming).sessions = Postponed(sessions, over)
    BY DEF Settle
  <1> HIDE DEF over
  <1>2. Postponed(sessions, {}) = [i \in DOMAIN sessions |-> sessions[i]]
    BY DEF Postponed
  <1>3. sessions = [i \in DOMAIN sessions |-> sessions[i]]
    BY ListFacts
  <1> QED BY <1>1, <1>2, <1>3

LEMMA MaxOfTwo ==
  ASSUME NEW a \in Int, NEW b \in Int
  PROVE  Max({a, b}) = IF a >= b THEN a ELSE b
  <1> DEFINE m == IF a >= b THEN a ELSE b
  <1>1. m \in {a, b} /\ \A y \in {a, b} : m >= y
    OBVIOUS
  <1>2. \A x \in {a, b} : (\A y \in {a, b} : x >= y) => x = m
    OBVIOUS
  <1> HIDE DEF m
  <1>3. Max({a, b}) = m
    BY <1>1, <1>2 DEF Max
  <1> QED BY <1>3 DEF m

\* The days of the sweep, each from the one before.
LEMMA SweepSteps ==
  ASSUME NEW sessions, NEW id, NEW at \in Nat, NEW minutes, exam \in Nat,
         Displaced(sessions, id, at, minutes) # None
  PROVE  \E first, last, g :
           /\ minutes <= budget /\ first = DayOf(at)
           /\ first \in Nat /\ last \in Nat /\ first <= last
           /\ last = first \/ last = DayOf(exam)
           /\ Displaced(sessions, id, at, minutes) = g[last].sessions
           /\ g[last].settled
           /\ g[first] = Settle(sessions, id, first, minutes)
           /\ \A day \in first + 1 .. last :
                g[day] = IF g[day - 1].settled THEN g[day - 1]
                         ELSE Settle(g[day - 1].sessions, id, day, 0)
  <1> DEFINE first == DayOf(at)
             last == Max({first, LastStudyDay})
             Begun == Settle(sessions, id, first, minutes)
             Later(prior, day) == IF prior.settled THEN prior
                                  ELSE Settle(prior.sessions, id, day, 0)
             Form(g, m) == g = [day \in first .. m |->
               IF day = first THEN Settle(sessions, id, day, minutes)
               ELSE IF g[day - 1].settled THEN g[day - 1]
               ELSE Settle(g[day - 1].sessions, id, day, 0)]
             S == {m \in Nat : m >= first => \E g : Form(g, m)}
  <1>1. /\ first \in Nat /\ last \in Nat /\ first <= last
        /\ last = first \/ last = DayOf(exam)
    <2>1. first \in Nat /\ DayOf(exam) \in Nat
      BY DayType
    <2> HIDE DEF first
    <2> QED BY <2>1, MaxOfTwo DEF LastStudyDay
  <1> HIDE DEF first, last
  <1>2. \E g : Form(g, first)
    <2> DEFINE g == [day \in first .. first |-> Begun]
    <2>1. \A day \in first .. first : day = first /\ g[day] = Begun
      BY <1>1
    <2>2. Form(g, first)
      BY <2>1
    <2> HIDE DEF g, Form
    <2> QED BY <2>2
  <1>3. ASSUME NEW m \in Nat, m >= first, NEW g, Form(g, m) PROVE \E h : Form(h, m + 1)
    <2> DEFINE h == [day \in first .. m + 1 |-> IF day <= m THEN g[day] ELSE Later(g[m], m + 1)]
    <2>1. \A day \in first .. m :
            g[day] = IF day = first THEN Begun ELSE Later(g[day - 1], day)
      BY <1>3
    <2> HIDE DEF Later, Begun, Form
    <2>2. \A day \in first .. m + 1 :
            h[day] = IF day = first THEN Begun ELSE Later(h[day - 1], day)
      <3> SUFFICES ASSUME NEW day \in first .. m + 1
                   PROVE  h[day] = IF day = first THEN Begun ELSE Later(h[day - 1], day)
        OBVIOUS
      <3>1. CASE day = first
        BY <1>1, <1>3, <2>1, <3>1
      <3>2. CASE day \in first + 1 .. m
        <4>1. h[day] = g[day] /\ h[day - 1] = g[day - 1] /\ day \in first .. m /\ day # first
          BY <1>1, <3>2
        <4> QED BY <2>1, <4>1
      <3>3. CASE day = m + 1
        <4>1. h[day] = Later(g[m], m + 1) /\ h[day - 1] = g[m] /\ day # first
          BY <1>1, <1>3, <3>3
        <4> QED BY <3>3, <4>1
      <3> QED BY <1>1, <3>1, <3>2, <3>3
    <2>3. Form(h, m + 1)
      <3>1. \A day \in first .. m + 1 :
              h[day] = IF day = first THEN Settle(sessions, id, day, minutes)
                       ELSE IF h[day - 1].settled THEN h[day - 1]
                       ELSE Settle(h[day - 1].sessions, id, day, 0)
        BY <2>2 DEF Later, Begun
      <3>2. h = [day \in first .. m + 1 |-> h[day]]
        OBVIOUS
      <3> HIDE DEF h
      <3> QED BY <3>1, <3>2 DEF Form
    <2> HIDE DEF h
    <2> QED BY <2>3
  <1> HIDE DEF Form
  <1>4. 0 \in S
    BY <1>1, <1>2
  <1>5. ASSUME NEW m \in Nat, m \in S PROVE m + 1 \in S
    <2>1. CASE m >= first
      BY <1>3, <1>5, <2>1
    <2>2. CASE ~ (m >= first)
      <3>1. m + 1 >= first => m + 1 = first
        BY <1>1, <2>2
      <3> QED BY <1>2, <3>1
    <2> QED BY <2>1, <2>2
  <1> HIDE DEF S
  <1>6. \E g : Form(g, last)
    <2>1. last \in S
      BY <1>1, <1>4, <1>5, Induction
    <2> QED BY <1>1, <2>1 DEF S
  <1> DEFINE sweep == CHOOSE g : Form(g, last)
  <1>7. Form(sweep, last)
    BY <1>6
  <1>8. Displaced(sessions, id, at, minutes) =
          IF minutes <= budget /\ sweep[last].settled THEN sweep[last].sessions ELSE None
    BY DEF Displaced, Form, first, last
  <1> HIDE DEF sweep
  <1>9. /\ sweep[last].settled /\ minutes <= budget
        /\ Displaced(sessions, id, at, minutes) = sweep[last].sessions
    BY <1>8
  <1>10. \A day \in first .. last :
           sweep[day] = IF day = first THEN Settle(sessions, id, day, minutes)
                        ELSE IF sweep[day - 1].settled THEN sweep[day - 1]
                        ELSE Settle(sweep[day - 1].sessions, id, day, 0)
    BY <1>7 DEF Form
  <1>11. \A day \in first + 1 .. last : day \in first .. last /\ day # first
    BY <1>1
  <1>12. \A day \in first + 1 .. last :
           sweep[day] = IF sweep[day - 1].settled THEN sweep[day - 1]
                        ELSE Settle(sweep[day - 1].sessions, id, day, 0)
    BY <1>10, <1>11
  <1>13. sweep[first] = Settle(sessions, id, first, minutes)
    BY <1>1, <1>10
  <1> QED BY <1>1, <1>9, <1>12, <1>13 DEF first

LEMMA PostponesMore ==
  ASSUME NEW old, IsList(old), NEW new, NEW id, NEW c \in Nat, NEW d \in Nat, c <= d,
         Postpones(old, new, id, c)
  PROVE  Postpones(old, new, id, d)
  <1>1. \A i \in 1 .. Len(old) : DayOf(new[i].at) \in Nat
    BY ListFacts, DayType DEF Postpones, IsSession
  <1> QED BY <1>1 DEF Postpones

\* The whole of it: nothing, or to the last day of study at the latest.
LEMMA DisplacedFacts ==
  ASSUME NEW sessions, IsList(sessions), NEW id, NEW at \in Nat, NEW minutes \in Nat,
         exam \in Nat, budget \in Nat,
         Displaced(sessions, id, at, minutes) # None
  PROVE  Postpones(sessions, Displaced(sessions, id, at, minutes), id, DayOf(exam))
  <1>1. PICK first, last, g :
           /\ minutes <= budget /\ first = DayOf(at)
           /\ first \in Nat /\ last \in Nat /\ first <= last
           /\ last = first \/ last = DayOf(exam)
           /\ Displaced(sessions, id, at, minutes) = g[last].sessions
           /\ g[last].settled
           /\ g[first] = Settle(sessions, id, first, minutes)
           /\ \A day \in first + 1 .. last :
                g[day] = IF g[day - 1].settled THEN g[day - 1]
                         ELSE Settle(g[day - 1].sessions, id, day, 0)
    BY SweepSteps
  <1>2. \A day \in Nat : Postpones(sessions, sessions, id, day)
    BY DEF Postpones
  <1> DEFINE Good(day) ==
        /\ g[day].settled => \/ g[day].sessions = sessions
                             \/ first < day /\ Postpones(sessions, g[day].sessions, id, day)
        /\ ~g[day].settled => Postpones(sessions, g[day].sessions, id, day + 1)
             S == {n \in Nat : first + n <= last => Good(first + n)}
  <1>3. 0 \in S
    <2>1. g[first].settled => g[first].sessions = sessions
      BY <1>1, SettledDay
    <2>2. Postpones(sessions, g[first].sessions, id, first + 1)
      BY <1>1, <1>2, PostponedDay
    <2>3. Good(first)
      BY <2>1, <2>2
    <2>4. first + 0 = first
      BY <1>1
    <2> HIDE DEF Good
    <2> QED BY <2>3, <2>4
  <1>4. ASSUME NEW n \in Nat, n \in S PROVE n + 1 \in S
    <2> SUFFICES ASSUME first + (n + 1) <= last PROVE Good(first + (n + 1))
      OBVIOUS
    <2> DEFINE day == first + (n + 1)
               prior == g[first + n]
    <2>1. /\ day \in first + 1 .. last /\ day - 1 = first + n /\ first < day /\ day \in Nat
          /\ first + n \in Nat /\ first + n <= last
      BY <1>1
    <2>2. Good(first + n)
      BY <1>4, <2>1
    <2>3. g[day] = IF prior.settled THEN prior ELSE Settle(prior.sessions, id, day, 0)
      BY <1>1, <2>1
    <2>4. CASE prior.settled
      <3>1. g[day] = prior
        BY <2>3, <2>4
      <3>2. prior.sessions = sessions \/ Postpones(sessions, prior.sessions, id, first + n)
        BY <2>2, <2>4
      <3>3. first + n <= day
        BY <1>1
      <3> HIDE DEF day, prior
      <3>4. prior.sessions = sessions \/ Postpones(sessions, prior.sessions, id, day)
        BY <2>1, <3>2, <3>3, PostponesMore
      <3>5. Good(day)
        BY <2>1, <2>4, <3>1, <3>4
      <3> QED BY <3>5 DEF day
    <2>5. CASE ~prior.settled
      <3>1. g[day] = Settle(prior.sessions, id, day, 0)
        BY <2>3, <2>5
      <3>2. Postpones(sessions, prior.sessions, id, day)
        <4>1. (first + n) + 1 = day
          BY <1>1
        <4> QED BY <2>2, <2>5, <4>1
      <3> HIDE DEF day, prior
      <3>3. Postpones(sessions, g[day].sessions, id, day + 1)
        BY <2>1, <3>1, <3>2, PostponedDay
      <3>4. g[day].settled => g[day].sessions = prior.sessions
        BY <3>1, <3>2, SettledDay DEF Postpones
      <3>5. Good(day)
        BY <2>1, <3>2, <3>3, <3>4
      <3> QED BY <3>5 DEF day
    <2> QED BY <2>4, <2>5
  <1> HIDE DEF S
  <1>5. Good(last)
    <2>1. last - first \in Nat /\ first + (last - first) = last /\ last <= last
      BY <1>1
    <2>2. last - first \in S
      BY <1>3, <1>4, <2>1, Induction
    <2> HIDE DEF Good
    <2> QED BY <2>1, <2>2 DEF S
  <1>6. DayOf(exam) \in Nat
    BY DayType
  <1>7. CASE g[last].sessions = sessions
    BY <1>1, <1>2, <1>6, <1>7
  <1>8. CASE first < last /\ Postpones(sessions, g[last].sessions, id, last)
    <2>1. last = DayOf(exam)
      BY <1>1, <1>8
    <2> QED BY <1>1, <1>8, <2>1
  <1> QED BY <1>1, <1>5, <1>7, <1>8

-----------------------------------------------------------------------------
(* Order                                                                    *)

LEMMA MinOfSet ==
  ASSUME NEW S \in SUBSET Nat, S # {}
  PROVE  Min(S) \in S
  <1>1. \E n \in S : \A m \in S : n =< m
    BY LeastNatural
  <1> QED BY <1>1 DEF Min

LEMMA MinOfTwo ==
  ASSUME NEW a \in Int, NEW b \in Int
  PROVE  Min({a, b}) = IF a <= b THEN a ELSE b
  <1> DEFINE m == IF a <= b THEN a ELSE b
  <1>1. m \in {a, b} /\ \A y \in {a, b} : m =< y
    OBVIOUS
  <1>2. \A x \in {a, b} : (\A y \in {a, b} : x =< y) => x = m
    OBVIOUS
  <1> HIDE DEF m
  <1>3. Min({a, b}) = m
    BY <1>1, <1>2 DEF Min
  <1> QED BY <1>3 DEF m

\* Every session has a place of its own in the order.
LEMMA Ranks ==
  ASSUME NEW sessions, IsList(sessions)
  PROVE  LET D == DOMAIN sessions
             Rank(i) == Cardinality(UpTo(sessions, D, i))
         IN /\ \A i \in D : Rank(i) \in D
            /\ \A i, j \in D : Rank(i) = Rank(j) => i = j
            /\ \A n \in D : \E i \in D : Rank(i) = n
  <1> DEFINE D == DOMAIN sessions
             Before(i) == UpTo(sessions, D, i)
             Rank(i) == Cardinality(Before(i))
             n == Len(sessions)
             rank == [i \in D |-> Rank(i)]
  <1>1. /\ n \in Nat /\ D = 1 .. n
        /\ \A i \in D : sessions[i].at \in Nat
    BY ListFacts DEF IsSession
  <1>2. IsFiniteSet(D) /\ Cardinality(D) = n
    <2> HIDE DEF D, n
    <2>1. IsFiniteSet(1 .. n) /\ Cardinality(1 .. n) = IF 1 > n THEN 0 ELSE n - 1 + 1
      BY <1>1, FS_Interval
    <2> QED BY <1>1, <2>1
  <1>3. \A i \in D : Before(i) = {j \in D : \/ sessions[j].at < sessions[i].at
                                            \/ sessions[j].at = sessions[i].at /\ j <= i}
    BY DEF UpTo
  <1>4. \A i, j \in D : /\ Before(i) \subseteq D /\ i \in Before(i)
                        /\ i # j => \/ Before(i) \subseteq Before(j) /\ j \notin Before(i)
                                    \/ Before(j) \subseteq Before(i) /\ i \notin Before(j)
    <2> HIDE DEF D, Before, n
    <2> QED BY <1>1, <1>3
  <1> HIDE DEF Before
  <1>5. \A i \in D : IsFiniteSet(Before(i)) /\ Rank(i) \in D
    <2> SUFFICES ASSUME NEW i \in D PROVE IsFiniteSet(Before(i)) /\ Rank(i) \in D
      OBVIOUS
    <2> HIDE DEF D, n
    <2>1. /\ IsFiniteSet(Before(i)) /\ Cardinality(Before(i)) <= n
      BY <1>2, <1>4, FS_Subset
    <2>2. Cardinality(Before(i)) \in Nat
      BY <2>1, FS_CardinalityType
    <2>3. Cardinality(Before(i)) # 0
      BY <1>4, <2>1, FS_EmptySet
    <2> QED BY <1>1, <2>1, <2>2, <2>3
  <1>6. \A i, j \in D : Rank(i) = Rank(j) => i = j
    <2> SUFFICES ASSUME NEW i \in D, NEW j \in D, i # j, Rank(i) = Rank(j) PROVE FALSE
      OBVIOUS
    <2> HIDE DEF D
    <2>1. CASE Before(i) \subseteq Before(j) /\ j \notin Before(i)
      <3>1. Before(j) = Before(i)
        BY <1>5, <2>1, FS_Subset
      <3> QED BY <1>4, <2>1, <3>1
    <2>2. CASE Before(j) \subseteq Before(i) /\ i \notin Before(j)
      <3>1. Before(i) = Before(j)
        BY <1>5, <2>2, FS_Subset
      <3> QED BY <1>4, <2>2, <3>1
    <2> QED BY <1>4, <2>1, <2>2
  <1> HIDE DEF Rank
  <1>7. rank \in Injection(D, D)
    BY <1>5, <1>6 DEF Injection, IsInjective
  <1>8. rank \in Surjection(D, D)
    <2> HIDE DEF rank, D
    <2> QED BY <1>2, <1>7, FS_Injection
  <1>9. \A k \in D : \E i \in D : Rank(i) = k
    BY <1>8 DEF Surjection
  <1> QED BY <1>5, <1>6, <1>9 DEF Rank, Before

\* A list is brought in order: it loses no session and gets no other.
LEMMA InOrderFacts ==
  ASSUME NEW sessions, IsList(sessions)
  PROVE  /\ IsList(InOrder(sessions))
         /\ \A i \in DOMAIN sessions :
              \E k \in DOMAIN InOrder(sessions) : InOrder(sessions)[k] = sessions[i]
  <1> DEFINE D == DOMAIN sessions
             Rank(i) == Cardinality(UpTo(sessions, D, i))
             At(k) == CHOOSE i \in D : Rank(i) = k
             x == InOrder(sessions)
             n == Len(sessions)
  <1>1. /\ \A i \in D : Rank(i) \in D
        /\ \A i, j \in D : Rank(i) = Rank(j) => i = j
        /\ \A k \in D : \E i \in D : Rank(i) = k
    BY Ranks
  <1>2. n \in Nat /\ D = 1 .. n /\ \A i \in D : IsSession(sessions[i])
    BY ListFacts
  <1>3. DOMAIN x = D /\ x = [k \in D |-> x[k]] /\ \A k \in D : x[k] = sessions[At(k)]
    BY DEF InOrder
  <1> HIDE DEF Rank, x, n, D
  <1>4. \A k \in D : At(k) \in D /\ Rank(At(k)) = k
    BY <1>1
  <1> HIDE DEF At
  <1>5. IsList(x)
    BY <1>2, <1>3, <1>4, ListFromFunction
  <1>6. \A i \in D : At(Rank(i)) = i
    BY <1>1, <1>4
  <1>7. \A i \in D : Rank(i) \in D /\ x[Rank(i)] = sessions[i]
    BY <1>1, <1>3, <1>6
  <1> QED BY <1>3, <1>5, <1>7 DEF x, D

-----------------------------------------------------------------------------
(* Reviews                                                                  *)

\* Positions of the open reviews that answers have added.
OpenAdded(sessions) == {i \in DOMAIN sessions : IsAdded(sessions[i]) /\ ~sessions[i].done}

LEMMA OpenAddedFinite ==
  ASSUME NEW sessions, IsList(sessions)
  PROVE  IsFiniteSet(OpenAdded(sessions)) /\ IsFiniteSet(Range(sessions))
  <1> DEFINE D == DOMAIN sessions
             f == [i \in D |-> sessions[i]]
  <1>1. Len(sessions) \in Nat /\ D = 1 .. Len(sessions)
    BY ListFacts
  <1>2. IsFiniteSet(D)
    <2> HIDE DEF D
    <2> QED BY <1>1, FS_Interval
  <1>3. OpenAdded(sessions) \subseteq D
    BY DEF OpenAdded
  <1>4. f \in Surjection(D, Range(sessions))
    BY DEF Surjection, Range
  <1> HIDE DEF D, f
  <1> QED BY <1>2, <1>3, <1>4, FS_Subset, FS_Surjection

\* What is trimmed is a list of the same sessions but for added ones.
LEMMA TrimmedFacts ==
  ASSUME NEW sessions, IsList(sessions), NEW kept \in Trimmed(sessions)
  PROVE  /\ IsList(kept)
         /\ \A i \in DOMAIN sessions : ~IsAdded(sessions[i]) =>
              \E j \in DOMAIN kept : kept[j] = sessions[i]
  <1> DEFINE added == {s \in Range(sessions) : IsAdded(s)}
             Stay(removed) == {i \in DOMAIN sessions : sessions[i] \notin removed}
  <1>1. PICK removed \in SUBSET added : kept = Picked(sessions, Stay(removed))
    BY DEF Trimmed
  <1>2. \A i \in DOMAIN sessions : ~IsAdded(sessions[i]) => i \in Stay(removed)
    BY <1>1
  <1>3. \A i \in DOMAIN sessions : i \in Stay(removed) => i \in DOMAIN sessions \cap Stay(removed)
    OBVIOUS
  <1> HIDE DEF Stay, added
  <1> QED BY <1>1, <1>2, <1>3, PickedList

\* An open review that was just added stays, unless the other open ones are as
\* many as may stay.
LEMMA NewReviewStays ==
  ASSUME NEW sessions, IsList(sessions), NEW review, IsSession(review), IsAdded(review),
         ~review.done, NEW chosen, NEW kept,
         kept \in Trimmed(Append(Picked(sessions, chosen), review)),
         Cardinality(OpenAdded(sessions)) < MaxReviews
  PROVE  \E j \in DOMAIN kept : kept[j] = review
  <1> DEFINE left == Picked(sessions, chosen)
             all == Append(left, review)
             added == {s \in Range(all) : IsAdded(s)}
             Stay(removed) == {i \in DOMAIN all : all[i] \notin removed}
             excess == Max({0, Cardinality(added) - MaxReviews})
  <1>1. PICK removed \in SUBSET added :
           /\ Cardinality(removed) = excess
           /\ \A s \in added \ removed, gone \in removed : ~GoesFirst(s, gone)
           /\ kept = Picked(all, Stay(removed))
    BY DEF Trimmed
  <1>2. /\ IsList(left)
        /\ \A j \in DOMAIN left : \E i \in DOMAIN sessions : left[j] = sessions[i]
    BY PickedList
  <1> HIDE DEF left
  <1>3. /\ IsList(all) /\ Len(left) \in Nat
        /\ DOMAIN left = 1 .. Len(left) /\ DOMAIN all = 1 .. Len(left) + 1
        /\ \A j \in DOMAIN left : all[j] = left[j]
        /\ all[Len(left) + 1] = review
    <2>1. /\ IsList(all) /\ Len(all) = Len(left) + 1
          /\ \A j \in 1 .. Len(left) : all[j] = left[j]
          /\ all[Len(left) + 1] = review
      BY <1>2, ListAppend
    <2>2. Len(left) \in Nat /\ DOMAIN left = 1 .. Len(left) /\ DOMAIN all = 1 .. Len(all)
      BY <1>2, <2>1, ListFacts
    <2> QED BY <2>1, <2>2
  <1> HIDE DEF all
  <1>4. Len(left) + 1 \in DOMAIN all /\ review \in added
    BY <1>3 DEF Range
  <1>5. review \notin removed
    <2> SUFFICES ASSUME review \in removed PROVE FALSE
      OBVIOUS
    <2> DEFINE others == added \ removed
               P == OpenAdded(sessions)
               f == [i \in P |-> sessions[i]]
               T == {sessions[i] : i \in P}
    <2>1. IsFiniteSet(added) /\ IsFiniteSet(removed) /\ IsFiniteSet(others) /\ IsFiniteSet(P)
      <3>1. IsFiniteSet(Range(all))
        BY <1>3, OpenAddedFinite
      <3>2. IsFiniteSet(P)
        BY OpenAddedFinite
      <3>3. added \subseteq Range(all)
        OBVIOUS
      <3> HIDE DEF added, P
      <3>4. IsFiniteSet(added)
        BY <3>1, <3>3, FS_Subset
      <3> QED BY <3>2, <3>4, FS_Subset
    <2>2. \A s \in others : s \in T
      <3> SUFFICES ASSUME NEW s \in others PROVE s \in T
        OBVIOUS
      <3>1. s \in Range(all) /\ IsAdded(s) /\ ~GoesFirst(s, review) /\ s # review
        BY <1>1
      <3>2. PICK j \in DOMAIN all : s = all[j]
        BY <3>1 DEF Range
      <3>3. j \in DOMAIN left /\ s = left[j]
        BY <1>3, <3>1, <3>2
      <3>4. PICK i \in DOMAIN sessions : s = sessions[i]
        BY <1>2, <3>3
      <3>5. ~s.done
        BY <3>1 DEF GoesFirst
      <3>6. i \in P
        BY <3>1, <3>4, <3>5 DEF OpenAdded
      <3> QED BY <3>4, <3>6
    <2>3. f \in Surjection(P, T)
      BY DEF Surjection
    <2> HIDE DEF f, T, P, added, others
    <2>4. /\ IsFiniteSet(T) /\ Cardinality(T) <= Cardinality(P)
      BY <2>1, <2>3, FS_Surjection
    <2>5. Cardinality(others) <= Cardinality(T)
      BY <2>2, <2>4, FS_Subset
    <2>6. removed # {}
      OBVIOUS
    <2>7. Cardinality(removed) # 0
      BY <2>1, <2>6, FS_EmptySet
    <2>8. Cardinality(others) = Cardinality(added) - Cardinality(removed)
      <3>1. Cardinality(added \ removed) = Cardinality(added) - Cardinality(added \cap removed)
        BY <2>1, FS_Difference
      <3>2. added \cap removed = removed
        OBVIOUS
      <3> QED BY <3>1, <3>2 DEF others
    <2>9. /\ Cardinality(added) \in Nat /\ Cardinality(removed) \in Nat
          /\ Cardinality(others) \in Nat /\ Cardinality(P) \in Nat /\ Cardinality(T) \in Nat
      BY <2>1, <2>4, FS_CardinalityType
    <2>10. MaxReviews \in Nat
      BY CalendarAssumption
    <2>11. excess = IF 0 >= Cardinality(added) - MaxReviews
                      THEN 0 ELSE Cardinality(added) - MaxReviews
      BY <2>9, <2>10, MaxOfTwo
    <2>12. Cardinality(P) < MaxReviews
      BY DEF P
    <2> HIDE DEF excess
    <2> QED BY <1>1, <2>4, <2>5, <2>7, <2>8, <2>9, <2>10, <2>11, <2>12
  <1>6. Len(left) + 1 \in DOMAIN all \cap Stay(removed)
    BY <1>3, <1>4, <1>5
  <1> HIDE DEF Stay
  <1> QED BY <1>1, <1>3, <1>6, PickedList

\* What an answer makes of the plan: a list, with the promised review in it.
LEMMA UpsertedFacts ==
  ASSUME NEW sessions, IsList(sessions), NEW topic, NEW at \in Nat, now \in Nat, budget \in Nat,
         NEW outcome \in Upserted(sessions, topic, at)
  PROVE  /\ IsList(outcome[1])
         /\ Cardinality(OpenAdded(sessions)) < MaxReviews =>
              \E i \in OpenReviews(outcome[1], topic) : outcome[1][i].at = outcome[2]
  <1> DEFINE replaced == {i \in DOMAIN sessions :
                            IsAdded(sessions[i]) /\ sessions[i].topic = topic /\ ~sessions[i].done}
             chosen == DOMAIN sessions \ replaced
             left == Picked(sessions, chosen)
             planned == OpenReviews(left, topic)
             first == {i \in planned : \A j \in planned : left[i].at <= left[j].at}
             review == [id |-> <<"review", edits>>, topic |-> topic, at |-> at,
                        minutes |-> Min({ReviewMinutes, budget}), activity |-> "review",
                        done |-> FALSE]
             Forward(i) == Max({now, Min({left[i].at, at})})
             upserts == IF planned = {}
                          THEN {<<Append(left, review), at>>}
                          ELSE {<<[left EXCEPT ![i].at = Forward(i)], Forward(i)>> : i \in first}
  <1>1. PICK upsert \in upserts :
           outcome \in {<<InOrder(kept), upsert[2]>> : kept \in Trimmed(upsert[1])}
    <2> DEFINE Outcomes(upsert) == {<<InOrder(kept), upsert[2]>> : kept \in Trimmed(upsert[1])}
    <2>1. Upserted(sessions, topic, at) = UNION {Outcomes(upsert) : upsert \in upserts}
      BY Zenon DEF Upserted
    <2> HIDE DEF upserts
    <2>2. PICK upsert \in upserts : outcome \in Outcomes(upsert)
      BY <2>1
    <2> QED BY <2>2
  <1>2. PICK kept \in Trimmed(upsert[1]) : outcome = <<InOrder(kept), upsert[2]>>
    BY <1>1
  <1>3. /\ IsList(left)
        /\ \A j \in DOMAIN left : \E i \in DOMAIN sessions \cap chosen : left[j] = sessions[i]
    <2> HIDE DEF chosen
    <2> QED BY PickedList
  <1>4. IsSession(review) /\ IsAdded(review) /\ ~review.done /\ review.topic = topic
        /\ review.at = at /\ review.activity = "review"
    <2> DEFINE minutes == Min({ReviewMinutes, budget})
    <2>1. ReviewMinutes \in Nat
      BY CalendarAssumption
    <2>2. minutes \in Nat
      <3>1. ReviewMinutes \in Int /\ budget \in Int
        BY <2>1
      <3>2. minutes = IF ReviewMinutes <= budget THEN ReviewMinutes ELSE budget
        BY <3>1, MinOfTwo
      <3> QED BY <2>1, <3>2
    <2>3. review = [id |-> <<"review", edits>>, topic |-> topic, at |-> at,
                    minutes |-> minutes, activity |-> "review", done |-> FALSE]
      OBVIOUS
    <2> HIDE DEF minutes, review
    <2>4. /\ review.at = at /\ review.minutes = minutes /\ ~review.done /\ review.done = FALSE
          /\ review.topic = topic /\ review.activity = "review" /\ review.id[1] = "review"
          /\ DOMAIN review = Fields /\ review = [f \in Fields |-> review[f]]
      BY <2>3 DEF Fields
    <2> QED BY <2>2, <2>4 DEF IsSession, IsAdded
  <1>5. \A j \in DOMAIN left : /\ left[j].topic = topic /\ ~left[j].done => ~IsAdded(left[j])
                               /\ IsSession(left[j]) /\ left[j].at \in Nat
    <2>1. \A j \in DOMAIN left : left[j].topic = topic /\ ~left[j].done => ~IsAdded(left[j])
      <3> HIDE DEF left
      <3> QED BY <1>3
    <2>2. \A j \in DOMAIN left : IsSession(left[j])
      BY <1>3, ListFacts
    <2> HIDE DEF left
    <2> QED BY <2>1, <2>2 DEF IsSession
  <1> HIDE DEF left, review
  <1>6. /\ IsList(upsert[1])
        /\ Cardinality(OpenAdded(sessions)) < MaxReviews =>
             \E j \in DOMAIN kept : /\ kept[j].activity = "review" /\ kept[j].topic = topic
                                    /\ ~kept[j].done /\ kept[j].at = upsert[2]
    <2>1. CASE planned = {}
      <3>1. upsert = <<Append(left, review), at>>
        BY <2>1
      <3>2. upsert[1] = Append(left, review) /\ upsert[2] = at
        BY <3>1
      <3> HIDE DEF upserts
      <3>3. IsList(upsert[1])
        BY <1>3, <1>4, <3>2, ListAppend
      <3>4. ASSUME Cardinality(OpenAdded(sessions)) < MaxReviews
            PROVE  \E j \in DOMAIN kept : kept[j] = review
        <4>1. kept \in Trimmed(Append(Picked(sessions, chosen), review))
          BY <3>2 DEF left
        <4> HIDE DEF chosen
        <4> QED BY <1>4, <3>4, <4>1, NewReviewStays
      <3> QED BY <1>4, <3>2, <3>3, <3>4
    <2>2. CASE planned # {}
      <3>1. PICK i \in first : upsert = <<[left EXCEPT ![i].at = Forward(i)], Forward(i)>>
        BY <2>2
      <3> DEFINE n == Len(left)
                 s == [left[i] EXCEPT !.at = Forward(i)]
                 x == [left EXCEPT ![i] = s]
      <3>2. upsert[1] = x /\ upsert[2] = Forward(i)
        BY <3>1
      <3>3. /\ i \in DOMAIN left /\ left[i].activity = "review"
            /\ left[i].topic = topic /\ ~left[i].done
        BY DEF OpenReviews
      <3>4. n \in Nat /\ DOMAIN left = 1 .. n
        BY <1>3, ListFacts
      <3>5. Forward(i) \in Nat
        <4> DEFINE a == left[i].at
                   m == Min({a, at})
        <4>1. a \in Nat
          BY <1>5, <3>3
        <4> HIDE DEF a
        <4>2. a \in Int /\ at \in Int /\ now \in Int
          BY <4>1
        <4>3. m = IF a <= at THEN a ELSE at
          BY <4>2, MinOfTwo
        <4>4. m \in Nat /\ m \in Int
          BY <4>1, <4>3
        <4> HIDE DEF m
        <4>5. Max({now, m}) = IF now >= m THEN now ELSE m
          BY <4>2, <4>4, MaxOfTwo
        <4>6. Max({now, m}) \in Nat
          BY <4>4, <4>5
        <4> QED BY <4>6 DEF m, a
      <3> HIDE DEF Forward, upserts, first
      <3>6. /\ IsSession(s) /\ s.at = Forward(i)
            /\ \A f \in Fields \ {"at"} : s[f] = left[i][f]
        BY <1>5, <3>3, <3>5, SessionAt DEF IsSession
      <3>7. s.activity = "review" /\ s.topic = topic /\ ~s.done /\ s.id = left[i].id
        BY <3>3, <3>6 DEF Fields
      <3>8. ~IsAdded(s)
        BY <1>5, <3>3, <3>7 DEF IsAdded
      <3> HIDE DEF s
      <3>9. IsList(x) /\ Len(x) = n /\ x[i] = s
        BY <1>3, <3>3, <3>4, <3>6, ListExcept
      <3>10. i \in DOMAIN x
        BY <3>3, <3>4, <3>9, ListFacts
      <3> HIDE DEF x
      <3>11. \E j \in DOMAIN kept : kept[j] = s
        BY <3>2, <3>8, <3>9, <3>10, TrimmedFacts
      <3> QED BY <3>2, <3>6, <3>7, <3>9, <3>11
    <2> QED BY <2>1, <2>2
  <1> HIDE DEF upserts
  <1>7. IsList(kept)
    BY <1>6, TrimmedFacts
  <1>8. outcome[1] = InOrder(kept) /\ outcome[2] = upsert[2]
    BY <1>2
  <1>9. /\ IsList(outcome[1])
        /\ \A j \in DOMAIN kept : \E k \in DOMAIN outcome[1] : outcome[1][k] = kept[j]
    BY <1>7, <1>8, InOrderFacts
  <1> QED BY <1>6, <1>8, <1>9 DEF OpenReviews

-----------------------------------------------------------------------------
(* The shape of the record                                                  *)

IsPlan(p) == p = [id |-> p.id, sessions |-> p.sessions] /\ IsList(p.sessions)

IsQuestion(q) == q = [topic |-> q.topic, session |-> q.session, via |-> q.via]

Shape ==
  /\ now \in Nat /\ exam \in Nat /\ budget \in Nat
  /\ plan # None => IsPlan(plan)
  /\ pending # None => IsQuestion(pending)
  /\ call = [t \in Threads |-> call[t]]
  /\ \A t \in Threads : call[t] # None =>
       call[t].payload \in Targeted /\ IsList(call[t].plan.sessions)

LEMMA ConstantFacts ==
  /\ Slots \in Nat \ {0} /\ Clock \subseteq Nat /\ Exams \subseteq Nat
  /\ Destinations \subseteq Nat /\ 0 \in Clock
  /\ Budgets \subseteq Nat /\ Minutes \subseteq Nat /\ ReviewMinutes \in Nat
  /\ \A payload \in Additions : payload.at \in Nat /\ payload.minutes \in Nat
  /\ \A c \in Targeted : /\ c.exam \in Nat /\ c.limit \in Nat
                         /\ c.hour \in Nat /\ c.hour \in 0 .. Slots - 1
  /\ ReviewDelay \in Nat /\ RetryDelay \in Nat /\ LastDay \in Nat
  <1>1. Slots \in Nat \ {0} /\ LastDay \in Nat
    BY CalendarAssumption
  <1>2. Times \subseteq Nat
    BY <1>1 DEF Times
  <1>3. Exams \cup Clock \subseteq Times /\ Destinations \subseteq Times /\ 0 \in Clock
    BY CalendarAssumption
  <1>4. \A payload \in Additions : payload.at \in Times /\ payload.minutes \in Minutes
    BY CalendarAssumption
  <1>5. \A c \in Targeted : c.exam \in Exams /\ c.limit \in Budgets /\ c.hour \in 0 .. Slots - 1
    BY CalendarAssumption
  <1>6. /\ ReviewDelay \in Nat /\ RetryDelay \in Nat /\ ReviewMinutes \in Nat
        /\ Budgets \cup Minutes \subseteq Nat
    BY CalendarAssumption
  <1>7. \A n \in 0 .. Slots - 1 : n \in Nat
    BY <1>1
  <1> QED BY <1>1, <1>2, <1>3, <1>4, <1>5, <1>6, <1>7

LEMMA BuiltFacts ==
  ASSUME NEW n, NEW x \in Nat, NEW limit \in Nat, now \in Nat, Plannable(x)
  PROVE  IsPlan(BuiltPlan(n, x, limit))
  <1> DEFINE p == BuiltPlan(n, x, limit)
             m == DayOf(x) - DayOf(now)
  <1>1. m \in Nat
    BY DayType DEF Plannable
  <1>2. p = [id |-> p.id, sessions |-> p.sessions] /\ DOMAIN p.sessions = 1 .. m
        /\ p.sessions = [i \in 1 .. m |-> p.sessions[i]]
    BY DEF BuiltPlan
  <1>3. \A i \in 1 .. m : /\ DOMAIN p.sessions[i] = Fields
                          /\ p.sessions[i] = [f \in Fields |-> p.sessions[i][f]]
                          /\ p.sessions[i].at = now + (i - 1) * Slots
                          /\ p.sessions[i].minutes = limit
                          /\ p.sessions[i].done = FALSE
    BY DEF BuiltPlan, Fields
  <1> HIDE DEF p, m
  <1>4. \A i \in 1 .. m : now + (i - 1) * Slots \in Nat
    <2> SUFFICES ASSUME NEW i \in 1 .. m PROVE now + (i - 1) * Slots \in Nat
      OBVIOUS
    <2>1. i - 1 \in Nat /\ Slots \in Nat
      BY <1>1, ConstantFacts
    <2>2. (i - 1) * Slots \in Nat
      BY <2>1
    <2> QED BY <2>2
  <1>5. \A i \in 1 .. m : IsSession(p.sessions[i])
    BY <1>3, <1>4 DEF IsSession
  <1>6. IsList(p.sessions)
    BY <1>1, <1>2, <1>5, ListFromFunction
  <1> QED BY <1>2, <1>6 DEF IsPlan, p

\* Completing sessions changes nothing else of them.
LEMMA RegeneratedFacts ==
  ASSUME NEW new, IsPlan(new), NEW done
  PROVE  LET p == Regenerated(new, done)
         IN /\ IsPlan(p) /\ DOMAIN p.sessions = DOMAIN new.sessions
            /\ \A i \in DOMAIN new.sessions :
                 /\ p.sessions[i].done = (i \in done)
                 /\ \A f \in Fields \ {"done"} : p.sessions[i][f] = new.sessions[i][f]
  <1> DEFINE p == Regenerated(new, done)
             n == Len(new.sessions)
             Done(i) == [new.sessions[i] EXCEPT !.done = i \in done]
  <1>1. /\ n \in Nat /\ DOMAIN new.sessions = 1 .. n
        /\ \A i \in 1 .. n : IsSession(new.sessions[i])
    BY ListFacts DEF IsPlan
  <1>2. /\ p = [id |-> p.id, sessions |-> p.sessions]
        /\ p.sessions = [i \in DOMAIN new.sessions |-> Done(i)]
    BY DEF IsPlan, Regenerated
  <1> HIDE DEF p, n
  <1>3. \A i \in 1 .. n :
          /\ IsSession(Done(i)) /\ Done(i).done = (i \in done)
          /\ \A f \in Fields \ {"done"} : Done(i)[f] = new.sessions[i][f]
    <2> SUFFICES ASSUME NEW i \in 1 .. n
                 PROVE  /\ IsSession(Done(i)) /\ Done(i).done = (i \in done)
                        /\ \A f \in Fields \ {"done"} : Done(i)[f] = new.sessions[i][f]
      OBVIOUS
    <2> DEFINE s == new.sessions[i]
               b == i \in done
    <2>1. IsSession(s) /\ s.at \in Nat
      BY <1>1 DEF IsSession
    <2>2. b \in BOOLEAN
      OBVIOUS
    <2> HIDE DEF s, b
    <2>3. /\ IsSession([s EXCEPT !.done = b]) /\ [s EXCEPT !.done = b].done = b
          /\ \A f \in Fields \ {"done"} : [s EXCEPT !.done = b][f] = s[f]
      BY <2>1, <2>2, SessionDone
    <2> QED BY <2>3 DEF s, b
  <1> HIDE DEF Done
  <1>4. /\ DOMAIN p.sessions = 1 .. n /\ p.sessions = [i \in 1 .. n |-> p.sessions[i]]
        /\ \A i \in 1 .. n : p.sessions[i] = Done(i)
    BY <1>1, <1>2
  <1>5. IsList(p.sessions)
    BY <1>1, <1>3, <1>4, ListFromFunction
  <1> QED BY <1>1, <1>2, <1>3, <1>4, <1>5 DEF IsPlan, p

\* An update: the session as changed, among the others as they make room.
LEMMA UpdateFacts ==
  ASSUME Shape, NEW i \in Positions, NEW payload \in Payloads, UpdateSession(i, payload)
  PROVE  \E others, s :
           /\ plan # None
           /\ plan' = [plan EXCEPT !.sessions = [others EXCEPT ![i] = s]]
           /\ IsPlan(plan') /\ plan'.sessions = [others EXCEPT ![i] = s]
           /\ IsSession(s) /\ IsList(others)
           /\ Len(others) = Len(plan.sessions) /\ i \in 1 .. Len(others)
           /\ Postpones(plan.sessions, others, plan.sessions[i].id, DayOf(exam))
           /\ others = MadeRoom(plan.sessions[i], s, payload) /\ others # None
           /\ s.done = Or(payload.done, plan.sessions[i].done)
  <1> DEFINE old == plan.sessions[i]
             at == Or(payload.at, old.at)
             done == Or(payload.done, old.done)
             minutes == Or(payload.minutes, old.minutes)
             new == [old EXCEPT !.at = Or(payload.at, @), !.minutes = Or(payload.minutes, @),
                                !.done = Or(payload.done, @), !.topic = Or(payload.topic, @)]
             others == MadeRoom(old, new, payload)
             n == Len(plan.sessions)
  <1>1. /\ plan # None /\ IsPlan(plan) /\ IsList(plan.sessions) /\ i \in DOMAIN plan.sessions
        /\ exam \in Nat /\ budget \in Nat
    BY DEF Shape, Positions, IsPlan
  <1>2. n \in Nat /\ DOMAIN plan.sessions = 1 .. n /\ IsSession(old)
    BY <1>1, ListFacts
  <1>3. /\ payload.at = None \/ payload.at \in Nat
        /\ payload.minutes = None \/ payload.minutes \in Nat
        /\ payload.done = None \/ payload.done \in BOOLEAN
    <2>1. \/ \E a \in Destinations : payload = [Same EXCEPT !.at = a]
          \/ \E a \in Destinations : payload = [Same EXCEPT !.at = a, !.displace = TRUE]
          \/ \E m \in Minutes : payload = [Same EXCEPT !.minutes = m]
          \/ \E d \in BOOLEAN : payload = [Same EXCEPT !.done = d]
          \/ \E x \in 1 .. topics : payload = [Same EXCEPT !.topic = x]
      BY DEF Payloads
    <2>2. CASE \E a \in Destinations : payload = [Same EXCEPT !.at = a]
      BY <2>2, ConstantFacts DEF Same
    <2>3. CASE \E a \in Destinations : payload = [Same EXCEPT !.at = a, !.displace = TRUE]
      BY <2>3, ConstantFacts DEF Same
    <2>4. CASE \E m \in Minutes : payload = [Same EXCEPT !.minutes = m]
      BY <2>4, ConstantFacts DEF Same
    <2>5. CASE \E d \in BOOLEAN : payload = [Same EXCEPT !.done = d]
      BY <2>5 DEF Same
    <2>6. CASE \E x \in 1 .. topics : payload = [Same EXCEPT !.topic = x]
      BY <2>6 DEF Same
    <2> QED BY <2>1, <2>2, <2>3, <2>4, <2>5, <2>6
  <1>4. at \in Nat /\ minutes \in Nat /\ done \in BOOLEAN
    BY <1>2, <1>3 DEF Or, IsSession
  <1>5. IsSession(new) /\ new.at = at /\ new.done = done
    <2>1. /\ DOMAIN new = DOMAIN old /\ new.at = at /\ new.done = done /\ new.minutes = minutes
          /\ new = [f \in Fields |-> new[f]]
      BY <1>2 DEF IsSession, Fields
    <2> HIDE DEF new, at, done, minutes
    <2> QED BY <1>2, <1>4, <2>1 DEF IsSession
  <1>6. /\ others # None /\ plan' = [plan EXCEPT !.sessions = [others EXCEPT ![i] = new]]
        /\ others = MadeRoom(old, new, payload) /\ done = Or(payload.done, old.done)
    BY DEF UpdateSession
  <1> HIDE DEF new, at, done
  <1>7. DayOf(exam) \in Nat
    BY <1>1, DayType
  <1>8. Postpones(plan.sessions, others, old.id, DayOf(exam))
    <2>1. others = plan.sessions \/ others = Displaced(plan.sessions, old.id, new.at, new.minutes)
      BY <1>6 DEF MadeRoom
    <2>2. CASE others = plan.sessions
      BY <1>1, <2>2 DEF Postpones
    <2>3. CASE others = Displaced(plan.sessions, old.id, new.at, new.minutes)
      <3>1. new.at \in Nat /\ new.minutes \in Nat
        BY <1>5 DEF IsSession
      <3> HIDE DEF others, old
      <3> QED BY <1>1, <1>6, <2>3, <3>1, DisplacedFacts
    <2> QED BY <2>1, <2>2, <2>3
  <1> HIDE DEF others
  <1>9. IsList(others) /\ Len(others) = n /\ i \in 1 .. Len(others)
    BY <1>1, <1>2, <1>8 DEF Postpones
  <1> DEFINE x == [others EXCEPT ![i] = new]
  <1>10. IsList(x)
    BY <1>5, <1>9, ListExcept
  <1> HIDE DEF x
  <1>11. IsPlan(plan') /\ plan'.sessions = x
    BY <1>1, <1>6, <1>10 DEF IsPlan, x
  <1> QED BY <1>1, <1>5, <1>6, <1>8, <1>9, <1>11 DEF x, old

\* A credited answer: a session may be completed, then the review comes in.
LEMMA CreditFacts ==
  ASSUME Shape, NEW correct, CreditAnswer(correct)
  PROVE  \E completed, at, outcome :
           /\ plan # None /\ IsPlan(plan) /\ at \in Nat
           /\ IsList(completed) /\ OpenAdded(completed) \subseteq OpenAdded(plan.sessions)
           /\ \/ /\ plan' = [plan EXCEPT !.sessions = completed] /\ reply'.at = None
                 /\ plan'.sessions = completed
              \/ /\ plan' = [plan EXCEPT !.sessions = outcome[1]] /\ plan'.sessions = outcome[1]
                 /\ outcome \in Upserted(completed, pending.topic, at)
                 /\ reply'.topic = pending.topic /\ reply'.at = outcome[2]
           /\ IsPlan(plan')
  <1> DEFINE at == now + IF correct THEN ReviewDelay ELSE RetryDelay
             asked == {i \in Positions : plan.sessions[i].id = pending.session}
             completed == IF pending.session = None THEN plan.sessions
                          ELSE [plan.sessions EXCEPT ![Min(asked)].done = TRUE]
             n == Len(plan.sessions)
  <1>1. /\ plan # None /\ IsPlan(plan) /\ IsList(plan.sessions) /\ now \in Nat /\ budget \in Nat
    BY DEF Shape, CreditAnswer, IsPlan
  <1>2. n \in Nat /\ DOMAIN plan.sessions = 1 .. n /\ \A i \in 1 .. n : IsSession(plan.sessions[i])
    BY <1>1, ListFacts
  <1>3. at \in Nat
    BY <1>1, ConstantFacts
  <1>4. IsList(completed) /\ OpenAdded(completed) \subseteq OpenAdded(plan.sessions)
    <2>1. CASE pending.session = None
      BY <1>1, <2>1
    <2>2. CASE pending.session # None
      <3> DEFINE k == Min(asked)
                 s == [plan.sessions[k] EXCEPT !.done = TRUE]
                 x == [plan.sessions EXCEPT ![k] = s]
      <3>1. asked # {}
        BY <2>2 DEF CreditAnswer
      <3>2. asked \subseteq 1 .. n
        BY <1>1, <1>2 DEF Positions
      <3>3. completed = x
        BY <2>2
      <3> HIDE DEF asked, completed, n
      <3>4. k \in asked
        BY <3>1, <3>2, MinOfSet
      <3>5. k \in 1 .. n
        BY <3>2, <3>4
      <3> HIDE DEF k
      <3>6. IsSession(s) /\ s.done = TRUE
        BY <1>2, <3>5, SessionDone DEF IsSession
      <3> HIDE DEF s
      <3>7. /\ IsList(x) /\ Len(x) = n /\ x[k] = s
            /\ \A j \in 1 .. n : j # k => x[j] = plan.sessions[j]
        BY <1>1, <3>5, <3>6, ListExcept DEF n
      <3> HIDE DEF x
      <3>8. DOMAIN x = 1 .. n
        BY <3>7, ListFacts
      <3>9. OpenAdded(x) \subseteq OpenAdded(plan.sessions)
        BY <1>2, <3>6, <3>7, <3>8 DEF OpenAdded
      <3> QED BY <3>3, <3>7, <3>9
    <2> QED BY <2>1, <2>2
  <1>5. IF at < exam
          THEN \E outcome \in Upserted(completed, pending.topic, at) :
                 /\ plan' = [plan EXCEPT !.sessions = outcome[1]]
                 /\ reply' = [op |-> "answer", topic |-> pending.topic, at |-> outcome[2]]
          ELSE /\ plan' = [plan EXCEPT !.sessions = completed]
               /\ reply' = Answer("answer")
    BY DEF CreditAnswer
  <1> HIDE DEF at, completed
  <1>6. \A x : [plan EXCEPT !.sessions = x].sessions = x
               /\ IsList(x) => IsPlan([plan EXCEPT !.sessions = x])
    BY <1>1 DEF IsPlan
  <1>7. CASE at < exam
    <2>1. PICK outcome \in Upserted(completed, pending.topic, at) :
             /\ plan' = [plan EXCEPT !.sessions = outcome[1]]
             /\ reply' = [op |-> "answer", topic |-> pending.topic, at |-> outcome[2]]
      BY <1>5, <1>7
    <2>2. IsList(outcome[1])
      BY <1>1, <1>3, <1>4, UpsertedFacts
    <2>3. plan'.sessions = outcome[1] /\ IsPlan(plan')
      BY <1>6, <2>1, <2>2
    <2>4. reply'.topic = pending.topic /\ reply'.at = outcome[2]
      BY <2>1
    <2> QED BY <1>1, <1>3, <1>4, <2>1, <2>3, <2>4
  <1>8. CASE ~ (at < exam)
    <2>1. plan' = [plan EXCEPT !.sessions = completed] /\ reply' = Answer("answer")
      BY <1>5, <1>8
    <2>2. plan'.sessions = completed /\ IsPlan(plan')
      BY <1>4, <1>6, <2>1
    <2>3. reply'.at = None
      BY <2>1 DEF Answer
    <2> QED BY <1>1, <1>3, <1>4, <2>1, <2>2, <2>3
  <1> QED BY <1>7, <1>8

LEMMA WrittenFacts ==
  ASSUME NEW c \in Targeted, NEW minutes \in Nat
  PROVE  IsList(Written(c, minutes).sessions)
  <1> DEFINE at == [n \in 1 .. LastDay + 1 |-> (n - 1) * Slots + c.hour]
             times == FallbackTimes(c.exam, c.hour)
             x == Written(c, minutes).sessions
  <1>1. \A n \in 1 .. LastDay + 1 : (n - 1) * Slots + c.hour \in Nat
    <2> SUFFICES ASSUME NEW n \in 1 .. LastDay + 1 PROVE (n - 1) * Slots + c.hour \in Nat
      OBVIOUS
    <2>1. n - 1 \in Nat /\ Slots \in Nat /\ c.hour \in Nat
      BY ConstantFacts
    <2>2. (n - 1) * Slots \in Nat
      BY <2>1
    <2> QED BY <2>1, <2>2
  <1>2. at \in Seq(Nat)
    <2>1. at \in [1 .. LastDay + 1 -> Nat] /\ LastDay + 1 \in Nat
      BY <1>1, ConstantFacts
    <2> HIDE DEF at
    <2> QED BY <2>1, IsASeq
  <1>3. \E chosen : times = Picked(at, chosen)
    BY DEF FallbackTimes
  <1> HIDE DEF at
  <1>4. times \in Seq(Nat)
    BY <1>2, <1>3, PickedFacts
  <1>5. x = [i \in DOMAIN times |-> x[i]] /\ DOMAIN x = DOMAIN times
        /\ \A i \in DOMAIN times : /\ DOMAIN x[i] = Fields /\ x[i] = [f \in Fields |-> x[i][f]]
                                   /\ x[i].at = times[i] /\ x[i].minutes = minutes
                                   /\ x[i].done = FALSE
    BY DEF Written, Fields
  <1> HIDE DEF x, times
  <1>6. Len(times) \in Nat /\ DOMAIN times = 1 .. Len(times)
        /\ \A i \in DOMAIN times : times[i] \in Nat
    BY <1>4
  <1>7. \A i \in DOMAIN times : IsSession(x[i])
    BY <1>5, <1>6 DEF IsSession
  <1>8. IsList(x)
    BY <1>5, <1>6, <1>7, ListFromFunction
  <1> QED BY <1>8 DEF x

\* What a targeted plan that is stored keeps of the old one.
LEMMA PutFacts ==
  ASSUME Shape, NEW t \in Threads, PutTargeted(t), ~Replayed(call[t].payload.key)
  PROVE  /\ IsPlan(plan')
         /\ \A i \in Positions : plan.sessions[i].done =>
              \E j \in DOMAIN plan'.sessions : plan'.sessions[j] = plan.sessions[i]
         /\ pending # None /\ pending'.session # None =>
              /\ pending' = pending
              /\ \A i \in Positions : plan.sessions[i].id = pending.session =>
                   \E j \in DOMAIN plan'.sessions : plan'.sessions[j] = plan.sessions[i]
  <1> DEFINE c == call[t].payload
             old == OldSessions
             session == IF pending = None THEN None ELSE pending.session
             suits == session # None =>
                        \A i \in DOMAIN old : old[i].id = session => Compatible(old[i], c)
             asked == IF suits THEN session ELSE None
             Keep == {i \in DOMAIN old : Protected(old[i], asked)}
             kept == Picked(old, Keep)
             taken == {kept[i].id : i \in DOMAIN kept}
             clashing == {kept[i].at : i \in DOMAIN kept}
             new == call[t].plan.sessions
             Add == {i \in DOMAIN new : new[i].id \notin taken /\ new[i].at \notin clashing}
             added == Picked(new, Add)
             both == kept \o added
  <1>1. /\ call[t] # None
        /\ \E id : plan' = [id |-> id, sessions |-> both]
        /\ pending' = IF suits THEN pending
                               ELSE [pending EXCEPT !.session = None, !.via = None]
    BY DEF PutTargeted
  <1>2. IsList(new) /\ IsList(old)
    BY <1>1, EmptyList DEF Shape, OldSessions, IsPlan
  <1>3. \A i \in Positions : i \in DOMAIN old /\ plan.sessions[i] = old[i]
    BY DEF Positions, OldSessions
  <1>4. \A i \in DOMAIN old : Protected(old[i], asked) => i \in DOMAIN old \cap Keep
    OBVIOUS
  <1> HIDE DEF Keep, Add, old, new
  <1>5. /\ IsList(kept) /\ IsList(added)
        /\ \A i \in DOMAIN old \cap Keep : \E j \in DOMAIN kept : kept[j] = old[i]
    BY <1>2, PickedList
  <1> HIDE DEF kept, added
  <1>6. /\ IsList(both) /\ Len(both) = Len(kept) + Len(added)
        /\ \A j \in 1 .. Len(kept) : both[j] = kept[j]
    BY <1>5, ListConcat
  <1>7. /\ Len(kept) \in Nat /\ DOMAIN kept = 1 .. Len(kept)
        /\ Len(added) \in Nat /\ DOMAIN both = 1 .. Len(both)
    BY <1>5, <1>6, ListFacts
  <1> HIDE DEF both
  <1>8. \A j \in DOMAIN kept : j \in DOMAIN both /\ both[j] = kept[j]
    BY <1>6, <1>7
  <1>9. \A i \in DOMAIN old : Protected(old[i], asked) => \E j \in DOMAIN both : both[j] = old[i]
    BY <1>4, <1>5, <1>8
  <1>10. IsPlan(plan') /\ plan'.sessions = both
    BY <1>1, <1>6 DEF IsPlan
  <1> HIDE DEF suits
  <1>11. ASSUME NEW i \in Positions, plan.sessions[i].done
         PROVE  \E j \in DOMAIN plan'.sessions : plan'.sessions[j] = plan.sessions[i]
    <2>1. Protected(old[i], asked)
      BY <1>3, <1>11 DEF Protected
    <2> HIDE DEF asked
    <2> QED BY <1>3, <1>9, <1>10, <2>1
  <1>12. ASSUME pending # None, pending'.session # None
         PROVE  /\ pending' = pending
                /\ \A i \in Positions : plan.sessions[i].id = pending.session =>
                     \E j \in DOMAIN plan'.sessions : plan'.sessions[j] = plan.sessions[i]
    <2>1. suits
      <3> SUFFICES ASSUME ~suits PROVE FALSE
        OBVIOUS
      <3>1. pending' = [pending EXCEPT !.session = None, !.via = None]
        BY <1>1
      <3>2. pending'.session = None
        BY <1>12, <3>1 DEF Shape, IsQuestion
      <3> QED BY <1>12, <3>2
    <2>2. pending' = pending /\ asked = pending.session /\ asked # None
      BY <1>1, <1>12, <2>1
    <2>3. ASSUME NEW i \in Positions, plan.sessions[i].id = pending.session
          PROVE  \E j \in DOMAIN plan'.sessions : plan'.sessions[j] = plan.sessions[i]
      <3>1. Protected(old[i], asked)
        BY <1>3, <2>2, <2>3 DEF Protected
      <3> HIDE DEF asked
      <3> QED BY <1>3, <1>9, <1>10, <3>1
    <2> QED BY <2>2, <2>3
  <1> QED BY <1>10, <1>11, <1>12

\* Every step of the calendar keeps the shape of the record.
LEMMA ShapeStep ==
  ASSUME Shape, [Next]_vars
  PROVE  Shape'
  <1> USE DEF Shape
  <1>1. CASE CreatePlan
    <2>1. IsPlan(plan')
      BY <1>1, BuiltFacts DEF CreatePlan
    <2> QED BY <1>1, <2>1 DEF CreatePlan
  <1>2. CASE AddTopic
    <2>1. CASE plan = None
      BY <1>2, <2>1 DEF AddTopic
    <2>2. CASE plan # None
      <3>1. /\ Plannable(exam)
            /\ \E done : plan' = Regenerated(BuiltPlan(topics + 1, exam, budget), done)
        BY <1>2, <2>2 DEF AddTopic
      <3>2. IsPlan(BuiltPlan(topics + 1, exam, budget))
        BY <3>1, BuiltFacts
      <3>3. IsPlan(plan')
        BY <3>1, <3>2, RegeneratedFacts
      <3> QED BY <1>2, <3>3 DEF AddTopic
    <2> QED BY <2>1, <2>2
  <1>3. CASE ClearPlan
    BY <1>3 DEF ClearPlan
  <1>4. ASSUME NEW x \in Exams, NEW limit \in Budgets, Regenerate(x, limit) PROVE Shape'
    <2>1. Plannable(x) /\ \E done : plan' = Regenerated(BuiltPlan(topics, x, limit), done)
      BY <1>4 DEF Regenerate
    <2>2. x \in Nat /\ limit \in Nat
      BY ConstantFacts
    <2>3. IsPlan(BuiltPlan(topics, x, limit))
      BY <2>1, <2>2, BuiltFacts
    <2>4. IsPlan(plan')
      BY <2>1, <2>3, RegeneratedFacts
    <2> QED BY <1>4, <2>2, <2>4 DEF Regenerate
  <1>5. ASSUME NEW x \in Exams, NEW limit \in Budgets, Adjust(x, limit) PROVE Shape'
    BY <1>5, ConstantFacts DEF Adjust
  <1>6. ASSUME NEW i \in Positions, NEW payload \in Payloads, UpdateSession(i, payload)
        PROVE  Shape'
    <2>1. IsPlan(plan')
      BY <1>6, UpdateFacts
    <2>2. pending' = None \/ pending' = pending
      BY <1>6 DEF UpdateSession
    <2>3. UNCHANGED <<now, exam, budget, call>>
      BY <1>6 DEF UpdateSession
    <2> QED BY <2>1, <2>2, <2>3
  <1>7. ASSUME NEW i \in Positions, NEW via, Ask(i, via) PROVE Shape'
    BY <1>7 DEF Ask, IsQuestion
  <1>8. ASSUME NEW payload \in Additions, AddSession(payload) PROVE Shape'
    <2> DEFINE s == [id |-> <<"manual-session", plan.id, payload.topic, payload.at,
                             Len(plan.sessions)>>,
                     topic |-> payload.topic, at |-> payload.at, minutes |-> payload.minutes,
                     activity |-> payload.activity, done |-> FALSE]
               x == Append(plan.sessions, s)
    <2>1. plan # None /\ plan' = [plan EXCEPT !.sessions = x]
      BY <1>8 DEF AddSession
    <2>2. IsSession(s)
      BY ConstantFacts DEF IsSession, Fields
    <2> HIDE DEF s
    <2>3. IsList(x)
      BY <2>1, <2>2, ListAppend DEF IsPlan
    <2> HIDE DEF x
    <2>4. IsPlan(plan')
      BY <2>1, <2>3 DEF IsPlan
    <2> QED BY <1>8, <2>4 DEF AddSession
  <1>9. ASSUME NEW topic, AskAbout(topic) PROVE Shape'
    BY <1>9 DEF AskAbout, IsQuestion
  <1>10. ASSUME NEW correct, CreditAnswer(correct) PROVE Shape'
    <2>1. IsPlan(plan')
      BY <1>10, CreditFacts
    <2> QED BY <1>10, <2>1 DEF CreditAnswer
  <1>11. CASE TakeAnswer
    BY <1>11 DEF TakeAnswer
  <1>12. ASSUME NEW t \in Threads, NEW c \in Targeted, BeginTargeted(t, c) PROVE Shape'
    <2>1. PICK minutes \in Minutes \cup {c.limit} :
             call' = [call EXCEPT ![t] = [payload |-> c, plan |-> Written(c, minutes)]]
      BY <1>12 DEF BeginTargeted
    <2>2. IsList(Written(c, minutes).sessions)
      BY ConstantFacts, WrittenFacts
    <2>3. /\ call'[t].plan.sessions = Written(c, minutes).sessions
          /\ call'[t].payload = c
          /\ \A u \in Threads \ {t} : call'[u] = call[u]
          /\ call' = [u \in Threads |-> call'[u]]
      BY <2>1
    <2>4. UNCHANGED <<now, exam, budget, plan, pending>>
      BY <1>12 DEF BeginTargeted
    <2> QED BY <2>2, <2>3, <2>4
  <1>13. ASSUME NEW t \in Threads, PutTargeted(t) PROVE Shape'
    <2>1. call' = [call EXCEPT ![t] = None] /\ now' = now
      BY <1>13 DEF PutTargeted
    <2>2. CASE Replayed(call[t].payload.key)
      <3>1. UNCHANGED <<exam, budget, plan, pending>>
        BY <1>13, <2>2 DEF PutTargeted
      <3> QED BY <2>1, <3>1
    <2>3. CASE ~Replayed(call[t].payload.key)
      <3>1. IsPlan(plan')
        BY <1>13, <2>3, PutFacts
      <3>2. exam' \in Nat /\ budget' \in Nat /\ (pending' # None => IsQuestion(pending'))
        <4>1. exam' = call[t].payload.exam /\ budget' = call[t].payload.limit /\ call[t] # None
          BY <1>13, <2>3 DEF PutTargeted
        <4>2. pending' = pending \/ (pending # None /\ IsQuestion(pending'))
          BY <1>13, <2>3 DEF PutTargeted, IsQuestion
        <4> QED BY <4>1, <4>2, ConstantFacts
      <3> QED BY <2>1, <3>1, <3>2
    <2> QED BY <2>2, <2>3
  <1>14. ASSUME NEW t \in Threads, RefuseTargeted(t) PROVE Shape'
    BY <1>14 DEF RefuseTargeted
  <1>15. CASE Tick
    BY <1>15, ConstantFacts DEF Tick
  <1>16. CASE UNCHANGED vars
    BY <1>16 DEF vars
  <1> QED
    BY <1>1, <1>2, <1>3, <1>4, <1>5, <1>6, <1>7, <1>8, <1>9, <1>10, <1>11, <1>12, <1>13,
       <1>14, <1>15, <1>16 DEF Next

LEMMA ShapeKept == Spec => []Shape
  <1>1. Init => Shape
    <2> SUFFICES ASSUME Init PROVE Shape
      OBVIOUS
    <2>1. now \in Nat /\ exam \in Nat /\ budget \in Nat /\ plan = None /\ pending = None
      BY ConstantFacts DEF Init
    <2> QED BY <2>1 DEF Init, Shape
  <1> QED BY <1>1, ShapeStep, PTL DEF Spec

-----------------------------------------------------------------------------
(* What a response tells of its request                                     *)

LEMMA Writes ==
  ASSUME Next, edits' # edits
  PROVE  \/ \E i \in Positions, payload \in Payloads :
              UpdateSession(i, payload) /\ reply' = Answer(Verb(payload))
         \/ \E correct \in BOOLEAN : CreditAnswer(correct) /\ reply'.op = "answer"
         \/ AddTopic /\ reply'.op = "regenerate"
         \/ \E x \in Exams, limit \in Budgets : Regenerate(x, limit) /\ reply'.op = "regenerate"
         \/ \E op \in {"adjust", "clear", "add", "answer", "targeted"} : reply' = Answer(op)
  <1>1. ASSUME NEW i \in Positions, NEW payload \in Payloads, UpdateSession(i, payload)
        PROVE  reply' = Answer(Verb(payload))
    BY <1>1 DEF UpdateSession, Write
  <1>2. ASSUME NEW correct \in BOOLEAN, CreditAnswer(correct) PROVE reply'.op = "answer"
    <2>1. \/ \E topic, at : reply' = [op |-> "answer", topic |-> topic, at |-> at]
          \/ reply' = Answer("answer")
      BY <1>2 DEF CreditAnswer
    <2> QED BY <2>1 DEF Answer
  <1>3. CASE AddTopic
    BY <1>3 DEF AddTopic, Write, Answer
  <1>4. ASSUME NEW x \in Exams, NEW limit \in Budgets, Regenerate(x, limit)
        PROVE  reply'.op = "regenerate"
    BY <1>4 DEF Regenerate, Write, Answer
  <1>5. ASSUME NEW x \in Exams, NEW limit \in Budgets, Adjust(x, limit)
        PROVE  reply' = Answer("adjust")
    BY <1>5 DEF Adjust, Write
  <1>6. ClearPlan => reply' = Answer("clear")
    BY DEF ClearPlan, Write
  <1>7. ASSUME NEW payload \in Additions, AddSession(payload) PROVE reply' = Answer("add")
    BY <1>7 DEF AddSession, Write
  <1>8. TakeAnswer => reply' = Answer("answer")
    BY DEF TakeAnswer, Write
  <1>9. ASSUME NEW t \in Threads, PutTargeted(t) PROVE reply' = Answer("targeted")
    <2>1. edits' = edits \/ Write("targeted")
      BY <1>9 DEF PutTargeted
    <2> QED BY <2>1 DEF Write
  <1>10. /\ ~CreatePlan /\ ~Tick /\ \A i, via : ~Ask(i, via)
         /\ \A topic : ~AskAbout(topic)
         /\ \A t, c : ~BeginTargeted(t, c)
         /\ \A t : ~RefuseTargeted(t)
    BY DEF CreatePlan, Tick, Ask, AskAbout, BeginTargeted, RefuseTargeted
  <1> QED
    BY <1>1, <1>2, <1>3, <1>4, <1>5, <1>6, <1>7, <1>8, <1>9, <1>10 DEF Next

LEMMA Verbs ==
  ASSUME NEW payload
  PROVE  Verb(payload) \in {"move", "reopen", "update"}
  BY DEF Verb

-----------------------------------------------------------------------------
(* A move loses nothing                                                     *)

\* MoveLossless: whatever a move displaces, only open sessions go on to a later
\* day, at the same hour and not past the exam; every other one stays as it is.
THEOREM MovesLoseNothing == Spec => MoveLossless
  <1> DEFINE Spared(i) ==
               LET s == plan.sessions[i]
                   r == plan'.sessions[i]
               IN \/ r = s
                  \/ /\ ~s.done /\ r = [s EXCEPT !.at = r.at]
                     /\ r.at > s.at /\ (r.at - s.at) % Slots = 0
                     /\ DayOf(r.at) <= DayOf(exam)
             Lossless ==
               reply'.op = "move" /\ edits' # edits =>
                 /\ DOMAIN plan'.sessions = DOMAIN plan.sessions
                 /\ \E moved \in Positions : \A i \in Positions \ {moved} : Spared(i)
  <1>1. Shape /\ [Next]_vars => [Lossless]_vars
    <2> SUFFICES ASSUME Shape, Next, reply'.op = "move", edits' # edits
                 PROVE  /\ DOMAIN plan'.sessions = DOMAIN plan.sessions
                        /\ \E moved \in Positions : \A i \in Positions \ {moved} : Spared(i)
      OBVIOUS
    <2> HIDE DEF Spared
    <2>1. PICK m \in Positions, payload \in Payloads : UpdateSession(m, payload)
      BY Writes DEF Answer
    <2>2. PICK others, s :
             /\ plan # None /\ IsPlan(plan') /\ plan'.sessions = [others EXCEPT ![m] = s]
             /\ IsSession(s) /\ IsList(others)
             /\ Len(others) = Len(plan.sessions) /\ m \in 1 .. Len(others)
             /\ Postpones(plan.sessions, others, plan.sessions[m].id, DayOf(exam))
      BY <2>1, UpdateFacts
    <2> DEFINE n == Len(plan.sessions)
               x == [others EXCEPT ![m] = s]
    <2>3. n \in Nat /\ DOMAIN plan.sessions = 1 .. n
      BY <2>2, ListFacts DEF Shape, IsPlan
    <2>4. /\ IsList(x) /\ Len(x) = n
          /\ \A j \in 1 .. n : j # m => x[j] = others[j]
      BY <2>2, ListExcept
    <2> HIDE DEF x
    <2>5. plan'.sessions = x /\ DOMAIN x = 1 .. n
      BY <2>2, <2>4, ListFacts DEF x
    <2>6. ASSUME NEW i \in Positions \ {m} PROVE Spared(i)
      <3>1. i \in 1 .. n /\ plan'.sessions[i] = others[i]
        BY <2>2, <2>3, <2>4, <2>5, <2>6 DEF Positions
      <3>2. \/ others[i] = plan.sessions[i]
            \/ /\ ~plan.sessions[i].done
               /\ others[i] = [plan.sessions[i] EXCEPT !.at = others[i].at]
               /\ others[i].at > plan.sessions[i].at
               /\ (others[i].at - plan.sessions[i].at) % Slots = 0
               /\ DayOf(others[i].at) <= DayOf(exam)
        BY <2>2, <3>1 DEF Postpones
      <3> QED BY <3>1, <3>2 DEF Spared
    <2> QED BY <2>3, <2>5, <2>6
  <1>2. MoveLossless <=> [][Lossless]_vars
    BY DEF MoveLossless
  <1> HIDE DEF Lossless
  <1> QED BY <1>1, <1>2, ShapeKept, PTL DEF Spec

-----------------------------------------------------------------------------
(* A late plan spares what was done                                         *)

\* LatePlanSpares: a targeted plan takes over what was completed while it was
\* written and the session of the question that stays pending, and never
\* replaces the plan that was stored for its own key.
THEOREM LatePlansSpare == Spec => LatePlanSpares
  <1> DEFINE Spares(t) ==
               /\ requests[call[t].payload.key] # plan.id
               /\ \A i \in Positions : plan.sessions[i].done =>
                    \E j \in DOMAIN plan'.sessions : plan'.sessions[j] = plan.sessions[i]
               /\ pending # None /\ pending'.session # None
                  /\ (\E i \in Positions : plan.sessions[i].id = pending.session)
                  => \E j \in DOMAIN plan'.sessions : plan'.sessions[j].id = pending'.session
             Answered(t) == call[t] # None /\ call'[t] = None /\ plan # None /\ plan' # plan
             Late == \A t \in Threads : Answered(t) => Spares(t)
  <1>1. Shape /\ [Next]_vars => [Late]_vars
    <2> SUFFICES ASSUME Shape, Next, NEW t \in Threads, Answered(t) PROVE Spares(t)
      BY DEF Late
    <2> HIDE DEF Spares
    <2>1. PutTargeted(t) /\ ~Replayed(call[t].payload.key)
      <3>1. call[t] # None /\ call'[t] = None /\ plan' # plan /\ call' # call
        OBVIOUS
      <3>2. PICK u \in Threads : \/ \E c \in Targeted : BeginTargeted(u, c)
                                 \/ PutTargeted(u) \/ RefuseTargeted(u)
        <4>1. CASE \E i \in Positions, payload \in Payloads : UpdateSession(i, payload)
          BY <3>1, <4>1 DEF UpdateSession
        <4>2. CASE ~ \E i \in Positions, payload \in Payloads : UpdateSession(i, payload)
          BY <3>1, <4>2 DEF Next, CreatePlan, AddTopic, ClearPlan, Regenerate, Adjust, Ask,
               AddSession, AskAbout, CreditAnswer, TakeAnswer, Tick
        <4> QED BY <4>1, <4>2
      <3>3. PutTargeted(u) /\ ~Replayed(call[u].payload.key)
        BY <3>1, <3>2 DEF BeginTargeted, PutTargeted, RefuseTargeted
      <3>4. call' = [call EXCEPT ![u] = None]
        BY <3>3 DEF PutTargeted
      <3>5. u = t
        BY <3>1, <3>4 DEF Shape
      <3> QED BY <3>3, <3>5
    <2>2. /\ \A i \in Positions : plan.sessions[i].done =>
               \E j \in DOMAIN plan'.sessions : plan'.sessions[j] = plan.sessions[i]
          /\ pending # None /\ pending'.session # None =>
               /\ pending' = pending
               /\ \A i \in Positions : plan.sessions[i].id = pending.session =>
                    \E j \in DOMAIN plan'.sessions : plan'.sessions[j] = plan.sessions[i]
      BY <2>1, PutFacts
    <2>3. requests[call[t].payload.key] # plan.id
      BY <2>1 DEF Replayed, IsCurrent
    <2>4. ASSUME pending # None, pending'.session # None,
                 NEW i \in Positions, plan.sessions[i].id = pending.session
          PROVE  \E j \in DOMAIN plan'.sessions : plan'.sessions[j].id = pending'.session
      <3>1. /\ pending' = pending
            /\ \E j \in DOMAIN plan'.sessions : plan'.sessions[j] = plan.sessions[i]
        BY <2>2, <2>4
      <3> QED BY <2>4, <3>1
    <2> QED BY <2>2, <2>3, <2>4 DEF Spares
  <1>2. LatePlanSpares <=> [][Late]_vars
    BY DEF LatePlanSpares
  <1> HIDE DEF Late
  <1> QED BY <1>1, <1>2, ShapeKept, PTL DEF Spec

-----------------------------------------------------------------------------
(* A promised review is there                                               *)

\* PromiseKept: the review that an answer promises is in the plan, open and at
\* that time, as long as fewer than MaxReviews added reviews are open.
THEOREM PromisesAreKept == Spec => PromiseKept
  <1> DEFINE Kept ==
        reply'.op = "answer" /\ reply'.at # None /\ edits' # edits
        /\ Cardinality({i \in Positions : IsAdded(plan.sessions[i]) /\ ~plan.sessions[i].done})
             < MaxReviews
        => \E i \in OpenReviews(plan'.sessions, reply'.topic) : plan'.sessions[i].at = reply'.at
  <1>1. Shape /\ [Next]_vars => [Kept]_vars
    <2> SUFFICES ASSUME Shape, Next, reply'.op = "answer", reply'.at # None, edits' # edits,
                        Cardinality({i \in Positions : IsAdded(plan.sessions[i])
                                                       /\ ~plan.sessions[i].done}) < MaxReviews
                 PROVE  \E i \in OpenReviews(plan'.sessions, reply'.topic) :
                          plan'.sessions[i].at = reply'.at
      OBVIOUS
    <2>1. PICK correct \in BOOLEAN : CreditAnswer(correct)
      <3>1. \A op : Answer(op).op = op /\ Answer(op).at = None
        BY DEF Answer
      <3> QED BY <3>1, Writes, Verbs
    <2>2. PICK completed, at, outcome :
             /\ plan # None /\ IsPlan(plan) /\ at \in Nat
             /\ IsList(completed) /\ OpenAdded(completed) \subseteq OpenAdded(plan.sessions)
             /\ \/ reply'.at = None
                \/ /\ plan'.sessions = outcome[1]
                   /\ outcome \in Upserted(completed, pending.topic, at)
                   /\ reply'.topic = pending.topic /\ reply'.at = outcome[2]
      BY <2>1, CreditFacts
    <2>3. OpenAdded(plan.sessions) =
            {i \in Positions : IsAdded(plan.sessions[i]) /\ ~plan.sessions[i].done}
      BY <2>2 DEF OpenAdded, Positions
    <2>4. Cardinality(OpenAdded(completed)) < MaxReviews
      <3>1. IsFiniteSet(OpenAdded(plan.sessions)) /\ IsFiniteSet(OpenAdded(completed))
        BY <2>2, OpenAddedFinite DEF IsPlan
      <3>2. Cardinality(OpenAdded(completed)) <= Cardinality(OpenAdded(plan.sessions))
        BY <2>2, <3>1, FS_Subset
      <3>3. /\ Cardinality(OpenAdded(completed)) \in Nat
            /\ Cardinality(OpenAdded(plan.sessions)) \in Nat
        BY <3>1, FS_CardinalityType
      <3>4. MaxReviews \in Nat
        BY CalendarAssumption
      <3> QED BY <2>3, <3>2, <3>3, <3>4
    <2>5. now \in Nat /\ budget \in Nat
      BY DEF Shape
    <2> QED BY <2>2, <2>4, <2>5, UpsertedFacts
  <1>2. PromiseKept <=> [][Kept]_vars
    BY DEF PromiseKept
  <1> HIDE DEF Kept
  <1> QED BY <1>1, <1>2, ShapeKept, PTL DEF Spec

-----------------------------------------------------------------------------
(* Progress is carried                                                      *)

\* Of the members of a set of positions, taken in order, the first c ones are c,
\* or all.
LEMMA FirstOnes ==
  ASSUME NEW n \in Nat, NEW K \in SUBSET (1 .. n), NEW c \in Nat
  PROVE  LET E == {k \in K : Cardinality(K \cap (1 .. k)) <= c}
         IN E = K \/ Cardinality(E) >= c
  <1> DEFINE U(m) == K \cap (1 .. m)
             E(m) == {k \in U(m) : Cardinality(U(k)) <= c}
             Good(m) == E(m) = U(m) \/ Cardinality(E(m)) >= c
             S == {m \in Nat : Good(m)}
  <1>1. \A m \in Nat : IsFiniteSet(U(m)) /\ Cardinality(U(m)) \in Nat
    <2> SUFFICES ASSUME NEW m \in Nat PROVE IsFiniteSet(U(m)) /\ Cardinality(U(m)) \in Nat
      OBVIOUS
    <2>1. IsFiniteSet(1 .. m) /\ U(m) \subseteq 1 .. m
      BY FS_Interval
    <2>2. IsFiniteSet(U(m))
      BY <2>1, FS_Subset
    <2> QED BY <2>2, FS_CardinalityType
  <1>2. \A m \in Nat : E(m) \subseteq U(m) /\ IsFiniteSet(E(m)) /\ Cardinality(E(m)) \in Nat
    <2> SUFFICES ASSUME NEW m \in Nat
                 PROVE  E(m) \subseteq U(m) /\ IsFiniteSet(E(m)) /\ Cardinality(E(m)) \in Nat
      OBVIOUS
    <2>1. E(m) \subseteq U(m)
      OBVIOUS
    <2> HIDE DEF E, U
    <2>2. IsFiniteSet(E(m))
      BY <1>1, <2>1, FS_Subset
    <2> QED BY <2>1, <2>2, FS_CardinalityType
  <1>3. 0 \in S
    <2>1. U(0) = {}
      OBVIOUS
    <2>2. E(0) = {}
      BY <2>1
    <2>3. Good(0)
      BY <2>1, <2>2
    <2> HIDE DEF Good
    <2> QED BY <2>3
  <1>4. ASSUME NEW m \in Nat, m \in S PROVE m + 1 \in S
    <2>1. m + 1 \in Nat /\ Good(m)
      BY <1>4
    <2>2. \A k \in 1 .. m + 1 : k \in 1 .. m \/ k = m + 1
      OBVIOUS
    <2>3. m + 1 \in 1 .. m + 1 /\ m + 1 \notin 1 .. m /\ \A k \in 1 .. m : k \in 1 .. m + 1
      OBVIOUS
    <2>4. Good(m + 1)
      <3>1. CASE m + 1 \notin K
        <4>1. U(m + 1) = U(m)
          BY <2>2, <2>3, <3>1
        <4> HIDE DEF U
        <4>2. E(m + 1) = E(m)
          BY <4>1
        <4> QED BY <2>1, <4>1, <4>2
      <3>2. CASE m + 1 \in K
        <4>1. U(m + 1) = U(m) \cup {m + 1} /\ m + 1 \notin U(m)
          BY <2>2, <2>3, <3>2
        <4> HIDE DEF U
        <4>2. Cardinality(U(m + 1)) = Cardinality(U(m)) + 1
          BY <1>1, <4>1, FS_AddElement
        <4>3. CASE Cardinality(U(m + 1)) <= c
          <5>1. E(m + 1) = E(m) \cup {m + 1}
            BY <4>1, <4>3
          <5>2. Cardinality(E(m)) <= Cardinality(E(m + 1))
            <6> HIDE DEF E
            <6>1. E(m) \subseteq E(m + 1)
              BY <5>1
            <6> QED BY <1>2, <2>1, <6>1, FS_Subset
          <5> HIDE DEF E
          <5>3. CASE E(m) = U(m)
            BY <4>1, <5>1, <5>3
          <5>4. CASE Cardinality(E(m)) >= c
            <6>1. Cardinality(E(m)) \in Nat /\ Cardinality(E(m + 1)) \in Nat
              BY <1>2, <2>1
            <6> QED BY <5>2, <5>4, <6>1
          <5> QED BY <2>1, <5>3, <5>4
        <4>4. CASE ~ (Cardinality(U(m + 1)) <= c)
          <5>1. E(m + 1) = E(m)
            BY <4>1, <4>4
          <5> HIDE DEF E
          <5>2. E(m) = U(m) => Cardinality(E(m)) >= c
            BY <1>1, <4>2, <4>4
          <5> QED BY <2>1, <5>1, <5>2
        <4> QED BY <4>3, <4>4
      <3> QED BY <3>1, <3>2
    <2> HIDE DEF Good
    <2> QED BY <2>1, <2>4
  <1> HIDE DEF S
  <1>5. Good(n)
    <2>1. n \in S
      BY <1>3, <1>4, Induction
    <2> HIDE DEF Good
    <2> QED BY <2>1 DEF S
  <1>6. U(n) = K
    OBVIOUS
  <1>7. E(n) = {k \in K : Cardinality(K \cap (1 .. k)) <= c}
    BY <1>6
  <1> HIDE DEF E
  <1> QED BY <1>5, <1>6, <1>7

LEMMA Carried ==
  ASSUME NEW old, IsList(old), NEW new, IsPlan(new), NEW done,
         \A i \in DOMAIN new.sessions : Earned(old, new.sessions, i) => i \in done, NEW s
  PROVE  LET x == Regenerated(new, done).sessions
         IN Cardinality(CompletedAs(x, s)) >=
              Min({Cardinality(CompletedAs(old, s)),
                   Cardinality({j \in DOMAIN x : SameKind(x[j], s)})})
  <1> DEFINE x == Regenerated(new, done).sessions
             y == new.sessions
             n == Len(y)
             K == {j \in 1 .. n : SameKind(y[j], s)}
             O == CompletedAs(old, s)
             c == Cardinality(O)
             E == {k \in K : Cardinality(K \cap (1 .. k)) <= c}
             C == CompletedAs(x, s)
  <1>1. n \in Nat /\ DOMAIN y = 1 .. n
    BY ListFacts DEF IsPlan
  <1>2. /\ DOMAIN x = 1 .. n
        /\ \A i \in 1 .. n : x[i].done = (i \in done) /\ (SameKind(x[i], s) <=> SameKind(y[i], s))
    BY <1>1, RegeneratedFacts DEF SameKind, Fields
  <1> HIDE DEF x
  <1>3. K = {j \in DOMAIN x : SameKind(x[j], s)}
    BY <1>2
  <1>4. C \subseteq K
    BY <1>2 DEF CompletedAs
  <1>5. E \subseteq C
    <2> SUFFICES ASSUME NEW k \in K, Cardinality(K \cap (1 .. k)) <= c PROVE k \in C
      OBVIOUS
    <2>1. k \in 1 .. n /\ SameKind(y[k], s) /\ \A j \in 1 .. k : j \in 1 .. n
      BY <1>1
    <2>2. {j \in 1 .. k : SameKind(y[j], y[k])} = K \cap (1 .. k)
      BY <2>1 DEF SameKind
    <2>3. CompletedAs(old, y[k]) = O
      BY <2>1 DEF CompletedAs, SameKind
    <2> HIDE DEF K, O, y
    <2>4. Earned(old, y, k)
      BY <2>2, <2>3 DEF Earned
    <2>5. k \in done
      BY <1>1, <2>1, <2>4 DEF y
    <2> QED BY <1>2, <2>1, <2>5 DEF CompletedAs
  <1>6. IsFiniteSet(K) /\ IsFiniteSet(O)
    <2>1. IsFiniteSet(1 .. n) /\ K \subseteq 1 .. n
      <3> HIDE DEF n
      <3> QED BY <1>1, FS_Interval
    <2>2. Len(old) \in Nat /\ DOMAIN old = 1 .. Len(old)
      BY ListFacts
    <2>3. IsFiniteSet(1 .. Len(old)) /\ O \subseteq 1 .. Len(old)
      BY <2>2, FS_Interval DEF CompletedAs
    <2> HIDE DEF K, O, n
    <2> QED BY <2>1, <2>3, FS_Subset
  <1>7. K \in SUBSET (1 .. n)
    OBVIOUS
  <1> HIDE DEF K, O, n, C
  <1>8. IsFiniteSet(C) /\ c \in Nat /\ Cardinality(K) \in Nat
    BY <1>4, <1>6, FS_Subset, FS_CardinalityType
  <1> HIDE DEF c
  <1>9. E = K \/ Cardinality(E) >= c
    BY <1>1, <1>7, <1>8, FirstOnes
  <1> HIDE DEF E
  <1>10. /\ IsFiniteSet(E) /\ Cardinality(E) <= Cardinality(C)
         /\ Cardinality(E) \in Nat /\ Cardinality(C) \in Nat
    BY <1>5, <1>8, FS_Subset, FS_CardinalityType
  <1>11. Min({c, Cardinality(K)}) = IF c <= Cardinality(K) THEN c ELSE Cardinality(K)
    BY <1>8, MinOfTwo
  <1>12. Cardinality(C) >= Min({c, Cardinality(K)})
    BY <1>8, <1>9, <1>10, <1>11
  <1> QED BY <1>3, <1>12 DEF c, O, C, x

\* ProgressCarried: a plan that is made anew has as much completed of every topic
\* and activity as the old one had, or as it has at all.
THEOREM ProgressIsCarried == Spec => ProgressCarried
  <1> DEFINE Carries(i) ==
               LET s == plan.sessions[i]
               IN Cardinality(CompletedAs(plan'.sessions, s)) >=
                    Min({Cardinality(CompletedAs(plan.sessions, s)),
                         Cardinality({j \in DOMAIN plan'.sessions :
                                        SameKind(plan'.sessions[j], s)})})
             Progress == reply'.op = "regenerate" /\ edits' # edits /\ plan # None =>
                           \A i \in Positions : Carries(i)
  <1>1. Shape /\ [Next]_vars => [Progress]_vars
    <2> SUFFICES ASSUME Shape, Next, reply'.op = "regenerate", edits' # edits, plan # None,
                        NEW i \in Positions
                 PROVE  Carries(i)
      OBVIOUS
    <2>1. IsList(plan.sessions)
      BY DEF Shape, IsPlan
    <2>2. \E new, done :
             /\ IsPlan(new) /\ plan' = Regenerated(new, done)
             /\ \A k \in DOMAIN new.sessions :
                  Earned(plan.sessions, new.sessions, k) => k \in done
      <3>1. CASE AddTopic
        <4> DEFINE new == BuiltPlan(topics + 1, exam, budget)
                   done == {k \in DOMAIN new.sessions :
                              Earned(plan.sessions, new.sessions, k)}
        <4>1. Plannable(exam) /\ plan' = Regenerated(new, done)
          BY <3>1 DEF AddTopic
        <4>2. IsPlan(new)
          BY <4>1, BuiltFacts DEF Shape
        <4> HIDE DEF new
        <4>3. \A k \in DOMAIN new.sessions :
                Earned(plan.sessions, new.sessions, k) => k \in done
          OBVIOUS
        <4> HIDE DEF done
        <4> QED BY <4>1, <4>2, <4>3
      <3>2. ASSUME NEW x \in Exams, NEW limit \in Budgets, Regenerate(x, limit)
            PROVE  \E new, done :
                     /\ IsPlan(new) /\ plan' = Regenerated(new, done)
                     /\ \A k \in DOMAIN new.sessions :
                          Earned(plan.sessions, new.sessions, k) => k \in done
        <4> DEFINE new == BuiltPlan(topics, x, limit)
                   ids == {plan.sessions[k].id :
                             k \in {j \in DOMAIN plan.sessions : plan.sessions[j].done}}
                   done == {k \in DOMAIN new.sessions :
                              new.sessions[k].id \in ids
                                \/ Earned(plan.sessions, new.sessions, k)}
        <4>1. Plannable(x) /\ plan' = Regenerated(new, done)
          BY <3>2 DEF Regenerate, OldSessions
        <4>2. x \in Nat /\ limit \in Nat
          BY ConstantFacts
        <4>3. IsPlan(new)
          BY <4>1, <4>2, BuiltFacts DEF Shape
        <4> HIDE DEF new, ids
        <4>4. \A k \in DOMAIN new.sessions :
                Earned(plan.sessions, new.sessions, k) => k \in done
          OBVIOUS
        <4> HIDE DEF done
        <4> QED BY <4>1, <4>3, <4>4
      <3>3. \A op : Answer(op).op = op
        BY DEF Answer
      <3> QED BY <3>1, <3>2, <3>3, Writes, Verbs
    <2> QED BY <2>1, <2>2, Carried
  <1>2. ProgressCarried <=> [][Progress]_vars
    BY DEF ProgressCarried
  <1> HIDE DEF Progress
  <1> QED BY <1>1, <1>2, ShapeKept, PTL DEF Spec

-----------------------------------------------------------------------------
(* Loads                                                                    *)

\* The sums that Load builds, position by position.
LEMMA LoadSteps ==
  ASSUME NEW x, Len(x) \in Nat, NEW chosen
  PROVE  \E g : /\ g[0] = 0 /\ Load(x, chosen) = g[Len(x)]
                /\ \A n \in 1 .. Len(x) :
                     g[n] = g[n - 1] + IF n \in chosen THEN x[n].minutes ELSE 0
  <1> DEFINE Sum(prior, n) == prior + IF n \in chosen THEN x[n].minutes ELSE 0
             Form(g, m) == g = [n \in 0 .. m |-> IF n = 0 THEN 0 ELSE Sum(g[n - 1], n)]
             S == {m \in Nat : \E g : Form(g, m)}
  <1>1. 0 \in S
    <2> DEFINE g == [n \in 0 .. 0 |-> 0]
    <2>1. Form(g, 0)
      OBVIOUS
    <2> QED BY <2>1
  <1>2. ASSUME NEW m \in Nat, m \in S PROVE m + 1 \in S
    <2>1. PICK g : Form(g, m)
      BY <1>2
    <2> DEFINE h == [n \in 0 .. m + 1 |-> IF n <= m THEN g[n] ELSE Sum(g[m], m + 1)]
    <2> HIDE DEF Sum
    <2>2. \A n \in 0 .. m : g[n] = IF n = 0 THEN 0 ELSE Sum(g[n - 1], n)
      BY <2>1
    <2>3. \A n \in 0 .. m + 1 : h[n] = IF n = 0 THEN 0 ELSE Sum(h[n - 1], n)
      <3> SUFFICES ASSUME NEW n \in 0 .. m + 1
                   PROVE  h[n] = IF n = 0 THEN 0 ELSE Sum(h[n - 1], n)
        OBVIOUS
      <3>1. CASE n = 0
        BY <2>2, <3>1
      <3>2. CASE n \in 1 .. m
        <4>1. h[n] = g[n] /\ h[n - 1] = g[n - 1]
          BY <3>2
        <4> QED BY <2>2, <3>2, <4>1
      <3>3. CASE n = m + 1
        <4>1. h[n] = Sum(g[m], m + 1) /\ h[n - 1] = g[m]
          BY <3>3
        <4> QED BY <3>3, <4>1
      <3> QED BY <3>1, <3>2, <3>3
    <2>4. Form(h, m + 1)
      BY <2>3
    <2>5. m + 1 \in Nat
      OBVIOUS
    <2> HIDE DEF h, Form
    <2> QED BY <2>4, <2>5
  <1> HIDE DEF S
  <1>3. \E g : Form(g, Len(x))
    <2>1. Len(x) \in S
      BY <1>1, <1>2, Induction
    <2> QED BY <2>1 DEF S
  <1> DEFINE upTo == CHOOSE g : Form(g, Len(x))
  <1>4. Form(upTo, Len(x))
    BY <1>3
  <1>5. Load(x, chosen) = upTo[Len(x)]
    BY DEF Load
  <1> HIDE DEF upTo, Sum
  <1>6. upTo[0] = 0 /\ \A n \in 1 .. Len(x) : upTo[n] = Sum(upTo[n - 1], n)
    BY <1>4
  <1> QED BY <1>5, <1>6 DEF Sum

LEMMA LoadType ==
  ASSUME NEW x, IsList(x), NEW chosen
  PROVE  Load(x, chosen) \in Nat
  <1>1. Len(x) \in Nat /\ \A n \in 1 .. Len(x) : x[n].minutes \in Nat
    BY ListFacts DEF IsSession
  <1>2. PICK g : /\ g[0] = 0 /\ Load(x, chosen) = g[Len(x)]
                 /\ \A n \in 1 .. Len(x) :
                      g[n] = g[n - 1] + IF n \in chosen THEN x[n].minutes ELSE 0
    <2>1. Len(x) \in Nat
      BY <1>1
    <2> QED BY ONLY <2>1, LoadSteps
  <1> DEFINE N == {n \in Nat : n <= Len(x) => g[n] \in Nat}
  <1>3. 0 \in N
    BY <1>2
  <1>4. ASSUME NEW n \in Nat, n \in N PROVE n + 1 \in N
    <2> SUFFICES ASSUME n + 1 <= Len(x) PROVE g[n + 1] \in Nat
      OBVIOUS
    <2>1. g[n] \in Nat /\ n + 1 \in 1 .. Len(x) /\ (n + 1) - 1 = n
      BY <1>1, <1>4
    <2>2. g[n + 1] = g[n] + IF n + 1 \in chosen THEN x[n + 1].minutes ELSE 0
      BY <1>2, <2>1
    <2> QED BY <1>1, <2>1, <2>2
  <1> HIDE DEF N
  <1>5. Len(x) \in N
    BY <1>1, <1>3, <1>4, Induction
  <1> QED BY <1>1, <1>2, <1>5 DEF N

\* A load that but for one session counts only what another counts, too.
LEMMA LoadCompare ==
  ASSUME NEW x, IsList(x), NEW y, IsList(y), Len(x) = Len(y), NEW A, NEW B, NEW k \in Nat,
         \A i \in 1 .. Len(x) : i \in A /\ i # k => i \in B /\ x[i].minutes = y[i].minutes
  PROVE  Load(x, A) <= Load(y, B) + IF k \in A /\ k \in 1 .. Len(x) THEN x[k].minutes ELSE 0
  <1>1. /\ Len(x) \in Nat /\ Len(y) \in Nat
        /\ \A n \in 1 .. Len(x) : x[n].minutes \in Nat /\ y[n].minutes \in Nat
    BY ListFacts DEF IsSession
  <1>2. PICK f : /\ f[0] = 0 /\ Load(x, A) = f[Len(x)]
                 /\ \A n \in 1 .. Len(x) :
                      f[n] = f[n - 1] + IF n \in A THEN x[n].minutes ELSE 0
    <2>1. Len(x) \in Nat
      BY <1>1
    <2> QED BY ONLY <2>1, LoadSteps
  <1>3. PICK g : /\ g[0] = 0 /\ Load(y, B) = g[Len(y)]
                 /\ \A n \in 1 .. Len(y) :
                      g[n] = g[n - 1] + IF n \in B THEN y[n].minutes ELSE 0
    <2>1. Len(y) \in Nat
      BY <1>1
    <2> QED BY ONLY <2>1, LoadSteps
  <1> DEFINE Extra(n) == IF k \in A /\ k \in 1 .. n THEN x[k].minutes ELSE 0
             Good(n) == f[n] \in Nat /\ g[n] \in Nat /\ f[n] <= g[n] + Extra(n)
             N == {n \in Nat : n <= Len(x) => Good(n)}
  <1>4. 0 \in N
    BY <1>2, <1>3
  <1>5. ASSUME NEW n \in Nat, n \in N PROVE n + 1 \in N
    <2> SUFFICES ASSUME n + 1 <= Len(x) PROVE Good(n + 1)
      OBVIOUS
    <2>1. Good(n) /\ n + 1 \in 1 .. Len(x) /\ (n + 1) - 1 = n
      BY <1>1, <1>5
    <2>2. /\ f[n + 1] = f[n] + IF n + 1 \in A THEN x[n + 1].minutes ELSE 0
          /\ g[n + 1] = g[n] + IF n + 1 \in B THEN y[n + 1].minutes ELSE 0
      BY <1>2, <1>3, <2>1
    <2>3. x[n + 1].minutes \in Nat /\ y[n + 1].minutes \in Nat
      BY <1>1, <2>1
    <2>4. CASE n + 1 = k
      <3> DEFINE more == IF k \in A THEN x[k].minutes ELSE 0
      <3>1. Extra(n) = 0 /\ Extra(n + 1) = more
        BY <2>4
      <3>2. f[n + 1] = f[n] + more /\ more \in Nat
        BY <2>2, <2>3, <2>4
      <3>3. g[n + 1] \in Nat /\ g[n + 1] >= g[n]
        BY <2>1, <2>2, <2>3
      <3> HIDE DEF Extra, more
      <3> QED BY <2>1, <3>1, <3>2, <3>3
    <2>5. CASE n + 1 # k
      <3>1. Extra(n + 1) = Extra(n)
        BY <2>5
      <3>2. Extra(n) \in Nat
        <4>1. k \in 1 .. n => k \in 1 .. Len(x)
          BY <1>1, <2>1
        <4> QED BY <1>1, <4>1
      <3>3. n + 1 \in A => n + 1 \in B /\ x[n + 1].minutes = y[n + 1].minutes
        BY <2>1, <2>5
      <3> HIDE DEF Extra
      <3> QED BY <2>1, <2>2, <2>3, <3>1, <3>2, <3>3
    <2> QED BY <2>4, <2>5
  <1> HIDE DEF N
  <1>6. Len(x) \in N
    BY <1>1, <1>4, <1>5, Induction
  <1> QED BY <1>1, <1>2, <1>3, <1>6 DEF N

\* A load that counts only what another counts, too.
LEMMA LoadWithin ==
  ASSUME NEW x, IsList(x), NEW y, IsList(y), Len(x) = Len(y), NEW A, NEW B,
         \A i \in 1 .. Len(x) : i \in A => i \in B /\ x[i].minutes = y[i].minutes
  PROVE  Load(x, A) <= Load(y, B)
  <1>1. Load(x, A) <= Load(y, B) + IF 0 \in A /\ 0 \in 1 .. Len(x) THEN x[0].minutes ELSE 0
    BY LoadCompare
  <1>2. Load(y, B) \in Nat /\ Len(x) \in Nat /\ Load(x, A) \in Nat
    BY LoadType, ListFacts
  <1>3. 0 \notin 1 .. Len(x)
    BY <1>2
  <1> QED BY <1>1, <1>2, <1>3

LEMMA LoadNothing ==
  ASSUME NEW x, IsList(x), NEW A, \A i \in 1 .. Len(x) : i \notin A
  PROVE  Load(x, A) = 0
  <1>1. Len(x) \in Nat
    BY ListFacts
  <1>2. PICK g : /\ g[0] = 0 /\ Load(x, A) = g[Len(x)]
                 /\ \A n \in 1 .. Len(x) :
                      g[n] = g[n - 1] + IF n \in A THEN x[n].minutes ELSE 0
    <2>1. Len(x) \in Nat
      BY <1>1
    <2> QED BY ONLY <2>1, LoadSteps
  <1> DEFINE N == {n \in Nat : n <= Len(x) => g[n] = 0}
  <1>3. 0 \in N
    BY <1>2
  <1>4. ASSUME NEW n \in Nat, n \in N PROVE n + 1 \in N
    <2> SUFFICES ASSUME n + 1 <= Len(x) PROVE g[n + 1] = 0
      OBVIOUS
    <2>1. g[n] = 0 /\ n + 1 \in 1 .. Len(x) /\ (n + 1) - 1 = n
      BY <1>1, <1>4
    <2>2. g[n + 1] = g[n] + IF n + 1 \in A THEN x[n + 1].minutes ELSE 0
      BY <1>2, <2>1
    <2> QED BY <2>1, <2>2
  <1> HIDE DEF N
  <1>5. Len(x) \in N
    BY <1>1, <1>3, <1>4, Induction
  <1> QED BY <1>1, <1>2, <1>5 DEF N

\* A load of one session at most.
LEMMA LoadOfOne ==
  ASSUME NEW x, IsList(x), NEW A, NEW limit \in Nat,
         \A i, j \in 1 .. Len(x) : i \in A /\ j \in A => i = j,
         \A i \in 1 .. Len(x) : i \in A => x[i].minutes <= limit
  PROVE  Load(x, A) <= limit
  <1>1. Len(x) \in Nat
    BY ListFacts
  <1>2. CASE \A i \in 1 .. Len(x) : i \notin A
    BY <1>2, LoadNothing
  <1>3. ASSUME NEW k \in 1 .. Len(x), k \in A PROVE Load(x, A) <= limit
    <2>1. k \in Nat /\ \A i \in 1 .. Len(x) : ~ (i \in A /\ i # k)
      BY <1>1, <1>3
    <2>2. Load(x, A) <= Load(x, {}) + IF k \in A /\ k \in 1 .. Len(x) THEN x[k].minutes ELSE 0
      BY <2>1, LoadCompare
    <2>3. Load(x, {}) = 0
      BY LoadNothing
    <2>4. x[k].minutes \in Nat /\ Load(x, A) \in Nat
      BY ListFacts, LoadType DEF IsSession
    <2> QED BY <1>3, <2>2, <2>3, <2>4
  <1> QED BY <1>2, <1>3

LEMMA LoadAppend ==
  ASSUME NEW x, IsList(x), NEW y, IsList(y), Len(y) = Len(x) + 1,
         \A i \in 1 .. Len(x) : y[i] = x[i], NEW A
  PROVE  Load(y, A) = Load(x, A) + IF Len(y) \in A THEN y[Len(y)].minutes ELSE 0
  <1>1. Len(x) \in Nat /\ Len(y) \in Nat
    BY ListFacts
  <1>2. PICK f : /\ f[0] = 0 /\ Load(x, A) = f[Len(x)]
                 /\ \A n \in 1 .. Len(x) :
                      f[n] = f[n - 1] + IF n \in A THEN x[n].minutes ELSE 0
    <2>1. Len(x) \in Nat
      BY <1>1
    <2> QED BY ONLY <2>1, LoadSteps
  <1>3. PICK g : /\ g[0] = 0 /\ Load(y, A) = g[Len(y)]
                 /\ \A n \in 1 .. Len(y) :
                      g[n] = g[n - 1] + IF n \in A THEN y[n].minutes ELSE 0
    <2>1. Len(y) \in Nat
      BY <1>1
    <2> QED BY ONLY <2>1, LoadSteps
  <1> DEFINE N == {n \in Nat : n <= Len(x) => f[n] = g[n]}
  <1>4. 0 \in N
    BY <1>2, <1>3
  <1>5. ASSUME NEW n \in Nat, n \in N PROVE n + 1 \in N
    <2> SUFFICES ASSUME n + 1 <= Len(x) PROVE f[n + 1] = g[n + 1]
      OBVIOUS
    <2>1. f[n] = g[n] /\ n + 1 \in 1 .. Len(x) /\ (n + 1) - 1 = n /\ n + 1 \in 1 .. Len(y)
      BY <1>1, <1>5
    <2>2. f[n + 1] = f[n] + IF n + 1 \in A THEN x[n + 1].minutes ELSE 0
      BY <1>2, <2>1
    <2>3. g[n + 1] = g[n] + IF n + 1 \in A THEN y[n + 1].minutes ELSE 0
      BY <1>3, <2>1
    <2> QED BY <1>1, <2>1, <2>2, <2>3
  <1> HIDE DEF N
  <1>6. f[Len(x)] = g[Len(x)]
    <2>1. Len(x) \in N
      BY <1>1, <1>4, <1>5, Induction
    <2> QED BY <1>1, <2>1 DEF N
  <1>7. Len(y) \in 1 .. Len(y) /\ Len(y) - 1 = Len(x)
    BY <1>1
  <1>8. g[Len(y)] = g[Len(x)] + IF Len(y) \in A THEN y[Len(y)].minutes ELSE 0
    BY <1>3, <1>7
  <1> QED BY <1>2, <1>3, <1>6, <1>8

\* What is picked comes from different positions.
LEMMA PickedEmbeds ==
  ASSUME NEW S, NEW x \in Seq(S), NEW chosen
  PROVE  \E e : /\ \A j \in 1 .. Len(Picked(x, chosen)) :
                     e[j] \in (1 .. Len(x)) \cap chosen /\ Picked(x, chosen)[j] = x[e[j]]
                /\ \A i, j \in 1 .. Len(Picked(x, chosen)) : e[i] = e[j] => i = j
  <1>1. Len(x) \in Nat /\ DOMAIN x = 1 .. Len(x) /\ \A i \in 1 .. Len(x) : x[i] \in S
    OBVIOUS
  <1>2. PICK g : /\ g[0] = << >> /\ Picked(x, chosen) = g[Len(x)]
                 /\ \A n \in 1 .. Len(x) :
                      g[n] = IF n \in chosen THEN Append(g[n - 1], x[n]) ELSE g[n - 1]
    BY <1>1, PickedSteps
  <1> DEFINE Embeds(e, n) ==
        /\ \A j \in 1 .. Len(g[n]) : e[j] \in (1 .. n) \cap chosen /\ g[n][j] = x[e[j]]
        /\ \A i, j \in 1 .. Len(g[n]) : e[i] = e[j] => i = j
             N == {n \in Nat : n <= Len(x) => g[n] \in Seq(S) /\ \E e : Embeds(e, n)}
  <1>3. 0 \in N
    <2>1. g[0] \in Seq(S) /\ 1 .. Len(g[0]) = {}
      BY <1>2
    <2>2. Embeds(<< >>, 0)
      BY <2>1
    <2> HIDE DEF Embeds
    <2> QED BY <2>1, <2>2
  <1>4. ASSUME NEW n \in Nat, n \in N PROVE n + 1 \in N
    <2> SUFFICES ASSUME n + 1 <= Len(x)
                 PROVE  g[n + 1] \in Seq(S) /\ \E e : Embeds(e, n + 1)
      OBVIOUS
    <2>1. g[n] \in Seq(S) /\ n + 1 \in 1 .. Len(x) /\ (n + 1) - 1 = n
      BY <1>1, <1>4
    <2>2. PICK e : Embeds(e, n)
      BY <1>1, <1>4
    <2>3. g[n + 1] = IF n + 1 \in chosen THEN Append(g[n], x[n + 1]) ELSE g[n]
      BY <1>2, <2>1
    <2>4. \A i \in 1 .. n : i \in 1 .. n + 1 /\ i # n + 1
      OBVIOUS
    <2>5. CASE n + 1 \in chosen
      <3> DEFINE a == g[n]
                 b == g[n + 1]
                 m == Len(a)
                 d == [j \in 1 .. m + 1 |-> IF j = m + 1 THEN n + 1 ELSE e[j]]
      <3>1. /\ b \in Seq(S) /\ Len(b) = m + 1 /\ m \in Nat
            /\ \A j \in 1 .. m : b[j] = a[j]
            /\ b[m + 1] = x[n + 1]
        <4>1. b = Append(a, x[n + 1]) /\ x[n + 1] \in S /\ a \in Seq(S)
          BY <1>1, <2>1, <2>3, <2>5
        <4> HIDE DEF a, b
        <4> QED BY <4>1
      <3>2. /\ \A j \in 1 .. m : e[j] \in (1 .. n) \cap chosen /\ a[j] = x[e[j]]
            /\ \A i, j \in 1 .. m : e[i] = e[j] => i = j
        BY <2>2
      <3> HIDE DEF a, b, m
      <3>3. /\ d[m + 1] = n + 1 /\ \A j \in 1 .. m : d[j] = e[j]
            /\ \A j \in 1 .. m + 1 : j \in 1 .. m \/ j = m + 1
        BY <3>1
      <3>4. n + 1 \in (1 .. n + 1) \cap chosen
        BY <2>5
      <3> HIDE DEF d
      <3>5. ASSUME NEW j \in 1 .. Len(b)
            PROVE  d[j] \in (1 .. n + 1) \cap chosen /\ b[j] = x[d[j]]
        <4>1. CASE j \in 1 .. m
          BY <2>4, <3>1, <3>2, <3>3, <4>1
        <4>2. CASE j = m + 1
          BY <3>1, <3>3, <3>4, <4>2
        <4> QED BY <3>1, <3>3, <4>1, <4>2
      <3>6. ASSUME NEW i \in 1 .. Len(b), NEW j \in 1 .. Len(b), d[i] = d[j] PROVE i = j
        <4>1. \A k \in 1 .. m : d[k] # n + 1
          BY <2>4, <3>2, <3>3
        <4> QED BY <3>1, <3>2, <3>3, <3>6, <4>1
      <3>7. Embeds(d, n + 1)
        BY <3>5, <3>6 DEF b
      <3> HIDE DEF Embeds
      <3> QED BY <3>1, <3>7 DEF b
    <2>6. CASE n + 1 \notin chosen
      <3>1. g[n + 1] = g[n]
        BY <2>3, <2>6
      <3>2. Embeds(e, n + 1)
        BY <2>2, <2>4, <3>1
      <3> HIDE DEF Embeds
      <3> QED BY <2>1, <3>1, <3>2
    <2> QED BY <2>5, <2>6
  <1> HIDE DEF N
  <1>5. Len(x) \in N
    BY <1>1, <1>3, <1>4, Induction
  <1>6. \E e : Embeds(e, Len(x))
    BY <1>1, <1>5 DEF N
  <1> QED BY <1>2, <1>6

LEMMA DayPlus ==
  ASSUME NEW at \in Int, NEW n \in Nat
  PROVE  DayOf(at + n * Slots) = DayOf(at) + n
  <1> DEFINE N == {m \in Nat : DayOf(at + m * Slots) = DayOf(at) + m}
  <1>1. Slots \in Nat \ {0}
    BY CalendarAssumption
  <1>2. DayOf(at) \in Int
    BY <1>1 DEF DayOf
  <1>3. 0 \in N
    BY <1>1, <1>2
  <1>4. ASSUME NEW m \in Nat, m \in N PROVE m + 1 \in N
    <2>1. m * Slots \in Int /\ at + (m + 1) * Slots = (at + m * Slots) + Slots
      BY <1>1
    <2>2. at + m * Slots \in Int
      BY <2>1
    <2>3. DayOf((at + m * Slots) + Slots) = DayOf(at + m * Slots) + 1
      BY <2>2, NextDay
    <2>4. DayOf(at + m * Slots) = DayOf(at) + m
      BY <1>4
    <2>5. DayOf(at + (m + 1) * Slots) = DayOf(at) + (m + 1)
      BY <1>2, <2>1, <2>3, <2>4
    <2> QED BY <2>5
  <1> HIDE DEF N
  <1>5. n \in N
    BY <1>3, <1>4, Induction
  <1> QED BY <1>5 DEF N

\* Of some sessions one comes last.
LEMMA LastOfSome ==
  ASSUME NEW x, IsList(x), NEW K, K \subseteq 1 .. Len(x), K # {}
  PROVE  \E m \in K : K \subseteq UpTo(x, K, m)
  <1> DEFINE LastIn(L, m) ==
               /\ m \in L
               /\ \A j \in L : \/ x[j].at < x[m].at
                               \/ x[j].at = x[m].at /\ j <= m
             N == {n \in Nat : n <= Len(x) =>
                                 \A L \in SUBSET (1 .. n) : L # {} => \E m : LastIn(L, m)}
  <1>1. Len(x) \in Nat /\ \A i \in 1 .. Len(x) : x[i].at \in Nat
    BY ListFacts DEF IsSession
  <1>2. 0 \in N
    OBVIOUS
  <1>3. ASSUME NEW n \in Nat, n \in N PROVE n + 1 \in N
    <2> HIDE DEF LastIn
    <2> SUFFICES ASSUME n + 1 <= Len(x)
                 PROVE  \A L \in SUBSET (1 .. n + 1) : L # {} => \E m : LastIn(L, m)
      OBVIOUS
    <2> SUFFICES ASSUME NEW L \in SUBSET (1 .. n + 1), L # {}
                 PROVE  \E m : LastIn(L, m)
      OBVIOUS
    <2> DEFINE M == L \ {n + 1}
    <2>1. n <= Len(x) /\ M \in SUBSET (1 .. n)
      <3> HIDE DEF N
      <3>1. n <= Len(x)
        BY <1>1
      <3>2. ASSUME NEW j \in M PROVE j \in 1 .. n
        <4>1. j \in 1 .. n + 1 /\ j # n + 1
          OBVIOUS
        <4> HIDE DEF M
        <4> QED BY <4>1
      <3> HIDE DEF M
      <3> QED BY <3>1, <3>2
    <2> USE DEF LastIn
    <2>2. CASE M = {}
      <3>1. L = {n + 1}
        BY <2>2
      <3>2. LastIn(L, n + 1)
        BY <3>1
      <3> QED BY <3>2
    <2>3. CASE M # {}
      <3>1. PICK m : LastIn(M, m)
        <4> HIDE DEF M, LastIn
        <4> QED BY <1>3, <2>1, <2>3
      <3>2. /\ m \in 1 .. n /\ x[m].at \in Nat /\ m \in M /\ m \in L
            /\ x[n + 1].at \in Nat
            /\ \A j \in M : /\ x[j].at \in Nat /\ j \in 1 .. n
                            /\ \/ x[j].at < x[m].at
                               \/ x[j].at = x[m].at /\ j <= m
        BY <1>1, <2>1, <3>1
      <3>3. CASE n + 1 \in L /\ x[m].at <= x[n + 1].at
        <4>1. ASSUME NEW j \in L
              PROVE  x[j].at < x[n + 1].at \/ (x[j].at = x[n + 1].at /\ j <= n + 1)
          <5>1. j \in M \/ j = n + 1
            OBVIOUS
          <5> HIDE DEF M
          <5> QED BY <3>2, <3>3, <5>1
        <4>2. LastIn(L, n + 1)
          BY <3>3, <4>1
        <4> HIDE DEF LastIn
        <4> QED BY <4>2
      <3>4. CASE ~ (n + 1 \in L /\ x[m].at <= x[n + 1].at)
        <4>1. ASSUME NEW j \in L PROVE x[j].at < x[m].at \/ (x[j].at = x[m].at /\ j <= m)
          <5>1. j \in M \/ (j = n + 1 /\ n + 1 \in L)
            OBVIOUS
          <5> HIDE DEF M
          <5> QED BY <3>2, <3>4, <5>1
        <4>2. LastIn(L, m)
          BY <3>2, <4>1
        <4> HIDE DEF LastIn
        <4> QED BY <4>2
      <3> QED BY <3>3, <3>4
    <2> QED BY <2>2, <2>3
  <1> HIDE DEF N
  <1>4. Len(x) \in N
    BY <1>1, <1>2, <1>3, Induction
  <1>5. PICK m : LastIn(K, m)
    <2> HIDE DEF LastIn
    <2> QED BY <1>1, <1>4 DEF N
  <1> QED BY <1>5 DEF UpTo

-----------------------------------------------------------------------------
(* The sweep of the days                                                    *)

\* Minutes of the open sessions of a day but for the one with this id.
OthersOn(x, id, day) == Load(x, OpenOn(x, id, day))

\* What is left of a settled day fits, and no other day but the next has more.
LEMMA SettleLoads ==
  ASSUME NEW x, IsList(x), NEW id, NEW day \in Nat, NEW incoming \in Nat,
         budget \in Nat, incoming <= budget
  PROVE  LET y == Settle(x, id, day, incoming).sessions
         IN /\ IsList(y)
            /\ OthersOn(y, id, day) + incoming <= budget
            /\ \A d \in Nat \ {day, day + 1} : OthersOn(y, id, d) <= OthersOn(x, id, d)
  <1> DEFINE n == Len(x)
             occupants == OpenOn(x, id, day)
             over == Overflow(x, id, day, incoming)
             y == Settle(x, id, day, incoming).sessions
             kept == occupants \ over
  <1>1. /\ n \in Nat /\ DOMAIN x = 1 .. n /\ \A i \in 1 .. n : IsSession(x[i])
    BY ListFacts
  <1>2. IsList(y) /\ Len(y) = n
    <2>1. Postpones(x, x, id, day)
      BY DEF Postpones
    <2> HIDE DEF y
    <2>2. Postpones(x, y, id, day + 1)
      BY <2>1, PostponedDay DEF y
    <2> QED BY <2>2 DEF Postpones
  <1>3. DOMAIN y = 1 .. n
    <2> HIDE DEF y
    <2> QED BY <1>2, ListFacts
  <1>4. \A i \in 1 .. n :
          y[i] = IF i \in over THEN [x[i] EXCEPT !.at = @ + Slots] ELSE x[i]
    BY <1>1 DEF Settle, Postponed
  <1>5. \A i \in over : i \in occupants
    BY DEF Overflow
  <1>6. /\ occupants \subseteq 1 .. n
        /\ \A i \in occupants : ~x[i].done /\ DayOf(x[i].at) = day /\ (id # None => x[i].id # id)
    BY <1>1 DEF OpenOn
  <1>7. \A i \in occupants :
          i \notin over => Load(x, UpTo(x, occupants, i)) + incoming <= budget
    <2>1. \A i \in occupants :
            i \notin over => ~ (Load(x, UpTo(x, occupants, i)) + incoming > budget)
      BY DEF Overflow
    <2>2. \A S : Load(x, S) \in Nat
      BY LoadType
    <2> HIDE DEF over, occupants
    <2> QED BY <2>1, <2>2
  <1> HIDE DEF y, over, occupants
  <1>8. ASSUME NEW i \in over
        PROVE  /\ y[i].minutes = x[i].minutes /\ y[i].done = x[i].done /\ y[i].id = x[i].id
               /\ DayOf(y[i].at) = day + 1
    <2>1. i \in 1 .. n /\ IsSession(x[i]) /\ DayOf(x[i].at) = day /\ x[i].at \in Nat
      BY <1>1, <1>5, <1>6 DEF IsSession
    <2>2. y[i] = [x[i] EXCEPT !.at = x[i].at + Slots]
      BY <1>4, <2>1
    <2>3. x[i].at + Slots \in Nat
      BY <2>1, ConstantFacts
    <2>4. /\ y[i].at = x[i].at + Slots
          /\ \A f \in Fields \ {"at"} : y[i][f] = x[i][f]
      BY <2>1, <2>2, <2>3, SessionAt
    <2>5. DayOf(x[i].at + Slots) = DayOf(x[i].at) + 1
      BY <2>1, NextDay
    <2> QED BY <2>1, <2>4, <2>5 DEF Fields
  <1>9. \A i \in 1 .. n : i \notin over => y[i] = x[i]
    BY <1>4
  <1>10. OthersOn(y, id, day) <= Load(x, kept)
    <2> DEFINE A == OpenOn(y, id, day)
    <2>1. \A i \in 1 .. n : i \in A => i \in kept /\ y[i].minutes = x[i].minutes
      <3> SUFFICES ASSUME NEW i \in 1 .. n, i \in A
                   PROVE  i \in kept /\ y[i].minutes = x[i].minutes
        OBVIOUS
      <3>1. i \notin over
        <4> SUFFICES ASSUME i \in over PROVE FALSE
          OBVIOUS
        <4>1. DayOf(y[i].at) = day + 1 /\ DayOf(y[i].at) = day
          BY <1>8 DEF OpenOn
        <4> QED BY <4>1
      <3>2. y[i] = x[i]
        BY <1>9, <3>1
      <3>3. i \in occupants
        BY <1>1, <1>3, <3>2 DEF OpenOn, occupants
      <3> QED BY <3>1, <3>2, <3>3
    <2> HIDE DEF A, kept
    <2>2. Load(y, A) <= Load(x, kept)
      BY <1>2, <2>1, LoadWithin
    <2> QED BY <2>2 DEF OthersOn, A
  <1>11. Load(x, kept) + incoming <= budget
    <2>1. CASE kept = {}
      <3> HIDE DEF kept
      <3>1. Load(x, kept) = 0
        BY <2>1, LoadNothing
      <3> QED BY <3>1
    <2>2. CASE kept # {}
      <3>1. kept \subseteq 1 .. n
        BY <1>6
      <3>2. PICK m \in kept : kept \subseteq UpTo(x, kept, m)
        <4> HIDE DEF kept
        <4> QED BY <2>2, <3>1, LastOfSome
      <3>3. kept \subseteq UpTo(x, occupants, m)
        BY <3>2 DEF UpTo
      <3>4. Load(x, UpTo(x, occupants, m)) + incoming <= budget
        BY <1>7, <3>2
      <3>5. Load(x, kept) <= Load(x, UpTo(x, occupants, m))
        <4> HIDE DEF kept
        <4> QED BY <3>3, LoadWithin
      <3>6. /\ Load(x, kept) \in Nat /\ Load(x, UpTo(x, occupants, m)) \in Nat
        BY LoadType
      <3> QED BY <3>4, <3>5, <3>6
    <2> QED BY <2>1, <2>2
  <1>12. ASSUME NEW d \in Nat \ {day, day + 1}
         PROVE  OthersOn(y, id, d) <= OthersOn(x, id, d)
    <2> DEFINE A == OpenOn(y, id, d)
               B == OpenOn(x, id, d)
    <2>1. \A i \in 1 .. n : i \in A => i \in B /\ y[i].minutes = x[i].minutes
      <3> SUFFICES ASSUME NEW i \in 1 .. n, i \in A
                   PROVE  i \in B /\ y[i].minutes = x[i].minutes
        OBVIOUS
      <3>1. i \notin over
        BY <1>8 DEF OpenOn
      <3>2. y[i] = x[i]
        BY <1>9, <3>1
      <3> QED BY <1>1, <1>3, <3>2 DEF OpenOn
    <2> HIDE DEF A, B
    <2>2. Load(y, A) <= Load(x, B)
      BY <1>2, <2>1, LoadWithin
    <2> QED BY <2>2 DEF OthersOn, A, B
  <1>13. OthersOn(y, id, day) + incoming <= budget
    <2>1. OthersOn(y, id, day) \in Nat /\ Load(x, kept) \in Nat
      BY <1>2, LoadType DEF OthersOn
    <2> HIDE DEF kept
    <2> QED BY <1>10, <1>11, <2>1
  <1> QED BY <1>2, <1>12, <1>13 DEF y

\* The sweep makes room on its first day, and overloads no other.
LEMMA DisplacedLoads ==
  ASSUME NEW sessions, IsList(sessions), NEW id, NEW at \in Nat, NEW minutes \in Nat,
         exam \in Nat, budget \in Nat,
         Displaced(sessions, id, at, minutes) # None
  PROVE  LET y == Displaced(sessions, id, at, minutes)
         IN /\ OthersOn(y, id, DayOf(at)) + minutes <= budget
            /\ \A d \in Nat \ {DayOf(at)} : \/ OthersOn(y, id, d) <= budget
                                            \/ OthersOn(y, id, d) <= OthersOn(sessions, id, d)
  <1>1. PICK first, last, g :
           /\ minutes <= budget /\ first = DayOf(at)
           /\ first \in Nat /\ last \in Nat /\ first <= last
           /\ last = first \/ last = DayOf(exam)
           /\ Displaced(sessions, id, at, minutes) = g[last].sessions
           /\ g[last].settled
           /\ g[first] = Settle(sessions, id, first, minutes)
           /\ \A day \in first + 1 .. last :
                g[day] = IF g[day - 1].settled THEN g[day - 1]
                         ELSE Settle(g[day - 1].sessions, id, day, 0)
    BY SweepSteps
  <1> DEFINE Within(y, d) == \/ OthersOn(y, id, d) <= budget
                             \/ OthersOn(y, id, d) <= OthersOn(sessions, id, d)
             Good(day) ==
               /\ IsList(g[day].sessions)
               /\ OthersOn(g[day].sessions, id, first) + minutes <= budget
               /\ \A d \in Nat \ {first} :
                    g[day].settled \/ d # day + 1 => Within(g[day].sessions, d)
             S == {n \in Nat : first + n <= last => Good(first + n)}
  <1>2. 0 \in S
    <2> DEFINE y == g[first].sessions
    <2>1. /\ IsList(y) /\ OthersOn(y, id, first) + minutes <= budget
          /\ \A d \in Nat \ {first, first + 1} :
               OthersOn(y, id, d) <= OthersOn(sessions, id, d)
      BY <1>1, SettleLoads
    <2>2. g[first].settled => y = sessions
      BY <1>1, SettledDay
    <2>3. \A d : OthersOn(sessions, id, d) <= OthersOn(sessions, id, d)
      <3>1. \A d : OthersOn(sessions, id, d) \in Nat
        BY LoadType DEF OthersOn
      <3> QED BY <3>1
    <2>4. ASSUME NEW d \in Nat \ {first}, g[first].settled \/ d # first + 1 PROVE Within(y, d)
      BY <2>1, <2>2, <2>3, <2>4
    <2>5. Good(first)
      BY <2>1, <2>4
    <2>6. first + 0 = first
      BY <1>1
    <2> HIDE DEF Good
    <2> QED BY <2>5, <2>6
  <1>3. ASSUME NEW n \in Nat, n \in S PROVE n + 1 \in S
    <2> SUFFICES ASSUME first + (n + 1) <= last PROVE Good(first + (n + 1))
      OBVIOUS
    <2> DEFINE day == first + (n + 1)
               prior == g[first + n]
    <2>1. /\ day \in first + 1 .. last /\ day - 1 = first + n /\ first < day /\ day \in Nat
          /\ first + n \in Nat /\ first + n <= last /\ (first + n) + 1 = day
      BY <1>1
    <2>2. Good(first + n)
      BY <1>3, <2>1
    <2>3. g[day] = IF prior.settled THEN prior ELSE Settle(prior.sessions, id, day, 0)
      BY <1>1, <2>1
    <2>4. CASE prior.settled
      <3>1. g[day] = prior
        BY <2>3, <2>4
      <3>2. Good(day)
        BY <2>2, <2>4, <3>1
      <3> QED BY <3>2 DEF day
    <2>5. CASE ~prior.settled
      <3> DEFINE x == prior.sessions
                 y == g[day].sessions
      <3>1. g[day] = Settle(x, id, day, 0)
        BY <2>3, <2>5
      <3>2. /\ IsList(x) /\ OthersOn(x, id, first) + minutes <= budget
            /\ \A d \in Nat \ {first} : d # day => Within(x, d)
        BY <2>1, <2>2
      <3> HIDE DEF x, prior, day
      <3>3. /\ IsList(y) /\ OthersOn(y, id, day) <= budget
            /\ \A d \in Nat \ {day, day + 1} : OthersOn(y, id, d) <= OthersOn(x, id, d)
        <4>1. 0 \in Nat /\ 0 <= budget
          OBVIOUS
        <4>2. /\ IsList(y) /\ OthersOn(y, id, day) + 0 <= budget
              /\ \A d \in Nat \ {day, day + 1} : OthersOn(y, id, d) <= OthersOn(x, id, d)
          BY <2>1, <3>1, <3>2, <4>1, SettleLoads
        <4>3. OthersOn(y, id, day) \in Nat
          BY <4>2, LoadType DEF OthersOn
        <4> HIDE DEF y
        <4> QED BY <4>2, <4>3
      <3>4. g[day].settled => y = x
        BY <3>1, <3>2, SettledDay
      <3>5. \A d : /\ OthersOn(x, id, d) \in Nat /\ OthersOn(y, id, d) \in Nat
                   /\ OthersOn(sessions, id, d) \in Nat
        <4> HIDE DEF y
        <4> QED BY <3>2, <3>3, LoadType DEF OthersOn
      <3> HIDE DEF y
      <3>6. OthersOn(y, id, first) + minutes <= budget
        <4>1. first \in Nat \ {day, day + 1}
          BY <1>1, <2>1
        <4>2. OthersOn(y, id, first) <= OthersOn(x, id, first)
          BY <3>3, <4>1
        <4> QED BY <3>2, <3>5, <4>2
      <3>7. ASSUME NEW d \in Nat \ {first}, g[day].settled \/ d # day + 1 PROVE Within(y, d)
        <4>1. CASE d = day
          BY <3>3, <4>1
        <4>2. CASE d # day /\ d # day + 1
          <5>1. OthersOn(y, id, d) <= OthersOn(x, id, d) /\ Within(x, d)
            BY <3>2, <3>3, <4>2
          <5> QED BY <3>5, <5>1
        <4>3. CASE d # day /\ g[day].settled
          BY <3>2, <3>4, <4>3
        <4> QED BY <3>7, <4>1, <4>2, <4>3
      <3>8. Good(day)
        BY <3>3, <3>6, <3>7 DEF y
      <3> QED BY <3>8 DEF day
    <2> QED BY <2>4, <2>5
  <1> HIDE DEF S
  <1>4. Good(last)
    <2>1. last - first \in Nat /\ first + (last - first) = last /\ last <= last
      BY <1>1
    <2>2. last - first \in S
      BY <1>2, <1>3, <2>1, Induction
    <2> HIDE DEF Good
    <2> QED BY <2>1, <2>2 DEF S
  <1> QED BY <1>1, <1>4

-----------------------------------------------------------------------------
(* New plans have a session a day                                           *)

OneADay(x, limit) ==
  /\ \A i \in 1 .. Len(x) : x[i].minutes <= limit
  /\ \A i, j \in 1 .. Len(x) : DayOf(x[i].at) = DayOf(x[j].at) => i = j

\* A plan that a model or its fallback writes for this payload.
Daily(c, x) ==
  /\ OneADay(x, c.limit)
  /\ \A i \in 1 .. Len(x) : x[i].at % Slots = c.hour

LEMMA OneADayFits ==
  ASSUME NEW x, IsList(x), NEW limit \in Nat, OneADay(x, limit), NEW day
  PROVE  Load(x, OpenOn(x, None, day)) <= limit
  <1> DEFINE A == OpenOn(x, None, day)
  <1>1. /\ \A i, j \in 1 .. Len(x) : i \in A /\ j \in A => i = j
        /\ \A i \in 1 .. Len(x) : i \in A => x[i].minutes <= limit
    BY DEF OpenOn, OneADay
  <1> HIDE DEF A
  <1>2. Load(x, A) <= limit
    BY <1>1, LoadOfOne
  <1> QED BY <1>2 DEF A

LEMMA BuiltOneADay ==
  ASSUME NEW n, NEW x \in Nat, NEW limit \in Nat, now \in Nat, Plannable(x)
  PROVE  OneADay(BuiltPlan(n, x, limit).sessions, limit)
  <1> DEFINE y == BuiltPlan(n, x, limit).sessions
             m == DayOf(x) - DayOf(now)
  <1>1. m \in Nat /\ DayOf(now) \in Nat
    BY DayType DEF Plannable
  <1>2. DOMAIN y = 1 .. m
    BY DEF BuiltPlan
  <1>3. \A i \in 1 .. m : y[i].at = now + (i - 1) * Slots /\ y[i].minutes = limit
    BY DEF BuiltPlan
  <1>4. IsList(y)
    BY BuiltFacts DEF IsPlan
  <1> HIDE DEF y, m
  <1>5. Len(y) \in Nat /\ DOMAIN y = 1 .. Len(y)
    BY <1>4, ListFacts
  <1>6. \A i \in 1 .. m : DayOf(y[i].at) = DayOf(now) + (i - 1)
    <2> SUFFICES ASSUME NEW i \in 1 .. m PROVE DayOf(y[i].at) = DayOf(now) + (i - 1)
      OBVIOUS
    <2>1. i - 1 \in Nat
      BY <1>1
    <2>2. DayOf(now + (i - 1) * Slots) = DayOf(now) + (i - 1)
      BY <2>1, DayPlus
    <2> QED BY <1>3, <2>2
  <1>7. \A i, j \in 1 .. m : DayOf(y[i].at) = DayOf(y[j].at) => i = j
    BY <1>1, <1>6
  <1>8. OneADay(y, limit)
    <2>1. 1 .. Len(y) = 1 .. m
      BY <1>2, <1>5
    <2>2. \A i \in 1 .. m : y[i].minutes <= limit
      BY <1>3
    <2> QED BY ONLY <1>7, <2>1, <2>2 DEF OneADay
  <1> QED BY <1>8 DEF y

LEMMA RegeneratedOneADay ==
  ASSUME NEW new, IsPlan(new), NEW limit \in Nat, OneADay(new.sessions, limit), NEW done
  PROVE  OneADay(Regenerated(new, done).sessions, limit)
  <1> DEFINE x == new.sessions
             y == Regenerated(new, done).sessions
  <1>1. /\ IsList(x) /\ IsList(y) /\ DOMAIN y = DOMAIN x
        /\ \A i \in DOMAIN x : \A f \in Fields \ {"done"} : y[i][f] = x[i][f]
    BY RegeneratedFacts DEF IsPlan
  <1>2. OneADay(x, limit)
    OBVIOUS
  <1> HIDE DEF x, y
  <1>3. DOMAIN x = 1 .. Len(x) /\ DOMAIN y = 1 .. Len(y)
    BY <1>1, ListFacts
  <1>4. \A i \in 1 .. Len(y) : i \in 1 .. Len(x) /\ y[i].at = x[i].at /\ y[i].minutes = x[i].minutes
    BY <1>1, <1>3 DEF Fields
  <1>5. OneADay(y, limit)
    BY <1>2, <1>4 DEF OneADay
  <1> QED BY <1>5 DEF y

\* An hour of a day, and the time there is of an hour and a day.
LEMMA HourOfDay ==
  ASSUME NEW d \in Nat, NEW hour \in 0 .. Slots - 1
  PROVE  /\ d * Slots + hour \in Nat
         /\ DayOf(d * Slots + hour) = d /\ (d * Slots + hour) % Slots = hour
  <1> DEFINE at == d * Slots + hour
             p == at \div Slots
             r == at % Slots
  <1>1. Slots \in Nat \ {0} /\ hour \in Nat
    BY ConstantFacts
  <1>2. d * Slots \in Nat /\ d * Slots = Slots * d
    BY <1>1
  <1>3. at \in Nat
    BY <1>1, <1>2
  <1>4. at = Slots * d + hour
    BY <1>2
  <1> HIDE DEF at
  <1>5. p \in Int /\ r \in 0 .. Slots - 1 /\ at = Slots * p + r
    BY <1>1, <1>3
  <1> HIDE DEF p, r
  <1>6. p = d /\ r = hour
    <2>1. Slots * p + r = Slots * d + hour
      BY <1>4, <1>5
    <2> QED BY <1>1, <1>5, <2>1, OneQuotient
  <1> QED BY <1>3, <1>6 DEF DayOf, p, r, at

LEMMA SameTime ==
  ASSUME NEW a \in Nat, NEW b \in Nat, DayOf(a) = DayOf(b), a % Slots = b % Slots
  PROVE  a = b
  <1>1. ASSUME NEW at \in Nat PROVE at = Slots * DayOf(at) + (at % Slots)
    <2> DEFINE p == at \div Slots
               r == at % Slots
    <2>1. Slots \in Nat \ {0}
      BY ConstantFacts
    <2>2. at = Slots * p + r
      BY ONLY <2>1, at \in Nat
    <2> QED BY <2>2 DEF DayOf
  <1>2. /\ a = Slots * DayOf(a) + (a % Slots)
        /\ b = Slots * DayOf(b) + (b % Slots)
    BY <1>1
  <1> QED BY <1>2

LEMMA WrittenDaily ==
  ASSUME NEW c \in Targeted, NEW minutes \in Nat, minutes <= c.limit
  PROVE  Daily(c, Written(c, minutes).sessions)
  <1> DEFINE at == [n \in 1 .. LastDay + 1 |-> (n - 1) * Slots + c.hour]
             times == FallbackTimes(c.exam, c.hour)
             x == Written(c, minutes).sessions
  <1>1. \A n \in 1 .. LastDay + 1 :
          at[n] \in Nat /\ DayOf(at[n]) = n - 1 /\ at[n] % Slots = c.hour
    <2> SUFFICES ASSUME NEW n \in 1 .. LastDay + 1
                 PROVE  at[n] \in Nat /\ DayOf(at[n]) = n - 1 /\ at[n] % Slots = c.hour
      OBVIOUS
    <2>1. n - 1 \in Nat /\ c.hour \in 0 .. Slots - 1
      BY ConstantFacts
    <2>2. at[n] = (n - 1) * Slots + c.hour
      OBVIOUS
    <2> HIDE DEF at
    <2> QED BY <2>1, <2>2, HourOfDay
  <1>2. DOMAIN at = 1 .. LastDay + 1 /\ LastDay + 1 \in Nat
        /\ at = [n \in 1 .. LastDay + 1 |-> at[n]]
    BY ConstantFacts
  <1>3. \E chosen : times = Picked(at, chosen)
    BY DEF FallbackTimes
  <1> HIDE DEF at
  <1>4. at \in Seq(Nat) /\ Len(at) = LastDay + 1
    <2>1. at \in [1 .. LastDay + 1 -> Nat]
      BY <1>1, <1>2
    <2>2. at \in Seq(Nat)
      BY <1>2, <2>1, IsASeq
    <2> QED BY <1>2, <2>2, LenProperties
  <1>5. PICK chosen : times = Picked(at, chosen)
    BY <1>3
  <1> HIDE DEF times
  <1>6. times \in Seq(Nat)
    BY <1>4, <1>5, PickedFacts
  <1>7. PICK e : /\ \A j \in 1 .. Len(times) :
                      e[j] \in 1 .. LastDay + 1 /\ times[j] = at[e[j]]
                 /\ \A i, j \in 1 .. Len(times) : e[i] = e[j] => i = j
    <2>1. \E e : /\ \A j \in 1 .. Len(Picked(at, chosen)) :
                       /\ e[j] \in (1 .. Len(at)) \cap chosen
                       /\ Picked(at, chosen)[j] = at[e[j]]
                 /\ \A i, j \in 1 .. Len(Picked(at, chosen)) : e[i] = e[j] => i = j
      BY ONLY <1>4, PickedEmbeds
    <2> QED BY <1>4, <1>5, <2>1
  <1>8. \A i \in DOMAIN times : x[i].at = times[i] /\ x[i].minutes = minutes
    BY DEF Written, times
  <1>9. DOMAIN x = DOMAIN times
    BY DEF Written, times
  <1>10. IsList(x)
    BY WrittenFacts
  <1> HIDE DEF x
  <1>11. DOMAIN x = 1 .. Len(x) /\ DOMAIN times = 1 .. Len(times) /\ Len(times) \in Nat
    BY <1>6, <1>10, ListFacts
  <1>12. \A j \in 1 .. Len(times) :
           /\ DayOf(times[j]) = e[j] - 1 /\ times[j] % Slots = c.hour /\ e[j] \in Int
    <2> SUFFICES ASSUME NEW j \in 1 .. Len(times)
                 PROVE  /\ DayOf(times[j]) = e[j] - 1 /\ times[j] % Slots = c.hour
                        /\ e[j] \in Int
      OBVIOUS
    <2>1. e[j] \in 1 .. LastDay + 1 /\ times[j] = at[e[j]]
      BY <1>7
    <2>2. e[j] \in Int
      BY <1>2, <2>1
    <2> QED BY <1>1, <2>1, <2>2
  <1>13. \A i, j \in 1 .. Len(times) : DayOf(times[i]) = DayOf(times[j]) => i = j
    <2>1. \A i, j \in 1 .. Len(times) : DayOf(times[i]) = DayOf(times[j]) => e[i] = e[j]
      BY <1>12
    <2> QED BY <1>7, <2>1
  <1>14. Daily(c, x)
    BY <1>8, <1>9, <1>11, <1>12, <1>13 DEF Daily, OneADay
  <1> QED BY <1>14 DEF x

\* What has been written and is not stored yet has a session a day.
CallsDaily ==
  \A t \in Threads : call[t] # None => Daily(call[t].payload, call[t].plan.sessions)

LEMMA CallsDailyStep ==
  ASSUME Shape, CallsDaily, [Next]_vars
  PROVE  CallsDaily'
  <1>1. ASSUME NEW t \in Threads, NEW c \in Targeted, BeginTargeted(t, c) PROVE CallsDaily'
    <2>1. PICK minutes \in Minutes \cup {c.limit} :
             /\ minutes <= c.limit
             /\ call' = [call EXCEPT ![t] = [payload |-> c, plan |-> Written(c, minutes)]]
      BY <1>1 DEF BeginTargeted
    <2>2. Daily(c, Written(c, minutes).sessions)
      BY <2>1, ConstantFacts, WrittenDaily
    <2>3. /\ call'[t].plan.sessions = Written(c, minutes).sessions
          /\ call'[t].payload = c
          /\ \A u \in Threads \ {t} : call'[u] = call[u]
      BY <2>1 DEF Shape
    <2> QED BY <2>2, <2>3 DEF CallsDaily
  <1>2. ASSUME NEW t \in Threads, call' = [call EXCEPT ![t] = None] PROVE CallsDaily'
    <2>1. \A u \in Threads : call'[u] = None \/ call'[u] = call[u]
      BY <1>2 DEF Shape
    <2> QED BY <2>1 DEF CallsDaily
  <1>3. CASE call' = call
    BY <1>3 DEF CallsDaily
  <1>4. \A i \in Positions, payload \in Payloads : UpdateSession(i, payload) => call' = call
    BY DEF UpdateSession
  <1>5. \A t \in Threads : PutTargeted(t) => call' = [call EXCEPT ![t] = None]
    BY DEF PutTargeted
  <1>6. \A t \in Threads : RefuseTargeted(t) => call' = [call EXCEPT ![t] = None]
    BY DEF RefuseTargeted
  <1>7. /\ CreatePlan \/ AddTopic \/ ClearPlan \/ TakeAnswer \/ Tick => call' = call
        /\ \A x, limit : Regenerate(x, limit) \/ Adjust(x, limit) => call' = call
        /\ \A i, via : Ask(i, via) => call' = call
        /\ \A payload : AddSession(payload) => call' = call
        /\ \A topic : AskAbout(topic) => call' = call
        /\ \A correct : CreditAnswer(correct) => call' = call
        /\ UNCHANGED vars => call' = call
    BY DEF CreatePlan, AddTopic, ClearPlan, TakeAnswer, Tick, Regenerate, Adjust, Ask,
           AddSession, AskAbout, CreditAnswer, vars
  <1> QED BY <1>1, <1>2, <1>3, <1>4, <1>5, <1>6, <1>7 DEF Next

-----------------------------------------------------------------------------
(* The budget is kept                                                       *)

\* What a day holds is within the budget, or no more than it was.
NoWorse(p, q, limit, day) == DayLoad(q, day) <= limit \/ DayLoad(q, day) <= DayLoad(p, day)

LEMMA DayLoadType ==
  ASSUME NEW p, p # None => IsPlan(p), NEW day
  PROVE  DayLoad(p, day) \in Nat
  BY LoadType DEF DayLoad, IsPlan

LEMMA NoWorseThanSame ==
  ASSUME NEW p, p # None => IsPlan(p), NEW limit, NEW day
  PROVE  NoWorse(p, p, limit, day)
  <1>1. DayLoad(p, day) \in Nat
    BY DayLoadType
  <1> QED BY <1>1 DEF NoWorse

\* One session is put among others that leave room for it on its day.
LEMMA PlacedLoads ==
  ASSUME NEW x, IsList(x), NEW others, IsList(others), Len(others) = Len(x),
         NEW i \in 1 .. Len(x), NEW new, IsSession(new), NEW limit \in Nat, NEW d \in Nat,
         DistinctIds(x), \A j \in 1 .. Len(x) : others[j].id = x[j].id,
         LET id == x[i].id IN
           /\ OthersOn(others, id, DayOf(new.at)) + new.minutes <= limit
           /\ d # DayOf(new.at) => \/ OthersOn(others, id, d) <= limit
                                   \/ OthersOn(others, id, d) <= OthersOn(x, id, d)
  PROVE  LET y == [others EXCEPT ![i] = new]
         IN \/ Load(y, OpenOn(y, None, d)) <= limit
            \/ Load(y, OpenOn(y, None, d)) <= Load(x, OpenOn(x, None, d))
  <1> DEFINE id == x[i].id
             y == [others EXCEPT ![i] = new]
             A == OpenOn(y, None, d)
             B == OpenOn(others, id, d)
             more == IF i \in A /\ i \in 1 .. Len(y) THEN y[i].minutes ELSE 0
  <1>1. /\ IsList(y) /\ Len(y) = Len(x) /\ y[i] = new
        /\ \A j \in 1 .. Len(x) : j # i => y[j] = others[j]
    BY ListExcept
  <1> HIDE DEF y
  <1>2. /\ Len(x) \in Nat /\ DOMAIN x = 1 .. Len(x) /\ DOMAIN others = 1 .. Len(x)
        /\ DOMAIN y = 1 .. Len(x) /\ new.minutes \in Nat
    BY <1>1, ListFacts DEF IsSession
  <1>3. \A j \in 1 .. Len(y) : j \in A /\ j # i => j \in B /\ y[j].minutes = others[j].minutes
    <2> SUFFICES ASSUME NEW j \in 1 .. Len(y), j \in A, j # i
                 PROVE  j \in B /\ y[j].minutes = others[j].minutes
      OBVIOUS
    <2>1. y[j] = others[j] /\ others[j].id # id
      BY <1>1, <1>2 DEF DistinctIds
    <2> QED BY <1>1, <1>2, <2>1 DEF OpenOn
  <1>4. i \in A => d = DayOf(new.at)
    BY <1>1 DEF OpenOn
  <1>5. Load(y, A) <= OthersOn(others, id, d) + more
    <2>1. Load(others, B) = OthersOn(others, id, d)
      BY DEF OthersOn
    <2>2. i \in Nat
      BY <1>2
    <2> HIDE DEF A, B, id
    <2>3. Load(y, A) <= Load(others, B) + more
      BY <1>1, <1>3, <2>2, LoadCompare
    <2> QED BY <2>1, <2>3
  <1>6. OthersOn(x, id, d) <= Load(x, OpenOn(x, None, d))
    <2> DEFINE C == OpenOn(x, id, d)
               D == OpenOn(x, None, d)
    <2>1. \A j \in 1 .. Len(x) : j \in C => j \in D /\ x[j].minutes = x[j].minutes
      BY DEF OpenOn
    <2> HIDE DEF C, D
    <2>2. Load(x, C) <= Load(x, D)
      BY <2>1, LoadWithin
    <2> QED BY <2>2 DEF C, D, OthersOn
  <1>7. /\ Load(y, A) \in Nat /\ OthersOn(others, id, d) \in Nat
        /\ OthersOn(x, id, d) \in Nat /\ Load(x, OpenOn(x, None, d)) \in Nat
    BY <1>1, LoadType DEF OthersOn
  <1>8. /\ OthersOn(others, id, DayOf(new.at)) + new.minutes <= limit
        /\ d # DayOf(new.at) => \/ OthersOn(others, id, d) <= limit
                                \/ OthersOn(others, id, d) <= OthersOn(x, id, d)
    OBVIOUS
  <1>9. Load(y, A) <= limit \/ Load(y, A) <= Load(x, OpenOn(x, None, d))
    <2> HIDE DEF id, A
    <2>1. CASE d = DayOf(new.at)
      <3>1. more = new.minutes \/ more = 0
        BY <1>1
      <3> HIDE DEF more
      <3> QED BY <1>2, <1>5, <1>7, <1>8, <2>1, <3>1
    <2>2. CASE d # DayOf(new.at)
      <3>1. more = 0
        BY <1>4, <2>2
      <3> HIDE DEF more
      <3> QED BY <1>5, <1>6, <1>7, <1>8, <2>2, <3>1
    <2> QED BY <2>1, <2>2
  <1> QED BY <1>9 DEF y, A

\* A completed session counts for nothing.
LEMMA CompletedLoads ==
  ASSUME NEW x, IsList(x), NEW i \in 1 .. Len(x), NEW new, IsSession(new), new.done, NEW d
  PROVE  LET y == [x EXCEPT ![i] = new]
         IN Load(y, OpenOn(y, None, d)) <= Load(x, OpenOn(x, None, d))
  <1> DEFINE y == [x EXCEPT ![i] = new]
             A == OpenOn(y, None, d)
             B == OpenOn(x, None, d)
  <1>1. /\ IsList(y) /\ Len(y) = Len(x) /\ y[i] = new
        /\ \A j \in 1 .. Len(x) : j # i => y[j] = x[j]
    BY ListExcept
  <1> HIDE DEF y
  <1>2. DOMAIN x = 1 .. Len(x) /\ DOMAIN y = 1 .. Len(x)
    BY <1>1, ListFacts
  <1>3. \A j \in 1 .. Len(y) : j \in A => j \in B /\ y[j].minutes = x[j].minutes
    BY <1>1, <1>2 DEF OpenOn
  <1> HIDE DEF A, B
  <1>4. Load(y, A) <= Load(x, B)
    BY <1>1, <1>3, LoadWithin
  <1> QED BY <1>4 DEF y, A, B

LEMMA PostponedIds ==
  ASSUME NEW old, IsList(old), NEW new, NEW id, NEW day, Postpones(old, new, id, day)
  PROVE  \A j \in 1 .. Len(old) : new[j].id = old[j].id
  <1> SUFFICES ASSUME NEW j \in 1 .. Len(old) PROVE new[j].id = old[j].id
    OBVIOUS
  <1>1. IsSession(old[j])
    BY ListFacts
  <1>2. new[j] = old[j] \/ new[j] = [old[j] EXCEPT !.at = new[j].at]
    BY DEF Postpones
  <1>3. \A a : [old[j] EXCEPT !.at = a].id = old[j].id
    BY <1>1 DEF IsSession, Fields
  <1> QED BY <1>2, <1>3

LEMMA AddedLoads ==
  ASSUME NEW x, IsList(x), NEW s, IsSession(s), NEW limit \in Nat, NEW d,
         Fits(x, None, s.at, s.minutes, limit)
  PROVE  LET y == Append(x, s)
         IN \/ Load(y, OpenOn(y, None, d)) <= limit
            \/ Load(y, OpenOn(y, None, d)) <= Load(x, OpenOn(x, None, d))
  <1> DEFINE y == Append(x, s)
             A == OpenOn(y, None, d)
             B == OpenOn(x, None, d)
  <1>1. /\ IsList(y) /\ Len(y) = Len(x) + 1 /\ y[Len(y)] = s
        /\ \A j \in 1 .. Len(x) : y[j] = x[j]
    BY ListAppend
  <1> HIDE DEF y
  <1>2. /\ Len(x) \in Nat /\ DOMAIN x = 1 .. Len(x) /\ DOMAIN y = 1 .. Len(y)
        /\ s.minutes \in Nat
    BY <1>1, ListFacts DEF IsSession
  <1>3. \A j \in 1 .. Len(x) : j \in A => j \in B /\ x[j].minutes = x[j].minutes
    BY <1>1, <1>2 DEF OpenOn
  <1>4. Len(y) \in A => Load(x, B) + s.minutes <= limit
    <2> SUFFICES ASSUME Len(y) \in A PROVE Load(x, B) + s.minutes <= limit
      OBVIOUS
    <2>1. d = DayOf(s.at)
      BY <1>1 DEF OpenOn
    <2> QED BY <2>1 DEF Fits
  <1> HIDE DEF A, B
  <1>5. Load(x, A) <= Load(x, B)
    BY <1>3, LoadWithin
  <1>6. Load(y, A) = Load(x, A) + IF Len(y) \in A THEN s.minutes ELSE 0
    BY <1>1, LoadAppend
  <1>7. Load(x, A) \in Nat /\ Load(x, B) \in Nat
    BY LoadType
  <1>8. Load(y, A) <= limit \/ Load(y, A) <= Load(x, B)
    BY <1>2, <1>4, <1>5, <1>6, <1>7
  <1> QED BY <1>8 DEF y, A, B

LEMMA UpdateLoads ==
  ASSUME Shape, NEW i \in Positions, NEW payload \in Payloads, UpdateSession(i, payload),
         Verb(payload) # "reopen", DistinctIds(plan.sessions), NEW d \in Nat
  PROVE  NoWorse(plan, plan', budget, d)
  <1> DEFINE x == plan.sessions
             id == x[i].id
  <1>1. PICK others, new :
           /\ plan # None
           /\ plan' = [plan EXCEPT !.sessions = [others EXCEPT ![i] = new]]
           /\ IsPlan(plan') /\ plan'.sessions = [others EXCEPT ![i] = new]
           /\ IsSession(new) /\ IsList(others)
           /\ Len(others) = Len(x) /\ i \in 1 .. Len(others)
           /\ Postpones(x, others, id, DayOf(exam))
           /\ others = MadeRoom(x[i], new, payload) /\ others # None
           /\ new.done = Or(payload.done, x[i].done)
    BY UpdateFacts
  <1> DEFINE y == [others EXCEPT ![i] = new]
  <1>2. IsList(x) /\ budget \in Nat /\ exam \in Nat
    BY <1>1 DEF Shape, IsPlan
  <1> DEFINE Goal == \/ Load(y, OpenOn(y, None, d)) <= budget
                     \/ Load(y, OpenOn(y, None, d)) <= Load(x, OpenOn(x, None, d))
  <1>3. DayLoad(plan', d) = 0 \/ DayLoad(plan', d) = Load(y, OpenOn(y, None, d))
    BY <1>1 DEF DayLoad
  <1>4. Goal => NoWorse(plan, plan', budget, d)
    BY <1>1, <1>2, <1>3 DEF NoWorse, DayLoad
  <1>5. IsSession(x[i]) /\ i \in 1 .. Len(x) /\ new.at \in Nat /\ new.minutes \in Nat
    <2>1. i \in 1 .. Len(x) /\ IsSession(new)
      BY <1>1
    <2>2. IsSession(x[i])
      <3> HIDE DEF x
      <3> QED BY <1>2, <2>1, ListFacts
    <2> QED BY <2>1, <2>2 DEF IsSession
  <1>6. \A j \in 1 .. Len(x) : others[j].id = x[j].id
    BY <1>1, <1>2, PostponedIds
  <1>7. ASSUME OthersOn(others, id, DayOf(new.at)) + new.minutes <= budget,
               d # DayOf(new.at) => \/ OthersOn(others, id, d) <= budget
                                    \/ OthersOn(others, id, d) <= OthersOn(x, id, d)
        PROVE  Goal
    BY <1>1, <1>2, <1>5, <1>6, <1>7, PlacedLoads
  <1>8. CASE new.done
    <2>1. others = x
      BY <1>1, <1>8 DEF MadeRoom
    <2>2. Goal
      BY <1>1, <1>2, <1>5, <1>8, <2>1, CompletedLoads
    <2> QED BY <1>4, <2>2
  <1>9. CASE ~new.done
    <2>1. ~ (x[i].done /\ payload.at = None /\ payload.minutes = None)
      <3> SUFFICES ASSUME x[i].done, payload.at = None PROVE FALSE
        OBVIOUS
      <3>1. x[i].done = TRUE /\ new.done = FALSE
        BY <1>1, <1>5, <1>9 DEF IsSession
      <3>2. payload.done = FALSE
        BY <1>1, <3>1 DEF Or
      <3> QED BY <3>2 DEF Verb
    <2>2. \/ others = Displaced(x, id, new.at, new.minutes)
          \/ others = x /\ Fits(x, id, new.at, new.minutes, budget)
      <3>1. others = IF payload.displace /\ DayOf(new.at) # DayOf(x[i].at)
                       THEN Displaced(x, id, new.at, new.minutes)
                     ELSE IF Fits(x, id, new.at, new.minutes, budget) THEN x ELSE None
        BY <1>1, <1>9, <2>1 DEF MadeRoom
      <3> HIDE DEF x, id
      <3> QED BY <1>1, <3>1
    <2> HIDE DEF Goal, id, x
    <2>3. CASE others = Displaced(x, id, new.at, new.minutes)
      <3>1. /\ OthersOn(others, id, DayOf(new.at)) + new.minutes <= budget
            /\ \A e \in Nat \ {DayOf(new.at)} :
                 \/ OthersOn(others, id, e) <= budget
                 \/ OthersOn(others, id, e) <= OthersOn(x, id, e)
        BY <1>1, <1>2, <1>5, <2>3, DisplacedLoads
      <3> QED BY <1>4, <1>7, <3>1
    <2>4. CASE others = x /\ Fits(x, id, new.at, new.minutes, budget)
      <3>1. OthersOn(x, id, DayOf(new.at)) + new.minutes <= budget
        BY <2>4 DEF Fits, OthersOn
      <3>2. OthersOn(x, id, d) \in Nat
        BY <1>2, LoadType DEF OthersOn
      <3>3. OthersOn(x, id, d) <= OthersOn(x, id, d)
        BY <3>2
      <3> QED BY <1>4, <1>7, <2>4, <3>1, <3>3
    <2> QED BY <2>2, <2>3, <2>4
  <1> QED BY <1>8, <1>9

Embeds(e, x, chosen) ==
  /\ \A j \in 1 .. Len(Picked(x, chosen)) :
       e[j] \in (1 .. Len(x)) \cap chosen /\ Picked(x, chosen)[j] = x[e[j]]
  /\ \A i, j \in 1 .. Len(Picked(x, chosen)) : e[i] = e[j] => i = j

LEMMA PickedListEmbeds ==
  ASSUME NEW x, IsList(x), NEW chosen
  PROVE  \E e : Embeds(e, x, chosen)
  <1>1. PICK S : x \in Seq(S) /\ \A s \in S : IsSession(s)
    BY DEF IsList
  <1>2. PICK e : /\ \A j \in 1 .. Len(Picked(x, chosen)) :
                      e[j] \in (1 .. Len(x)) \cap chosen /\ Picked(x, chosen)[j] = x[e[j]]
                 /\ \A i, j \in 1 .. Len(Picked(x, chosen)) : e[i] = e[j] => i = j
    BY <1>1, PickedEmbeds
  <1> QED BY <1>2 DEF Embeds

\* What is kept for a payload and what is added to it have one open session a
\* day: the added ones by Daily, the kept one as it has its hour, too.
LEMMA MergedLoads ==
  ASSUME NEW c \in Targeted, NEW old, IsList(old), DistinctIds(old), NEW asked,
         \A i \in 1 .. Len(old) : asked # None /\ old[i].id = asked => Compatible(old[i], c),
         NEW new, IsList(new), Daily(c, new), NEW Keep, NEW Add,
         \A i \in 1 .. Len(old) : i \in Keep => Protected(old[i], asked),
         \A j \in 1 .. Len(new) : j \in Add =>
           \A i \in 1 .. Len(Picked(old, Keep)) : Picked(old, Keep)[i].at # new[j].at,
         NEW d
  PROVE  LET y == Picked(old, Keep) \o Picked(new, Add)
         IN Load(y, OpenOn(y, None, d)) <= c.limit
  <1> DEFINE kept == Picked(old, Keep)
             added == Picked(new, Add)
             y == kept \o added
             k == Len(kept)
             A == OpenOn(y, None, d)
  <1>e. PICK e : Embeds(e, old, Keep)
    BY PickedListEmbeds
  <1>1. /\ \A j \in 1 .. Len(kept) :
             e[j] \in (1 .. Len(old)) \cap Keep /\ kept[j] = old[e[j]]
        /\ \A i, j \in 1 .. Len(kept) : e[i] = e[j] => i = j
    BY ONLY <1>e DEF Embeds
  <1>f. PICK f : Embeds(f, new, Add)
    BY PickedListEmbeds
  <1>2. /\ \A j \in 1 .. Len(added) :
             f[j] \in (1 .. Len(new)) \cap Add /\ added[j] = new[f[j]]
        /\ \A i, j \in 1 .. Len(added) : f[i] = f[j] => i = j
    BY ONLY <1>f DEF Embeds
  <1>3. \A j \in 1 .. Len(new) : j \in Add => \A i \in 1 .. k : kept[i].at # new[j].at
    OBVIOUS
  <1>4. IsList(kept) /\ IsList(added)
    BY PickedList
  <1> HIDE DEF kept, added
  <1>5. /\ IsList(y) /\ Len(y) = k + Len(added)
        /\ \A i \in 1 .. k : y[i] = kept[i]
        /\ \A i \in k + 1 .. k + Len(added) : y[i] = added[i - k]
    BY <1>4, ListConcat
  <1> HIDE DEF y
  <1>6. /\ k = Len(kept) /\ k \in Nat /\ Len(added) \in Nat /\ DOMAIN old = 1 .. Len(old)
        /\ \A i \in 1 .. k : kept[i].at \in Nat
        /\ \A i \in 1 .. Len(new) : new[i].at \in Nat
        /\ c.limit \in Nat
    BY <1>4, ListFacts, ConstantFacts DEF IsSession
  <1> HIDE DEF k
  <1>7. ASSUME NEW i \in 1 .. k, i \in A
        PROVE  /\ asked # None /\ old[e[i]].id = asked /\ e[i] \in 1 .. Len(old)
               /\ y[i] = kept[i] /\ kept[i].minutes <= c.limit
               /\ kept[i].at % Slots = c.hour /\ DayOf(kept[i].at) = d
    <2>1. y[i] = kept[i] /\ kept[i] = old[e[i]] /\ e[i] \in 1 .. Len(old) /\ e[i] \in Keep
      BY <1>1, <1>5, <1>6
    <2>2. ~kept[i].done /\ DayOf(kept[i].at) = d
      BY <1>7, <2>1 DEF OpenOn
    <2>3. asked # None /\ old[e[i]].id = asked
      BY <2>1, <2>2 DEF Protected
    <2>4. Compatible(old[e[i]], c)
      BY <2>1, <2>3
    <2> QED BY <2>1, <2>2, <2>3, <2>4 DEF Compatible
  <1>8. ASSUME NEW i \in k + 1 .. k + Len(added), i \in A
        PROVE  /\ i - k \in 1 .. Len(added) /\ f[i - k] \in 1 .. Len(new) /\ f[i - k] \in Add
               /\ y[i] = new[f[i - k]] /\ y[i].minutes <= c.limit
               /\ y[i].at % Slots = c.hour /\ DayOf(y[i].at) = d
    <2>1. i - k \in 1 .. Len(added)
      BY <1>6
    <2>2. y[i] = new[f[i - k]] /\ f[i - k] \in 1 .. Len(new) /\ f[i - k] \in Add
      BY <1>2, <1>5, <2>1
    <2>3. DayOf(y[i].at) = d
      BY <1>8 DEF OpenOn
    <2>4. /\ new[f[i - k]].minutes <= c.limit /\ new[f[i - k]].at % Slots = c.hour
      BY <2>2 DEF Daily, OneADay
    <2> QED BY <2>1, <2>2, <2>3, <2>4
  <1>9. \A i \in 1 .. Len(y) : i \in 1 .. k \/ i \in k + 1 .. k + Len(added)
    BY <1>5, <1>6
  <1>10. \A i \in 1 .. Len(y) : i \in A => y[i].minutes <= c.limit
    BY <1>7, <1>8, <1>9
  <1>11. ASSUME NEW i \in 1 .. k, i \in A, NEW j \in k + 1 .. k + Len(added), j \in A
         PROVE  FALSE
    <2> DEFINE a == kept[i].at
               b == new[f[j - k]].at
    <2>1. DayOf(a) = DayOf(b) /\ a % Slots = b % Slots /\ f[j - k] \in 1 .. Len(new)
          /\ f[j - k] \in Add
      BY <1>7, <1>8, <1>11
    <2>2. a \in Nat /\ b \in Nat /\ a # b
      BY <1>3, <1>6, <2>1
    <2> HIDE DEF a, b
    <2> QED BY <2>1, <2>2, SameTime
  <1>12. ASSUME NEW i \in 1 .. k, i \in A, NEW j \in 1 .. k, j \in A PROVE i = j
    <2>1. /\ e[i] \in 1 .. Len(old) /\ e[j] \in 1 .. Len(old)
          /\ old[e[i]].id = old[e[j]].id
      BY <1>7, <1>12
    <2>2. e[i] = e[j]
      BY <1>6, <2>1 DEF DistinctIds
    <2> QED BY <1>1, <1>6, <2>2
  <1>13. ASSUME NEW i \in k + 1 .. k + Len(added), i \in A,
                NEW j \in k + 1 .. k + Len(added), j \in A
         PROVE  i = j
    <2>1. /\ f[i - k] \in 1 .. Len(new) /\ f[j - k] \in 1 .. Len(new)
          /\ DayOf(new[f[i - k]].at) = DayOf(new[f[j - k]].at)
          /\ i - k \in 1 .. Len(added) /\ j - k \in 1 .. Len(added)
      BY <1>8, <1>13
    <2>2. f[i - k] = f[j - k]
      BY <2>1 DEF Daily, OneADay
    <2>3. i - k = j - k
      BY <1>2, <2>1, <2>2
    <2> QED BY <1>6, <2>3
  <1>14. \A i, j \in 1 .. Len(y) : i \in A /\ j \in A => i = j
    BY <1>9, <1>11, <1>12, <1>13
  <1> HIDE DEF A
  <1>15. Load(y, A) <= c.limit
    BY <1>5, <1>6, <1>10, <1>14, LoadOfOne
  <1> QED BY <1>15 DEF A, y, kept, added

LEMMA PutLoads ==
  ASSUME Shape, CallsDaily, NEW t \in Threads, PutTargeted(t),
         ~Replayed(call[t].payload.key), DistinctIds(OldSessions), NEW d
  PROVE  DayLoad(plan', d) <= budget'
  <1> DEFINE c == call[t].payload
             old == OldSessions
             session == IF pending = None THEN None ELSE pending.session
             suits == session # None =>
                        \A i \in DOMAIN old : old[i].id = session => Compatible(old[i], c)
             asked == IF suits THEN session ELSE None
             Keep == {i \in DOMAIN old : Protected(old[i], asked)}
             kept == Picked(old, Keep)
             taken == {kept[i].id : i \in DOMAIN kept}
             clashing == {kept[i].at : i \in DOMAIN kept}
             new == call[t].plan.sessions
             Add == {i \in DOMAIN new : new[i].id \notin taken /\ new[i].at \notin clashing}
             added == Picked(new, Add)
             y == kept \o added
  <1>1. /\ call[t] # None /\ budget' = c.limit
        /\ \E id : plan' = [id |-> id, sessions |-> y]
    BY DEF PutTargeted
  <1>2. IsList(new) /\ c \in Targeted /\ Daily(c, new)
    BY <1>1 DEF Shape, CallsDaily
  <1>3. IsList(old) /\ DistinctIds(old)
    BY EmptyList DEF Shape, OldSessions, IsPlan
  <1> HIDE DEF old, new, c, y
  <1>4. plan'.sessions = y
    BY <1>1
  <1>5. DOMAIN old = 1 .. Len(old)
    BY <1>3, ListFacts
  <1>6. \A i \in 1 .. Len(old) : asked # None /\ old[i].id = asked => Compatible(old[i], c)
    BY <1>5
  <1>7. \A i \in 1 .. Len(old) : i \in Keep => Protected(old[i], asked)
    OBVIOUS
  <1> HIDE DEF asked, Keep
  <1>8. \A j \in 1 .. Len(new) : j \in Add =>
          \A i \in 1 .. Len(Picked(old, Keep)) : Picked(old, Keep)[i].at # new[j].at
    <2>1. DOMAIN kept = 1 .. Len(kept)
      <3>1. IsList(kept)
        BY <1>3, PickedList
      <3> HIDE DEF kept
      <3> QED BY <3>1, ListFacts
    <2> QED BY <2>1
  <1> HIDE DEF Add
  <1>9. Load(Picked(old, Keep) \o Picked(new, Add),
             OpenOn(Picked(old, Keep) \o Picked(new, Add), None, d)) <= c.limit
    BY <1>2, <1>3, <1>6, <1>7, <1>8, MergedLoads
  <1>10. Load(y, OpenOn(y, None, d)) <= c.limit
    BY <1>9 DEF y
  <1>11. DayLoad(plan', d) = 0 \/ DayLoad(plan', d) = Load(y, OpenOn(y, None, d))
    BY <1>4 DEF DayLoad
  <1>12. c.limit \in Nat
    BY <1>2, ConstantFacts
  <1> QED BY <1>1, <1>10, <1>11, <1>12

\* A new plan of one session a day, as long as the budget.
LEMMA NewPlanLoads ==
  ASSUME NEW n, NEW x \in Nat, NEW limit \in Nat, now \in Nat, Plannable(x), NEW d,
         NEW p, p = BuiltPlan(n, x, limit)
                \/ \E done : p = Regenerated(BuiltPlan(n, x, limit), done)
  PROVE  DayLoad(p, d) <= limit
  <1> DEFINE b == BuiltPlan(n, x, limit)
  <1>1. IsPlan(b) /\ OneADay(b.sessions, limit)
    BY BuiltFacts, BuiltOneADay
  <1>2. p = b \/ \E done : p = Regenerated(b, done)
    OBVIOUS
  <1> HIDE DEF b
  <1>3. IsPlan(p) /\ OneADay(p.sessions, limit)
    BY <1>1, <1>2, RegeneratedFacts, RegeneratedOneADay
  <1>4. Load(p.sessions, OpenOn(p.sessions, None, d)) <= limit
    BY <1>3, OneADayFits DEF IsPlan
  <1> QED BY <1>4 DEF DayLoad

\* Whatever request it is, but a reopening or an answer, no day gets worse.
LEMMA BudgetStep ==
  ASSUME Shape, CallsDaily, Next, reply'.op \notin {"reopen", "answer"},
         DistinctIds(OldSessions), NEW d \in Nat
  PROVE  NoWorse(plan, plan', budget', d)
  <1> DEFINE Goal == NoWorse(plan, plan', budget', d)
  <1>1. now \in Nat /\ exam \in Nat /\ budget \in Nat /\ (plan # None => IsPlan(plan))
    BY DEF Shape
  <1>2. plan' = plan => Goal
    BY <1>1, NoWorseThanSame
  <1>3. DayLoad(plan', d) <= budget' => Goal
    BY DEF NoWorse
  <1> HIDE DEF Goal
  <1>4. ASSUME CreatePlan PROVE Goal
    <2>1. Plannable(exam) /\ plan' = BuiltPlan(topics, exam, budget) /\ budget' = budget
      BY <1>4 DEF CreatePlan
    <2>2. DayLoad(plan', d) <= budget
      BY <1>1, <2>1, NewPlanLoads
    <2> QED BY <1>3, <2>1, <2>2
  <1>5. ASSUME AddTopic PROVE Goal
    <2>1. CASE plan = None
      BY <1>2, <1>5, <2>1 DEF AddTopic
    <2>2. CASE plan # None
      <3>1. /\ Plannable(exam) /\ budget' = budget
            /\ \E done : plan' = Regenerated(BuiltPlan(topics + 1, exam, budget), done)
        BY <1>5, <2>2 DEF AddTopic
      <3>2. DayLoad(plan', d) <= budget
        BY <1>1, <3>1, NewPlanLoads
      <3> QED BY <1>3, <3>1, <3>2
    <2> QED BY <2>1, <2>2
  <1>6. ASSUME ClearPlan PROVE Goal
    <2>1. plan' = None /\ budget' = budget
      BY <1>6 DEF ClearPlan
    <2>2. DayLoad(plan', d) = 0
      BY <2>1 DEF DayLoad
    <2> QED BY <1>1, <1>3, <2>1, <2>2
  <1>7. ASSUME NEW x \in Exams, NEW limit \in Budgets, Regenerate(x, limit) PROVE Goal
    <2>1. /\ Plannable(x) /\ budget' = limit
          /\ \E done : plan' = Regenerated(BuiltPlan(topics, x, limit), done)
      BY <1>7 DEF Regenerate
    <2>2. x \in Nat /\ limit \in Nat
      BY ConstantFacts
    <2>3. DayLoad(plan', d) <= limit
      BY <1>1, <2>1, <2>2, NewPlanLoads
    <2> QED BY <1>3, <2>1, <2>3
  <1>8. ASSUME NEW x \in Exams, NEW limit \in Budgets, Adjust(x, limit) PROVE Goal
    BY <1>2, <1>8 DEF Adjust
  <1>9. ASSUME NEW i \in Positions, NEW payload \in Payloads, UpdateSession(i, payload)
        PROVE  Goal
    <2>1. budget' = budget /\ reply' = Answer(Verb(payload)) /\ plan # None
      BY <1>9 DEF UpdateSession, Write, Positions
    <2>2. Verb(payload) # "reopen"
      BY <2>1 DEF Answer
    <2>3. DistinctIds(plan.sessions)
      BY <2>1 DEF OldSessions
    <2>4. NoWorse(plan, plan', budget, d)
      BY <1>9, <2>2, <2>3, UpdateLoads
    <2> QED BY <2>1, <2>4 DEF Goal
  <1>10. ASSUME NEW payload \in Additions, AddSession(payload) PROVE Goal
    <2> DEFINE s == [id |-> <<"manual-session", plan.id, payload.topic, payload.at,
                             Len(plan.sessions)>>,
                     topic |-> payload.topic, at |-> payload.at, minutes |-> payload.minutes,
                     activity |-> payload.activity, done |-> FALSE]
               x == plan.sessions
               y == Append(x, s)
    <2>1. /\ plan # None /\ plan' = [plan EXCEPT !.sessions = y] /\ budget' = budget
          /\ Fits(x, None, s.at, s.minutes, budget)
      BY <1>10 DEF AddSession
    <2>2. IsSession(s)
      BY ConstantFacts DEF IsSession, Fields
    <2>3. IsPlan(plan) /\ IsList(x)
      BY <1>1, <2>1 DEF IsPlan
    <2> HIDE DEF s
    <2>4. \/ Load(y, OpenOn(y, None, d)) <= budget
          \/ Load(y, OpenOn(y, None, d)) <= Load(x, OpenOn(x, None, d))
      BY <1>1, <2>1, <2>2, <2>3, AddedLoads
    <2> HIDE DEF y
    <2>5. plan'.sessions = y
      BY <2>1, <2>3 DEF IsPlan
    <2>6. DayLoad(plan', d) = 0 \/ DayLoad(plan', d) = Load(y, OpenOn(y, None, d))
      BY <2>5 DEF DayLoad
    <2>7. DayLoad(plan, d) = Load(x, OpenOn(x, None, d))
      BY <2>1 DEF DayLoad
    <2> QED BY <1>1, <2>1, <2>4, <2>6, <2>7 DEF Goal, NoWorse
  <1>11. ASSUME NEW t \in Threads, PutTargeted(t) PROVE Goal
    <2>1. CASE Replayed(call[t].payload.key)
      BY <1>2, <1>11, <2>1 DEF PutTargeted
    <2>2. CASE ~Replayed(call[t].payload.key)
      BY <1>3, <1>11, <2>2, PutLoads
    <2> QED BY <2>1, <2>2
  <1>12. ASSUME NEW correct, CreditAnswer(correct) PROVE FALSE
    <2>1. \/ \E topic, at : reply' = [op |-> "answer", topic |-> topic, at |-> at]
          \/ reply' = Answer("answer")
      BY <1>12 DEF CreditAnswer
    <2> QED BY <2>1 DEF Answer
  <1>13. /\ TakeAnswer \/ Tick => plan' = plan
         /\ \A i, via : Ask(i, via) => plan' = plan
         /\ \A topic : AskAbout(topic) => plan' = plan
         /\ \A t, c : BeginTargeted(t, c) => plan' = plan
         /\ \A t : RefuseTargeted(t) => plan' = plan
    BY DEF TakeAnswer, Tick, Ask, AskAbout, BeginTargeted, RefuseTargeted
  <1>14. Goal
    BY <1>2, <1>4, <1>5, <1>6, <1>7, <1>8, <1>9, <1>10, <1>11, <1>12, <1>13 DEF Next
  <1> QED BY <1>14 DEF Goal

\* BudgetKept: no request but a reopening and an answer brings a day of open
\* sessions above the budget, or adds to one that is above it, as long as the
\* sessions of the plan have different ids.
THEOREM BudgetsAreKept == Spec => BudgetKept
  <1> DEFINE Within == reply'.op \notin {"reopen", "answer"} /\ DistinctIds(OldSessions) =>
                         \A day \in 0 .. LastDay :
                           DayLoad(plan', day) <= Max({budget', DayLoad(plan, day)})
  <1>1. Init => CallsDaily
    BY DEF Init, CallsDaily
  <1>2. Shape /\ CallsDaily /\ [Next]_vars => CallsDaily'
    BY CallsDailyStep
  <1>3. Shape /\ Shape' /\ CallsDaily /\ [Next]_vars => [Within]_vars
    <2> SUFFICES ASSUME Shape, Shape', CallsDaily, Next,
                        reply'.op \notin {"reopen", "answer"}, DistinctIds(OldSessions),
                        NEW day \in 0 .. LastDay
                 PROVE  DayLoad(plan', day) <= Max({budget', DayLoad(plan, day)})
      OBVIOUS
    <2>1. day \in Nat
      BY ConstantFacts
    <2>2. NoWorse(plan, plan', budget', day)
      BY <2>1, BudgetStep
    <2>3. budget' \in Nat /\ DayLoad(plan, day) \in Nat /\ DayLoad(plan', day) \in Nat
      <3>1. /\ budget' \in Nat /\ (plan # None => IsPlan(plan))
            /\ (plan' # None => IsPlan(plan'))
        BY DEF Shape
      <3> QED BY <3>1, DayLoadType
    <2>4. Max({budget', DayLoad(plan, day)}) =
            IF budget' >= DayLoad(plan, day) THEN budget' ELSE DayLoad(plan, day)
      BY <2>3, MaxOfTwo
    <2> QED BY <2>2, <2>3, <2>4 DEF NoWorse
  <1>4. BudgetKept <=> [][Within]_vars
    BY DEF BudgetKept
  <1> HIDE DEF Within
  <1> QED BY <1>1, <1>2, <1>3, <1>4, ShapeKept, PTL DEF Spec
=============================================================================
