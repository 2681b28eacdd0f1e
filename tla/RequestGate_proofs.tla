--------------------------- MODULE RequestGate_proofs ---------------------------
(***************************************************************************)
(* Proofs about RequestGate: the counters of upload slots are what they     *)
(* count, whatever the tokens of the uploads become meanwhile; and no key    *)
(* is served more than its limit in a window, whatever becomes of the table  *)
(* of keys.                                                                 *)
(***************************************************************************)
EXTENDS RequestGate, FiniteSetTheorems, SequenceTheorems, TLAPS

Shape ==
  /\ upload \in [Uploads -> Upload \cup {None}]
  /\ activeGlobal \in Nat
  /\ activeByOwner \in [Owners -> Nat]

IInv == Shape /\ SlotsBalance

\* The time a receive may take is never negative.
LEMMA BudgetNat ==
  ASSUME NEW spent \in 0 .. TotalTime
  PROVE  Budget(spent) \in Nat
  BY GateAssumption DEF Budget

\* A step that keeps uploads and their owners keeps the balance.
LEMMA SameUploads ==
  ASSUME IInv, upload' \in [Uploads -> Upload \cup {None}], UNCHANGED slots,
         \A u \in Uploads :
           /\ upload'[u] = None <=> upload[u] = None
           /\ upload[u] # None => upload'[u].owner = upload[u].owner
  PROVE  IInv'
  <1>1. InFlight' = InFlight
    BY DEF InFlight
  <1>2. \A o \in Owners : InFlightOf(o)' = InFlightOf(o)
    BY <1>1 DEF InFlightOf, InFlight
  <1> QED BY <1>1, <1>2 DEF IInv, Shape, SlotsBalance, slots

\* A step of one upload that stays under way.
LEMMA SameUpload ==
  ASSUME IInv, NEW u \in Uploads, upload[u] # None, UNCHANGED slots,
         NEW v \in Upload, v.owner = upload[u].owner,
         upload' = [upload EXCEPT ![u] = v]
  PROVE  IInv'
  <1>1. upload' \in [Uploads -> Upload \cup {None}]
    BY DEF IInv, Shape
  <1>2. \A w \in Uploads :
          /\ upload'[w] = None <=> upload[w] = None
          /\ upload[w] # None => upload'[w].owner = upload[w].owner
    BY GateAssumption DEF IInv, Shape
  <1> QED BY <1>1, <1>2, SameUploads

\* The uploads of an owner are finitely many, and so are all of them.
LEMMA FiniteFlight ==
  /\ IsFiniteSet(InFlight) /\ Cardinality(InFlight) \in Nat
  /\ \A o \in Owners : /\ IsFiniteSet(InFlightOf(o))
                        /\ Cardinality(InFlightOf(o)) \in Nat
  <1>1. \A S \in SUBSET Uploads : IsFiniteSet(S) /\ Cardinality(S) \in Nat
    BY GateAssumption, FS_Subset, FS_CardinalityType
  <1>2. InFlight \in SUBSET Uploads
    BY DEF InFlight
  <1>3. \A o \in Owners : InFlightOf(o) \in SUBSET Uploads
    BY DEF InFlight, InFlightOf
  <1> QED BY <1>1, <1>2, <1>3

LEMMA OwnerKeyIsOwner ==
  ASSUME NEW c \in Credentials
  PROVE  OwnerKey(c) \in Owners
  BY DEF OwnerKey, Owners

LEMMA InitIInv == Init => IInv
  <1> SUFFICES ASSUME Init PROVE IInv
    OBVIOUS
  <1>1. InFlight = {}
    BY DEF Init, InFlight
  <1>2. \A o \in Owners : InFlightOf(o) = {}
    BY <1>1 DEF InFlightOf
  <1>3. Shape
    BY DEF Init, Shape
  <1>4. Cardinality({}) = 0
    BY FS_EmptySet
  <1>5. activeGlobal = 0 /\ \A o \in Owners : activeByOwner[o] = 0
    BY DEF Init
  <1>6. \A o \in Owners : Cardinality(InFlightOf(o)) = 0
    BY <1>2, <1>4
  <1>7. SlotsBalance
    BY <1>1, <1>4, <1>5, <1>6, GateAssumption DEF SlotsBalance
  <1> QED BY <1>3, <1>7 DEF IInv

\* A finite set with an element more, and with one less.
LEMMA OneMore ==
  ASSUME NEW S, NEW x, IsFiniteSet(S), x \notin S
  PROVE  Cardinality(S \cup {x}) = Cardinality(S) + 1
  BY FS_AddElement

LEMMA OneFewer ==
  ASSUME NEW S, NEW x, IsFiniteSet(S), x \in S
  PROVE  /\ Cardinality(S \ {x}) = Cardinality(S) - 1
         /\ Cardinality(S) # 0
  <1>1. Cardinality(S \ {x}) = Cardinality(S) - 1
    BY FS_RemoveElement
  <1>2. Cardinality(S) # 0
    BY FS_EmptySet
  <1> QED BY <1>1, <1>2

LEMMA AdmitStep ==
  ASSUME IInv, NEW u \in Uploads, NEW c \in Credentials, Admit(u, c)
  PROVE  IInv'
  <1>1. PICK key \in Owners : key = OwnerKey(c)
    BY OwnerKeyIsOwner
  <1> DEFINE v == [credential |-> c, owner |-> key, phase |-> "admitted",
                   spent |-> 0, left |-> 0, size |-> 0]
  <1>2. v \in Upload /\ v.owner = key
    BY <1>1, GateAssumption DEF Upload
  <1>3. /\ upload[u] = None /\ upload' = [upload EXCEPT ![u] = v]
        /\ activeGlobal' = activeGlobal + 1 /\ activeGlobal < MaxGlobal
        /\ activeByOwner' = [activeByOwner EXCEPT ![key] = @ + 1]
        /\ activeByOwner[key] < MaxPerOwner
    BY <1>1 DEF Admit
  <1> HIDE DEF v
  <1>4. Shape'
    BY <1>1, <1>2, <1>3 DEF IInv, Shape
  <1>5. InFlight' = InFlight \cup {u} /\ u \notin InFlight
    BY <1>2, <1>3, GateAssumption DEF InFlight, IInv, Shape
  <1>6. InFlightOf(key)' = InFlightOf(key) \cup {u} /\ u \notin InFlightOf(key)
    <2>1. upload'[u] = v /\ \A w \in Uploads \ {u} : upload'[w] = upload[w]
      BY <1>3 DEF IInv, Shape
    <2>2. InFlightOf(key)' = {w \in InFlight' : upload'[w].owner = key}
      BY DEF InFlightOf
    <2>3. InFlightOf(key) = {w \in InFlight : upload[w].owner = key}
      BY DEF InFlightOf
    <2>4. InFlight \subseteq Uploads
      BY DEF InFlight
    <2> QED BY <1>2, <1>5, <2>1, <2>2, <2>3, <2>4
  <1>7. \A x \in Owners \ {key} : InFlightOf(x)' = InFlightOf(x)
    BY <1>2, <1>3, <1>5 DEF InFlightOf, InFlight, IInv, Shape
  <1>8. /\ Cardinality(InFlight') = Cardinality(InFlight) + 1
        /\ Cardinality(InFlightOf(key)') = Cardinality(InFlightOf(key)) + 1
    <2>1. Cardinality(InFlight') = Cardinality(InFlight) + 1
      BY <1>5, FiniteFlight, OneMore
    <2>2. Cardinality(InFlightOf(key)') = Cardinality(InFlightOf(key)) + 1
      BY <1>1, <1>6, FiniteFlight, OneMore
    <2> QED BY <2>1, <2>2
  <1>9. SlotsBalance'
    <2>1. activeGlobal' = Cardinality(InFlight') /\ activeGlobal' <= MaxGlobal
      BY <1>3, <1>8, GateAssumption DEF IInv, Shape, SlotsBalance
    <2>2. /\ activeByOwner'[key] = Cardinality(InFlightOf(key)')
          /\ activeByOwner'[key] <= MaxPerOwner
      BY <1>1, <1>3, <1>8, GateAssumption DEF IInv, Shape, SlotsBalance
    <2>3. \A x \in Owners \ {key} :
            /\ activeByOwner'[x] = Cardinality(InFlightOf(x)')
            /\ activeByOwner'[x] <= MaxPerOwner
      BY <1>3, <1>7 DEF IInv, Shape, SlotsBalance
    <2>4. \A x \in Owners :
            /\ activeByOwner'[x] = Cardinality(InFlightOf(x)')
            /\ activeByOwner'[x] <= MaxPerOwner
      BY <2>2, <2>3
    <2> QED BY <2>1, <2>4 DEF SlotsBalance
  <1> QED BY <1>4, <1>9 DEF IInv

LEMMA FinishStep ==
  ASSUME IInv, NEW u \in Uploads, Finish(u)
  PROVE  IInv'
  <1>1. PICK key \in Owners : upload[u] \in Upload /\ key = upload[u].owner
    BY DEF Finish, IInv, Shape, Upload
  <1>2. /\ upload[u] # None /\ upload' = [upload EXCEPT ![u] = None]
        /\ activeGlobal' = OneLess(activeGlobal)
        /\ activeByOwner' = [activeByOwner EXCEPT ![key] = OneLess(@)]
    BY <1>1 DEF Finish, OwnerKept
  <1>3. InFlight' = InFlight \ {u} /\ u \in InFlight
    BY <1>2 DEF InFlight, IInv, Shape
  <1>4. InFlightOf(key)' = InFlightOf(key) \ {u} /\ u \in InFlightOf(key)
    <2>1. \A w \in Uploads \ {u} : upload'[w] = upload[w]
      BY <1>2 DEF IInv, Shape
    <2>2. InFlightOf(key)' = {w \in InFlight' : upload'[w].owner = key}
      BY DEF InFlightOf
    <2>3. InFlightOf(key) = {w \in InFlight : upload[w].owner = key}
      BY DEF InFlightOf
    <2>4. InFlight \subseteq Uploads
      BY DEF InFlight
    <2> QED BY <1>1, <1>3, <2>1, <2>2, <2>3, <2>4
  <1>5. \A x \in Owners \ {key} : InFlightOf(x)' = InFlightOf(x)
    BY <1>1, <1>2, <1>3 DEF InFlightOf, InFlight, IInv, Shape
  <1>6. /\ Cardinality(InFlight') = Cardinality(InFlight) - 1
        /\ Cardinality(InFlight) \in Nat \ {0}
    BY <1>3, FiniteFlight, OneFewer
  <1>7. /\ Cardinality(InFlightOf(key)') = Cardinality(InFlightOf(key)) - 1
        /\ Cardinality(InFlightOf(key)) \in Nat \ {0}
    BY <1>1, <1>4, FiniteFlight, OneFewer
  <1>8. Shape'
    BY <1>1, <1>2 DEF IInv, Shape, OneLess
  <1>9. SlotsBalance'
    <2>1. activeGlobal' = Cardinality(InFlight') /\ activeGlobal' <= MaxGlobal
      BY <1>2, <1>6, GateAssumption DEF IInv, Shape, SlotsBalance, OneLess
    <2>2. /\ activeByOwner'[key] = Cardinality(InFlightOf(key)')
          /\ activeByOwner'[key] <= MaxPerOwner
      BY <1>1, <1>2, <1>7, GateAssumption DEF IInv, Shape, SlotsBalance, OneLess
    <2>3. \A x \in Owners \ {key} :
            /\ activeByOwner'[x] = Cardinality(InFlightOf(x)')
            /\ activeByOwner'[x] <= MaxPerOwner
      BY <1>2, <1>5 DEF IInv, Shape, SlotsBalance
    <2>4. \A x \in Owners :
            /\ activeByOwner'[x] = Cardinality(InFlightOf(x)')
            /\ activeByOwner'[x] <= MaxPerOwner
      BY <2>2, <2>3
    <2> QED BY <2>1, <2>4 DEF SlotsBalance
  <1> QED BY <1>8, <1>9 DEF IInv

\* A declared size that is too large, or the checks of the windows.
LEMMA StartStep ==
  ASSUME IInv, NEW u \in Uploads, Start(u)
  PROVE  IInv'
  <1>1. upload[u] \in Upload /\ upload[u] # None /\ UNCHANGED slots
    BY DEF Start, IInv, Shape
  <1>2. Budget(0) \in Nat
    BY GateAssumption, BudgetNat
  <1>3. CASE upload' = [upload EXCEPT ![u].phase = "ending"]
    <2> DEFINE v == [upload[u] EXCEPT !.phase = "ending"]
    <2>1. v \in Upload /\ v.owner = upload[u].owner
      BY <1>1 DEF Upload
    <2>2. upload' = [upload EXCEPT ![u] = v]
      BY <1>3
    <2> QED BY <1>1, <2>1, <2>2, SameUpload
  <1>4. ASSUME NEW request \in UploadRequests,
               upload' = [upload EXCEPT
                 ![u].phase = IF Served(request) THEN "reading" ELSE "ending",
                 ![u].left = Budget(0)]
        PROVE  IInv'
    <2> DEFINE phase == IF Served(request) THEN "reading" ELSE "ending"
               v == [upload[u] EXCEPT !.phase = phase, !.left = Budget(0)]
    <2>1. v \in Upload /\ v.owner = upload[u].owner
      BY <1>1, <1>2 DEF Upload
    <2>2. upload' = [upload EXCEPT ![u] = v]
      BY <1>1, <1>4 DEF IInv, Shape, Upload
    <2> QED BY <1>1, <2>1, <2>2, SameUpload
  <1> QED BY <1>3, <1>4 DEF Start

LEMMA ReceiveStep ==
  ASSUME IInv, NEW u \in Uploads, NEW bytes \in 0 .. 1, Receive(u, bytes)
  PROVE  IInv'
  <1>1. upload[u] \in Upload /\ upload[u] # None /\ UNCHANGED slots
    BY DEF Receive, IInv, Shape
  <1> DEFINE size == upload[u].size + bytes
             budget == Budget(upload[u].spent)
  <1>2. size \in Nat /\ budget \in Nat
    BY <1>1, BudgetNat DEF Upload
  <1>3. PICK phase \in {"reading", "working", "ending"} :
          upload' = [upload EXCEPT ![u].size = size, ![u].phase = phase,
                                   ![u].left = budget]
    BY DEF Receive
  <1> DEFINE v == [upload[u] EXCEPT !.size = size, !.phase = phase, !.left = budget]
  <1>4. upload' = [upload EXCEPT ![u] = v]
    BY <1>1, <1>3 DEF IInv, Shape, Upload
  <1>5. v \in Upload /\ v.owner = upload[u].owner
    <2> HIDE DEF size, budget
    <2> QED BY <1>1, <1>2 DEF Upload
  <1> QED BY <1>1, <1>4, <1>5, SameUpload

\* The body took too long, or its client left.
LEMMA EndStep ==
  ASSUME IInv, NEW u \in Uploads, BodyTimeout(u) \/ Disconnect(u)
  PROVE  IInv'
  <1>1. /\ upload[u] \in Upload /\ upload[u] # None /\ UNCHANGED slots
        /\ upload' = [upload EXCEPT ![u].phase = "ending"]
    BY DEF BodyTimeout, Disconnect, IInv, Shape
  <1> DEFINE v == [upload[u] EXCEPT !.phase = "ending"]
  <1>2. v \in Upload /\ v.owner = upload[u].owner
    BY <1>1 DEF Upload
  <1>3. upload' = [upload EXCEPT ![u] = v]
    BY <1>1
  <1> QED BY <1>1, <1>2, <1>3, SameUpload

LEMMA TickStep ==
  ASSUME IInv, Tick
  PROVE  IInv'
  <1>1. \A v \in Upload : Waiting(v) \in Upload /\ Waiting(v).owner = v.owner
    <2> SUFFICES ASSUME NEW v \in Upload
                 PROVE  Waiting(v) \in Upload /\ Waiting(v).owner = v.owner
      OBVIOUS
    <2>1. /\ v.spent \in 0 .. TotalTime /\ v.left \in Nat
          /\ TotalTime \in Nat
      BY GateAssumption DEF Upload
    <2>2. OneLess(v.left) \in Nat
      BY <2>1 DEF OneLess
    <2>3. (IF v.spent < TotalTime THEN v.spent + 1 ELSE v.spent) \in 0 .. TotalTime
      BY <2>1
    <2> QED BY <2>2, <2>3 DEF Waiting, Upload
  <1>2. upload' = [u \in Uploads |->
          IF upload[u] # None /\ upload[u].phase = "reading"
            THEN Waiting(upload[u]) ELSE upload[u]]
    BY DEF Tick
  <1>3. upload' \in [Uploads -> Upload \cup {None}]
    BY <1>1, <1>2 DEF IInv, Shape
  <1>4. \A u \in Uploads :
          /\ upload'[u] = None <=> upload[u] = None
          /\ upload[u] # None => upload'[u].owner = upload[u].owner
    BY <1>1, <1>2, GateAssumption DEF IInv, Shape
  <1>5. UNCHANGED slots
    BY DEF Tick
  <1> QED BY <1>3, <1>4, <1>5, SameUploads

\* A step that concerns no upload.
LEMMA OtherStep ==
  ASSUME IInv, UNCHANGED <<slots, upload>>
  PROVE  IInv'
  BY DEF IInv, Shape, SlotsBalance, slots, InFlight, InFlightOf

LEMMA NextIInv == IInv /\ [Next]_vars => IInv'
  <1> SUFFICES ASSUME IInv, [Next]_vars PROVE IInv'
    OBVIOUS
  <1>1. ASSUME NEW request \in WebRequests, Web(request) PROVE IInv'
    BY <1>1, OtherStep DEF Web
  <1>2. ASSUME NEW request \in EvaluationRequests, Evaluate(request) PROVE IInv'
    BY <1>2, OtherStep DEF Evaluate
  <1>3. ASSUME NEW c \in Credentials, ChangeToken(c) PROVE IInv'
    BY <1>3, OtherStep DEF ChangeToken
  <1>4. ASSUME NEW u \in Uploads, NEW c \in Credentials, Admit(u, c) PROVE IInv'
    BY <1>4, AdmitStep
  <1>5. ASSUME NEW u \in Uploads, Start(u) PROVE IInv'
    BY <1>5, StartStep
  <1>6. ASSUME NEW u \in Uploads, NEW bytes \in 0 .. 1, Receive(u, bytes) PROVE IInv'
    BY <1>6, ReceiveStep
  <1>7. ASSUME NEW u \in Uploads, BodyTimeout(u) \/ Disconnect(u) PROVE IInv'
    BY <1>7, EndStep
  <1>8. ASSUME NEW u \in Uploads, Finish(u) PROVE IInv'
    BY <1>8, FinishStep
  <1>9. CASE Tick
    BY <1>9, TickStep
  <1>10. CASE UNCHANGED vars
    BY <1>10, OtherStep DEF vars
  <1> QED BY <1>1, <1>2, <1>3, <1>4, <1>5, <1>6, <1>7, <1>8, <1>9, <1>10 DEF Next

\* Whatever becomes of the tokens, of the clients and of the checks while uploads
\* are under way, the counters of the middleware are the uploads it let in, and
\* never more than the limits: no slot is lost, and none is given twice.
THEOREM SlotsAlwaysBalance == Spec => []SlotsBalance
  <1>1. IInv => SlotsBalance
    BY DEF IInv
  <1> QED BY InitIInv, NextIInv, <1>1, PTL DEF Spec
-----------------------------------------------------------------------------
(* Induction over the checks of a request                                   *)

\* The segments below the members of a set of numbers are finite sets, of which
\* one is the smallest.
LEMMA LeastNatural ==
  ASSUME NEW S \in SUBSET Nat, S # {}
  PROVE  \E n \in S : \A m \in S : n <= m
  <1> DEFINE Segments == {0 .. n : n \in S}
             R == StrictSubsetOrdering(Int)
             F == FiniteSubsetsOf(Int)
  <1>1. IsWellFoundedOn(R, F)
    BY FS_StrictSubsetOrderingWellFounded
  <1>2. Segments \subseteq F
    <2>1. \A n \in S : IsFiniteSet(0 .. n)
      BY FS_Interval
    <2>2. \A n \in S : 0 .. n \in F
      BY <2>1 DEF FiniteSubsetsOf
    <2> HIDE DEF F
    <2> QED BY <2>2
  <1>3. Segments # {}
    OBVIOUS
  <1>4. \E A \in Segments : \A B \in Segments : <<B, A>> \notin R
    <2> HIDE DEF Segments, R, F
    <2> QED BY <1>1, <1>2, <1>3, WFMin
  <1>5. PICK n \in S : \A m \in S : <<0 .. m, 0 .. n>> \notin R
    BY <1>4
  <1>6. ASSUME NEW m \in S, m < n PROVE FALSE
    <2>1. 0 .. m \subseteq 0 .. n /\ n \in 0 .. n /\ n \notin 0 .. m
      BY <1>6
    <2>2. 0 .. m \in SUBSET Int /\ 0 .. n \in SUBSET Int /\ 0 .. m # 0 .. n
      BY <2>1
    <2>3. <<0 .. m, 0 .. n>> \in R
      BY <2>1, <2>2 DEF StrictSubsetOrdering
    <2> QED BY <1>5, <2>3
  <1> QED BY <1>6

\* A set with 0, and with n + 1 for every n in it, has all numbers.
LEMMA Induction ==
  ASSUME NEW S, 0 \in S, \A n \in Nat : n \in S => n + 1 \in S
  PROVE  \A n \in Nat : n \in S
  <1> SUFFICES ASSUME Nat \ S # {} PROVE FALSE
    OBVIOUS
  <1>1. PICK n \in Nat \ S : \A m \in Nat \ S : n <= m
    <2> DEFINE D == Nat \ S
    <2> D \in SUBSET Nat /\ D # {}
      OBVIOUS
    <2> HIDE DEF D
    <2>1. \E n \in D : \A m \in D : n <= m
      BY LeastNatural
    <2> QED BY <2>1 DEF D
  <1>2. n # 0 /\ n - 1 \in Nat /\ ~ (n <= n - 1) /\ n = (n - 1) + 1
    OBVIOUS
  <1>3. n - 1 \in S
    BY <1>1, <1>2
  <1> QED BY <1>2, <1>3

\* The windows after each check are what After says: the checks are finitely
\* many, so there is a function of that form.
LEMMA AfterStep ==
  ASSUME NEW events, NEW request, Len(request) \in Nat
  PROVE  /\ After(events, request)[0] = events
         /\ \A n \in 1 .. Len(request) :
              After(events, request)[n] =
                Checked(After(events, request)[n - 1], request[n])
  <1> DEFINE Form(g, m) ==
        g = [n \in 0 .. m |-> IF n = 0 THEN events ELSE Checked(g[n - 1], request[n])]
             S == {m \in Nat : \E g : Form(g, m)}
  <1>1. 0 \in S
    <2> DEFINE g == [n \in 0 .. 0 |-> events]
    <2>1. Form(g, 0)
      OBVIOUS
    <2> QED BY <2>1
  <1>2. ASSUME NEW m \in Nat, m \in S PROVE m + 1 \in S
    <2>1. PICK g : Form(g, m)
      BY <1>2
    <2> DEFINE h == [n \in 0 .. m + 1 |->
                      IF n <= m THEN g[n] ELSE Checked(g[m], request[m + 1])]
    <2>2. \A n \in 0 .. m :
            g[n] = IF n = 0 THEN events ELSE Checked(g[n - 1], request[n])
      BY <2>1
    <2>3. \A n \in 0 .. m + 1 :
            h[n] = IF n = 0 THEN events ELSE Checked(h[n - 1], request[n])
      <3> SUFFICES ASSUME NEW n \in 0 .. m + 1
                   PROVE  h[n] = IF n = 0 THEN events ELSE Checked(h[n - 1], request[n])
        OBVIOUS
      <3>1. CASE n = 0
        BY <2>2, <3>1
      <3>2. CASE n \in 1 .. m
        <4>1. h[n] = g[n] /\ h[n - 1] = g[n - 1]
          BY <3>2
        <4> QED BY <2>2, <3>2, <4>1
      <3>3. CASE n = m + 1
        <4>1. h[n] = Checked(g[m], request[m + 1]) /\ h[n - 1] = g[m]
          BY <3>3
        <4> QED BY <3>3, <4>1
      <3> QED BY <3>1, <3>2, <3>3
    <2>4. Form(h, m + 1)
      BY <2>3
    <2>5. m + 1 \in Nat
      OBVIOUS
    <2> HIDE DEF h, Form
    <2> QED BY <2>4, <2>5
  <1> HIDE DEF S
  <1>3. \A m \in Nat : m \in S
    BY <1>1, <1>2, Induction
  <1>4. \E g : Form(g, Len(request))
    BY <1>3 DEF S
  <1>5. Form(After(events, request), Len(request))
    BY <1>4 DEF After
  <1> HIDE DEF S
  <1> DEFINE A == After(events, request)
  <1>6. A = [n \in 0 .. Len(request) |->
              IF n = 0 THEN events ELSE Checked(A[n - 1], request[n])]
    BY <1>5
  <1> HIDE DEF A
  <1>7. A[0] = events /\ \A n \in 1 .. Len(request) : A[n] = Checked(A[n - 1], request[n])
    BY <1>6
  <1> QED BY <1>7 DEF A
-----------------------------------------------------------------------------
(* The windows                                                              *)

\* The oldest first.
Sorted(ages) == \A i, j \in 1 .. Len(ages) : i <= j => ages[j] <= ages[i]

\* The ages of requests that were served in the window.
InWindow(ages) ==
  /\ ages \in Seq(Nat) /\ Sorted(ages)
  /\ \A i \in 1 .. Len(ages) : ages[i] < Window

\* Of the events that a limiter keeps for a key the last ones stand for the
\* requests served: there are as many, and none of them is older.
Covers(ages, s) ==
  /\ Len(s) <= Len(ages)
  /\ \A i \in 1 .. Len(s) : ages[Len(ages) - Len(s) + i] <= s[i]

\* A limiter counts, for each of its keys, what was served.
Counts(events, keys, s) ==
  /\ events \in [keys -> Seq(Nat)]
  /\ \A k \in keys : Sorted(events[k]) /\ Covers(events[k], s[k])

\* What leaves the window is a beginning of the events.
LEMMA LiveIsEnd ==
  ASSUME NEW ages \in Seq(Nat)
  PROVE  \E d \in 0 .. Len(ages) :
           /\ Live(ages) \in Seq(Nat) /\ Len(Live(ages)) = Len(ages) - d
           /\ \A i \in 1 .. Len(ages) - d : Live(ages)[i] = ages[i + d]
           /\ \A i \in 1 .. d : ~IsLive(ages[i])
           /\ d < Len(ages) => IsLive(ages[d + 1])
  <1> DEFINE IsFirst(n) == /\ \A i \in 1 .. n - 1 : ~IsLive(ages[i])
                           /\ n <= Len(ages) => IsLive(ages[n])
             S == {n \in 1 .. Len(ages) + 1 : n <= Len(ages) => IsLive(ages[n])}
  <1>1. Len(ages) \in Nat
    OBVIOUS
  <1>2. PICK n \in S : \A m \in S : n <= m
    <2>1. S \in SUBSET Nat /\ Len(ages) + 1 \in S
      BY <1>1
    <2> HIDE DEF S
    <2> QED BY <2>1, LeastNatural
  <1>3. n \in 1 .. Len(ages) + 1 /\ IsFirst(n)
    <2>1. ASSUME NEW i \in 1 .. n - 1 PROVE ~IsLive(ages[i])
      BY <1>1, <1>2
    <2> QED BY <1>1, <1>2, <2>1
  <1> HIDE DEF S
  <1>4. PICK first \in 1 .. Len(ages) + 1 :
          IsFirst(first) /\ Live(ages) = SubSeq(ages, first, Len(ages))
    <2> DEFINE c == CHOOSE x \in 1 .. Len(ages) + 1 : IsFirst(x)
    <2>1. c \in 1 .. Len(ages) + 1 /\ IsFirst(c)
      BY <1>3
    <2>2. Live(ages) = SubSeq(ages, c, Len(ages))
      BY DEF Live
    <2> HIDE DEF c
    <2> QED BY <2>1, <2>2
  <1> DEFINE d == first - 1
  <1>5. \A i \in first .. Len(ages) : ages[i] \in Nat
    OBVIOUS
  <1>6. /\ Live(ages) \in Seq(Nat)
        /\ Len(Live(ages)) = IF first <= Len(ages) THEN Len(ages) - first + 1 ELSE 0
        /\ \A i \in 1 .. Len(ages) - first + 1 : Live(ages)[i] = ages[first + i - 1]
    <2>1. first \in Int /\ Len(ages) \in Int
      BY <1>1
    <2> QED BY <1>4, <1>5, <2>1, SubSeqProperties
  <1>7. d \in 0 .. Len(ages) /\ Len(Live(ages)) = Len(ages) - d
    BY <1>1, <1>6
  <1>8. \A i \in 1 .. Len(ages) - d : Live(ages)[i] = ages[i + d]
    BY <1>1, <1>6
  <1>9. \A i \in 1 .. d : ~IsLive(ages[i])
    BY <1>4
  <1>10. d < Len(ages) => IsLive(ages[d + 1])
    BY <1>1, <1>4
  <1> QED BY <1>6, <1>7, <1>8, <1>9, <1>10

LEMMA LiveSorted ==
  ASSUME NEW ages \in Seq(Nat), Sorted(ages)
  PROVE  /\ Live(ages) \in Seq(Nat) /\ Sorted(Live(ages))
         /\ Len(Live(ages)) <= Len(ages)
         /\ \A i \in 1 .. Len(Live(ages)) : IsLive(Live(ages)[i])
  <1>1. PICK d \in 0 .. Len(ages) :
          /\ Live(ages) \in Seq(Nat) /\ Len(Live(ages)) = Len(ages) - d
          /\ \A i \in 1 .. Len(ages) - d : Live(ages)[i] = ages[i + d]
          /\ d < Len(ages) => IsLive(ages[d + 1])
    BY LiveIsEnd
  <1>2. \A i \in 1 .. Len(ages) - d : i + d \in 1 .. Len(ages) /\ d + 1 \in 1 .. Len(ages)
    OBVIOUS
  <1>3. Sorted(Live(ages))
    <2>1. ASSUME NEW i \in 1 .. Len(Live(ages)), NEW j \in 1 .. Len(Live(ages)), i <= j
          PROVE  Live(ages)[j] <= Live(ages)[i]
      <3>1. i + d \in 1 .. Len(ages) /\ j + d \in 1 .. Len(ages) /\ i + d <= j + d
        BY <1>1, <2>1
      <3>2. ages[j + d] <= ages[i + d]
        BY <3>1 DEF Sorted
      <3>3. Live(ages)[i] = ages[i + d] /\ Live(ages)[j] = ages[j + d]
        BY <1>1
      <3> QED BY <3>2, <3>3
    <2> QED BY <2>1 DEF Sorted
  <1>4. ASSUME NEW i \in 1 .. Len(Live(ages)) PROVE IsLive(Live(ages)[i])
    <2>1. Live(ages)[i] = ages[i + d] /\ ages[i + d] <= ages[d + 1] /\ ages[d + 1] < Window
      BY <1>1, <1>2 DEF Sorted, IsLive
    <2>2. ages[i + d] \in Nat /\ ages[d + 1] \in Nat /\ Window \in Nat
      BY <1>1, <1>2, GateAssumption
    <2> QED BY <2>1, <2>2 DEF IsLive
  <1> QED BY <1>1, <1>3, <1>4

\* What stands for a request served in the window has not left it.
LEMMA LiveCovers ==
  ASSUME NEW ages \in Seq(Nat), NEW s, InWindow(s), Covers(ages, s)
  PROVE  Covers(Live(ages), s)
  <1>1. PICK d \in 0 .. Len(ages) :
          /\ Live(ages) \in Seq(Nat) /\ Len(Live(ages)) = Len(ages) - d
          /\ \A i \in 1 .. Len(ages) - d : Live(ages)[i] = ages[i + d]
          /\ \A i \in 1 .. d : ~IsLive(ages[i])
    BY LiveIsEnd
  <1>2. Len(s) \in Nat /\ Len(ages) \in Nat /\ Len(s) <= Len(ages)
    BY DEF InWindow, Covers
  <1>3. Len(s) <= Len(ages) - d
    <2>1. CASE Len(s) = 0
      BY <1>2, <2>1
    <2>2. CASE Len(s) > 0
      <3> DEFINE n == Len(ages) - Len(s) + 1
      <3>1. n \in 1 .. Len(ages) /\ ages[n] <= s[1] /\ s[1] < Window
        BY <1>2, <2>2 DEF Covers, InWindow
      <3>2. ages[n] \in Nat /\ s[1] \in Nat /\ Window \in Nat
        BY <1>2, <2>2, <3>1, GateAssumption DEF InWindow
      <3>3. IsLive(ages[n])
        BY <3>1, <3>2 DEF IsLive
      <3>4. ~ (n <= d)
        BY <1>1, <3>1, <3>3
      <3> QED BY <1>2, <3>4
    <2> QED BY <1>2, <2>1, <2>2
  <1>4. ASSUME NEW i \in 1 .. Len(s)
        PROVE  Live(ages)[Len(Live(ages)) - Len(s) + i] <= s[i]
    <2> DEFINE n == Len(Live(ages)) - Len(s) + i
    <2>1. n \in 1 .. Len(ages) - d /\ n + d = Len(ages) - Len(s) + i
      BY <1>1, <1>2, <1>3
    <2>2. Live(ages)[n] = ages[n + d]
      BY <1>1, <2>1
    <2>3. ages[Len(ages) - Len(s) + i] <= s[i]
      BY DEF Covers
    <2> QED BY <2>1, <2>2, <2>3
  <1> QED BY <1>1, <1>3, <1>4 DEF Covers

\* An event now is the youngest.
LEMMA AppendSorted ==
  ASSUME NEW ages \in Seq(Nat), Sorted(ages)
  PROVE  Append(ages, 0) \in Seq(Nat) /\ Sorted(Append(ages, 0))
  BY DEF Sorted

\* One that stands for no request, since another key refused it.
LEMMA CoversMore ==
  ASSUME NEW ages \in Seq(Nat), Sorted(ages), NEW s \in Seq(Nat), Covers(ages, s)
  PROVE  Covers(Append(ages, 0), s)
  <1>1. /\ Len(s) \in Nat /\ Len(ages) \in Nat /\ Len(s) <= Len(ages)
        /\ Len(Append(ages, 0)) = Len(ages) + 1
    BY DEF Covers
  <1>2. ASSUME NEW i \in 1 .. Len(s)
        PROVE  Append(ages, 0)[Len(ages) + 1 - Len(s) + i] <= s[i]
    <2>1. CASE i = Len(s)
      BY <1>1, <2>1
    <2>2. CASE i < Len(s)
      <3> DEFINE n == Len(ages) - Len(s) + i
      <3>1. n \in 1 .. Len(ages) /\ n + 1 \in 1 .. Len(ages)
        BY <1>1, <2>2
      <3>2. ages[n] <= s[i]
        BY DEF Covers
      <3>3. Len(ages) + 1 - Len(s) + i = n + 1
        BY <1>1
      <3> HIDE DEF n
      <3>4. n <= n + 1
        BY <3>1
      <3>5. ages[n + 1] <= ages[n]
        BY <3>1, <3>4 DEF Sorted
      <3>6. Append(ages, 0)[n + 1] = ages[n + 1]
        BY <3>1
      <3>7. ages[n + 1] \in Nat /\ ages[n] \in Nat /\ s[i] \in Nat
        BY <3>1
      <3>8. ages[n + 1] <= s[i]
        BY <3>2, <3>5, <3>7
      <3> QED BY <3>3, <3>6, <3>8
    <2>3. i = Len(s) \/ i < Len(s)
      BY <1>1
    <2> QED BY <2>1, <2>2, <2>3
  <1> DEFINE t == Append(ages, 0)
  <1>3. Len(t) = Len(ages) + 1 /\ Len(s) <= Len(t)
    BY <1>1
  <1>4. \A i \in 1 .. Len(s) : t[Len(ages) + 1 - Len(s) + i] <= s[i]
    BY <1>2
  <1> HIDE DEF t
  <1>5. Covers(t, s)
    BY <1>3, <1>4 DEF Covers
  <1> QED BY <1>5 DEF t

\* One that stands for a request that is served.
LEMMA CoversBoth ==
  ASSUME NEW ages \in Seq(Nat), NEW s \in Seq(Nat), Covers(ages, s)
  PROVE  Covers(Append(ages, 0), Append(s, 0))
  <1>1. /\ Len(s) \in Nat /\ Len(ages) \in Nat /\ Len(s) <= Len(ages)
        /\ Len(Append(ages, 0)) = Len(ages) + 1 /\ Len(Append(s, 0)) = Len(s) + 1
    BY DEF Covers
  <1>2. ASSUME NEW i \in 1 .. Len(s) + 1
        PROVE  Append(ages, 0)[Len(ages) - Len(s) + i] <= Append(s, 0)[i]
    <2>1. CASE i = Len(s) + 1
      BY <1>1, <2>1
    <2>2. CASE i <= Len(s)
      <3> DEFINE n == Len(ages) - Len(s) + i
      <3>1. n \in 1 .. Len(ages)
        BY <1>1, <2>2
      <3>2. ages[n] <= s[i]
        BY <1>1, <2>2 DEF Covers
      <3> QED BY <1>1, <2>2, <3>1, <3>2
    <2>3. i = Len(s) + 1 \/ i <= Len(s)
      BY <1>1
    <2> QED BY <2>1, <2>2, <2>3
  <1> DEFINE t == Append(ages, 0)
             r == Append(s, 0)
  <1>3. /\ Len(r) = Len(s) + 1 /\ Len(r) <= Len(t)
        /\ \A i \in 1 .. Len(s) + 1 : Len(t) - Len(r) + i = Len(ages) - Len(s) + i
    BY <1>1
  <1>4. \A i \in 1 .. Len(s) + 1 : t[Len(ages) - Len(s) + i] <= r[i]
    BY <1>2
  <1> HIDE DEF t, r
  <1>5. Covers(t, r)
    BY <1>3, <1>4 DEF Covers
  <1> QED BY <1>5 DEF t, r

LEMMA AppendInWindow ==
  ASSUME NEW s, InWindow(s)
  PROVE  InWindow(Append(s, 0))
  BY AppendSorted, GateAssumption DEF InWindow

-----------------------------------------------------------------------------
(* The checks of one request                                                *)

\* A key that gains nothing by a check keeps what was served, and one that does
\* stands for a request more, if there is room for it in the limit.
LEMMA CheckCounts ==
  ASSUME NEW keys, NEW events, NEW s, NEW k \in keys, Counts(events, keys, s),
         \A j \in keys : InWindow(s[j])
  PROVE  /\ Counts(Checked(events, k), keys, s)
         /\ Allowed(events, k) =>
              /\ Covers(Checked(events, k)[k], Append(s[k], 0))
              /\ Limit[k] \in Nat => Len(s[k]) < Limit[k]
  <1> DEFINE purged == Purged(events, k)
             live == Live(purged[k])
  <1>1. Counts(purged, keys, s)
    <2>1. CASE purged = events
      BY <2>1
    <2>2. CASE purged = [j \in DOMAIN events |-> Live(events[j])]
      <3>1. purged = [j \in keys |-> Live(events[j])]
        BY <2>2 DEF Counts
      <3>2. ASSUME NEW j \in keys
            PROVE  /\ Live(events[j]) \in Seq(Nat) /\ Sorted(Live(events[j]))
                   /\ Covers(Live(events[j]), s[j])
        BY LiveSorted, LiveCovers DEF Counts
      <3> HIDE DEF purged
      <3> QED BY <3>1, <3>2 DEF Counts
    <2> QED BY <2>1, <2>2 DEF Purged
  <1>2. HasRoom(purged, k) \/ ~HasRoom(purged, k)
    OBVIOUS
  <1>3. Allowed(events, k) <=> HasRoom(purged, k) /\ Len(live) < Limit[k]
    BY DEF Allowed
  <1>4. Checked(events, k) =
          IF ~HasRoom(purged, k) THEN purged
            ELSE [purged EXCEPT ![k] =
                    IF Allowed(events, k) THEN Append(live, 0) ELSE live]
    BY DEF Checked
  <1>5. /\ purged[k] \in Seq(Nat) /\ Sorted(purged[k]) /\ Covers(purged[k], s[k])
        /\ s[k] \in Seq(Nat)
    BY <1>1 DEF Counts, InWindow
  <1> HIDE DEF purged
  <1>6. live \in Seq(Nat) /\ Sorted(live) /\ Covers(live, s[k])
    BY <1>5, LiveSorted, LiveCovers
  <1> HIDE DEF live
  <1>7. /\ Append(live, 0) \in Seq(Nat) /\ Sorted(Append(live, 0))
        /\ Covers(Append(live, 0), s[k]) /\ Covers(Append(live, 0), Append(s[k], 0))
    BY <1>5, <1>6, AppendSorted, CoversMore, CoversBoth
  <1>8. CASE ~HasRoom(purged, k)
    BY <1>1, <1>3, <1>4, <1>8
  <1>9. CASE HasRoom(purged, k) /\ ~Allowed(events, k)
    <2>1. Checked(events, k) = [purged EXCEPT ![k] = live]
      BY <1>4, <1>9
    <2> QED BY <1>1, <1>6, <1>9, <2>1 DEF Counts
  <1>10. CASE Allowed(events, k)
    <2> DEFINE more == Append(live, 0)
    <2>1. Checked(events, k) = [purged EXCEPT ![k] = more]
      BY <1>3, <1>4, <1>10
    <2>2. Limit[k] \in Nat => Len(s[k]) < Limit[k]
      BY <1>3, <1>5, <1>6, <1>10 DEF Covers
    <2> HIDE DEF more
    <2>3. /\ Counts([purged EXCEPT ![k] = more], keys, s)
          /\ [purged EXCEPT ![k] = more][k] = more
      BY <1>1, <1>7 DEF Counts, more
    <2> QED BY <1>7, <2>1, <2>2, <2>3 DEF more
  <1> QED BY <1>3, <1>8, <1>9, <1>10

\* What was served, and the first m keys of a request besides.
Credited(s, keys, request, m) ==
  [k \in keys |-> IF \E n \in 1 .. m : request[n] = k THEN Append(s[k], 0) ELSE s[k]]

LEMMA CreditedInWindow ==
  ASSUME NEW keys, NEW s, NEW request, NEW m, \A k \in keys : InWindow(s[k])
  PROVE  \A k \in keys : InWindow(Credited(s, keys, request, m)[k])
  BY AppendInWindow DEF Credited

LEMMA RequestCounts ==
  ASSUME NEW keys, NEW events, NEW s, NEW request \in Seq(keys),
         Counts(events, keys, s), \A k \in keys : InWindow(s[k]) /\ Limit[k] \in Nat
  PROVE  \A m \in 0 .. Len(request) :
           /\ Counts(After(events, request)[m], keys, s)
           /\ (\A n \in 1 .. m : Passed(events, request, n)) =>
                /\ Counts(After(events, request)[m], keys, Credited(s, keys, request, m))
                /\ \A n \in 1 .. m : Len(s[request[n]]) < Limit[request[n]]
  <1> DEFINE A == After(events, request)
             C(m) == Credited(s, keys, request, m)
             Good(m) ==
               /\ Counts(A[m], keys, s)
               /\ (\A n \in 1 .. m : Passed(events, request, n)) =>
                    /\ Counts(A[m], keys, C(m))
                    /\ \A n \in 1 .. m : Len(s[request[n]]) < Limit[request[n]]
             S == {m \in Nat : m <= Len(request) => Good(m)}
  <1>1. /\ Len(request) \in Nat
        /\ A[0] = events
        /\ \A n \in 1 .. Len(request) : A[n] = Checked(A[n - 1], request[n])
    BY AfterStep
  <1>2. \A n \in 1 .. Len(request) :
          request[n] \in keys /\ (Passed(events, request, n) <=> Allowed(A[n - 1], request[n]))
    BY DEF Passed
  <1> HIDE DEF A
  <1>3. 0 \in S
    <2>1. \A k \in keys : C(0)[k] = s[k]
      BY DEF Credited
    <2> HIDE DEF C
    <2>2. Good(0)
      BY <1>1, <2>1 DEF Counts
    <2> HIDE DEF Good
    <2> QED BY <2>2
  <1>4. ASSUME NEW m \in Nat, m \in S PROVE m + 1 \in S
    <2> SUFFICES ASSUME m + 1 <= Len(request) PROVE Good(m + 1)
      OBVIOUS
    <2>1. Good(m) /\ m + 1 \in 1 .. Len(request) /\ (m + 1) - 1 = m
      BY <1>1, <1>4
    <2> DEFINE k == request[m + 1]
    <2>2. k \in keys /\ A[m + 1] = Checked(A[m], k)
      BY <1>1, <1>2, <2>1
    <2>3. Passed(events, request, m + 1) <=> Allowed(A[m], k)
      BY <1>2, <2>1
    <2>4. \A n \in 1 .. m : n \in 1 .. m + 1
      OBVIOUS
    <2> HIDE DEF k
    <2>5. Counts(A[m + 1], keys, s)
      BY <2>1, <2>2, CheckCounts
    <2>6. ASSUME \A n \in 1 .. m + 1 : Passed(events, request, n)
          PROVE  /\ Counts(A[m + 1], keys, C(m + 1))
                 /\ \A n \in 1 .. m + 1 : Len(s[request[n]]) < Limit[request[n]]
      <3>1. /\ Counts(A[m], keys, C(m))
            /\ \A n \in 1 .. m : Len(s[request[n]]) < Limit[request[n]]
        BY <2>1, <2>4, <2>6
      <3>2. Allowed(A[m], k)
        BY <2>1, <2>3, <2>6
      <3>3. Len(s[k]) < Limit[k]
        BY <2>1, <2>2, <3>2, CheckCounts
      <3>4. \A j \in keys : InWindow(C(m)[j])
        BY CreditedInWindow
      <3>5. /\ Counts(A[m + 1], keys, C(m))
            /\ Covers(A[m + 1][k], Append(C(m)[k], 0))
        BY <2>2, <3>1, <3>2, <3>4, CheckCounts
      <3>6. ASSUME NEW j \in keys PROVE Covers(A[m + 1][j], C(m + 1)[j])
        <4>1. CASE \E n \in 1 .. m : request[n] = j
          <5>1. C(m + 1)[j] = C(m)[j]
            BY <2>4, <4>1 DEF Credited
          <5> QED BY <3>5, <5>1 DEF Counts
        <4>2. CASE ~ (\E n \in 1 .. m : request[n] = j) /\ j = k
          <5>1. C(m)[j] = s[j] /\ C(m + 1)[j] = Append(s[j], 0)
            BY <2>1, <4>2 DEF Credited, k
          <5> QED BY <3>5, <4>2, <5>1
        <4>3. CASE ~ (\E n \in 1 .. m : request[n] = j) /\ j # k
          <5>1. C(m)[j] = s[j] /\ C(m + 1)[j] = s[j]
            BY <4>3 DEF Credited, k
          <5> QED BY <3>5, <5>1 DEF Counts
        <4> QED BY <4>1, <4>2, <4>3
      <3>7. Counts(A[m + 1], keys, C(m + 1))
        BY <2>5, <3>6 DEF Counts
      <3>8. \A n \in 1 .. m + 1 : n \in 1 .. m \/ n = m + 1
        OBVIOUS
      <3> QED BY <3>1, <3>3, <3>7, <3>8 DEF k
    <2> QED BY <2>5, <2>6
  <1> HIDE DEF S
  <1>5. \A m \in Nat : m \in S
    BY <1>3, <1>4, Induction
  <1>6. ASSUME NEW m \in 0 .. Len(request) PROVE Good(m)
    <2>1. m \in Nat /\ m <= Len(request)
      BY <1>1
    <2> QED BY <1>5, <2>1 DEF S
  <1> QED BY <1>6 DEF A

-----------------------------------------------------------------------------
(* Every window keeps its limit                                             *)

\* What was served is in the window and within the limit, and both limiters
\* count it.
Windows ==
  /\ served \in [Keys -> Seq(Nat)]
  /\ \A k \in Keys : InWindow(served[k]) /\ Len(served[k]) <= Limit[k]
  /\ Counts(web, WebKeys, served) /\ Counts(evaluation, EvaluationKeys, served)

LEMMA LimitNat == \A k \in Keys : Limit[k] \in Nat \ {0}
  BY GateAssumption DEF Keys

LEMMA InitWindows == Init => Windows
  <1> SUFFICES ASSUME Init PROVE Windows
    OBVIOUS
  <1> DEFINE none == << >>
  <1>1. none \in Seq(Nat) /\ Len(none) = 0
    OBVIOUS
  <1>2. InWindow(none) /\ Sorted(none) /\ Covers(none, none)
    BY <1>1 DEF InWindow, Sorted, Covers
  <1>3. /\ web = [k \in WebKeys |-> none] /\ evaluation = [k \in EvaluationKeys |-> none]
        /\ served = [k \in Keys |-> none]
    BY DEF Init
  <1> HIDE DEF none
  <1>4. Counts(web, WebKeys, served) /\ Counts(evaluation, EvaluationKeys, served)
    BY <1>1, <1>2, <1>3 DEF Counts, Keys
  <1>5. \A k \in Keys : Len(served[k]) <= Limit[k]
    BY <1>1, <1>3, LimitNat
  <1> QED BY <1>1, <1>2, <1>3, <1>4, <1>5 DEF Windows

\* A limiter that counts what was served does so when what was served changes
\* only for keys of the other one.
LEMMA OtherTable ==
  ASSUME NEW keys, NEW events, NEW s, NEW t, Counts(events, keys, s),
         \A k \in keys : t[k] = s[k]
  PROVE  Counts(events, keys, t)
  BY DEF Counts

\* A request is served when all of its keys have room; events are those after
\* its last check, in the table of its limiter.
LEMMA ServeStep ==
  ASSUME Windows, NEW keys \in SUBSET Keys, NEW request \in Seq(keys),
         NEW events, Counts(events, keys, served), Serve(request),
         \A n \in 1 .. Len(request) : Passed(events, request, n)
  PROVE  /\ Counts(After(events, request)[Len(request)], keys, served')
         /\ served' \in [Keys -> Seq(Nat)]
         /\ \A k \in Keys : InWindow(served'[k]) /\ Len(served'[k]) <= Limit[k]
         /\ \A k \in Keys \ keys : served'[k] = served[k]
  <1>1. /\ Len(request) \in Nat /\ DOMAIN request = 1 .. Len(request)
        /\ Len(request) \in 0 .. Len(request)
        /\ \A n \in 1 .. Len(request) : request[n] \in keys
    OBVIOUS
  <1>2. served' = Credited(served, Keys, request, Len(request))
    BY <1>1 DEF Serve, Credited
  <1>3. \A k \in keys : InWindow(served[k]) /\ Limit[k] \in Nat
    BY LimitNat DEF Windows
  <1>4. /\ Counts(After(events, request)[Len(request)], keys,
                  Credited(served, keys, request, Len(request)))
        /\ \A n \in 1 .. Len(request) : Len(served[request[n]]) < Limit[request[n]]
    BY <1>1, <1>3, RequestCounts
  <1>5. \A k \in keys : served'[k] = Credited(served, keys, request, Len(request))[k]
    BY <1>2 DEF Credited
  <1>6. Counts(After(events, request)[Len(request)], keys, served')
    BY <1>4, <1>5, OtherTable
  <1>7. ASSUME NEW k \in Keys
        PROVE  /\ served'[k] \in Seq(Nat)
               /\ InWindow(served'[k]) /\ Len(served'[k]) <= Limit[k]
    <2>1. InWindow(served'[k])
      BY <1>2, CreditedInWindow DEF Windows
    <2>2. CASE \E n \in 1 .. Len(request) : request[n] = k
      <3>1. served'[k] = Append(served[k], 0)
        BY <1>2, <2>2 DEF Credited
      <3>2. Len(served[k]) < Limit[k] /\ Limit[k] \in Nat
        BY <1>4, <2>2, LimitNat
      <3>3. served[k] \in Seq(Nat)
        BY DEF Windows
      <3>4. Len(served'[k]) = Len(served[k]) + 1 /\ Len(served[k]) \in Nat
        BY <3>1, <3>3
      <3> QED BY <2>1, <3>2, <3>4 DEF InWindow
    <2>3. CASE ~ \E n \in 1 .. Len(request) : request[n] = k
      <3>1. served'[k] = served[k]
        BY <1>2, <2>3 DEF Credited
      <3> QED BY <2>1, <3>1 DEF Windows, InWindow
    <2> QED BY <2>2, <2>3
  <1>8. \A k \in Keys \ keys : served'[k] = served[k]
    BY <1>1, <1>2 DEF Credited
  <1>9. served' \in [Keys -> Seq(Nat)]
    <2>1. served' = [k \in Keys |-> served'[k]]
      BY <1>2 DEF Credited
    <2> QED BY <1>7, <2>1
  <1> QED BY <1>6, <1>7, <1>8, <1>9

\* The middleware stops somewhere.
LEMMA StopsSomewhere ==
  ASSUME NEW request \in WebRequests
  PROVE  /\ request \in Seq(WebKeys) /\ Stop(request) \in 1 .. Len(request)
         /\ \A i \in 1 .. Stop(request) - 1 : Passed(web, request, i)
         /\ Stop(request) < Len(request) => ~Passed(web, request, Stop(request))
  <1>1. request \in Seq(WebKeys) /\ request # << >>
    BY GateAssumption
  <1>2. /\ Len(request) \in Nat \ {0} /\ DOMAIN request = 1 .. Len(request)
    BY <1>1
  <1> DEFINE Ends(n) == /\ \A i \in 1 .. n - 1 : Passed(web, request, i)
                        /\ n < Len(request) => ~Passed(web, request, n)
             S == {n \in 1 .. Len(request) :
                     n < Len(request) => ~Passed(web, request, n)}
  <1>3. PICK n \in S : \A m \in S : n <= m
    <2>1. S \in SUBSET Nat /\ Len(request) \in S
      BY <1>2
    <2> HIDE DEF S
    <2> QED BY <2>1, LeastNatural
  <1>4. n \in DOMAIN request /\ Ends(n)
    <2>1. ASSUME NEW i \in 1 .. n - 1 PROVE Passed(web, request, i)
      <3>1. i \notin S /\ i \in 1 .. Len(request)
        BY <1>2, <1>3
      <3> QED BY <3>1
    <2> QED BY <1>2, <1>3, <2>1
  <1> HIDE DEF S
  <1>5. Stop(request) \in DOMAIN request /\ Ends(Stop(request))
    <2>1. Stop(request) = CHOOSE x \in DOMAIN request : Ends(x)
      BY DEF Stop
    <2> HIDE DEF Ends
    <2> QED BY <1>4, <2>1
  <1> QED BY <1>1, <1>2, <1>5

LEMMA WebChecksStep ==
  ASSUME Windows, NEW request \in WebRequests, WebChecks(request)
  PROVE  Windows'
  <1> DEFINE n == Stop(request)
  <1>1. /\ request \in Seq(WebKeys) /\ n \in 1 .. Len(request)
        /\ \A i \in 1 .. n - 1 : Passed(web, request, i)
        /\ n < Len(request) => ~Passed(web, request, n)
    BY StopsSomewhere
  <1>2. /\ web' = After(web, request)[n] /\ evaluation' = evaluation
        /\ IF Passed(web, request, n) THEN Serve(request) ELSE served' = served
    BY DEF WebChecks, Served, Refuse
  <1> HIDE DEF n
  <1>3. Len(request) \in Nat /\ n \in 0 .. Len(request)
    BY <1>1
  <1>4. WebKeys \in SUBSET Keys /\ \A k \in EvaluationKeys : k \in Keys \ WebKeys
    BY GateAssumption DEF Keys
  <1>5. Counts(web, WebKeys, served) /\ Counts(evaluation, EvaluationKeys, served)
    BY DEF Windows
  <1>6. CASE Passed(web, request, n)
    <2>1. n = Len(request)
      BY <1>1, <1>3, <1>6
    <2>2. \A i \in 1 .. Len(request) : Passed(web, request, i)
      <3>1. \A i \in 1 .. Len(request) : i \in 1 .. n - 1 \/ i = n
        BY <1>3, <2>1
      <3> QED BY <1>1, <1>6, <3>1
    <2>3. Serve(request)
      BY <1>2, <1>6
    <2>4. /\ Counts(web', WebKeys, served')
          /\ served' \in [Keys -> Seq(Nat)]
          /\ \A k \in Keys : InWindow(served'[k]) /\ Len(served'[k]) <= Limit[k]
          /\ \A k \in Keys \ WebKeys : served'[k] = served[k]
      BY <1>1, <1>2, <1>4, <1>5, <2>1, <2>2, <2>3, ServeStep
    <2>5. Counts(evaluation', EvaluationKeys, served')
      BY <1>2, <1>4, <1>5, <2>4, OtherTable
    <2> QED BY <2>4, <2>5 DEF Windows, InWindow, Sorted
  <1>7. CASE ~Passed(web, request, n)
    <2>1. \A k \in WebKeys : InWindow(served[k]) /\ Limit[k] \in Nat
      BY <1>4, LimitNat DEF Windows
    <2>2. Counts(web', WebKeys, served)
      BY <1>1, <1>2, <1>3, <1>5, <2>1, RequestCounts
    <2>3. served' = served
      BY <1>2, <1>7
    <2> QED BY <1>2, <1>5, <2>2, <2>3 DEF Windows
  <1> QED BY <1>6, <1>7

LEMMA EvaluateStep ==
  ASSUME Windows, NEW request \in EvaluationRequests, Evaluate(request)
  PROVE  Windows'
  <1>1. request \in Seq(EvaluationKeys) /\ Len(request) \in Nat
        /\ DOMAIN request = 1 .. Len(request)
    BY GateAssumption
  <1>2. evaluation' = After(evaluation, request)[Len(request)] /\ web' = web
    BY DEF Evaluate
  <1>3. EvaluationKeys \in SUBSET Keys /\ \A k \in WebKeys : k \in Keys \ EvaluationKeys
    BY GateAssumption DEF Keys
  <1>4. Counts(web, WebKeys, served) /\ Counts(evaluation, EvaluationKeys, served)
    BY DEF Windows
  <1>5. CASE \A n \in DOMAIN request : Passed(evaluation, request, n)
    <2>1. Serve(request)
      BY <1>5 DEF Evaluate
    <2>2. /\ Counts(evaluation', EvaluationKeys, served')
          /\ served' \in [Keys -> Seq(Nat)]
          /\ \A k \in Keys : InWindow(served'[k]) /\ Len(served'[k]) <= Limit[k]
          /\ \A k \in Keys \ EvaluationKeys : served'[k] = served[k]
      BY <1>1, <1>2, <1>3, <1>4, <1>5, <2>1, ServeStep
    <2>3. Counts(web', WebKeys, served')
      BY <1>2, <1>3, <1>4, <2>2, OtherTable
    <2> QED BY <2>2, <2>3 DEF Windows, InWindow, Sorted
  <1>6. CASE ~ \A n \in DOMAIN request : Passed(evaluation, request, n)
    <2>1. served' = served
      BY <1>6 DEF Evaluate, Refuse
    <2>2. \A k \in EvaluationKeys : InWindow(served[k]) /\ Limit[k] \in Nat
      BY <1>3, LimitNat DEF Windows
    <2>3. Counts(evaluation', EvaluationKeys, served)
      BY <1>1, <1>2, <1>4, <2>2, RequestCounts
    <2> QED BY <1>2, <1>4, <2>1, <2>3 DEF Windows
  <1> QED BY <1>5, <1>6

\* Time passes.
LEMMA OlderAges ==
  ASSUME NEW ages \in Seq(Nat)
  PROVE  /\ Older(ages) \in Seq(Nat) /\ Len(Older(ages)) = Len(ages)
         /\ \A i \in 1 .. Len(ages) :
              Older(ages)[i] = IF ages[i] < Window THEN ages[i] + 1 ELSE Window
  <1>1. Len(ages) \in Nat /\ DOMAIN ages = 1 .. Len(ages)
    OBVIOUS
  <1>2. \A i \in 1 .. Len(ages) :
          (IF ages[i] < Window THEN ages[i] + 1 ELSE Window) \in Nat
    BY GateAssumption
  <1>3. Older(ages) = [i \in 1 .. Len(ages) |->
          IF ages[i] < Window THEN ages[i] + 1 ELSE Window]
    BY <1>1 DEF Older
  <1>4. Older(ages) \in [1 .. Len(ages) -> Nat]
    BY <1>2, <1>3
  <1>5. Older(ages) \in Seq(Nat) /\ Len(Older(ages)) = Len(ages)
    BY <1>1, <1>4
  <1> QED BY <1>3, <1>5

LEMMA OlderSorted ==
  ASSUME NEW ages \in Seq(Nat), Sorted(ages)
  PROVE  Sorted(Older(ages))
  <1> SUFFICES ASSUME NEW i \in 1 .. Len(ages), NEW j \in 1 .. Len(ages), i <= j
               PROVE  Older(ages)[j] <= Older(ages)[i]
    BY OlderAges DEF Sorted
  <1>1. ages[i] \in Nat /\ ages[j] \in Nat /\ ages[j] <= ages[i] /\ Window \in Nat
    BY GateAssumption DEF Sorted
  <1>2. /\ Older(ages)[i] = IF ages[i] < Window THEN ages[i] + 1 ELSE Window
        /\ Older(ages)[j] = IF ages[j] < Window THEN ages[j] + 1 ELSE Window
    BY OlderAges
  <1> QED BY <1>1, <1>2

\* What has left the window is served no more, and what is still in it is covered.
LEMMA TickKey ==
  ASSUME NEW ages \in Seq(Nat), NEW s, InWindow(s), Covers(ages, s)
  PROVE  /\ InWindow(Live(Older(s))) /\ Len(Live(Older(s))) <= Len(s)
         /\ Covers(Older(ages), Live(Older(s)))
  <1> DEFINE t == Older(s)
             older == Older(ages)
  <1>1. /\ t \in Seq(Nat) /\ Len(t) = Len(s) /\ Sorted(t) /\ Len(s) \in Nat
        /\ \A i \in 1 .. Len(s) : t[i] = s[i] + 1 /\ s[i] \in Nat /\ s[i] < Window
    <2>1. /\ s \in Seq(Nat) /\ Sorted(s) /\ Len(s) \in Nat
          /\ \A i \in 1 .. Len(s) : s[i] \in Nat /\ s[i] < Window
      BY DEF InWindow
    <2>2. t \in Seq(Nat) /\ Len(t) = Len(s) /\ Sorted(t)
      BY <2>1, OlderAges, OlderSorted
    <2>3. \A i \in 1 .. Len(s) : t[i] = IF s[i] < Window THEN s[i] + 1 ELSE Window
      BY <2>1, OlderAges
    <2> QED BY <2>1, <2>2, <2>3
  <1>2. /\ older \in Seq(Nat) /\ Len(older) = Len(ages) /\ Len(ages) \in Nat
        /\ \A i \in 1 .. Len(ages) :
             older[i] = IF ages[i] < Window THEN ages[i] + 1 ELSE Window
    BY OlderAges
  <1> HIDE DEF t, older
  <1>3. Len(s) <= Len(ages)
    BY DEF Covers
  <1>4. ASSUME NEW i \in 1 .. Len(s)
        PROVE  older[Len(ages) - Len(s) + i] <= t[i]
    <2> DEFINE n == Len(ages) - Len(s) + i
    <2>1. n \in 1 .. Len(ages) /\ ages[n] <= s[i]
      <3>1. ages[n] <= s[i]
        BY DEF Covers
      <3>2. n \in 1 .. Len(ages)
        BY <1>1, <1>2, <1>3
      <3> QED BY <3>1, <3>2
    <2> HIDE DEF n
    <2>2. /\ ages[n] \in Nat /\ s[i] \in Nat /\ t[i] = s[i] + 1 /\ s[i] < Window
          /\ Window \in Nat
      BY <1>1, <2>1, GateAssumption
    <2>3. older[n] = ages[n] + 1
      BY <1>2, <2>1, <2>2
    <2>4. older[n] <= t[i]
      BY <2>1, <2>2, <2>3
    <2> QED BY <2>4 DEF n
  <1>5. PICK d \in 0 .. Len(t) :
          /\ Live(t) \in Seq(Nat) /\ Len(Live(t)) = Len(t) - d
          /\ \A i \in 1 .. Len(t) - d : Live(t)[i] = t[i + d]
    BY <1>1, LiveIsEnd
  <1>6. /\ InWindow(Live(t)) /\ Len(Live(t)) <= Len(s)
    BY <1>1, LiveSorted DEF InWindow, IsLive
  <1>7. ASSUME NEW i \in 1 .. Len(Live(t))
        PROVE  older[Len(older) - Len(Live(t)) + i] <= Live(t)[i]
    <2>1. i + d \in 1 .. Len(s) /\ i \in 1 .. Len(t) - d
      BY <1>1, <1>5
    <2>2. older[Len(ages) - Len(s) + (i + d)] <= t[i + d]
      BY <1>4, <2>1
    <2>3. Len(older) - Len(Live(t)) + i = Len(ages) - Len(s) + (i + d)
      BY <1>1, <1>2, <1>5
    <2> QED BY <1>5, <2>1, <2>2, <2>3
  <1>8. Len(Live(t)) <= Len(older)
    BY <1>1, <1>2, <1>3, <1>5
  <1>9. Covers(older, Live(t))
    BY <1>7, <1>8 DEF Covers
  <1> QED BY <1>6, <1>9 DEF t, older

LEMMA TickWindows ==
  ASSUME Windows, Tick
  PROVE  Windows'
  <1>1. /\ web' = [k \in WebKeys |-> Older(web[k])]
        /\ evaluation' = [k \in EvaluationKeys |-> Older(evaluation[k])]
        /\ served' = [k \in Keys |-> Live(Older(served[k]))]
    BY DEF Tick
  <1>2. ASSUME NEW k \in Keys
        PROVE  /\ served'[k] \in Seq(Nat) /\ InWindow(served'[k])
               /\ Len(served'[k]) <= Limit[k]
               /\ k \in WebKeys => Covers(web'[k], served'[k])
               /\ k \in EvaluationKeys => Covers(evaluation'[k], served'[k])
    <2>1. /\ served'[k] = Live(Older(served[k]))
          /\ k \in WebKeys => web'[k] = Older(web[k])
          /\ k \in EvaluationKeys => evaluation'[k] = Older(evaluation[k])
      BY <1>1
    <2>2. InWindow(served[k]) /\ Len(served[k]) <= Limit[k]
      BY DEF Windows
    <2>3. /\ k \in WebKeys => web[k] \in Seq(Nat) /\ Covers(web[k], served[k])
          /\ k \in EvaluationKeys =>
               evaluation[k] \in Seq(Nat) /\ Covers(evaluation[k], served[k])
      BY DEF Windows, Counts
    <2>4. k \in WebKeys \/ k \in EvaluationKeys
      BY DEF Keys
    <2>5. InWindow(served'[k]) /\ Len(served'[k]) <= Len(served[k])
      BY <2>1, <2>2, <2>3, <2>4, TickKey
    <2>6. Len(served'[k]) \in Nat /\ Len(served[k]) \in Nat /\ Limit[k] \in Nat
      BY <2>2, <2>5, LimitNat DEF InWindow
    <2>7. /\ k \in WebKeys => Covers(web'[k], served'[k])
          /\ k \in EvaluationKeys => Covers(evaluation'[k], served'[k])
      BY <2>1, <2>2, <2>3, TickKey
    <2> QED BY <2>2, <2>5, <2>6, <2>7 DEF InWindow
  <1>3. ASSUME NEW k \in WebKeys PROVE Older(web[k]) \in Seq(Nat) /\ Sorted(Older(web[k]))
    BY OlderAges, OlderSorted DEF Windows, Counts
  <1>4. ASSUME NEW k \in EvaluationKeys
        PROVE  Older(evaluation[k]) \in Seq(Nat) /\ Sorted(Older(evaluation[k]))
    BY OlderAges, OlderSorted DEF Windows, Counts
  <1>5. WebKeys \subseteq Keys /\ EvaluationKeys \subseteq Keys
    BY DEF Keys
  <1>6. Counts(web', WebKeys, served')
    BY <1>1, <1>2, <1>3, <1>5 DEF Counts
  <1>7. Counts(evaluation', EvaluationKeys, served')
    BY <1>1, <1>2, <1>4, <1>5 DEF Counts
  <1>8. served' \in [Keys -> Seq(Nat)]
    BY <1>1, <1>2
  <1> QED BY <1>2, <1>6, <1>7, <1>8 DEF Windows

LEMMA SameWindows ==
  ASSUME Windows, UNCHANGED limiters
  PROVE  Windows'
  BY DEF Windows, limiters

LEMMA NextWindows == Windows /\ [Next]_vars => Windows'
  <1> SUFFICES ASSUME Windows, [Next]_vars PROVE Windows'
    OBVIOUS
  <1>1. ASSUME NEW request \in WebRequests, Web(request) PROVE Windows'
    BY <1>1, WebChecksStep DEF Web
  <1>2. ASSUME NEW request \in EvaluationRequests, Evaluate(request) PROVE Windows'
    BY <1>2, EvaluateStep
  <1>3. ASSUME NEW c \in Credentials, ChangeToken(c) PROVE Windows'
    BY <1>3, SameWindows DEF ChangeToken
  <1>4. ASSUME NEW u \in Uploads, NEW c \in Credentials, Admit(u, c) PROVE Windows'
    BY <1>4, SameWindows DEF Admit
  <1>5. ASSUME NEW u \in Uploads, Start(u) PROVE Windows'
    <2>1. UNCHANGED limiters \/ \E request \in UploadRequests : WebChecks(request)
      BY <1>5 DEF Start
    <2> QED BY <2>1, GateAssumption, SameWindows, WebChecksStep
  <1>6. ASSUME NEW u \in Uploads, NEW bytes \in 0 .. 1, Receive(u, bytes) PROVE Windows'
    BY <1>6, SameWindows DEF Receive
  <1>7. ASSUME NEW u \in Uploads, BodyTimeout(u) \/ Disconnect(u) \/ Finish(u)
        PROVE  Windows'
    BY <1>7, SameWindows DEF BodyTimeout, Disconnect, Finish
  <1>8. CASE Tick
    BY <1>8, TickWindows
  <1>9. CASE UNCHANGED vars
    BY <1>9, SameWindows DEF vars
  <1> QED BY <1>1, <1>2, <1>3, <1>4, <1>5, <1>6, <1>7, <1>8, <1>9 DEF Next

\* Whatever the limits, the keys, the length of the window and the size of the
\* table: no key is served more than its limit in a window, though keys come and
\* go, the table is full, and requests that another key refused are counted too.
THEOREM WindowsKept == Spec => []WindowKept
  <1>1. Windows => WindowKept
    BY DEF Windows, WindowKept
  <1> QED BY InitWindows, NextWindows, <1>1, PTL DEF Spec
=============================================================================
