------------------------------ MODULE RequestGate ------------------------------
(***************************************************************************)
(* What one process lets in: the sliding windows over its requests, those of *)
(* the evaluation endpoint, and the slots of material uploads.              *)
(*                                                                         *)
(* The clock is relative: every served request has an age, in ticks, that   *)
(* stops at the length of the window, when it no longer counts.  The checks *)
(* of one request run without an await in between, so they are one step; an *)
(* upload is many, for it waits for its body.                               *)
(***************************************************************************)
EXTENDS Naturals, Sequences, FiniteSets

CONSTANTS
  WebKeys,        \* keys of the limiter of the web requests ...
  EvaluationKeys, \* ... and of that of the evaluation endpoint
  Limit,          \* key -> requests allowed in a window
  WebRequests, EvaluationRequests,    \* requests: the keys they are checked under
  UploadRequests, \* those of the web requests that upload materials
  MaxKeys,        \* keys a limiter keeps
  Window,         \* length of the window in ticks
  Uploads,        \* connections that upload materials
  Credentials,    \* what their requests carry: a token, or an address without one
  UserOf,         \* credential -> the user whose token it is
  MaxGlobal, MaxPerOwner,
  IdleTime, TotalTime,    \* limits of an upload's body in ticks ...
  MaxBytes,       \* ... and in bytes
  None

\* Who an upload is counted for: the user of a valid token, or else the credential.
Owners == Credentials \cup {UserOf[c] : c \in Credentials}

\* An upload under way: how long its body takes, what is left for the next
\* message, and what has come.
Upload ==
  [credential : Credentials, owner : Owners,
   phase : {"admitted", "reading", "working", "ending"},
   spent : 0 .. TotalTime, left : Nat, size : Nat]

ASSUME GateAssumption ==
  /\ MaxKeys \in Nat \ {0} /\ Window \in Nat \ {0}
  /\ MaxGlobal \in Nat \ {0} /\ MaxPerOwner \in Nat \ {0}
  /\ IdleTime \in Nat \ {0} /\ TotalTime \in Nat \ {0} /\ MaxBytes \in Nat
  /\ Limit \in [WebKeys \cup EvaluationKeys -> Nat \ {0}]
  /\ WebKeys \cap EvaluationKeys = {}
  /\ WebRequests \subseteq Seq(WebKeys) \ {<<>>} /\ UploadRequests \subseteq WebRequests
  /\ EvaluationRequests \subseteq Seq(EvaluationKeys)
  /\ IsFiniteSet(Uploads) /\ None \notin Upload

VARIABLES
  web, evaluation,        \* key -> ages of its events, the oldest first; a key
                          \*   that is not kept has none
  served,                 \* history: key -> ages of the requests served in this window
  valid,                  \* credentials whose token is valid
  activeGlobal, activeByOwner,    \* uploads admitted, of all and of each owner
  upload                  \* connection -> None, or the upload it carries

limiters == <<web, evaluation, served>>
slots    == <<activeGlobal, activeByOwner>>
vars     == <<limiters, valid, slots, upload>>

Keys == WebKeys \cup EvaluationKeys

-----------------------------------------------------------------------------
(* SlidingWindowRateLimiter.check                                           *)

Kept(events) == {k \in DOMAIN events : events[k] # <<>>}

IsLive(age) == age < Window

\* What has left the window is taken from the front, where the oldest are.
Live(ages) ==
  LET first == CHOOSE n \in 1 .. Len(ages) + 1 :
        /\ \A i \in 1 .. n - 1 : ~IsLive(ages[i])
        /\ n <= Len(ages) => IsLive(ages[n])
  IN SubSeq(ages, first, Len(ages))

\* Faulty variant: the oldest event goes, whether it is in the window or not.
Forgotten(events, k) ==
  IF k \notin Kept(events) /\ Cardinality(Kept(events)) >= MaxKeys
    THEN [j \in DOMAIN events |-> IF events[j] = <<>> THEN <<>> ELSE Tail(events[j])]
    ELSE events

\* A new key, when there are too many: what has left the window goes.
Purged(events, k) ==
  IF k \notin Kept(events) /\ Cardinality(Kept(events)) >= MaxKeys
    THEN [j \in DOMAIN events |-> Live(events[j])]
    ELSE events

HasRoom(events, k) ==
  k \in Kept(events) \/ Cardinality(Kept(events)) < MaxKeys

\* The events after the check; a request that is refused is not counted.
Allowed(events, k) ==
  LET purged == Purged(events, k)
  IN HasRoom(purged, k) /\ Len(Live(purged[k])) < Limit[k]

Checked(events, k) ==
  LET purged == Purged(events, k)
      live == Live(purged[k])
  IN IF ~HasRoom(purged, k) THEN purged
     ELSE [purged EXCEPT ![k] = IF Allowed(events, k) THEN Append(live, 0) ELSE live]

\* The windows after the first n checks of a request.
After(events, request) ==
  LET f[n \in 0 .. Len(request)] ==
        IF n = 0 THEN events ELSE Checked(f[n - 1], request[n])
  IN f

Passed(events, request, n) == Allowed(After(events, request)[n - 1], request[n])

\* The request is served, and its keys have one request more.
Serve(request) ==
  served' = [k \in Keys |-> IF \E n \in DOMAIN request : request[n] = k
                              THEN Append(served[k], 0) ELSE served[k]]

Refuse == UNCHANGED served

-----------------------------------------------------------------------------
(* Requests of one step                                                     *)

\* RequestLimitMiddleware stops at the first key that has no room.
Stop(request) ==
  CHOOSE n \in DOMAIN request :
    /\ \A i \in 1 .. n - 1 : Passed(web, request, i)
    /\ n < Len(request) => ~Passed(web, request, n)

Served(request) == Passed(web, request, Stop(request))

WebChecks(request) ==
  /\ web' = After(web, request)[Stop(request)]
  /\ IF Served(request) THEN Serve(request) ELSE Refuse
  /\ UNCHANGED evaluation

Web(request) == WebChecks(request) /\ UNCHANGED <<valid, slots, upload>>

\* EvaluationBearerGateway asks every key, also when one has refused.
Evaluate(request) ==
  /\ evaluation' = After(evaluation, request)[Len(request)]
  /\ IF \A n \in DOMAIN request : Passed(evaluation, request, n)
       THEN Serve(request) ELSE Refuse
  /\ UNCHANGED <<web, valid, slots, upload>>

\* A token stops working, or works again when the deletion of its account is
\* taken back.
ChangeToken(c) ==
  /\ valid' = IF c \in valid THEN valid \ {c} ELSE valid \cup {c}
  /\ UNCHANGED <<limiters, slots, upload>>

-----------------------------------------------------------------------------
(* Uploads                                                                  *)

OwnerKey(c) == IF c \in valid THEN UserOf[c] ELSE c

\* RequestBodyLimitMiddleware: a slot of the process and one of the owner.  When
\* either is missing the request is refused, and nothing is kept.
Admit(u, c) ==
  /\ upload[u] = None
  /\ activeGlobal < MaxGlobal /\ activeByOwner[OwnerKey(c)] < MaxPerOwner
  /\ activeGlobal' = activeGlobal + 1
  /\ activeByOwner' = [activeByOwner EXCEPT ![OwnerKey(c)] = @ + 1]
  /\ upload' = [upload EXCEPT ![u] =
       [credential |-> c, owner |-> OwnerKey(c), phase |-> "admitted",
        spent |-> 0, left |-> 0, size |-> 0]]
  /\ UNCHANGED <<limiters, valid>>

\* Faulty variant: only a client that is silent runs out of time.
IdleBudget(spent) == IdleTime

\* What a receive may take: the idle time, or what is left of the total.
Budget(spent) == IF IdleTime < TotalTime - spent THEN IdleTime ELSE TotalTime - spent

\* A declared size that is too large is refused before the windows are asked;
\* the body of a request that passes them is read.
Start(u) ==
  /\ upload[u] # None /\ upload[u].phase = "admitted"
  /\ \/ /\ upload' = [upload EXCEPT ![u].phase = "ending"]
        /\ UNCHANGED limiters
     \/ \E request \in UploadRequests :
          /\ WebChecks(request)
          /\ upload' = [upload EXCEPT
               ![u].phase = IF Served(request) THEN "reading" ELSE "ending",
               ![u].left = Budget(0)]
  /\ UNCHANGED <<valid, slots>>

\* A message of the body: too much of it, the last one, or one that another
\* receive follows, if there is time left.
Receive(u, bytes) ==
  /\ upload[u] # None /\ upload[u].phase = "reading"
  /\ LET size == upload[u].size + bytes
         budget == Budget(upload[u].spent)
     IN \E phase \in {"reading", "working", "ending"} :
          /\ phase = "ending" <=> size > MaxBytes \/ (phase # "working" /\ budget <= 0)
          /\ upload' = [upload EXCEPT ![u].size = size, ![u].phase = phase,
                                      ![u].left = budget]
  /\ UNCHANGED <<limiters, valid, slots>>

BodyTimeout(u) ==
  /\ upload[u] # None /\ upload[u].phase = "reading" /\ upload[u].left = 0
  /\ upload' = [upload EXCEPT ![u].phase = "ending"]
  /\ UNCHANGED <<limiters, valid, slots>>

\* The client goes away.
Disconnect(u) ==
  /\ upload[u] # None /\ upload[u].phase = "reading"
  /\ upload' = [upload EXCEPT ![u].phase = "ending"]
  /\ UNCHANGED <<limiters, valid, slots>>

\* Faulty variant: the owner is looked up once more.
OwnerOnRelease(u) == OwnerKey(upload[u].credential)

\* The key that was counted at the start.
OwnerKept(u) == upload[u].owner

OneLess(n) == IF n > 0 THEN n - 1 ELSE 0

\* However the request ended: the slots go back.
Finish(u) ==
  /\ upload[u] # None /\ upload[u].phase \in {"working", "ending"}
  /\ activeByOwner' = [activeByOwner EXCEPT ![OwnerKept(u)] = OneLess(@)]
  /\ activeGlobal' = OneLess(activeGlobal)
  /\ upload' = [upload EXCEPT ![u] = None]
  /\ UNCHANGED <<limiters, valid>>

-----------------------------------------------------------------------------
Older(ages) == [n \in DOMAIN ages |-> IF ages[n] < Window THEN ages[n] + 1 ELSE Window]

Waiting(v) ==
  [v EXCEPT !.spent = IF @ < TotalTime THEN @ + 1 ELSE @, !.left = OneLess(@)]

Tick ==
  /\ web' = [k \in WebKeys |-> Older(web[k])]
  /\ evaluation' = [k \in EvaluationKeys |-> Older(evaluation[k])]
  /\ served' = [k \in Keys |-> Live(Older(served[k]))]
  /\ upload' = [u \in Uploads |->
       IF upload[u] # None /\ upload[u].phase = "reading" THEN Waiting(upload[u]) ELSE upload[u]]
  /\ UNCHANGED <<valid, slots>>

Init ==
  /\ web = [k \in WebKeys |-> <<>>]
  /\ evaluation = [k \in EvaluationKeys |-> <<>>]
  /\ served = [k \in Keys |-> <<>>]
  /\ valid = Credentials
  /\ activeGlobal = 0
  /\ activeByOwner = [o \in Owners |-> 0]
  /\ upload = [u \in Uploads |-> None]

Next ==
  \/ \E request \in WebRequests : Web(request)
  \/ \E request \in EvaluationRequests : Evaluate(request)
  \/ \E c \in Credentials : ChangeToken(c)
  \/ \E u \in Uploads :
       \/ \E c \in Credentials : Admit(u, c)
       \/ Start(u)
       \/ \E bytes \in 0 .. 1 : Receive(u, bytes)
       \/ BodyTimeout(u) \/ Disconnect(u) \/ Finish(u)
  \/ Tick

\* Time passes, timers fire and the program goes on; no client has to send.
Fairness ==
  /\ WF_vars(Tick)
  /\ \A u \in Uploads : WF_vars(Start(u)) /\ WF_vars(BodyTimeout(u)) /\ WF_vars(Finish(u))

Spec == Init /\ [][Next]_vars /\ Fairness

-----------------------------------------------------------------------------
(* Properties                                                               *)

\* No key is served more than its limit in any window, whatever other keys come
\* and go while the table is full, and whether its requests were refused under
\* another key.
WindowKept == \A k \in Keys : Len(served[k]) <= Limit[k]

InFlight == {u \in Uploads : upload[u] # None}
InFlightOf(o) == {u \in InFlight : upload[u].owner = o}

\* The counters are what they count: a token that stops working while its upload
\* runs leaves no slot of its owner taken and takes none of another's.
SlotsBalance ==
  /\ activeGlobal = Cardinality(InFlight)
  /\ activeGlobal <= MaxGlobal
  /\ \A o \in Owners :
       /\ activeByOwner[o] = Cardinality(InFlightOf(o))
       /\ activeByOwner[o] <= MaxPerOwner

\* A client that sends its body a bit at a time, or not at all, keeps its slot
\* no longer than the limit: every upload that was let in ends.
EverySlotReturns == \A u \in Uploads : upload[u] # None ~> upload[u] = None
=============================================================================
