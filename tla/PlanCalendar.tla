----------------------------- MODULE PlanCalendar -----------------------------
(***************************************************************************)
(* The study plan of one learning space: sessions on a calendar, under a    *)
(* daily budget of minutes and before an exam.  The learner makes, edits     *)
(* and clears it, answers complete its sessions and add reviews to it, and   *)
(* a targeted plan is written by a model while all that goes on.            *)
(*                                                                         *)
(* An operation is one step, as it is one mutate of the record in the       *)
(* plan's scope; only a targeted plan takes two, with the call of the model  *)
(* between them.  A request that is refused changes nothing and is no step.  *)
(* Time is a number of slots, of which a day has a few; the learner stays   *)
(* in one time zone.  Sessions overlap when they begin in the same slot.    *)
(* Topics are numbered in the order of the plan, and goals are left out.    *)
(* The record's exam_at and daily_minutes and those of its plan are written  *)
(* together: they are one variable here.                                    *)
(***************************************************************************)
EXTENDS Integers, Sequences, FiniteSets, FiniteSetsExt, SequencesExt, TLC

CONSTANTS
  Threads,         \* requests for a targeted plan
  Keys,            \* their idempotency keys
  Slots,           \* slots of a day
  LastDay,         \* bound on the calendar
  Clock,           \* times requests are made at
  Exams,           \* times an exam may be at
  Budgets,         \* what daily_minutes may be
  Minutes,         \* what a session may be resized to, and the model may choose
  Destinations,    \* times a session may be moved to
  Additions,       \* payloads of add_plan_session
  Targeted,        \* payloads of targeted plans
  ActivityCycle,   \* ACTIVITY_SEQUENCE
  ReviewMinutes,   \* minutes of a review, unless the budget is less
  ReviewDelay,     \* slots until a review after a correct answer
  RetryDelay,      \* and after a wrong one
  MaxReviews,      \* MAX_REVIEW_SESSIONS
  MaxTargeted,     \* targeted_plan_requests kept
  MaxTopics,       \* bound on the topics
  MaxEdits,        \* bound on the writes but for questions and first plans
  None

Times == 0 .. LastDay * Slots + Slots - 1

Activities == {ActivityCycle[i] : i \in DOMAIN ActivityCycle}

ASSUME CalendarAssumption ==
  /\ {Slots, ReviewMinutes, ReviewDelay, RetryDelay, MaxReviews, MaxTargeted, MaxTopics}
       \subseteq Nat \ {0}
  /\ LastDay \in Nat /\ MaxEdits \in Nat
  /\ Exams \cup Clock \subseteq Times /\ 0 \in Clock
  /\ Budgets \cup Minutes \subseteq Nat \ {0}
  /\ Destinations \subseteq Times
  /\ Additions \subseteq [topic : 1 .. MaxTopics, at : Times, minutes : Minutes,
                          activity : Activities]
  /\ Targeted \subseteq [key : Keys, exam : Exams, limit : Budgets, hour : 0 .. Slots - 1,
                         topic : 1 .. MaxTopics]
  /\ Len(ActivityCycle) > 0
  /\ None \notin Threads \cup Keys

VARIABLES
  now,
  topics,          \* number of topics
  exam, budget,    \* exam_at and daily_minutes
  plan,            \* its id and its sessions in stored order, or None
  pending,         \* the question to answer: its topic and plan session, or None
  requests,        \* targeted_plan_requests: key -> id of a plan, or None
  call,            \* thread -> the targeted plan it has had written, or None
  reply,           \* what the last request was and what its response promises
  edits            \* writes so far

vars == <<now, topics, exam, budget, plan, pending, requests, call, reply, edits>>

-----------------------------------------------------------------------------
(* Sessions                                                                 *)

DayOf(at) == at \div Slots

Positions == IF plan = None THEN {} ELSE DOMAIN plan.sessions

\* Minutes of the chosen positions.
Load(sessions, chosen) ==
  LET upTo[i \in 0 .. Len(sessions)] ==
        IF i = 0 THEN 0 ELSE upTo[i - 1] + IF i \in chosen THEN sessions[i].minutes ELSE 0
  IN upTo[Len(sessions)]

\* The sessions at the chosen positions, in their order.
Picked(sessions, chosen) ==
  LET upTo[i \in 0 .. Len(sessions)] ==
        IF i = 0 THEN <<>>
        ELSE IF i \in chosen THEN Append(upTo[i - 1], sessions[i]) ELSE upTo[i - 1]
  IN upTo[Len(sessions)]

\* Open sessions of a day, other than the one with this id if there is an id.
OpenOn(sessions, id, day) ==
  {i \in DOMAIN sessions : /\ id # None => sessions[i].id # id
                           /\ ~sessions[i].done
                           /\ DayOf(sessions[i].at) = day}

\* _assert_daily_capacity: the open sessions of the day leave room.
Fits(sessions, id, at, minutes, limit) ==
  Load(sessions, OpenOn(sessions, id, DayOf(at))) + minutes <= limit

\* Sessions come in order of time, then as stored.
UpTo(sessions, occupants, i) ==
  {j \in occupants : \/ sessions[j].at < sessions[i].at
                     \/ sessions[j].at = sessions[i].at /\ j <= i}

InOrder(sessions) ==
  [n \in DOMAIN sessions |->
     sessions[CHOOSE i \in DOMAIN sessions :
                Cardinality(UpTo(sessions, DOMAIN sessions, i)) = n]]

Answer(op) == [op |-> op, topic |-> None, at |-> None]

Write(op) ==
  /\ edits < MaxEdits /\ edits' = edits + 1
  /\ reply' = Answer(op)

-----------------------------------------------------------------------------
(* build_study_plan: a session a day from now on, as long as the budget,    *)
(* its topic and activity in turn.  Equal settings have equal ids.          *)

Plannable(x) == DayOf(x) > DayOf(now)

BuiltPlan(n, x, limit) ==
  LET id == <<"plan", x, limit, n>>
      SessionOf(i) ==
        [id |-> <<"session", id, DayOf(now) + i, 1 + (i % n)>>, topic |-> 1 + (i % n),
         at |-> now + i * Slots, minutes |-> limit,
         activity |-> ActivityCycle[1 + ((i \div n) % Len(ActivityCycle))], done |-> FALSE]
  IN [id |-> id, sessions |-> [i \in 1 .. DayOf(x) - DayOf(now) |-> SessionOf(i - 1)]]

SameKind(s, r) == s.topic = r.topic /\ s.activity = r.activity

CompletedAs(sessions, s) == {i \in DOMAIN sessions : sessions[i].done /\ SameKind(sessions[i], s)}

\* Faulty variant: progress is recognised by id alone.
EarnsNothing(old, new, i) == FALSE

\* As many sessions of a topic and activity are completed in the new plan, from
\* the first on, as were in the old one.
Earned(old, new, i) ==
  Cardinality({j \in 1 .. i : SameKind(new[j], new[i])}) <= Cardinality(CompletedAs(old, new[i]))

\* Which of the new sessions are completed.
Regenerated(new, done) ==
  [new EXCEPT !.sessions = [i \in DOMAIN @ |-> [@[i] EXCEPT !.done = i \in done]]]

OldSessions == IF plan = None THEN <<>> ELSE plan.sessions

Init ==
  /\ now = 0
  /\ topics = 1
  /\ exam \in Exams /\ budget \in Budgets
  /\ plan = None
  /\ pending = None
  /\ requests = [k \in Keys |-> None]
  /\ call = [t \in Threads |-> None]
  /\ reply = Answer("seed")
  /\ edits = 0

CreatePlan ==
  /\ plan = None /\ Plannable(exam)
  /\ reply' = Answer("create")
  /\ plan' = BuiltPlan(topics, exam, budget)
  /\ UNCHANGED <<now, topics, exam, budget, pending, requests, call, edits>>

\* add_topic regenerates the plan if there is one.
AddTopic ==
  /\ topics < MaxTopics
  /\ Write("regenerate")
  /\ topics' = topics + 1
  /\ IF plan = None
       THEN UNCHANGED plan
       ELSE LET new == BuiltPlan(topics + 1, exam, budget)
            IN /\ Plannable(exam)
               /\ plan' = Regenerated(new, {i \in DOMAIN new.sessions :
                                               Earned(plan.sessions, new.sessions, i)})
  /\ UNCHANGED <<now, exam, budget, pending, requests, call>>

\* update_plan with regenerate: a session is completed, too, if its id was.
Regenerate(x, limit) ==
  /\ Plannable(x)
  /\ Write("regenerate")
  /\ LET new == BuiltPlan(topics, x, limit)
         old == OldSessions
         completed == {old[i].id : i \in {j \in DOMAIN old : old[j].done}}
     IN plan' = Regenerated(new, {i \in DOMAIN new.sessions :
                                     new.sessions[i].id \in completed
                                       \/ Earned(old, new.sessions, i)})
  /\ exam' = x /\ budget' = limit
  /\ UNCHANGED <<now, topics, pending, requests, call>>

\* update_plan without: a lower budget must hold on every day with open sessions.
Adjust(x, limit) ==
  /\ plan # None /\ Plannable(x)
  /\ limit < budget =>
       \A i \in Positions : ~plan.sessions[i].done =>
         Fits(plan.sessions, None, plan.sessions[i].at, 0, limit)
  /\ Write("adjust")
  /\ exam' = x /\ budget' = limit
  /\ UNCHANGED <<now, topics, plan, pending, requests, call>>

ClearPlan ==
  /\ plan # None
  /\ Write("clear")
  /\ plan' = None
  /\ UNCHANGED <<now, topics, exam, budget, pending, requests, call>>

-----------------------------------------------------------------------------
(* Editing one session                                                      *)

\* Faulty variant: the latest session only.
OverflowOnce(sessions, id, day, incoming) ==
  LET occupants == OpenOn(sessions, id, day)
  IN {i \in occupants : /\ UpTo(sessions, occupants, i) = occupants
                        /\ Load(sessions, occupants) + incoming > budget}

\* The latest sessions of a day that is over its budget, until it is not.
Overflow(sessions, id, day, incoming) ==
  LET occupants == OpenOn(sessions, id, day)
  IN {i \in occupants : Load(sessions, UpTo(sessions, occupants, i)) + incoming > budget}

Postponed(sessions, chosen) ==
  [i \in DOMAIN sessions |->
     IF i \in chosen THEN [sessions[i] EXCEPT !.at = @ + Slots] ELSE sessions[i]]

\* One day's overflow goes to the next day; without any there is no more to do.
Settle(sessions, id, day, incoming) ==
  LET over == Overflow(sessions, id, day, incoming)
  IN [sessions |-> Postponed(sessions, over), settled |-> over = {}]

\* Faulty variant: the calendar goes on after the exam.
LastStudyDayOpen == LastDay

LastStudyDay == DayOf(exam)

\* _displace_for_move: the target day overflows into the next, and that one into
\* its next, as far as needed.  None if that would be after the exam, or if the
\* session is longer than a day.
Displaced(sessions, id, at, minutes) ==
  LET first == DayOf(at)
      last == Max({first, LastStudyDay})
      sweep[day \in first .. last] ==
        IF day = first THEN Settle(sessions, id, day, minutes)
        ELSE IF sweep[day - 1].settled THEN sweep[day - 1]
        ELSE Settle(sweep[day - 1].sessions, id, day, 0)
  IN IF minutes <= budget /\ sweep[last].settled THEN sweep[last].sessions ELSE None

Same == [at |-> None, minutes |-> None, done |-> None, topic |-> None, displace |-> FALSE]

\* Payloads that change one thing; a move may ask to displace.
Payloads ==
  {[Same EXCEPT !.at = at] : at \in Destinations}
    \cup {[Same EXCEPT !.at = at, !.displace = TRUE] : at \in Destinations}
    \cup {[Same EXCEPT !.minutes = minutes] : minutes \in Minutes}
    \cup {[Same EXCEPT !.done = done] : done \in BOOLEAN}
    \cup {[Same EXCEPT !.topic = topic] : topic \in 1 .. topics}

Or(new, old) == IF new = None THEN old ELSE new

\* The other sessions as the update leaves them, or None if it is refused.
MadeRoom(s, new, payload) ==
  LET reopening == s.done /\ payload.at = None /\ payload.minutes = None
  IN IF new.done \/ reopening
       THEN plan.sessions
     ELSE IF payload.displace /\ DayOf(new.at) # DayOf(s.at)
       THEN Displaced(plan.sessions, s.id, new.at, new.minutes)
     ELSE IF Fits(plan.sessions, s.id, new.at, new.minutes, budget)
       THEN plan.sessions
     ELSE None

Verb(payload) ==
  IF payload.at # None THEN "move" ELSE IF payload.done = FALSE THEN "reopen" ELSE "update"

\* update_plan_session; a pending question of the session that is about another
\* topic is withdrawn.
UpdateSession(i, payload) ==
  LET s == plan.sessions[i]
      new == [s EXCEPT !.at = Or(payload.at, @), !.minutes = Or(payload.minutes, @),
                       !.done = Or(payload.done, @), !.topic = Or(payload.topic, @)]
      others == MadeRoom(s, new, payload)
  IN /\ \A j \in 1 .. i - 1 : plan.sessions[j].id # s.id
     /\ others # None
     /\ Write(Verb(payload))
     /\ plan' = [plan EXCEPT !.sessions = [others EXCEPT ![i] = new]]
     /\ pending' = IF /\ pending # None /\ payload.topic # None
                      /\ pending.session = s.id /\ pending.via = "plan"
                      /\ pending.topic # payload.topic
                     THEN None ELSE pending
     /\ UNCHANGED <<now, topics, exam, budget, requests, call>>

\* add_plan_session, perhaps with a new topic.
AddSession(payload) ==
  /\ plan # None /\ payload.topic <= topics + 1
  /\ Fits(plan.sessions, None, payload.at, payload.minutes, budget)
  /\ Write("add")
  /\ topics' = Max({topics, payload.topic})
  /\ LET id == <<"manual-session", plan.id, payload.topic, payload.at, Len(plan.sessions)>>
     IN plan' = [plan EXCEPT !.sessions = Append(@,
          [id |-> id, topic |-> payload.topic, at |-> payload.at, minutes |-> payload.minutes,
           activity |-> payload.activity, done |-> FALSE])]
  /\ UNCHANGED <<now, exam, budget, pending, requests, call>>

-----------------------------------------------------------------------------
(* Questions and answers                                                    *)

\* A question about an open session, or about a review that is due.
Ask(i, via) ==
  /\ LET s == plan.sessions[i]
     IN /\ ~s.done
        /\ via = "review" => s.activity = "review" /\ s.at <= now
        /\ \A j \in 1 .. i - 1 : plan.sessions[j].id # s.id
        /\ pending' = [topic |-> s.topic, session |-> s.id, via |-> via]
  /\ reply' = Answer("ask")
  /\ UNCHANGED <<now, topics, exam, budget, plan, requests, call, edits>>

\* A question about a topic.
AskAbout(topic) ==
  /\ pending' = [topic |-> topic, session |-> None, via |-> None]
  /\ reply' = Answer("ask")
  /\ UNCHANGED <<now, topics, exam, budget, plan, requests, call, edits>>

IsAdded(s) == s.activity = "review" /\ s.id[1] = "review"

OpenReviews(sessions, topic) ==
  {i \in DOMAIN sessions : /\ sessions[i].activity = "review" /\ sessions[i].topic = topic
                           /\ ~sessions[i].done}

\* Faulty variant: what is completed stays, what is open goes.
GoesFirstOpen(s, r) ==
  (~s.done /\ r.done) \/ (s.done = r.done /\ s.at < r.at)

\* Completed reviews go first, then the earliest.
GoesFirst(s, r) ==
  (s.done /\ ~r.done) \/ (s.done = r.done /\ s.at < r.at)

\* At most MaxReviews added reviews stay; equals are told apart by their hashes.
Trimmed(sessions) ==
  LET added == {s \in Range(sessions) : IsAdded(s)}
      excess == Max({0, Cardinality(added) - MaxReviews})
  IN {Picked(sessions, {i \in DOMAIN sessions : sessions[i] \notin removed}) :
        removed \in {r \in SUBSET added :
                       /\ Cardinality(r) = excess
                       /\ \A kept \in added \ r, gone \in r : ~GoesFirst(kept, gone)}}

\* _upsert_review_session: the open review that was added for the topic makes
\* way; a planned one is moved forward to it, unless that is past, and else it
\* is added.  The possible pairs of sessions and time of review.
Upserted(sessions, topic, at) ==
  LET replaced == {i \in DOMAIN sessions :
                     IsAdded(sessions[i]) /\ sessions[i].topic = topic /\ ~sessions[i].done}
      left == Picked(sessions, DOMAIN sessions \ replaced)
      planned == OpenReviews(left, topic)
      first == {i \in planned : \A j \in planned : left[i].at <= left[j].at}
      review == [id |-> <<"review", edits>>, topic |-> topic, at |-> at,
                 minutes |-> Min({ReviewMinutes, budget}), activity |-> "review", done |-> FALSE]
      Forward(i) == Max({now, Min({left[i].at, at})})
      upserts == IF planned = {}
                   THEN {<<Append(left, review), at>>}
                   ELSE {<<[left EXCEPT ![i].at = Forward(i)], Forward(i)>> : i \in first}
  IN UNION {{<<InOrder(kept), upsert[2]>> : kept \in Trimmed(upsert[1])} :
              upsert \in upserts}

\* The plan's part of grade_once: a credited answer completes the session the
\* question was asked for, which must be there with the topic of the question,
\* and asks for a review before the exam.
CreditAnswer(correct) ==
  /\ pending # None /\ plan # None
  /\ edits < MaxEdits /\ edits' = edits + 1
  /\ LET at == now + IF correct THEN ReviewDelay ELSE RetryDelay
         asked == {i \in Positions : plan.sessions[i].id = pending.session}
         completed == IF pending.session = None
                        THEN plan.sessions
                        ELSE [plan.sessions EXCEPT ![Min(asked)].done = TRUE]
     IN /\ pending.session # None =>
             asked # {} /\ plan.sessions[Min(asked)].topic = pending.topic
        /\ IF at < exam
             THEN \E outcome \in Upserted(completed, pending.topic, at) :
                    /\ plan' = [plan EXCEPT !.sessions = outcome[1]]
                    /\ reply' = [op |-> "answer", topic |-> pending.topic, at |-> outcome[2]]
             ELSE /\ plan' = [plan EXCEPT !.sessions = completed]
                  /\ reply' = Answer("answer")
  /\ pending' = None
  /\ UNCHANGED <<now, topics, exam, budget, requests, call>>

\* An answer that earns nothing, or for a space without a plan.
TakeAnswer ==
  /\ pending # None
  /\ Write("answer")
  /\ pending' = None
  /\ UNCHANGED <<now, topics, exam, budget, plan, requests, call>>

-----------------------------------------------------------------------------
(* A targeted plan: TargetedPlanService.generate                            *)

\* _fallback: the hour of every day, from now on, that begins before the exam's
\* time of day.  On the day of the exam it may be after the exam.
FallbackTimes(x, hour) ==
  LET at == [n \in 1 .. LastDay + 1 |-> (n - 1) * Slots + hour]
  IN Picked(at, {n \in DOMAIN at : at[n] > now /\ now + (DayOf(at[n]) - DayOf(now)) * Slots < x})

\* What the model writes is taken if it covers as much, and all before the exam.
Written(c, minutes) ==
  LET times == FallbackTimes(c.exam, c.hour)
      id == <<"targeted-plan", c.exam, c.limit, c.hour, c.topic, minutes, times>>
  IN [id |-> id,
      sessions |-> [i \in DOMAIN times |->
         [id |-> <<"session", id, i, c.topic>>, topic |-> c.topic,
          at |-> times[i], minutes |-> minutes,
          activity |-> ActivityCycle[1 + ((i - 1) % Len(ActivityCycle))], done |-> FALSE]]]

IsCurrent(key) == plan # None /\ requests[key] = plan.id

\* A key whose plan is the current one is answered with it.
BeginTargeted(t, c) ==
  /\ call[t] = None /\ ~IsCurrent(c.key)
  /\ FallbackTimes(c.exam, c.hour) # <<>>
  /\ c.topic <= topics + 1
  /\ \E minutes \in Minutes \cup {c.limit} :
       /\ minutes <= c.limit
       /\ minutes # c.limit => \A at \in ToSet(FallbackTimes(c.exam, c.hour)) : at < c.exam
       /\ call' = [call EXCEPT ![t] = [payload |-> c, plan |-> Written(c, minutes)]]
  /\ UNCHANGED <<now, topics, exam, budget, plan, pending, requests, reply, edits>>

\* The session of the pending question stays if it suits the new plan.
Compatible(s, c) == s.minutes <= c.limit /\ s.at < c.exam /\ s.at % Slots = c.hour

\* Faulty variant: only the session of the pending question is kept.
ProtectedIfPending(s, asked) == asked # None /\ s.id = asked

Protected(s, asked) == s.done \/ (asked # None /\ s.id = asked)

Replayed(key) == IsCurrent(key)

PutTargeted(t) ==
  LET c == call[t].payload
      old == OldSessions
      session == IF pending = None THEN None ELSE pending.session
      suits == session # None =>
                 \A i \in DOMAIN old : old[i].id = session => Compatible(old[i], c)
      asked == IF suits THEN session ELSE None
      kept == Picked(old, {i \in DOMAIN old : Protected(old[i], asked)})
      taken == {kept[i].id : i \in DOMAIN kept}
      clashing == {kept[i].at : i \in DOMAIN kept}
      new == call[t].plan.sessions
      added == Picked(new, {i \in DOMAIN new : /\ new[i].id \notin taken
                                               /\ new[i].at \notin clashing})
      id == <<"targeted-plan-state", call[t].plan.id,
              {<<kept[i].id, kept[i].done>> : i \in DOMAIN kept}>>
  IN /\ call[t] # None
     /\ call' = [call EXCEPT ![t] = None]
     /\ IF Replayed(c.key)
          THEN UNCHANGED <<topics, exam, budget, plan, pending, requests, reply, edits>>
          ELSE /\ Write("targeted")
               /\ topics' = Max({topics, c.topic})
               /\ exam' = c.exam /\ budget' = c.limit
               /\ plan' = [id |-> id, sessions |-> kept \o added]
               /\ pending' = IF suits THEN pending
                                      ELSE [pending EXCEPT !.session = None, !.via = None]
               /\ \E stale \in SUBSET (Keys \ {c.key}) :
                    /\ requests' = [k \in Keys |-> IF k = c.key THEN id
                                                   ELSE IF k \in stale THEN None ELSE requests[k]]
                    /\ LET stored == {k \in Keys \ {c.key} : requests[k] # None}
                       IN /\ stale \subseteq stored
                          /\ Cardinality(stale) = Max({0, Cardinality(stored) + 1 - MaxTargeted})
     /\ UNCHANGED now

\* The material is gone or no longer supports the topic, or the lease is taken.
RefuseTargeted(t) ==
  /\ call[t] # None
  /\ call' = [call EXCEPT ![t] = None]
  /\ UNCHANGED <<now, topics, exam, budget, plan, pending, requests, reply, edits>>

-----------------------------------------------------------------------------
Tick ==
  /\ \E later \in Clock : later > now /\ now' = later
  /\ UNCHANGED <<topics, exam, budget, plan, pending, requests, call, reply, edits>>

Next ==
  \/ CreatePlan \/ AddTopic \/ ClearPlan
  \/ \E x \in Exams, limit \in Budgets : Regenerate(x, limit) \/ Adjust(x, limit)
  \/ \E i \in Positions :
       \/ \E payload \in Payloads : UpdateSession(i, payload)
       \/ \E via \in {"plan", "review"} : Ask(i, via)
  \/ \E payload \in Additions : AddSession(payload)
  \/ \E topic \in 1 .. topics : AskAbout(topic)
  \/ \E correct \in BOOLEAN : CreditAnswer(correct)
  \/ TakeAnswer
  \/ \E t \in Threads : \/ \E c \in Targeted : BeginTargeted(t, c)
                        \/ PutTargeted(t) \/ RefuseTargeted(t)
  \/ Tick

Spec == Init /\ [][Next]_vars

-----------------------------------------------------------------------------
(* Properties                                                               *)

Session ==
  [topic : 1 .. MaxTopics, at : Times, minutes : Budgets \cup Minutes \cup {ReviewMinutes},
   activity : Activities \cup {"review"}, done : BOOLEAN]

\* Shape of the record, and the bounds the code keeps: on the reviews it adds
\* and on the keys of targeted plans.
TypeOK ==
  /\ now \in Clock /\ topics \in 1 .. MaxTopics
  /\ exam \in Exams /\ budget \in Budgets
  /\ \A i \in Positions : LET s == plan.sessions[i] IN
       [f \in DOMAIN s \ {"id"} |-> s[f]] \in Session
  /\ Cardinality({i \in Positions : IsAdded(plan.sessions[i])}) <= MaxReviews
  /\ Cardinality({k \in Keys : requests[k] # None}) <= MaxTargeted
  /\ edits \in 0 .. MaxEdits

DistinctIds(sessions) ==
  \A i, j \in DOMAIN sessions : sessions[i].id = sessions[j].id => i = j

DayLoad(p, day) == IF p = None THEN 0 ELSE Load(p.sessions, OpenOn(p.sessions, None, day))

\* No request but a reopening (which restores what was there) and an answer
\* (which adds its review) brings a day of open sessions above the daily
\* budget, or adds to a day that is above it: neither a move that displaces
\* other sessions from day to day nor a new budget nor a plan written by a
\* model while the learner edits.  This is said of plans whose sessions have
\* different ids.  Others exist: the id of a session that the learner adds has
\* the number of sessions in it, which gets smaller when an answer replaces a
\* review; two that share an id are left out together when one of them is
\* resized or moved, and then both count for nothing.
BudgetKept ==
  [][reply'.op \notin {"reopen", "answer"} /\ DistinctIds(OldSessions) =>
       \A day \in 0 .. LastDay :
         DayLoad(plan', day) <= Max({budget', DayLoad(plan, day)})]_vars

\* Making room only postpones open sessions, by whole days and not past the
\* exam: whatever is completed stays where it is, and nothing is lost.
MoveLossless ==
  [][reply'.op = "move" /\ edits' # edits =>
       /\ DOMAIN plan'.sessions = DOMAIN plan.sessions
       /\ \E moved \in Positions : \A i \in Positions \ {moved} :
            LET s == plan.sessions[i]
                r == plan'.sessions[i]
            IN \/ r = s
               \/ /\ ~s.done /\ r = [s EXCEPT !.at = r.at]
                  /\ r.at > s.at /\ (r.at - s.at) % Slots = 0
                  /\ DayOf(r.at) <= DayOf(exam)]_vars

\* A plan made anew, for another exam, budget or topic, keeps what was done:
\* of every topic and activity as much is completed as before, or as the new
\* plan has.
ProgressCarried ==
  [][reply'.op = "regenerate" /\ edits' # edits /\ plan # None =>
       \A i \in Positions : LET s == plan.sessions[i] IN
         Cardinality(CompletedAs(plan'.sessions, s)) >=
           Min({Cardinality(CompletedAs(plan.sessions, s)),
                Cardinality({j \in DOMAIN plan'.sessions : SameKind(plan'.sessions[j], s)})})]_vars

\* The review an answer promises is in the plan, open and at that time, as long
\* as the open reviews are within the bound; the completed ones give way to it.
PromiseKept ==
  [][reply'.op = "answer" /\ reply'.at # None /\ edits' # edits
     /\ Cardinality({i \in Positions : IsAdded(plan.sessions[i]) /\ ~plan.sessions[i].done})
          < MaxReviews
     => \E i \in OpenReviews(plan'.sessions, reply'.topic) : plan'.sessions[i].at = reply'.at]_vars

\* A plan that was written while the learner went on keeps what was completed
\* meanwhile, and the pending question its session, if it suits; and a request
\* repeated with its key never replaces its own plan, with what was done in it.
LatePlanSpares ==
  [][\A t \in Threads : call[t] # None /\ call'[t] = None /\ plan # None /\ plan' # plan =>
       /\ requests[call[t].payload.key] # plan.id
       /\ \A i \in Positions : plan.sessions[i].done =>
            \E j \in DOMAIN plan'.sessions : plan'.sessions[j] = plan.sessions[i]
       /\ pending # None /\ pending'.session # None
          /\ (\E i \in Positions : plan.sessions[i].id = pending.session)
          => \E j \in DOMAIN plan'.sessions : plan'.sessions[j].id = pending'.session]_vars
=============================================================================
