----------------------------- MODULE PracticeLoop -----------------------------
(***************************************************************************)
(* The learning record of one learning space: the pending question, the    *)
(* question history, the attempts and what they credit.  LearningService    *)
(* generates and grades through model calls, between a read of the record  *)
(* and a write to it, while other requests write.                          *)
(*                                                                         *)
(* A mutate of the record is one step here: RecordStore shows it atomic.   *)
(* A request on a thread takes several steps, and in between it holds at   *)
(* most the generation lock of its process and one scope, `question' or    *)
(* `plan', across processes.  One topic; prompts stand for all of a        *)
(* question's content.  History and requests are Python dicts in the code   *)
(* and JSONB on PostgreSQL, which keeps no key order: where the code gives  *)
(* up the first key, any one may go.                                       *)
(***************************************************************************)
EXTENDS Naturals, Sequences, FiniteSets, SequencesExt

CONSTANTS
  Threads,         \* request threads, each with one request at a time
  Hosts,           \* the ways threads may be spread over processes
  MaterialOnly,    \* threads of the workspace routes, which require grounded questions
  Prompts,         \* what a question may ask
  Grounded,        \* prompts that cite uploaded material
  RequestIds,      \* idempotency keys of question requests
  AttemptIds,      \* idempotency keys of answers
  Sessions,        \* ids of plan sessions
  MaxHistory, MaxRequests, MaxSaved, MaxCredited,
  MaxWrites,       \* bound on the writes to the record
  None

ASSUME LoopAssumption ==
  /\ Grounded \subseteq Prompts /\ MaterialOnly \subseteq Threads
  /\ {MaxHistory, MaxRequests, MaxSaved, MaxCredited} \subseteq Nat \ {0}
  /\ MaxWrites \in Nat
  /\ None \notin Threads \cup RequestIds \cup AttemptIds \cup Sessions \cup Prompts

VARIABLES
  host,            \* the process of each thread
  version,         \* of the record: counts its writes
  pending,         \* the question to answer, or None
  history,         \* the set of questions kept
  sequence,        \* question_sequence
  requests,        \* question_requests: request id -> question id
  saved,           \* ids of saved questions
  attempts,        \* attempt id -> what was graded
  credited,        \* credited_question_ids of the topic
  plan,            \* session id -> "absent", "planned" or "completed"
  generating,      \* process -> thread with the generation lock, or None
  asking,          \* thread inside question_transaction, or None
  planning,        \* thread inside plan_transaction, or None
  call,            \* thread -> what it was asked
  pc,
  snapshot,        \* question: version at the snapshot; answer: 1 + seeds when compared, or 0
  draft,           \* answer: the prompt that was graded, and `seeds' when it was read
  seeds            \* history: how often the space was seeded anew

record  == <<version, pending, history, sequence, requests, saved, attempts, credited, plan>>
locks   == <<generating, asking, planning>>
threads == <<call, pc, snapshot, draft>>
vars    == <<host, record, locks, threads, seeds>>

-----------------------------------------------------------------------------
(* Vocabulary                                                               *)

Question == [id : Nat, prompt : Prompts, session : Sessions \cup {None}]

Plans == [Sessions -> {"absent", "planned", "completed"}]

IdsOf(questions) == {q.id : q \in questions}

Ids == IdsOf(history) \cup (IF pending = None THEN {} ELSE {pending.id})

IsPending(id) == pending # None /\ pending.id = id

\* The question a replayed request id stands for, if it is still kept.
Replay(key) == {q \in history : key \in DOMAIN requests /\ requests[key] = q.id}

Detached(q) == [id |-> q.id, prompt |-> q.prompt, session |-> None]

QuestionCall == [kind : {"question"}, key : RequestIds \cup {None}, replace : BOOLEAN,
                 session : Sessions \cup {None}]

\* The client's prompt_hash names the prompt it showed with that id; older clients send none.
AnswerCall   == [kind : {"answer"}, attempt : AttemptIds, id : Nat,
                 hash : Prompts \cup {None}]

Draft == [prompt : Prompts, seeds : Nat]

Labels == {"idle", "quarantine", "generate", "recheck", "store", "discard", "check", "record"}

ASSUME NoneAssumption == None \notin Question \cup QuestionCall \cup AnswerCall \cup Draft

Goto(t, l) == pc' = [pc EXCEPT ![t] = l]

\* The thread answers its client and is free again, holding nothing.
Return(t) ==
  /\ Goto(t, "idle")
  /\ call'  = [call EXCEPT ![t] = None]
  /\ snapshot' = [snapshot EXCEPT ![t] = 0]
  /\ draft' = [draft EXCEPT ![t] = None]

\* Faulty variant: an error leaves the generation lock taken.
UnlockScopes(t) ==
  /\ generating' = generating
  /\ asking'   = IF asking = t THEN None ELSE asking
  /\ planning' = IF planning = t THEN None ELSE planning

Unlock(t) ==
  /\ generating' = [p \in DOMAIN generating |-> IF generating[p] = t THEN None ELSE generating[p]]
  /\ asking'   = IF asking = t THEN None ELSE asking
  /\ planning' = IF planning = t THEN None ELSE planning

\* Every mutate counts the version up, also one that changes nothing else.
Wrote == version' = version + 1

MayWrite == version < MaxWrites

-----------------------------------------------------------------------------
Init ==
  /\ host \in Hosts
  /\ version = 0 /\ sequence = 0 /\ seeds = 0
  /\ pending = None
  /\ history = {} /\ saved = {}
  /\ requests = << >> /\ attempts = << >> /\ credited = << >>
  /\ plan = [s \in Sessions |-> "planned"]
  /\ generating = [p \in {host[t] : t \in Threads} |-> None]
  /\ asking = None /\ planning = None
  /\ call = [t \in Threads |-> None]
  /\ pc = [t \in Threads |-> "idle"]
  /\ snapshot = [t \in Threads |-> 0]
  /\ draft = [t \in Threads |-> None]

-----------------------------------------------------------------------------
(* Next question                                                            *)

AskQuestion(t) ==
  /\ pc[t] = "idle" /\ MayWrite
  /\ \E c \in QuestionCall :
       /\ call' = [call EXCEPT ![t] = c]
       /\ Goto(t, IF t \in MaterialOnly THEN "quarantine" ELSE "generate")
  /\ UNCHANGED <<host, record, locks, snapshot, draft, seeds>>

\* quarantine_ungrounded_pending, in one question transaction.
Quarantine(t) ==
  /\ pc[t] \in {"quarantine", "discard"}
  /\ asking = None
  /\ LET ungrounded == pending # None /\ pending.prompt \notin Grounded
         stale      == {k \in DOMAIN requests : \E q \in Replay(k) : q.prompt \notin Grounded}
     IN IF ungrounded \/ stale # {}
          THEN /\ pending' = IF ungrounded THEN None ELSE pending
               /\ requests' = Restrict(requests, DOMAIN requests \ stale)
               /\ Wrote
          ELSE UNCHANGED <<pending, requests, version>>
  /\ IF pc[t] = "discard" THEN Return(t)
                          ELSE Goto(t, "generate") /\ UNCHANGED <<call, snapshot, draft>>
  /\ UNCHANGED <<host, history, sequence, saved, attempts, credited, plan, locks, seeds>>

\* The generation lock and the snapshot; a replay or a pending question is answered at once.
\* The model call follows; what it returns matters only to the write that stores it.
ReadSnapshot(t) ==
  /\ pc[t] = "generate" /\ generating[host[t]] = None
  /\ LET c    == call[t]
         kept == IF pending # None /\ ~c.replace THEN {pending} ELSE {}
         old  == IF Replay(c.key) # {} THEN Replay(c.key) ELSE kept
         open == c.session # None => plan[c.session] = "planned"
     IN \/ /\ old # {} \/ ~open
           /\ Return(t) /\ UNCHANGED generating
        \/ /\ old = {} /\ open
           /\ generating' = [generating EXCEPT ![host[t]] = t]
           /\ snapshot' = [snapshot EXCEPT ![t] = version]
           /\ Goto(t, "recheck")
           /\ UNCHANGED <<call, draft>>
  /\ UNCHANGED <<host, record, asking, planning, seeds>>

\* Faulty variant: the draft is stored whatever happened since the snapshot.
RecheckNothing(t) ==
  /\ pc[t] = "recheck" /\ asking = None
  /\ asking' = t /\ Goto(t, "store")
  /\ UNCHANGED <<host, record, generating, planning, call, snapshot, draft, seeds>>

\* question_transaction: what another request stored meanwhile wins over the draft.
Recheck(t) ==
  /\ pc[t] = "recheck" /\ asking = None
  /\ LET c     == call[t]
         moved == version # snapshot[t]
         kept  == IF moved /\ pending # None /\ ~c.replace THEN {pending} ELSE {}
         old   == IF Replay(c.key) # {} THEN Replay(c.key) ELSE kept
     IN \/ /\ old # {} \/ moved
           /\ Return(t) /\ Unlock(t)
        \/ /\ old = {} /\ ~moved
           /\ asking' = t /\ Goto(t, "store")
           /\ UNCHANGED <<generating, planning, call, snapshot, draft>>
  /\ UNCHANGED <<host, record, seeds>>

NewId == CHOOSE n \in sequence..(sequence + Cardinality(history)) :
           /\ n \notin IdsOf(history)
           /\ \A m \in sequence..(n - 1) : m \in IdsOf(history)

Over(n, bound) == IF n > bound THEN n - bound ELSE 0

\* Faulty variant: saved questions are given up like any other.
RemovableAll == history

\* Questions that may be given up for the bound.
Removable == {q \in history : q.id \notin saved}

\* What is left of the history to make room for one more; nothing if it is full of saved ones.
Kept == {history \ gone : gone \in {g \in SUBSET Removable :
           Cardinality(g) = Over(Cardinality(history) + 1, MaxHistory)}}

\* The requests with one more, or with a new question for a known one.
Remembered(key, id) ==
  LET others == DOMAIN requests \ {key}
      bound  == IF key \in DOMAIN requests THEN Cardinality(others)
                ELSE Cardinality(others) - Over(Cardinality(others) + 1, MaxRequests)
  IN {[k \in kept \cup {key} |-> IF k = key THEN id ELSE requests[k]] :
        kept \in {K \in SUBSET others : Cardinality(K) = bound}}

\* store_once; a history full of saved questions refuses.
StoreQuestion(t) ==
  /\ pc[t] = "store"
  /\ LET key == call[t].key
     IN \/ /\ \E p \in IF t \in MaterialOnly THEN Grounded ELSE Prompts, rest \in Kept :
                LET q == [id |-> NewId, prompt |-> p, session |-> call[t].session]
                IN pending' = q /\ history' = rest \cup {q}
           /\ sequence' = NewId + 1
           /\ requests' \in IF key = None THEN {requests} ELSE Remembered(key, NewId)
           /\ Wrote
        \/ /\ Kept = {}
           /\ UNCHANGED <<pending, history, sequence, requests, version>>
  /\ Return(t) /\ Unlock(t)
  /\ UNCHANGED <<host, saved, attempts, credited, plan, seeds>>

Newest(s, n) == SubSeq(s, Over(Len(s), n) + 1, Len(s))

-----------------------------------------------------------------------------
(* Answers                                                                  *)

\* The first read decides what is graded; the model call follows, with no lock held.
\* Ids that are not pending, and attempts already stored, are answered from this read.
\* Only the id is looked at here: what the client shows under it may be another question,
\* of the space before it was seeded anew, and so may the hash it sends.
SubmitAnswer(t) ==
  /\ pc[t] = "idle" /\ MayWrite /\ pending # None
  /\ \E a \in AttemptIds \ DOMAIN attempts, h \in Prompts \cup {None} :
       call' = [call EXCEPT ![t] = [kind |-> "answer", attempt |-> a, id |-> pending.id, hash |-> h]]
  /\ IF t \in MaterialOnly /\ pending.prompt \notin Grounded
       THEN Goto(t, "discard") /\ UNCHANGED draft
       ELSE /\ Goto(t, "check")
            /\ draft' = [draft EXCEPT ![t] = [prompt |-> pending.prompt, seeds |-> seeds]]
  /\ UNCHANGED <<host, record, locks, snapshot, seeds>>

\* There is a hash, and a question to compare it with.
Comparable(t) == call[t].hash # None /\ call[t].attempt \notin DOMAIN attempts /\ pending # None

\* When the comparison was made, as far as `seeds' tells.
Compared(t) == IF Comparable(t) THEN seeds + 1 ELSE 0

\* Faulty variant: the client's hash is ignored.
CheckNothing(t) ==
  /\ pc[t] = "check" /\ planning = None
  /\ planning' = t /\ snapshot' = [snapshot EXCEPT ![t] = Compared(t)] /\ Goto(t, "record")
  /\ UNCHANGED <<host, record, generating, asking, call, draft, seeds>>

\* plan_transaction: the pending question must be the one the client's hash names.
Check(t) ==
  /\ pc[t] = "check" /\ planning = None
  /\ IF Comparable(t) /\ <<pending.id, pending.prompt>> # <<call[t].id, call[t].hash>>
       THEN Return(t) /\ UNCHANGED planning
       ELSE /\ planning' = t /\ Goto(t, "record")
            /\ snapshot' = [snapshot EXCEPT ![t] = Compared(t)]
            /\ UNCHANGED <<call, draft>>
  /\ UNCHANGED <<host, record, generating, asking, seeds>>

\* Faulty variant: no memory of earlier credit.
CreditedNever(id) == FALSE

AlreadyCredited(id) ==
  \/ id \in ToSet(credited)
  \/ \E a \in DOMAIN attempts : attempts[a].question.id = id /\ attempts[a].credit

\* Plans after a credit: session s is completed, planned reviews come and go.
Reviewed(s) ==
  {p \in Plans : \A x \in Sessions :
     IF x = s THEN p[x] = "completed" ELSE p[x] \in {plan[x], "absent", "planned"}}

\* grade_once: one attempt per id, credit at most once per question, its session completed.
RecordGrade(t) ==
  /\ pc[t] = "record"
  /\ LET c == call[t]
     IN \/ /\ c.attempt \in DOMAIN attempts
           /\ Wrote
           /\ UNCHANGED <<pending, attempts, credited, plan>>
        \/ /\ c.attempt \notin DOMAIN attempts
           /\ ~IsPending(c.id)
           /\ UNCHANGED <<version, pending, attempts, credited, plan>>
        \/ /\ c.attempt \notin DOMAIN attempts
           /\ IsPending(c.id)
           /\ \E evidence, unplanned \in BOOLEAN :
                LET credit == evidence /\ ~AlreadyCredited(pending.id)
                    s      == IF credit /\ ~unplanned THEN pending.session ELSE None
                    result == [question |-> pending, graded |-> draft[t].prompt,
                               shown |-> c.hash, credit |-> credit,
                               compared |-> snapshot[t] = seeds + 1,
                               reseeded |-> draft[t].seeds # seeds]
                IN /\ unplanned => \A x \in Sessions : plan[x] = "absent"
                   /\ s # None => plan[s] # "absent"
                   /\ Wrote
                   /\ pending' = None
                   /\ attempts' = [a \in DOMAIN attempts \cup {c.attempt} |->
                                     IF a = c.attempt THEN result ELSE attempts[a]]
                   /\ credited' = IF credit THEN Newest(Append(credited, pending.id), MaxCredited)
                                  ELSE credited
                   /\ plan' \in IF credit /\ ~unplanned THEN Reviewed(s) ELSE {plan}
  /\ Return(t) /\ Unlock(t)
  /\ UNCHANGED <<host, history, sequence, requests, saved, seeds>>

-----------------------------------------------------------------------------
(* Single writes                                                            *)

\* retry_question, grounded only: from the history or else from an attempt.
Retry ==
  /\ MayWrite
  /\ \E q \in history \cup
              {attempts[a].question : a \in {x \in DOMAIN attempts :
                                               attempts[x].question.id \notin IdsOf(history)}} :
       /\ q.prompt \in Grounded
       /\ pending' = Detached(q)
  /\ Wrote
  /\ UNCHANGED <<host, history, sequence, requests, saved, attempts, credited, plan, locks,
                 threads, seeds>>

\* set_question_saved; a pending question that left the history comes back to it.
SetSaved(id, on) ==
  /\ MayWrite
  /\ history' = IF IsPending(id) /\ id \notin IdsOf(history)
                  THEN history \cup {pending} ELSE history
  /\ id \in IdsOf(history')
  /\ on => id \in saved \/ Cardinality(saved) < MaxSaved
  /\ saved' = IF on THEN saved \cup {id} ELSE saved \ {id}
  /\ Wrote
  /\ UNCHANGED <<host, pending, sequence, requests, attempts, credited, plan, locks, threads,
                 seeds>>

\* seed: a space without attempts begins anew.
Seed ==
  /\ MayWrite /\ attempts = << >>
  /\ pending' = None /\ sequence' = 0 /\ saved' = {}
  /\ history' = {} /\ requests' = << >> /\ credited' = << >>
  /\ plan' = [s \in Sessions |-> "absent"]
  /\ seeds' = seeds + 1
  /\ Wrote
  /\ UNCHANGED <<host, attempts, locks, threads>>

\* Writers of the plan, as far as this record knows: any new plan, within plan_transaction;
\* create_plan takes no scope, but it replaces no plan.
ChangePlan ==
  /\ MayWrite
  /\ planning = None \/ \A s \in Sessions : plan[s] = "absent"
  /\ \E p \in Plans \ {plan} : plan' = p
  /\ Wrote
  /\ UNCHANGED <<host, pending, history, sequence, requests, saved, attempts, credited, locks,
                 threads, seeds>>

\* update_plan_session gives a session another topic: its pending question is withdrawn.
Withdraw(s) ==
  /\ MayWrite /\ planning = None
  /\ plan[s] # "absent" /\ pending # None /\ pending.session = s
  /\ pending' = None
  /\ requests' = Restrict(requests, {k \in DOMAIN requests : requests[k] # pending.id})
  /\ Wrote
  /\ UNCHANGED <<host, history, sequence, saved, attempts, credited, plan, locks, threads,
                 seeds>>

\* A targeted plan that leaves the pending question's session out.
DetachPending ==
  /\ MayWrite /\ planning = None
  /\ pending # None /\ pending.session # None
  /\ pending' = Detached(pending)
  /\ Wrote
  /\ UNCHANGED <<host, history, sequence, requests, saved, attempts, credited, plan, locks,
                 threads, seeds>>

-----------------------------------------------------------------------------
\* A request that stops with an error: a refused plan session, a failed model call, a scope
\* fence, a deleted space, at any point before its write.
Refuse(t) ==
  /\ pc[t] # "idle"
  /\ Return(t) /\ Unlock(t)
  /\ UNCHANGED <<host, record, seeds>>

Step(t) ==
  \/ Quarantine(t) \/ ReadSnapshot(t) \/ Recheck(t) \/ StoreQuestion(t)
  \/ Check(t) \/ RecordGrade(t)

Request(t) == AskQuestion(t) \/ SubmitAnswer(t)

Write ==
  \/ Retry
  \/ \E id \in Ids, on \in BOOLEAN : SetSaved(id, on)
  \/ Seed \/ ChangePlan \/ DetachPending
  \/ \E s \in Sessions : Withdraw(s)

Next == Write \/ \E t \in Threads : Request(t) \/ Step(t) \/ Refuse(t)

Spec == Init /\ [][Next]_vars

-----------------------------------------------------------------------------
(* Properties                                                               *)

(* Types of the record and of the threads; the bounds of requests, saved    *)
(* and credited questions; a question has one place in the history; a lock  *)
(* is held by the thread inside the block it protects, and by no other,     *)
(* whichever way the block was left.                                        *)
TypeOK ==
  /\ version \in Nat /\ sequence \in Nat /\ seeds \in Nat
  /\ pending \in Question \cup {None}
  /\ history \subseteq Question /\ \A q, r \in history : q.id = r.id => q = r
  /\ saved \subseteq Nat /\ Cardinality(saved) <= MaxSaved
  /\ requests \in [DOMAIN requests -> Nat] /\ DOMAIN requests \subseteq RequestIds
  /\ Cardinality(DOMAIN requests) <= MaxRequests
  /\ credited \in Seq(Nat) /\ Len(credited) <= MaxCredited
  /\ DOMAIN attempts \subseteq AttemptIds
  /\ plan \in Plans
  /\ call \in [Threads -> QuestionCall \cup AnswerCall \cup {None}]
  /\ pc \in [Threads -> Labels]
  /\ snapshot \in [Threads -> Nat] /\ draft \in [Threads -> Draft \cup {None}]
  /\ \A t \in Threads :
       /\ generating[host[t]] = t <=> pc[t] \in {"recheck", "store"}
       /\ asking = t <=> pc[t] = "store"
       /\ planning = t <=> pc[t] = "record"
       /\ call[t] = None <=> pc[t] = "idle"

(* However often a question is answered, retried, given up by the history   *)
(* and the list of credited ids, and by however many requests at once, it   *)
(* moves the mastery estimate at most once.                                 *)
CreditedOnce ==
  \A a, b \in DOMAIN attempts :
    attempts[a].credit /\ attempts[b].credit /\ attempts[a].question.id = attempts[b].question.id
      => a = b

(* A saved question stays in the history whatever is generated after it.    *)
SavedKept == saved \subseteq IdsOf(history)

(* The grade comes from an earlier read than the question it is stored      *)
(* with.  Whatever is generated, withdrawn, retried or given up during the   *)
(* model call, it is a grade of that very question, as long as the space is  *)
(* not seeded anew; and then an answer whose prompt_hash was compared is     *)
(* stored with the question its client showed, or not at all.  (Nothing is   *)
(* compared when nothing is pending at that moment, and a space may be       *)
(* seeded anew between comparison and write.)                                *)
GradedAsAsked ==
  \A a \in DOMAIN attempts :
    /\ attempts[a].reseeded \/ attempts[a].graded = attempts[a].question.prompt
    /\ attempts[a].compared => attempts[a].shown = attempts[a].question.prompt

(* What the comment above the comparison says of the hash: it "fails a       *)
(* superseded answer closed" (learning/service.py:1935).  No run checks it,  *)
(* for it does not hold: the client shows a question, the space is seeded    *)
(* anew and another question takes its id, the answer is graded for that     *)
(* one, and during the call the space is seeded once more and generates the  *)
(* first question again, which is what the hash is then compared with.       *)
ComparedIsGraded ==
  \A a \in DOMAIN attempts :
    attempts[a].compared => attempts[a].graded = attempts[a].question.prompt

(* Repeating a request repeats its result: a stored attempt is never        *)
(* graded again, and a request id whose question is still kept never gets a *)
(* second question, from whichever process.  (Saving the pending question   *)
(* may bring it back into a full history behind the back of a request that  *)
(* has already looked; the history is then longer than its bound.)          *)
RetriesRepeat ==
  [][/\ \A a \in DOMAIN attempts : a \in DOMAIN attempts' /\ attempts'[a] = attempts[a]
     /\ Cardinality(history) <= MaxHistory /\ seeds' = seeds =>
          \A k \in DOMAIN requests \cap DOMAIN requests' :
            requests[k] \in IdsOf(history) => requests'[k] = requests[k]]_vars

(* A draft is stored over a pending question only by a request that said    *)
(* so: one that did not finds nothing pending when it decides to store,     *)
(* whatever other processes stored during its model call.                   *)
DraftYields ==
  [][\A t \in Threads :
       pc[t] = "recheck" /\ pc'[t] = "store" /\ ~call[t].replace => pending = None]_vars
=============================================================================
