------------------------- MODULE PracticeLoop_proofs -------------------------
(***************************************************************************)
(* What holds of PracticeLoop for any number of requests, processes,       *)
(* questions and attempts, and for any bounds.                             *)
(*                                                                         *)
(* IInv is inductive.  RecordType, ThreadType and Locks make up TypeOK.    *)
(* Numbered and OnePrompt say that an id names one question; Asked and     *)
(* Drafting what a thread knows of the record between its steps.           *)
(***************************************************************************)
EXTENDS PracticeLoop, FiniteSetTheorems, TLAPS

Attempt == [question : Question, graded : Prompts, shown : Prompts \cup {None},
            credit : BOOLEAN, compared : BOOLEAN, reseeded : BOOLEAN]

Counters ==
  /\ version \in Nat /\ sequence \in Nat /\ seeds \in Nat

Questions ==
  /\ pending \in Question \cup {None}
  /\ history \subseteq Question /\ IsFiniteSet(history)
  /\ \A q, r \in history : q.id = r.id => q = r

SavedType == saved \subseteq Nat /\ IsFiniteSet(saved) /\ Cardinality(saved) <= MaxSaved

RequestsType ==
  /\ requests \in [DOMAIN requests -> Nat] /\ DOMAIN requests \subseteq RequestIds
  /\ IsFiniteSet(DOMAIN requests) /\ Cardinality(DOMAIN requests) <= MaxRequests

AttemptsType ==
  /\ DOMAIN attempts \subseteq AttemptIds
  /\ \A a \in DOMAIN attempts : attempts[a] \in Attempt
  /\ credited \in Seq(Nat) /\ Len(credited) <= MaxCredited
  /\ plan \in Plans

RecordType == Counters /\ Questions /\ SavedType /\ RequestsType /\ AttemptsType

ThreadType ==
  /\ call \in [Threads -> QuestionCall \cup AnswerCall \cup {None}]
  /\ pc \in [Threads -> Labels]
  /\ snapshot \in [Threads -> Nat] /\ draft \in [Threads -> Draft \cup {None}]
  /\ \A t \in Threads :
       /\ pc[t] \in {"quarantine", "generate", "recheck", "store"} => call[t] \in QuestionCall
       /\ pc[t] \in {"discard", "check", "record"} => call[t] \in AnswerCall
       /\ pc[t] \in {"check", "record"} => draft[t] \in Draft
       /\ pc[t] = "idle" => call[t] = None

Locks ==
  /\ generating \in [{host[t] : t \in Threads} -> Threads \cup {None}]
  /\ \A t \in Threads :
       /\ generating[host[t]] = t <=> pc[t] \in {"recheck", "store"}
       /\ asking = t <=> pc[t] = "store"
       /\ planning = t <=> pc[t] = "record"

\* Every question the record holds.
Known == history \cup {attempts[a].question : a \in DOMAIN attempts}
                 \cup (IF pending = None THEN {} ELSE {pending})

\* Ids are given out in order, so a new one is new to all that is known.
Numbered == \A q \in Known : q.id < sequence

OnePrompt == \A q, r \in Known : q.id = r.id => q.prompt = r.prompt

\* The question that the answer of t names asks p.
Means(t, p) == call[t].id < sequence /\ \A q \in Known : q.id = call[t].id => q.prompt = p

\* What an answer knows as long as the space is not seeded anew: the question it names asks
\* what was graded, and after a comparison what its client showed.
AskedOf(t) ==
  /\ pc[t] \in {"check", "record"} =>
       /\ draft[t].seeds <= seeds
       /\ draft[t].seeds = seeds => Means(t, draft[t].prompt)
  /\ pc[t] = "record" =>
       /\ snapshot[t] <= seeds + 1
       /\ snapshot[t] = seeds + 1 => Means(t, call[t].hash)

Asked == \A t \in Threads : AskedOf(t)

\* What a generating thread knows: nothing was pending at its snapshot unless it may replace.
DraftingOf(t) ==
  pc[t] = "recheck" =>
    /\ snapshot[t] <= version
    /\ version = snapshot[t] /\ ~call[t].replace => pending = None

Drafting == \A t \in Threads : DraftingOf(t)

\* A question leaves the history only when it is full, and it stays full then.
Dropped == \A q \in Known : q.id \in IdsOf(history) \/ Cardinality(history) >= MaxHistory

\* A request about to store has no question yet, or one brought back into a full history.
Unanswered ==
  \A t \in Threads :
    pc[t] = "store" /\ Replay(call[t].key) # {} => Cardinality(history) > MaxHistory

IInv ==
  /\ RecordType /\ ThreadType /\ Locks
  /\ Numbered /\ OnePrompt /\ Asked /\ Drafting /\ Dropped /\ Unanswered
  /\ CreditedOnce /\ SavedKept /\ GradedAsAsked

-----------------------------------------------------------------------------
(* The threads and their locks                                              *)

\* A thread that answers its client holds nothing afterwards.
LEMMA ReturnsFree ==
  ASSUME ThreadType, Locks, NEW t \in Threads, Return(t), host' = host,
         \/ Unlock(t)
         \/ UNCHANGED locks /\ pc[t] \notin {"recheck", "store", "record"}
  PROVE  ThreadType' /\ Locks'
<1> USE LoopAssumption DEF ThreadType, Locks, Return, Goto, Labels
<1>1. ThreadType'
  OBVIOUS
<1>2. generating' \in [{host[u] : u \in Threads} -> Threads \cup {None}]
  BY DEF Unlock, locks
<1>3. ASSUME NEW u \in Threads
      PROVE  /\ generating'[host[u]] = u <=> pc'[u] \in {"recheck", "store"}
             /\ asking' = u <=> pc'[u] = "store"
             /\ planning' = u <=> pc'[u] = "record"
  <2>1. CASE Unlock(t)
    BY <2>1 DEF Unlock
  <2>2. CASE UNCHANGED locks /\ pc[t] \notin {"recheck", "store", "record"}
    BY <2>2 DEF locks
  <2> QED
    BY <2>1, <2>2
<1> QED
  BY <1>1, <1>2, <1>3

\* Every step of a thread leaves the types of the threads and the locks with their holders.
LEMMA ThreadsKept ==
  ASSUME ThreadType, Locks, NEW t \in Threads, Request(t) \/ Step(t) \/ Refuse(t),
         Counters, Questions
  PROVE  ThreadType' /\ Locks'
<1> USE LoopAssumption, NoneAssumption
<1>1. CASE AskQuestion(t)
  BY <1>1 DEF AskQuestion, ThreadType, Locks, locks, Goto, Labels
<1>2. CASE SubmitAnswer(t)
  <2>1. pending \in Question /\ pending.id \in Nat /\ pending.prompt \in Prompts /\ seeds \in Nat
    BY <1>2 DEF SubmitAnswer, Counters, Questions, Question
  <2>2. \E c \in AnswerCall : call' = [call EXCEPT ![t] = c]
    BY <1>2, <2>1 DEF SubmitAnswer, AnswerCall
  <2>3. Locks'
    BY <1>2 DEF SubmitAnswer, ThreadType, Locks, locks, Goto, Labels
  <2>4. CASE Goto(t, "discard") /\ UNCHANGED draft
    BY <1>2, <2>2, <2>3, <2>4 DEF SubmitAnswer, ThreadType, Goto, Labels
  <2>5. CASE /\ Goto(t, "check")
             /\ draft' = [draft EXCEPT ![t] = [prompt |-> pending.prompt, seeds |-> seeds]]
    <3>1. [prompt |-> pending.prompt, seeds |-> seeds] \in Draft
      BY <2>1 DEF Draft
    <3> QED
      BY <1>2, <2>2, <2>3, <2>5, <3>1 DEF SubmitAnswer, ThreadType, Goto, Labels
  <2> QED
    BY <1>2, <2>4, <2>5 DEF SubmitAnswer
<1>3. CASE Quarantine(t)
  <2>1. CASE pc[t] = "discard"
    BY <1>3, <2>1, ReturnsFree DEF Quarantine
  <2>2. CASE pc[t] # "discard"
    BY <1>3, <2>2 DEF Quarantine, ThreadType, Locks, locks, Goto, Labels
  <2> QED
    BY <2>1, <2>2
<1>4. CASE ReadSnapshot(t)
  <2>1. CASE Return(t) /\ UNCHANGED generating
    BY <1>4, <2>1, ReturnsFree DEF ReadSnapshot, locks
  <2>2. CASE /\ generating' = [generating EXCEPT ![host[t]] = t]
             /\ snapshot' = [snapshot EXCEPT ![t] = version]
             /\ Goto(t, "recheck")
             /\ UNCHANGED <<call, draft>>
    BY <1>4, <2>2 DEF ReadSnapshot, ThreadType, Locks, Goto, Labels, Counters
  <2> QED
    BY <1>4, <2>1, <2>2 DEF ReadSnapshot
<1>5. CASE Recheck(t)
  <2>1. CASE Return(t) /\ Unlock(t)
    BY <1>5, <2>1, ReturnsFree DEF Recheck
  <2>2. CASE asking' = t /\ Goto(t, "store") /\ UNCHANGED <<generating, planning, call, snapshot, draft>>
    BY <1>5, <2>2 DEF Recheck, ThreadType, Locks, Goto, Labels
  <2> QED
    BY <1>5, <2>1, <2>2 DEF Recheck
<1>6. CASE StoreQuestion(t)
  BY <1>6, ReturnsFree DEF StoreQuestion
<1>7. CASE Check(t)
  <2>1. CASE Return(t) /\ UNCHANGED planning
    BY <1>7, <2>1, ReturnsFree DEF Check, locks
  <2>2. CASE /\ planning' = t /\ Goto(t, "record")
             /\ snapshot' = [snapshot EXCEPT ![t] = Compared(t)]
             /\ UNCHANGED <<call, draft>>
    BY <1>7, <2>2 DEF Check, Compared, ThreadType, Locks, Goto, Labels, Counters
  <2> QED
    BY <1>7, <2>1, <2>2 DEF Check
<1>8. CASE RecordGrade(t)
  BY <1>8, ReturnsFree DEF RecordGrade
<1>9. CASE Refuse(t)
  BY <1>9, ReturnsFree DEF Refuse
<1> QED
  BY <1>1, <1>2, <1>3, <1>4, <1>5, <1>6, <1>7, <1>8, <1>9 DEF Request, Step

-----------------------------------------------------------------------------
(* The types of the record                                                  *)

\* The next question takes the next number.
LEMMA NewIdIsNext ==
  ASSUME Counters, Questions, Numbered
  PROVE  NewId = sequence
<1> DEFINE Free(n) == n \notin IdsOf(history) /\ \A m \in sequence..(n - 1) : m \in IdsOf(history)
<1>1. sequence \in sequence..(sequence + Cardinality(history))
  BY FS_CardinalityType DEF Counters, Questions
<1>2. sequence \notin IdsOf(history)
  BY DEF Numbered, Known, IdsOf, Counters, Questions, Question
<1>3. Free(sequence)
  BY <1>2 DEF Counters
<1>4. ASSUME NEW n \in sequence..(sequence + Cardinality(history)), Free(n)
      PROVE  n = sequence
  <2>1. n \in Nat /\ n >= sequence
    BY <1>1 DEF Counters
  <2>2. n > sequence => sequence \in sequence..(n - 1)
    BY <2>1 DEF Counters
  <2> QED
    BY <1>2, <1>4, <2>1, <2>2 DEF Counters
<1>5. NewId = CHOOSE n \in sequence..(sequence + Cardinality(history)) : Free(n)
  BY DEF NewId
<1> HIDE DEF Free
<1> QED
  BY <1>1, <1>3, <1>4, <1>5

\* Requests stay within their bound, and each names a question by its number.
LEMMA RequestsBounded ==
  ASSUME RequestsType, NEW key \in RequestIds, NEW id \in Nat, requests' \in Remembered(key, id)
  PROVE  RequestsType'
<1> DEFINE others == DOMAIN requests \ {key}
           bound  == IF key \in DOMAIN requests THEN Cardinality(others)
                     ELSE Cardinality(others) - Over(Cardinality(others) + 1, MaxRequests)
<1>1. PICK kept \in SUBSET others :
        /\ Cardinality(kept) = bound
        /\ requests' = [k \in kept \cup {key} |-> IF k = key THEN id ELSE requests[k]]
  BY DEF Remembered
<1>2. IsFiniteSet(others) /\ IsFiniteSet(kept)
  BY <1>1, FS_Subset DEF RequestsType
<1>3. IsFiniteSet(kept \cup {key}) /\ Cardinality(kept \cup {key}) = bound + 1
  BY <1>1, <1>2, FS_AddElement
<1>4. bound + 1 <= MaxRequests
  <2>1. Cardinality(others) \in Nat /\ Cardinality(DOMAIN requests) \in Nat
    BY <1>2, FS_CardinalityType DEF RequestsType
  <2>2. CASE key \in DOMAIN requests
    <3>1. Cardinality(others) = Cardinality(DOMAIN requests) - 1
      BY <2>2, FS_RemoveElement DEF RequestsType
    <3> QED
      BY <2>1, <2>2, <3>1, LoopAssumption DEF RequestsType
  <2>3. CASE key \notin DOMAIN requests
    BY <2>1, <2>3, LoopAssumption DEF Over
  <2> QED
    BY <2>2, <2>3
<1>5. requests' \in [kept \cup {key} -> Nat] /\ DOMAIN requests' = kept \cup {key}
  BY <1>1 DEF RequestsType
<1> QED
  BY <1>1, <1>3, <1>4, <1>5 DEF RequestsType

\* Forgetting requests keeps the type of the others.
LEMMA RequestsForgotten ==
  ASSUME RequestsType, NEW S, S \subseteq DOMAIN requests, requests' = Restrict(requests, S)
  PROVE  RequestsType'
<1>1. IsFiniteSet(S) /\ Cardinality(S) <= Cardinality(DOMAIN requests)
  BY FS_Subset DEF RequestsType
<1>2. requests' = [k \in S |-> requests[k]]
  BY DEF Restrict
<1>3. Cardinality(S) \in Nat /\ Cardinality(DOMAIN requests) \in Nat /\ MaxRequests \in Nat
  BY <1>1, FS_CardinalityType, LoopAssumption DEF RequestsType
<1> QED
  BY <1>1, <1>2, <1>3 DEF RequestsType

\* What StoreQuestion does to the record, unless it refuses.
LEMMA StoreEffect ==
  ASSUME RecordType, ThreadType, Numbered, NEW t \in Threads, StoreQuestion(t),
         ~UNCHANGED <<pending, history, sequence, requests, version>>
  PROVE  \E q \in Question, rest \in Kept :
           /\ q.id = sequence /\ pending' = q /\ history' = rest \cup {q} /\ rest \subseteq history
           /\ sequence' = q.id + 1 /\ Wrote
           /\ requests' \in IF call[t].key = None THEN {requests} ELSE Remembered(call[t].key, q.id)
<1>1. NewId = sequence
  BY NewIdIsNext DEF RecordType
<1>2. call[t] \in QuestionCall
  BY DEF StoreQuestion, ThreadType
<1>3. /\ \E p \in IF t \in MaterialOnly THEN Grounded ELSE Prompts, rest \in Kept :
           LET q == [id |-> NewId, prompt |-> p, session |-> call[t].session]
           IN pending' = q /\ history' = rest \cup {q}
      /\ requests' \in IF call[t].key = None THEN {requests} ELSE Remembered(call[t].key, NewId)
      /\ sequence' = NewId + 1 /\ Wrote
  BY DEF StoreQuestion
<1>4. \A p \in IF t \in MaterialOnly THEN Grounded ELSE Prompts :
        [id |-> NewId, prompt |-> p, session |-> call[t].session] \in Question
  BY <1>1, <1>2, LoopAssumption DEF Question, QuestionCall, RecordType, Counters
<1>5. \A rest \in Kept : rest \subseteq history
  BY DEF Kept
<1> QED
  BY <1>1, <1>3, <1>4, <1>5

\* A stored question is well typed and has its own number.
LEMMA StoreTypes ==
  ASSUME RecordType, ThreadType, Numbered, NEW t \in Threads, StoreQuestion(t)
  PROVE  RecordType'
<1> DEFINE key == call[t].key
<1>1. key \in RequestIds \cup {None}
  BY DEF StoreQuestion, ThreadType, QuestionCall
<1>2. UNCHANGED <<saved, attempts, credited, plan, seeds>>
  BY DEF StoreQuestion
<1>3. CASE UNCHANGED <<pending, history, sequence, requests, version>>
  BY <1>2, <1>3 DEF RecordType, Counters, Questions, SavedType, RequestsType, AttemptsType
<1>4. CASE ~UNCHANGED <<pending, history, sequence, requests, version>>
  <2>1. PICK q \in Question, rest \in Kept :
          /\ q.id = sequence /\ pending' = q /\ history' = rest \cup {q} /\ rest \subseteq history
          /\ sequence' = q.id + 1 /\ Wrote
          /\ requests' \in IF key = None THEN {requests} ELSE Remembered(key, q.id)
    BY <1>4, StoreEffect
  <2>2. Questions'
    <3>1. IsFiniteSet(rest \cup {q})
      BY <2>1, FS_Subset, FS_AddElement DEF RecordType, Questions
    <3>2. \A r \in rest : r.id # q.id
      BY <2>1 DEF Numbered, Known, RecordType, Counters, Questions, Question
    <3> QED
      BY <2>1, <3>1, <3>2 DEF RecordType, Questions
  <2>3. RequestsType'
    <3>1. CASE key = None
      BY <2>1, <3>1 DEF RecordType, RequestsType
    <3>2. CASE key # None
      BY <1>1, <2>1, <3>2, RequestsBounded DEF RecordType, Question
    <3> QED
      BY <3>1, <3>2
  <2> QED
    BY <1>2, <2>1, <2>2, <2>3
       DEF RecordType, Counters, SavedType, AttemptsType, Wrote, Question
<1> QED
  BY <1>3, <1>4

\* The last n elements of a sequence are no more than n.
LEMMA NewestType ==
  ASSUME NEW s \in Seq(Nat), NEW n \in Nat \ {0}
  PROVE  Newest(s, n) \in Seq(Nat) /\ Len(Newest(s, n)) <= n
<1> DEFINE m == Over(Len(s), n) + 1
<1>1. m \in Nat /\ m >= 1 /\ Len(s) - m + 1 <= n /\ m <= Len(s) + 1
  BY DEF Over
<1>2. SubSeq(s, m, Len(s)) \in Seq(Nat) /\ Len(SubSeq(s, m, Len(s))) = Len(s) - m + 1
  BY <1>1
<1> QED
  BY <1>1, <1>2 DEF Newest

\* A stored grade is well typed, and so is what it credits.
LEMMA GradeTypes ==
  ASSUME RecordType, ThreadType, NEW t \in Threads, RecordGrade(t)
  PROVE  RecordType'
<1>1. call[t] \in AnswerCall
  BY DEF RecordGrade, ThreadType
<1> DEFINE c == call[t]
<1>2. UNCHANGED <<history, sequence, requests, saved, seeds>>
  BY DEF RecordGrade
<1>3. CASE UNCHANGED <<pending, attempts, credited, plan>> /\ (Wrote \/ UNCHANGED version)
  BY <1>2, <1>3 DEF Wrote, RecordType, Counters, Questions, SavedType, RequestsType, AttemptsType
<1>4. ASSUME IsPending(c.id), NEW evidence \in BOOLEAN, NEW unplanned \in BOOLEAN,
             NEW credit \in BOOLEAN, NEW s \in Sessions \cup {None}, NEW result,
             result = [question |-> pending, graded |-> draft[t].prompt, shown |-> c.hash,
                       credit |-> credit, compared |-> snapshot[t] = seeds + 1,
                       reseeded |-> draft[t].seeds # seeds],
             Wrote, pending' = None,
             attempts' = [a \in DOMAIN attempts \cup {c.attempt} |->
                            IF a = c.attempt THEN result ELSE attempts[a]],
             credited' = IF credit THEN Newest(Append(credited, pending.id), MaxCredited)
                         ELSE credited,
             plan' \in IF credit /\ ~unplanned THEN Reviewed(s) ELSE {plan}
      PROVE  RecordType'
  <2>1. pending \in Question /\ pending.id \in Nat
    BY <1>4 DEF IsPending, RecordType, Questions, Question
  <2>2. result \in Attempt
    <3>1. draft[t] \in Draft /\ draft[t].prompt \in Prompts /\ c.hash \in Prompts \cup {None}
      BY <1>1 DEF RecordGrade, ThreadType, Draft, AnswerCall
    <3> QED
      BY <1>4, <2>1, <3>1 DEF Attempt
  <2>3. c.attempt \in AttemptIds
    BY <1>1 DEF AnswerCall
  <2>4. credited' \in Seq(Nat) /\ Len(credited') <= MaxCredited
    <3>1. Append(credited, pending.id) \in Seq(Nat)
      BY <2>1 DEF RecordType, AttemptsType
    <3> QED
      BY <1>4, <3>1, NewestType, LoopAssumption DEF RecordType, AttemptsType
  <2>5. plan' \in Plans
    BY <1>4 DEF Reviewed, RecordType, AttemptsType
  <2>6. AttemptsType'
    BY <1>4, <2>2, <2>3, <2>4, <2>5 DEF RecordType, AttemptsType
  <2> QED
    BY <1>2, <1>4, <2>6 DEF Wrote, RecordType, Counters, Questions, SavedType, RequestsType
<1> QED
  <2>1. CASE c.attempt \in DOMAIN attempts \/ ~IsPending(c.id)
    BY <1>3, <2>1 DEF RecordGrade
  <2>2. CASE c.attempt \notin DOMAIN attempts /\ IsPending(c.id)
    <3>1. PICK evidence, unplanned \in BOOLEAN :
            LET credit == evidence /\ ~AlreadyCredited(pending.id)
                s      == IF credit /\ ~unplanned THEN pending.session ELSE None
                result == [question |-> pending, graded |-> draft[t].prompt, shown |-> c.hash,
                           credit |-> credit, compared |-> snapshot[t] = seeds + 1,
                           reseeded |-> draft[t].seeds # seeds]
            IN /\ Wrote
               /\ pending' = None
               /\ attempts' = [a \in DOMAIN attempts \cup {c.attempt} |->
                                 IF a = c.attempt THEN result ELSE attempts[a]]
               /\ credited' = IF credit THEN Newest(Append(credited, pending.id), MaxCredited)
                              ELSE credited
               /\ plan' \in IF credit /\ ~unplanned THEN Reviewed(s) ELSE {plan}
      BY <2>2 DEF RecordGrade
    <3> DEFINE credit == evidence /\ ~AlreadyCredited(pending.id)
               s      == IF credit /\ ~unplanned THEN pending.session ELSE None
               result == [question |-> pending, graded |-> draft[t].prompt, shown |-> c.hash,
                          credit |-> credit, compared |-> snapshot[t] = seeds + 1,
                          reseeded |-> draft[t].seeds # seeds]
    <3>2. credit \in BOOLEAN /\ s \in Sessions \cup {None}
      BY <2>2 DEF IsPending, RecordType, Questions, Question
    <3>3. /\ Wrote /\ pending' = None
          /\ attempts' = [a \in DOMAIN attempts \cup {c.attempt} |->
                            IF a = c.attempt THEN result ELSE attempts[a]]
          /\ credited' = IF credit THEN Newest(Append(credited, pending.id), MaxCredited)
                         ELSE credited
          /\ plan' \in IF credit /\ ~unplanned THEN Reviewed(s) ELSE {plan}
      BY <3>1
    <3> HIDE DEF credit, s
    <3> QED
      BY <1>4, <2>2, <3>2, <3>3
  <2> QED
    BY <2>1, <2>2

\* The other writes of a thread and the single writes keep the types.
LEMMA QuarantineTypes ==
  ASSUME RecordType, NEW t \in Threads, Quarantine(t)
  PROVE  RecordType'
<1> DEFINE stale == {k \in DOMAIN requests : \E q \in Replay(k) : q.prompt \notin Grounded}
<1>1. UNCHANGED <<history, sequence, saved, attempts, credited, plan, seeds>>
  BY DEF Quarantine
<1>2. pending' \in {pending, None} /\ (Wrote \/ UNCHANGED version)
  BY DEF Quarantine
<1>3. RequestsType'
  <2>1. \/ requests' = requests
        \/ requests' = Restrict(requests, DOMAIN requests \ stale)
    BY DEF Quarantine
  <2> QED
    BY <2>1, RequestsForgotten DEF RecordType, RequestsType
<1> QED
  BY <1>1, <1>2, <1>3 DEF Wrote, RecordType, Counters, Questions, SavedType, AttemptsType

LEMMA SavedTypes ==
  ASSUME RecordType, NEW id, NEW on \in BOOLEAN, SetSaved(id, on)
  PROVE  RecordType'
<1>1. UNCHANGED <<pending, sequence, requests, attempts, credited, plan, seeds>> /\ Wrote
  BY DEF SetSaved
<1>2. Questions'
  <2>1. CASE history' = history
    BY <1>1, <2>1 DEF RecordType, Questions
  <2>2. CASE IsPending(id) /\ id \notin IdsOf(history) /\ history' = history \cup {pending}
    BY <1>1, <2>2, FS_AddElement DEF RecordType, Questions, IsPending, IdsOf
  <2> QED
    BY <2>1, <2>2 DEF SetSaved
<1>3. SavedType'
  <2>1. id \in Nat
    BY <1>2 DEF SetSaved, IdsOf, Questions, Question
  <2>2. CASE on
    <3>1. IsFiniteSet(saved \cup {id}) /\ (id \notin saved => Cardinality(saved \cup {id}) = Cardinality(saved) + 1)
      BY FS_AddElement DEF RecordType, SavedType
    <3>2. id \in saved => saved \cup {id} = saved
      OBVIOUS
    <3>3. Cardinality(saved) \in Nat /\ MaxSaved \in Nat
      BY FS_CardinalityType, LoopAssumption DEF RecordType, SavedType
    <3> QED
      BY <2>1, <2>2, <3>1, <3>2, <3>3 DEF SetSaved, RecordType, SavedType
  <2>3. CASE ~on
    <3>1. IsFiniteSet(saved \ {id}) /\ Cardinality(saved \ {id}) <= Cardinality(saved)
      BY FS_Subset DEF RecordType, SavedType
    <3>2. Cardinality(saved) \in Nat /\ Cardinality(saved \ {id}) \in Nat /\ MaxSaved \in Nat
      BY <3>1, FS_CardinalityType, LoopAssumption DEF RecordType, SavedType
    <3>3. saved' = saved \ {id}
      BY <2>3 DEF SetSaved
    <3>4. Cardinality(saved \ {id}) <= MaxSaved
      BY <3>1, <3>2 DEF RecordType, SavedType
    <3>5. saved' \subseteq Nat
      BY <3>3 DEF RecordType, SavedType
    <3> QED
      BY <3>1, <3>3, <3>4, <3>5 DEF SavedType
  <2> QED
    BY <2>2, <2>3
<1> QED
  BY <1>1, <1>2, <1>3 DEF Wrote, RecordType, Counters, RequestsType, AttemptsType

LEMMA WriteTypes ==
  ASSUME RecordType, Write
  PROVE  RecordType'
<1> USE DEF RecordType
<1>1. CASE Retry
  <2>1. PICK q \in history \cup {attempts[a].question : a \in DOMAIN attempts} : pending' = Detached(q)
    BY <1>1 DEF Retry
  <2>2. q \in Question
    BY DEF Questions, AttemptsType, Attempt
  <2>3. pending' \in Question
    BY <2>1, <2>2 DEF Detached, Question
  <2> QED
    BY <1>1, <2>3 DEF Retry, Wrote, Counters, Questions, SavedType, RequestsType, AttemptsType
<1>2. ASSUME NEW id \in Ids, NEW on \in BOOLEAN, SetSaved(id, on) PROVE RecordType'
  BY <1>2, SavedTypes
<1>3. CASE Seed
  <2>1. IsFiniteSet({}) /\ Cardinality({}) = 0
    BY FS_EmptySet
  <2>2. DOMAIN requests' = {} /\ requests' \in [{} -> Nat] /\ credited' \in Seq(Nat) /\ Len(credited') = 0
    BY <1>3 DEF Seed
  <2>3. plan' \in Plans
    BY <1>3 DEF Seed, Plans
  <2> QED
    BY <1>3, <2>1, <2>2, <2>3, LoopAssumption
       DEF Seed, Wrote, Counters, Questions, SavedType, RequestsType, AttemptsType
<1>4. CASE ChangePlan
  BY <1>4 DEF ChangePlan, Wrote, Counters, Questions, SavedType, RequestsType, AttemptsType
<1>5. CASE DetachPending
  BY <1>5 DEF DetachPending, Detached, Question, Wrote, Counters, Questions, SavedType,
              RequestsType, AttemptsType
<1>6. ASSUME NEW s \in Sessions, Withdraw(s) PROVE RecordType'
  <2>1. RequestsType'
    BY <1>6, RequestsForgotten, {k \in DOMAIN requests : requests[k] # pending.id} \subseteq DOMAIN requests
       DEF Withdraw
  <2> QED
    BY <1>6, <2>1 DEF Withdraw, Wrote, Counters, Questions, SavedType, AttemptsType
<1> QED
  BY <1>1, <1>2, <1>3, <1>4, <1>5, <1>6 DEF Write

-----------------------------------------------------------------------------
(* What happens to the questions                                            *)

QuestionsKept ==
  /\ sequence' = sequence /\ seeds' = seeds
  /\ \A q \in Known' : \E r \in Known : r.id = q.id /\ r.prompt = q.prompt

QuestionAdded ==
  /\ sequence' = sequence + 1 /\ seeds' = seeds
  /\ \E n \in Question : n.id = sequence /\ Known' \subseteq Known \cup {n}

QuestionsGone == Known' = {} /\ seeds' = seeds + 1

\* Only questions are known.
LEMMA KnownType ==
  ASSUME RecordType
  PROVE  Known \subseteq Question
BY DEF RecordType, Known, Questions, AttemptsType, Attempt

\* A step that leaves history and attempts alone and takes its pending question from them.
LEMMA SameKnown ==
  ASSUME UNCHANGED <<history, attempts, sequence, seeds>>, pending' \in Known \cup {None}
  PROVE  QuestionsKept
BY DEF QuestionsKept, Known

\* A step keeps what is known, adds one question with the next number, or begins anew.
LEMMA KnownThread ==
  ASSUME RecordType, ThreadType, Numbered, NEW t \in Threads,
         Request(t) \/ Step(t) \/ Refuse(t)
  PROVE  QuestionsKept \/ QuestionAdded
<1>0. pending \in Known \cup {None}
  BY DEF Known
<1>1. CASE AskQuestion(t) \/ SubmitAnswer(t) \/ ReadSnapshot(t) \/ Recheck(t) \/ Check(t) \/ Refuse(t)
  BY <1>0, <1>1, SameKnown
     DEF AskQuestion, SubmitAnswer, ReadSnapshot, Recheck, Check, Refuse, record
<1>2. CASE Quarantine(t)
  BY <1>0, <1>2, SameKnown DEF Quarantine
<1>3. CASE StoreQuestion(t)
  <2>1. CASE UNCHANGED <<pending, history, sequence, requests, version>>
    BY <1>0, <1>3, <2>1, SameKnown DEF StoreQuestion
  <2>2. CASE ~UNCHANGED <<pending, history, sequence, requests, version>>
    <3>1. PICK q \in Question, rest \in Kept :
            /\ q.id = sequence /\ pending' = q /\ history' = rest \cup {q} /\ rest \subseteq history
            /\ sequence' = q.id + 1
      BY <1>3, <2>2, StoreEffect
    <3>2. Known' \subseteq Known \cup {q}
      BY <1>3, <3>1 DEF Known, StoreQuestion
    <3> QED
      BY <1>3, <3>1, <3>2 DEF QuestionAdded, StoreQuestion
  <2> QED
    BY <2>1, <2>2
<1>4. CASE RecordGrade(t)
  <2>1. UNCHANGED <<history, sequence, seeds>>
    BY <1>4 DEF RecordGrade
  <2>2. CASE UNCHANGED <<pending, attempts>>
    BY <1>0, <2>1, <2>2, SameKnown
  <2>3. CASE /\ pending # None /\ pending' = None
             /\ \E result : /\ result.question = pending
                            /\ attempts' = [a \in DOMAIN attempts \cup {call[t].attempt} |->
                                             IF a = call[t].attempt THEN result ELSE attempts[a]]
    BY <2>1, <2>3 DEF QuestionsKept, Known
  <2> QED
    BY <1>4, <2>2, <2>3 DEF RecordGrade, IsPending
<1> QED
  BY <1>1, <1>2, <1>3, <1>4 DEF Request, Step

LEMMA KnownWrite ==
  ASSUME RecordType, Write
  PROVE  QuestionsKept \/ QuestionsGone
<1>0. pending \in Known \cup {None}
  BY DEF Known
<1>1. CASE Retry
  <2>1. PICK q \in history \cup {attempts[a].question : a \in DOMAIN attempts} : pending' = Detached(q)
    BY <1>1 DEF Retry
  <2>2. q \in Known /\ pending'.id = q.id /\ pending'.prompt = q.prompt
    BY <2>1 DEF Known, Detached
  <2>3. UNCHANGED <<history, attempts, sequence, seeds>>
    BY <1>1 DEF Retry
  <2> QED
    BY <2>2, <2>3 DEF QuestionsKept, Known
<1>2. ASSUME NEW id \in Ids, NEW on \in BOOLEAN, SetSaved(id, on) PROVE QuestionsKept
  <2>1. UNCHANGED <<pending, attempts, sequence, seeds>>
    BY <1>2 DEF SetSaved
  <2>2. history' \subseteq Known
    BY <1>2 DEF SetSaved, Known, IsPending
  <2> QED
    BY <2>1, <2>2 DEF QuestionsKept, Known
<1>3. CASE Seed
  <2>1. DOMAIN attempts' = {}
    BY <1>3 DEF Seed
  <2> QED
    BY <1>3, <2>1 DEF Seed, QuestionsGone, Known
<1>4. CASE ChangePlan \/ \E s \in Sessions : Withdraw(s)
  BY <1>0, <1>4, SameKnown DEF ChangePlan, Withdraw
<1>5. CASE DetachPending
  <2>1. pending \in Known /\ pending'.id = pending.id /\ pending'.prompt = pending.prompt
    BY <1>5 DEF DetachPending, Detached, Known
  <2>2. UNCHANGED <<history, attempts, sequence, seeds>>
    BY <1>5 DEF DetachPending
  <2> QED
    BY <2>1, <2>2 DEF QuestionsKept, Known
<1> QED
  BY <1>1, <1>2, <1>3, <1>4, <1>5 DEF Write

\* An id goes on naming one question.
LEMMA QuestionsNumbered ==
  ASSUME RecordType, RecordType', Numbered, OnePrompt,
         QuestionsKept \/ QuestionAdded \/ QuestionsGone
  PROVE  Numbered' /\ OnePrompt'
<1>1. Known \subseteq Question /\ Known' \subseteq Question /\ sequence \in Nat
  <2>1. Known' \subseteq Question
    BY DEF RecordType, Known, Questions, AttemptsType, Attempt
  <2> QED
    BY <2>1, KnownType DEF RecordType, Counters
<1>2. \A q \in Question : q.id \in Nat
  BY DEF Question
<1>3. CASE QuestionsKept
  BY <1>3 DEF QuestionsKept, Numbered, OnePrompt
<1>4. CASE QuestionAdded
  BY <1>1, <1>2, <1>4 DEF QuestionAdded, Numbered, OnePrompt
<1>5. CASE QuestionsGone
  BY <1>5 DEF QuestionsGone, Numbered, OnePrompt
<1> QED
  BY <1>3, <1>4, <1>5

-----------------------------------------------------------------------------
(* What the threads know                                                    *)

\* A thread that does not move goes on knowing what its answer was compared with.
LEMMA AskedFrame ==
  ASSUME RecordType, ThreadType, NEW t \in Threads, AskedOf(t),
         QuestionsKept \/ QuestionAdded \/ QuestionsGone,
         pc'[t] = pc[t], call'[t] = call[t], snapshot'[t] = snapshot[t], draft'[t] = draft[t]
  PROVE  AskedOf(t)'
<1>1. snapshot[t] \in Nat /\ seeds \in Nat /\ sequence \in Nat
  BY DEF ThreadType, RecordType, Counters
<1>2. pc[t] \in {"check", "record"} => call[t].id \in Nat /\ draft[t].seeds \in Nat
  BY DEF ThreadType, AnswerCall, Draft
<1>3. CASE QuestionsKept
  <2>1. ASSUME NEW p, Means(t, p) PROVE Means(t, p)'
    BY <1>3, <2>1 DEF Means, QuestionsKept
  <2> QED
    BY <1>3, <2>1 DEF AskedOf, QuestionsKept
<1>4. CASE QuestionAdded
  <2>1. ASSUME NEW p, Means(t, p), pc[t] \in {"check", "record"} PROVE Means(t, p)'
    BY <1>1, <1>2, <1>4, <2>1 DEF Means, QuestionAdded
  <2> QED
    BY <1>1, <1>4, <2>1 DEF AskedOf, QuestionAdded
<1>5. CASE QuestionsGone
  BY <1>1, <1>2, <1>5 DEF AskedOf, QuestionsGone
<1> QED
  BY <1>3, <1>4, <1>5

\* A write to the record counts its version up.
LEMMA WritesCount ==
  ASSUME Next
  PROVE  (version' = version /\ pending' = pending) \/ version' = version + 1
<1>1. ASSUME NEW t \in Threads, Request(t) \/ Step(t) \/ Refuse(t)
      PROVE  (version' = version /\ pending' = pending) \/ version' = version + 1
  BY <1>1 DEF Request, Step, Refuse, AskQuestion, SubmitAnswer, Quarantine, ReadSnapshot, Recheck,
              StoreQuestion, Check, RecordGrade, record, Wrote
<1>2. ASSUME Write PROVE version' = version + 1
  BY <1>2 DEF Write, Retry, SetSaved, Seed, ChangePlan, DetachPending, Withdraw, Wrote
<1> QED
  BY <1>1, <1>2 DEF Next

LEMMA DraftingFrame ==
  ASSUME RecordType, ThreadType, Next, NEW t \in Threads, DraftingOf(t),
         pc'[t] = pc[t], call'[t] = call[t], snapshot'[t] = snapshot[t]
  PROVE  DraftingOf(t)'
<1>1. snapshot[t] \in Nat /\ version \in Nat
  BY DEF ThreadType, RecordType, Counters
<1> QED
  BY <1>1, WritesCount DEF DraftingOf

\* A step of a thread leaves the others where they are.
LEMMA OthersStay ==
  ASSUME ThreadType, NEW t \in Threads, Request(t) \/ Step(t) \/ Refuse(t),
         NEW u \in Threads, u # t
  PROVE  pc'[u] = pc[u] /\ call'[u] = call[u] /\ snapshot'[u] = snapshot[u] /\ draft'[u] = draft[u]
<1> USE DEF ThreadType, Return, Goto
<1>1. CASE AskQuestion(t) \/ SubmitAnswer(t)
  BY <1>1 DEF AskQuestion, SubmitAnswer
<1>2. CASE Quarantine(t) \/ ReadSnapshot(t)
  BY <1>2 DEF Quarantine, ReadSnapshot
<1>3. CASE Recheck(t) \/ Check(t)
  BY <1>3 DEF Recheck, Check
<1>4. CASE StoreQuestion(t) \/ RecordGrade(t) \/ Refuse(t)
  BY <1>4 DEF StoreQuestion, RecordGrade, Refuse
<1> QED
  BY <1>1, <1>2, <1>3, <1>4 DEF Request, Step

\* A single write leaves all threads where they are.
LEMMA WriteStays ==
  ASSUME Write
  PROVE  UNCHANGED <<host, generating, asking, planning, call, pc, snapshot, draft>>
BY DEF Write, Retry, SetSaved, Seed, ChangePlan, DetachPending, Withdraw, threads, locks

\* What a thread knows after its own step.
LEMMA OwnStep ==
  ASSUME RecordType, ThreadType, Numbered, OnePrompt, NEW t \in Threads, AskedOf(t),
         Request(t) \/ Step(t) \/ Refuse(t)
  PROVE  AskedOf(t)' /\ DraftingOf(t)'
<1> USE DEF ThreadType, Goto
<1>1. ASSUME Return(t) PROVE AskedOf(t)' /\ DraftingOf(t)'
  BY <1>1 DEF Return, AskedOf, DraftingOf
<1>2. CASE AskQuestion(t)
  BY <1>2 DEF AskQuestion, AskedOf, DraftingOf
<1>3. CASE SubmitAnswer(t)
  <2>1. pc'[t] = "discard" \/ pc'[t] = "check"
    BY <1>3 DEF SubmitAnswer
  <2>2. CASE pc'[t] = "check"
    <3>1. /\ pending \in Known /\ call'[t].id = pending.id
          /\ draft'[t] = [prompt |-> pending.prompt, seeds |-> seeds]
      BY <1>3, <2>2 DEF SubmitAnswer, Known
    <3>2. UNCHANGED <<sequence, seeds>> /\ Known' = Known /\ seeds \in Nat
      BY <1>3 DEF SubmitAnswer, record, Known, RecordType, Counters
    <3>3. Means(t, draft[t].prompt)'
      BY <3>1, <3>2 DEF Means, Numbered, OnePrompt
    <3> QED
      BY <2>2, <3>1, <3>2, <3>3 DEF AskedOf, DraftingOf
  <2> QED
    BY <2>1, <2>2 DEF AskedOf, DraftingOf
<1>4. CASE Quarantine(t)
  <2>1. CASE Return(t)
    BY <1>1, <2>1
  <2>2. CASE Goto(t, "generate")
    BY <2>2 DEF AskedOf, DraftingOf
  <2> QED
    BY <1>4, <2>1, <2>2 DEF Quarantine
<1>5. CASE ReadSnapshot(t)
  <2>1. CASE Return(t)
    BY <1>1, <2>1
  <2>2. CASE ~Return(t)
    <3>1. pc'[t] = "recheck" /\ snapshot'[t] = version /\ call'[t] = call[t]
      BY <1>5, <2>2 DEF ReadSnapshot
    <3>2. ~call[t].replace => pending = None
      BY <1>5, <2>2 DEF ReadSnapshot
    <3>3. UNCHANGED <<version, pending>> /\ version \in Nat
      BY <1>5 DEF ReadSnapshot, record, RecordType, Counters
    <3> QED
      BY <3>1, <3>2, <3>3 DEF AskedOf, DraftingOf
  <2> QED
    BY <2>1, <2>2
<1>6. CASE Recheck(t)
  <2>1. CASE Return(t)
    BY <1>1, <2>1
  <2>2. CASE Goto(t, "store")
    BY <2>2 DEF AskedOf, DraftingOf
  <2> QED
    BY <1>6, <2>1, <2>2 DEF Recheck
<1>7. CASE Check(t)
  <2>1. CASE Return(t)
    BY <1>1, <2>1
  <2>2. CASE ~Return(t)
    <3>1. /\ pc[t] = "check" /\ pc'[t] = "record" /\ UNCHANGED <<call, draft, record, seeds>>
          /\ snapshot'[t] = Compared(t)
          /\ Comparable(t) => pending.id = call[t].id /\ pending.prompt = call[t].hash
      BY <1>7, <2>2 DEF Check
    <3>2. Known' = Known /\ sequence' = sequence /\ seeds \in Nat
      BY <3>1 DEF Known, record, RecordType, Counters
    <3>3. ASSUME NEW p, Means(t, p) PROVE Means(t, p)'
      BY <3>1, <3>2, <3>3 DEF Means
    <3>4. /\ draft'[t].seeds <= seeds'
          /\ draft'[t].seeds = seeds' => Means(t, draft[t].prompt)'
      BY <3>1, <3>3 DEF AskedOf
    <3>5. CASE ~Comparable(t)
      <4>1. snapshot'[t] = 0
        BY <3>1, <3>5 DEF Compared
      <4> QED
        BY <3>1, <3>2, <3>4, <4>1 DEF AskedOf, DraftingOf
    <3>6. CASE Comparable(t)
      <4>1. pending \in Known /\ snapshot'[t] = seeds + 1
        BY <3>1, <3>6 DEF Comparable, Compared, Known
      <4>2. Means(t, call[t].hash)
        BY <3>1, <3>6, <4>1 DEF Means, Numbered, OnePrompt
      <4> QED
        BY <3>1, <3>2, <3>3, <3>4, <4>1, <4>2 DEF AskedOf, DraftingOf
    <3> QED
      BY <3>5, <3>6
  <2> QED
    BY <2>1, <2>2
<1>8. CASE StoreQuestion(t) \/ RecordGrade(t) \/ Refuse(t)
  BY <1>1, <1>8 DEF StoreQuestion, RecordGrade, Refuse
<1> QED
  BY <1>2, <1>3, <1>4, <1>5, <1>6, <1>7, <1>8 DEF Request, Step

-----------------------------------------------------------------------------
(* Credit, grades and saved questions                                       *)

\* Only a stored grade changes the attempts; it adds one, credited at most once.
LEMMA GradesKept ==
  ASSUME RecordType, ThreadType, Asked, CreditedOnce, GradedAsAsked,
         NEW t \in Threads, RecordGrade(t)
  PROVE  CreditedOnce' /\ GradedAsAsked'
<1> DEFINE c == call[t]
<1>1. CASE attempts' = attempts
  BY <1>1 DEF CreditedOnce, GradedAsAsked
<1>2. CASE c.attempt \notin DOMAIN attempts /\ IsPending(c.id)
  <2>1. PICK evidence, unplanned \in BOOLEAN :
          LET credit == evidence /\ ~AlreadyCredited(pending.id)
              result == [question |-> pending, graded |-> draft[t].prompt, shown |-> c.hash,
                         credit |-> credit, compared |-> snapshot[t] = seeds + 1,
                         reseeded |-> draft[t].seeds # seeds]
          IN attempts' = [a \in DOMAIN attempts \cup {c.attempt} |->
                            IF a = c.attempt THEN result ELSE attempts[a]]
    BY <1>2 DEF RecordGrade
  <2> DEFINE credit == evidence /\ ~AlreadyCredited(pending.id)
  <2>2. /\ DOMAIN attempts' = DOMAIN attempts \cup {c.attempt}
        /\ \A a \in DOMAIN attempts : attempts'[a] = attempts[a]
        /\ attempts'[c.attempt].question = pending
        /\ attempts'[c.attempt].graded = draft[t].prompt
        /\ attempts'[c.attempt].shown = c.hash
        /\ attempts'[c.attempt].credit = credit
        /\ attempts'[c.attempt].compared = (snapshot[t] = seeds + 1)
        /\ attempts'[c.attempt].reseeded = (draft[t].seeds # seeds)
    BY <1>2, <2>1
  <2>3. ~credit \/ \A a \in DOMAIN attempts : ~(attempts[a].question.id = pending.id /\ attempts[a].credit)
    BY DEF AlreadyCredited
  <2>4. CreditedOnce'
    BY <2>2, <2>3 DEF CreditedOnce
  <2>5. ASSUME NEW p, Means(t, p) PROVE pending.prompt = p
    BY <1>2, <2>5 DEF Means, Known, IsPending
  <2>6. /\ draft[t].seeds = seeds => draft[t].prompt = pending.prompt
        /\ snapshot[t] = seeds + 1 => c.hash = pending.prompt
    BY <2>5 DEF Asked, AskedOf, RecordGrade
  <2>7. GradedAsAsked'
    BY <2>2, <2>6 DEF GradedAsAsked
  <2> QED
    BY <2>4, <2>7
<1> QED
  BY <1>1, <1>2 DEF RecordGrade

\* A question that is saved stays in the history.
LEMMA SavedStep ==
  ASSUME RecordType, Next, SavedKept
  PROVE  SavedKept'
<1>1. CASE UNCHANGED <<history, saved>>
  BY <1>1 DEF SavedKept, IdsOf
<1>2. ASSUME NEW t \in Threads, StoreQuestion(t) PROVE SavedKept'
  <2>1. saved' = saved
    BY <1>2 DEF StoreQuestion
  <2>2. ASSUME history' # history
        PROVE  \E rest \in Kept : rest \subseteq history'
    BY <1>2, <2>2 DEF StoreQuestion
  <2>3. ASSUME NEW rest \in Kept, NEW q \in history, q.id \in saved
        PROVE  q \in rest
    BY <2>3 DEF Kept, Removable
  <2> QED
    BY <1>1, <2>1, <2>2, <2>3 DEF SavedKept, IdsOf
<1>3. ASSUME NEW id \in Ids, NEW on \in BOOLEAN, SetSaved(id, on) PROVE SavedKept'
  <2>1. history \subseteq history' /\ id \in IdsOf(history') /\ saved' \subseteq saved \cup {id}
    BY <1>3 DEF SetSaved
  <2> QED
    BY <2>1 DEF SavedKept, IdsOf
<1>4. CASE Seed
  BY <1>4 DEF Seed, SavedKept
<1>5. CASE Retry \/ ChangePlan \/ DetachPending \/ \E s \in Sessions : Withdraw(s)
  BY <1>1, <1>5 DEF Retry, ChangePlan, DetachPending, Withdraw
<1>6. ASSUME NEW t \in Threads, Request(t) \/ Step(t) \/ Refuse(t), ~StoreQuestion(t)
      PROVE  SavedKept'
  BY <1>1, <1>6 DEF Request, Step, AskQuestion, SubmitAnswer, Quarantine, ReadSnapshot, Recheck,
                    Check, RecordGrade, Refuse, record
<1> QED
  BY <1>2, <1>3, <1>4, <1>5, <1>6 DEF Next, Write

-----------------------------------------------------------------------------
(* Requests that are repeated                                               *)

\* What is known stays in the history or left it full.
LEMMA DroppedFrame ==
  ASSUME Dropped, \A q \in Known' : \E r \in Known : r.id = q.id, history' = history
  PROVE  Dropped'
BY DEF Dropped, IdsOf

\* A new question leaves a history that is as full as before, or full.
LEMMA StoreFills ==
  ASSUME RecordType, NEW rest \in Kept, NEW q \in Question, q.id \notin IdsOf(history),
         history' = rest \cup {q}
  PROVE  /\ Cardinality(history) >= MaxHistory => Cardinality(history') >= MaxHistory
         /\ rest # history => Cardinality(history') >= MaxHistory
<1> DEFINE excess == Over(Cardinality(history) + 1, MaxHistory)
<1>1. PICK gone \in SUBSET Removable : Cardinality(gone) = excess /\ rest = history \ gone
  BY DEF Kept
<1>2. gone \subseteq history /\ IsFiniteSet(history)
  BY DEF Removable, RecordType, Questions
<1>3. IsFiniteSet(rest) /\ Cardinality(rest) = Cardinality(history) - excess
  <2>1. history \cap gone = gone
    BY <1>2
  <2>2. /\ IsFiniteSet(history \ gone)
        /\ Cardinality(history \ gone) = Cardinality(history) - Cardinality(history \cap gone)
    BY <1>2, FS_Difference
  <2> QED
    BY <1>1, <2>1, <2>2
<1>4. q \notin rest
  BY <1>1 DEF IdsOf
<1>5. Cardinality(history') = Cardinality(history) - excess + 1
  BY <1>3, <1>4, FS_AddElement
<1>6. Cardinality(history) \in Nat /\ MaxHistory \in Nat \ {0}
  BY <1>2, FS_CardinalityType, LoopAssumption
<1>7. rest # history => excess # 0
  BY <1>1, <1>2, FS_EmptySet, FS_Subset
<1> QED
  BY <1>5, <1>6, <1>7 DEF Over

LEMMA DroppedStep ==
  ASSUME RecordType, ThreadType, Numbered, Dropped, Next
  PROVE  Dropped'
<1>1. CASE QuestionsGone
  BY <1>1 DEF QuestionsGone, Dropped
<1>2. CASE QuestionsKept /\ history' = history
  BY <1>2, DroppedFrame DEF QuestionsKept
<1>3. ASSUME NEW t \in Threads, StoreQuestion(t) PROVE Dropped'
  <2>1. CASE UNCHANGED <<pending, history, sequence, requests, version>>
    <3>1. Known' = Known
      BY <1>3, <2>1 DEF StoreQuestion, Known
    <3> QED
      BY <2>1, <3>1 DEF Dropped, IdsOf
  <2>2. CASE ~UNCHANGED <<pending, history, sequence, requests, version>>
    <3>1. PICK q \in Question, rest \in Kept :
            /\ q.id = sequence /\ pending' = q /\ history' = rest \cup {q} /\ rest \subseteq history
      BY <1>3, <2>2, StoreEffect
    <3>2. q.id \notin IdsOf(history)
      BY <3>1 DEF Numbered, Known, IdsOf, RecordType, Counters, Questions, Question
    <3>3. /\ Cardinality(history) >= MaxHistory => Cardinality(history') >= MaxHistory
          /\ rest # history => Cardinality(history') >= MaxHistory
      BY <3>1, <3>2, StoreFills
    <3>4. Known' \subseteq Known \cup {q}
      BY <1>3, <3>1 DEF Known, StoreQuestion
    <3> QED
      BY <3>1, <3>3, <3>4 DEF Dropped, IdsOf
  <2> QED
    BY <2>1, <2>2
<1>4. ASSUME NEW id \in Ids, NEW on \in BOOLEAN, SetSaved(id, on) PROVE Dropped'
  <2>1. QuestionsKept
    <3>1. UNCHANGED <<pending, attempts, sequence, seeds>> /\ history' \subseteq Known
      BY <1>4 DEF SetSaved, Known, IsPending
    <3> QED
      BY <3>1 DEF QuestionsKept, Known
  <2>2. history \subseteq history'
    BY <1>4 DEF SetSaved
  <2>3. IsFiniteSet(history')
    BY <1>4, SavedTypes DEF RecordType, Questions
  <2>4. Cardinality(history) <= Cardinality(history')
    BY <2>2, <2>3, FS_Subset
  <2>5. Cardinality(history) \in Nat /\ Cardinality(history') \in Nat /\ MaxHistory \in Nat
    BY <2>2, <2>3, FS_Subset, FS_CardinalityType, LoopAssumption
  <2> QED
    BY <2>1, <2>2, <2>4, <2>5 DEF QuestionsKept, Dropped, IdsOf
<1>5. ASSUME NEW t \in Threads, Request(t) \/ Step(t) \/ Refuse(t), ~StoreQuestion(t)
      PROVE  Dropped'
  <2>1. history' = history /\ sequence' = sequence
    BY <1>5 DEF Request, Step, AskQuestion, SubmitAnswer, Quarantine, ReadSnapshot, Recheck,
                Check, RecordGrade, Refuse, record
  <2>2. ~QuestionAdded
    BY <2>1 DEF QuestionAdded, RecordType, Counters
  <2> QED
    BY <1>2, <1>5, <2>1, <2>2, KnownThread
<1>6. CASE Retry \/ ChangePlan \/ DetachPending \/ \E s \in Sessions : Withdraw(s)
  BY <1>1, <1>2, <1>6, KnownWrite DEF Write, Retry, ChangePlan, DetachPending, Withdraw
<1>7. CASE Seed
  <2>1. DOMAIN attempts' = {}
    BY <1>7 DEF Seed
  <2> QED
    BY <1>7, <2>1 DEF Seed, Dropped, Known
<1> QED
  BY <1>3, <1>4, <1>5, <1>6, <1>7 DEF Next, Write

\* Questions of repeated requests are not found by forgetting requests.
LEMMA ReplayShrinks ==
  ASSUME RequestsType, history' = history,
         requests' = requests \/ \E S \in SUBSET DOMAIN requests : requests' = Restrict(requests, S)
  PROVE  \A k : Replay(k)' \subseteq Replay(k)
BY DEF Replay, Restrict, RequestsType

\* Which steps touch history and requests.
LEMMA RecordSteps ==
  ASSUME Next, ~Seed, \A t \in Threads : ~StoreQuestion(t)
  PROVE  /\ requests' = requests \/ \E S \in SUBSET DOMAIN requests : requests' = Restrict(requests, S)
         /\ history' = history \/ \E id \in Ids, on \in BOOLEAN : SetSaved(id, on)
<1>1. ASSUME NEW t \in Threads, Quarantine(t)
      PROVE  history' = history /\ (requests' = requests
               \/ \E S \in SUBSET DOMAIN requests : requests' = Restrict(requests, S))
  <2> DEFINE stale == {k \in DOMAIN requests : \E q \in Replay(k) : q.prompt \notin Grounded}
  <2>1. requests' = requests \/ requests' = Restrict(requests, DOMAIN requests \ stale)
    BY <1>1 DEF Quarantine
  <2> QED
    BY <1>1, <2>1 DEF Quarantine
<1>2. ASSUME NEW t \in Threads, Request(t) \/ Step(t) \/ Refuse(t), ~Quarantine(t)
      PROVE  UNCHANGED <<history, requests>>
  BY <1>2 DEF Request, Step, AskQuestion, SubmitAnswer, ReadSnapshot, Recheck, Check, RecordGrade,
              Refuse, record
<1>3. ASSUME NEW s \in Sessions, Withdraw(s)
      PROVE  history' = history /\ \E S \in SUBSET DOMAIN requests : requests' = Restrict(requests, S)
  BY <1>3, {k \in DOMAIN requests : requests[k] # pending.id} \in SUBSET DOMAIN requests DEF Withdraw
<1>4. CASE Retry \/ ChangePlan \/ DetachPending
  BY <1>4 DEF Retry, ChangePlan, DetachPending
<1>5. ASSUME NEW id \in Ids, NEW on \in BOOLEAN, SetSaved(id, on) PROVE requests' = requests
  BY <1>5 DEF SetSaved
<1> QED
  BY <1>1, <1>2, <1>3, <1>4, <1>5 DEF Next, Write

LEMMA UnansweredStep ==
  ASSUME RecordType, ThreadType, Locks, Dropped, Unanswered, Next
  PROVE  Unanswered'
<1> SUFFICES ASSUME NEW u \in Threads, pc'[u] = "store", Replay(call[u].key)' # {}
             PROVE  Cardinality(history') > MaxHistory
  BY DEF Unanswered
<1>1. ASSUME NEW t \in Threads, StoreQuestion(t) PROVE FALSE
  <2>1. pc[t] = "store" /\ pc'[t] = "idle"
    BY <1>1 DEF StoreQuestion, Return, Goto, ThreadType
  <2>2. u # t
    BY <2>1
  <2>3. pc[u] = "store"
    BY <1>1, <2>2, OthersStay DEF Step
  <2> QED
    BY <2>1, <2>2, <2>3 DEF Locks
<1>2. CASE Seed
  BY <1>2 DEF Seed, Replay
<1>3. CASE ~Seed /\ pc[u] = "store" /\ call'[u] = call[u]
  <2>1. CASE history' = history
    <3>1. Replay(call[u].key) # {}
      BY <1>1, <1>3, <2>1, RecordSteps, ReplayShrinks DEF RecordType
    <3> QED
      BY <1>3, <2>1, <3>1 DEF Unanswered
  <2>2. ASSUME NEW id \in Ids, NEW on \in BOOLEAN, SetSaved(id, on), history' # history
        PROVE  Cardinality(history') > MaxHistory
    <3>1. /\ history' = history \cup {pending} /\ pending # None
          /\ pending.id \notin IdsOf(history)
      BY <2>2 DEF SetSaved, IsPending
    <3>2. Cardinality(history) >= MaxHistory
      BY <3>1 DEF Dropped, Known
    <3>3. pending \notin history
      BY <3>1 DEF IdsOf
    <3>4. Cardinality(history') = Cardinality(history) + 1 /\ Cardinality(history) \in Nat
      BY <3>1, <3>3, FS_AddElement, FS_CardinalityType DEF RecordType, Questions
    <3> QED
      BY <3>2, <3>4, LoopAssumption
  <2> QED
    BY <1>1, <1>3, <2>1, <2>2, RecordSteps
<1>4. ASSUME Recheck(u) PROVE FALSE
  <2>1. Replay(call[u].key) = {} /\ UNCHANGED record /\ call'[u] = call[u]
    <3>1. ~Return(u)
      BY DEF Return, Goto, ThreadType
    <3> QED
      BY <1>4, <3>1 DEF Recheck
  <2> QED
    BY <2>1 DEF Replay, record
<1>5. ASSUME ~Recheck(u), ~Seed, \A t \in Threads : ~StoreQuestion(t)
      PROVE  pc[u] = "store" /\ call'[u] = call[u]
  <2>1. CASE Write
    BY <2>1, WriteStays
  <2>2. ASSUME NEW t \in Threads, Request(t) \/ Step(t) \/ Refuse(t), t # u
        PROVE  pc[u] = "store" /\ call'[u] = call[u]
    BY <2>2, OthersStay
  <2>3. ASSUME Request(u) \/ Step(u) \/ Refuse(u) PROVE FALSE
    BY <1>5, <2>3 DEF Request, Step, AskQuestion, SubmitAnswer, Quarantine, ReadSnapshot, Check,
                      RecordGrade, Refuse, Return, Goto, ThreadType
  <2> QED
    BY <2>1, <2>2, <2>3 DEF Next
<1> QED
  BY <1>1, <1>2, <1>3, <1>4, <1>5

\* A repeated request keeps its question, a repeated answer its grade.
LEMMA RepeatStep ==
  ASSUME RecordType, ThreadType, Numbered, Unanswered, Next
  PROVE  /\ \A a \in DOMAIN attempts : a \in DOMAIN attempts' /\ attempts'[a] = attempts[a]
         /\ Cardinality(history) <= MaxHistory /\ seeds' = seeds =>
              \A k \in DOMAIN requests \cap DOMAIN requests' :
                requests[k] \in IdsOf(history) => requests'[k] = requests[k]
<1>1. \A a \in DOMAIN attempts : a \in DOMAIN attempts' /\ attempts'[a] = attempts[a]
  <2>1. ASSUME NEW t \in Threads, RecordGrade(t)
        PROVE  \A a \in DOMAIN attempts : a \in DOMAIN attempts' /\ attempts'[a] = attempts[a]
    <3> DEFINE c == call[t]
    <3>1. CASE attempts' = attempts
      BY <3>1
    <3>2. CASE c.attempt \notin DOMAIN attempts /\ IsPending(c.id)
      <4>1. PICK evidence, unplanned \in BOOLEAN :
              LET credit == evidence /\ ~AlreadyCredited(pending.id)
                  result == [question |-> pending, graded |-> draft[t].prompt, shown |-> c.hash,
                             credit |-> credit, compared |-> snapshot[t] = seeds + 1,
                             reseeded |-> draft[t].seeds # seeds]
              IN attempts' = [a \in DOMAIN attempts \cup {c.attempt} |->
                                IF a = c.attempt THEN result ELSE attempts[a]]
        BY <2>1, <3>2 DEF RecordGrade
      <4> QED
        BY <3>2, <4>1
    <3> QED
      BY <2>1, <3>1, <3>2 DEF RecordGrade
  <2>2. CASE Seed
    BY <2>2 DEF Seed
  <2>3. ASSUME ~Seed, \A t \in Threads : ~RecordGrade(t) PROVE attempts' = attempts
    BY <2>3 DEF Next, Write, Request, Step, AskQuestion, SubmitAnswer, Quarantine, ReadSnapshot,
                Recheck, StoreQuestion, Check, Refuse, Retry, SetSaved, ChangePlan, DetachPending,
                Withdraw, record
  <2> QED
    BY <2>1, <2>2, <2>3
<1>2. ASSUME Cardinality(history) <= MaxHistory, seeds' = seeds,
             NEW k \in DOMAIN requests \cap DOMAIN requests', requests[k] \in IdsOf(history)
      PROVE  requests'[k] = requests[k]
  <2>1. ~Seed
    BY <1>2 DEF Seed, RecordType, Counters
  <2>2. ASSUME NEW t \in Threads, StoreQuestion(t) PROVE requests'[k] = requests[k]
    <3>1. CASE requests' = requests
      BY <3>1
    <3>2. CASE requests' # requests
      <4>1. PICK q \in Question : requests' \in Remembered(call[t].key, q.id)
        BY <2>2, <3>2, StoreEffect
      <4>2. k # call[t].key => requests'[k] = requests[k]
        BY <4>1 DEF Remembered
      <4>3. k # call[t].key
        <5>1. Cardinality(history) \in Nat /\ MaxHistory \in Nat
          BY FS_CardinalityType, LoopAssumption DEF RecordType, Questions
        <5>2. Replay(call[t].key) = {}
          BY <1>2, <2>2, <5>1 DEF Unanswered, StoreQuestion
        <5> QED
          BY <1>2, <5>2 DEF Replay, IdsOf
      <4> QED
        BY <4>2, <4>3
    <3> QED
      BY <3>1, <3>2
  <2>3. ASSUME NEW S \in SUBSET DOMAIN requests, requests' = Restrict(requests, S)
        PROVE  requests'[k] = requests[k]
    BY <2>3 DEF Restrict
  <2> QED
    BY <2>1, <2>2, <2>3, RecordSteps
<1> QED
  BY <1>1, <1>2

-----------------------------------------------------------------------------
(* The theorems                                                             *)

LEMMA InitInv == Init => IInv
<1> SUFFICES ASSUME Init PROVE IInv
  OBVIOUS
<1> USE LoopAssumption DEF Init
<1>1. RecordType
  <2>1. IsFiniteSet({}) /\ Cardinality({}) = 0
    BY FS_EmptySet
  <2>2. DOMAIN requests = {} /\ requests \in [{} -> Nat] /\ credited \in Seq(Nat) /\ Len(credited) = 0
    OBVIOUS
  <2>3. DOMAIN attempts = {} /\ plan \in Plans
    BY DEF Plans
  <2> QED
    BY <2>1, <2>2, <2>3
       DEF RecordType, Counters, Questions, SavedType, RequestsType, AttemptsType
<1>2. ThreadType /\ Locks
  BY DEF ThreadType, Locks, Labels
<1>3. Known = {}
  BY DEF Known
<1>4. Numbered /\ OnePrompt /\ Asked /\ Drafting /\ Dropped /\ Unanswered
  BY <1>3 DEF Numbered, OnePrompt, Asked, AskedOf, Means, Drafting, DraftingOf, Dropped, Unanswered
<1>5. CreditedOnce /\ SavedKept /\ GradedAsAsked
  BY DEF CreditedOnce, SavedKept, GradedAsAsked
<1> QED
  BY <1>1, <1>2, <1>4, <1>5 DEF IInv

LEMMA NextInv == IInv /\ [Next]_vars => IInv'
<1> SUFFICES ASSUME IInv, [Next]_vars PROVE IInv'
  OBVIOUS
<1> USE DEF IInv
<1>1. CASE UNCHANGED vars
  <2>1. UNCHANGED <<host, version, pending, history, sequence, requests, saved, attempts, credited,
                    plan, generating, asking, planning, call, pc, snapshot, draft, seeds>>
    BY <1>1 DEF vars, record, locks, threads
  <2>2. RecordType' /\ ThreadType' /\ Locks'
    BY <2>1 DEF RecordType, Counters, Questions, SavedType, RequestsType, AttemptsType, ThreadType, Locks
  <2>3. Known' = Known
    BY <2>1 DEF Known
  <2>4. Numbered' /\ OnePrompt' /\ Asked' /\ Drafting' /\ Dropped' /\ Unanswered'
    BY <2>1, <2>3 DEF Numbered, OnePrompt, Asked, AskedOf, Means, Drafting, DraftingOf, Dropped, Unanswered,
              IdsOf, Replay
  <2> QED
    BY <2>1, <2>2, <2>4 DEF CreditedOnce, SavedKept, GradedAsAsked, IdsOf
<1>2. CASE Next
  <2>1. ThreadType' /\ Locks'
    <3>1. CASE Write
      BY <3>1, WriteStays DEF ThreadType, Locks
    <3> QED
      BY <1>2, <3>1, ThreadsKept DEF Next, RecordType
  <2>2. RecordType'
    <3>1. ASSUME NEW t \in Threads, Request(t) \/ Step(t) \/ Refuse(t) PROVE RecordType'
      <4>1. CASE StoreQuestion(t) \/ RecordGrade(t) \/ Quarantine(t)
        BY <4>1, StoreTypes, GradeTypes, QuarantineTypes
      <4>2. CASE ~(StoreQuestion(t) \/ RecordGrade(t) \/ Quarantine(t))
        BY <3>1, <4>2 DEF Request, Step, AskQuestion, SubmitAnswer, ReadSnapshot, Recheck, Check,
           Refuse, record, RecordType, Counters, Questions, SavedType, RequestsType, AttemptsType
      <4> QED
        BY <4>1, <4>2
    <3> QED
      BY <1>2, <3>1, WriteTypes DEF Next
  <2>3. QuestionsKept \/ QuestionAdded \/ QuestionsGone
    BY <1>2, KnownThread, KnownWrite DEF Next
  <2>4. Numbered' /\ OnePrompt'
    BY <2>2, <2>3, QuestionsNumbered
  <2>5. ASSUME NEW u \in Threads PROVE AskedOf(u)' /\ DraftingOf(u)'
    <3>1. AskedOf(u) /\ DraftingOf(u)
      BY DEF Asked, Drafting
    <3>2. CASE Request(u) \/ Step(u) \/ Refuse(u)
      BY <3>1, <3>2, OwnStep
    <3>3. CASE pc'[u] = pc[u] /\ call'[u] = call[u] /\ snapshot'[u] = snapshot[u] /\ draft'[u] = draft[u]
      BY <1>2, <2>3, <3>1, <3>3, AskedFrame, DraftingFrame
    <3>4. CASE Write
      BY <3>3, <3>4, WriteStays
    <3> QED
      BY <1>2, <3>2, <3>3, <3>4, OthersStay DEF Next
  <2>6. Asked' /\ Drafting'
    BY <2>5 DEF Asked, Drafting
  <2>7. Dropped' /\ Unanswered' /\ SavedKept'
    BY <1>2, DroppedStep, UnansweredStep, SavedStep
  <2>8. CreditedOnce' /\ GradedAsAsked'
    <3>1. CASE attempts' = attempts
      BY <3>1 DEF CreditedOnce, GradedAsAsked
    <3>2. ASSUME NEW t \in Threads, RecordGrade(t) PROVE CreditedOnce' /\ GradedAsAsked'
      BY <3>2, GradesKept
    <3>3. CASE Seed
      BY <3>1, <3>3 DEF Seed
    <3>4. ASSUME ~Seed, \A t \in Threads : ~RecordGrade(t) PROVE attempts' = attempts
      BY <1>2, <3>4 DEF Next, Write, Request, Step, AskQuestion, SubmitAnswer, Quarantine,
         ReadSnapshot, Recheck, StoreQuestion, Check, Refuse, Retry, SetSaved, ChangePlan,
         DetachPending, Withdraw, record
    <3> QED
      BY <3>1, <3>2, <3>3, <3>4
  <2> QED
    BY <2>1, <2>2, <2>4, <2>6, <2>7, <2>8
<1> QED
  BY <1>1, <1>2

LEMMA Invariance == Spec => []IInv
<1> QED
  BY InitInv, NextInv, PTL DEF Spec

\* The record and the threads are well typed, nothing outgrows its bound, and a lock is held
\* exactly inside the block it protects.
THEOREM TypeCorrect == Spec => []TypeOK
<1>1. IInv => TypeOK
  BY NoneAssumption
     DEF IInv, TypeOK, RecordType, Counters, Questions, SavedType, RequestsType, AttemptsType,
         ThreadType, Locks, Labels
<1> QED
  BY <1>1, Invariance, PTL

\* A question moves the mastery estimate at most once, although the list of credited ids forgets.
THEOREM CreditCountsOnce == Spec => []CreditedOnce
<1>1. IInv => CreditedOnce
  BY DEF IInv
<1> QED
  BY <1>1, Invariance, PTL

\* A saved question is in the history.
THEOREM SavedStays == Spec => []SavedKept
<1>1. IInv => SavedKept
  BY DEF IInv
<1> QED
  BY <1>1, Invariance, PTL

\* A grade belongs to the question it is stored with unless the space is seeded anew during
\* the model call; an answer that was compared is stored with the question its client showed.
THEOREM GradeBelongs == Spec => []GradedAsAsked
<1>1. IInv => GradedAsAsked
  BY DEF IInv
<1> QED
  BY <1>1, Invariance, PTL

\* A repeated answer keeps its grade and a repeated request its question.
THEOREM RepeatsAreIdempotent == Spec => RetriesRepeat
<1> DEFINE Repeats ==
      /\ \A a \in DOMAIN attempts : a \in DOMAIN attempts' /\ attempts'[a] = attempts[a]
      /\ Cardinality(history) <= MaxHistory /\ seeds' = seeds =>
           \A k \in DOMAIN requests \cap DOMAIN requests' :
             requests[k] \in IdsOf(history) => requests'[k] = requests[k]
<1>1. IInv /\ [Next]_vars => [Repeats]_vars
  BY RepeatStep DEF IInv
<1> QED
  BY <1>1, Invariance, PTL DEF Spec, RetriesRepeat

\* A draft is stored over a pending question only on request.
THEOREM DraftsYield == Spec => DraftYields
<1> DEFINE Yields ==
      \A t \in Threads : pc[t] = "recheck" /\ pc'[t] = "store" /\ ~call[t].replace => pending = None
<1>1. ASSUME IInv, Next PROVE Yields
  <2> SUFFICES ASSUME NEW t \in Threads, pc[t] = "recheck", pc'[t] = "store", ~call[t].replace
               PROVE  pending = None
    OBVIOUS
  <2>1. Recheck(t)
    <3>1. ThreadType
      BY <1>1 DEF IInv
    <3>2. ~Write
      BY WriteStays
    <3>3. PICK u \in Threads : Request(u) \/ Step(u) \/ Refuse(u)
      BY <1>1, <3>2 DEF Next
    <3>4. u = t
      BY <3>1, <3>3, OthersStay
    <3> QED
      BY <3>1, <3>3, <3>4 DEF Request, Step, AskQuestion, SubmitAnswer, Quarantine, ReadSnapshot,
         StoreQuestion, Check, RecordGrade, Refuse, Return, Goto, ThreadType
  <2>2. version = snapshot[t]
    <3>1. ~Return(t)
      BY <1>1 DEF IInv, Return, Goto, ThreadType
    <3> QED
      BY <2>1, <3>1 DEF Recheck
  <2> QED
    BY <1>1, <2>1, <2>2 DEF IInv, Drafting, DraftingOf
<1>2. IInv /\ [Next]_vars => [Yields]_vars
  BY <1>1
<1> QED
  BY <1>2, Invariance, PTL DEF Spec, DraftYields
=============================================================================
