---------------------------- MODULE EvaluationRuns ----------------------------
(***************************************************************************)
(* The evaluation runs of the MCP server: one sandbox for everybody, leased *)
(* to one run at a time and reset for each, and four tools that several     *)
(* processes serve at once.                                                 *)
(*                                                                         *)
(* A step is one database transaction, or a guard and the read beside it.   *)
(* An exception raised inside a transaction rolls back what it wrote: a     *)
(* refused begin leaves the rows as they were.  Time is not counted: the     *)
(* lease of a live row may lapse at any moment, and rows that have ended may *)
(* be old enough to be purged whenever a purge runs.  Every request is      *)
(* taken to be in a process of its own, so the locks of one process help    *)
(* nobody.  A token stands for the fence it determines.                     *)
(***************************************************************************)
EXTENDS Naturals, FiniteSets, Functions

CONSTANTS
  Threads,        \* requests in progress
  Keys,           \* client_run_key values
  RequestIds,     \* idempotency keys of get_practice_task
  AttemptIds,     \* idempotency keys of submit_answer
  Answers,
  Versions,       \* expected_state_version values, counted from the reset
  MaxTokens,      \* bound on the generations of runs
  MaxQuestions,   \* bound on the questions of one run
  MayCrash,       \* whether processes end in the middle of a request
  None

ASSUME EvaluationAssumption ==
  /\ {MaxTokens, MaxQuestions} \subseteq Nat /\ MayCrash \in BOOLEAN
  /\ None \notin Threads \cup Nat

VARIABLES
  rows,           \* mcp_evaluation_runs: client key -> row or None
  issued,         \* generations issued so far
  sandbox,        \* the learning record of the evaluation workspace
  idem,           \* mcp_evaluation_idempotency: entry -> input and result
  planning,       \* thread inside plan_transaction, or None
  asking,         \* thread inside question_transaction, or None
  call, pc,
  token,          \* thread -> the run it works for, 0 when it has none yet
  snapshot,       \* thread -> version the question was generated from
  result          \* thread -> what it will save or reply

threads == <<call, pc, token, snapshot, result>>
vars == <<rows, issued, sandbox, idem, planning, asking, threads>>

-----------------------------------------------------------------------------
(* Vocabulary                                                               *)

Tokens == 1 .. MaxTokens

Row == [token : Tokens, status : {"seeding", "active", "completed", "expired", "failed"},
        slot : BOOLEAN, lapsed : BOOLEAN]

Terminal == {"completed", "expired", "failed"}

\* Faulty variant: a row that has ended keeps the slot.
EndedKeepingSlot(row, status) == [row EXCEPT !.status = status, !.lapsed = FALSE]

\* A row that has ended gives the slot back; its expiry no longer matters.
Ended(row, status) == [row EXCEPT !.status = status, !.slot = FALSE, !.lapsed = FALSE]

Fresh(r) == [token |-> r, status |-> "seeding", slot |-> TRUE, lapsed |-> FALSE]

\* What a reset leaves: nothing asked, nothing graded, bound to run r.
Baseline(r) == [fence |-> r, sequence |-> 0, pending |-> None, asked |-> << >>,
                graded |-> << >>, writers |-> {}]

Version(s) == s.sequence + Cardinality(DOMAIN s.graded)

Entry(r, c) == [token |-> r, tool |-> c.tool, id |-> c.id]

Entries == [token : Tokens, tool : {"task", "answer"},
            id : RequestIds \cup AttemptIds]

\* The part of a call that its idempotency key must always come with.
Input(c) == IF c.tool = "answer" THEN <<c.question, c.answer, c.version>> ELSE << >>

RowsOf(r) == {k \in Keys : rows[k] # None /\ rows[k].token = r}

\* require_active and require_seeding.
Active(r)  == \E k \in RowsOf(r) : rows[k].status = "active" /\ ~rows[k].lapsed
Seeding(r) == \E k \in RowsOf(r) : rows[k].status = "seeding" /\ rows[k].slot /\ ~rows[k].lapsed

\* _active_state and _scope_guard.
Admitted(r) == Active(r) /\ sandbox.fence = r

Live(k) == rows[k] # None /\ rows[k].status \in {"seeding", "active"} /\ ~rows[k].lapsed

\* Faulty variant: a write trusts the guard before it.
FenceAssumed(r) == TRUE

\* _require_scope_fence, inside every write to the record.
FenceHolds(r) == sandbox.fence = r

Goto(t, l) == pc' = [pc EXCEPT ![t] = l]

Return(t) ==
  /\ Goto(t, "idle")
  /\ call' = [call EXCEPT ![t] = None]
  /\ token' = [token EXCEPT ![t] = 0]
  /\ snapshot' = [snapshot EXCEPT ![t] = 0]
  /\ result' = [result EXCEPT ![t] = None]

Carry(t, res, l) ==
  /\ result' = [result EXCEPT ![t] = res]
  /\ Goto(t, l)
  /\ UNCHANGED <<call, token, snapshot>>

Continue(t, l) == Goto(t, l) /\ UNCHANGED <<call, token, snapshot, result>>

\* From here on the request is for its run, whatever it asked.
Proceed(t, l) ==
  /\ Goto(t, l)
  /\ call' = [call EXCEPT ![t] = None]
  /\ result' = [result EXCEPT ![t] = None]
  /\ UNCHANGED <<token, snapshot>>

-----------------------------------------------------------------------------
Init ==
  /\ rows = [k \in Keys |-> None]
  /\ issued = 0
  /\ sandbox = Baseline(0)
  /\ idem = << >>
  /\ planning = None /\ asking = None
  /\ call = [t \in Threads |-> None]
  /\ pc = [t \in Threads |-> "idle"]
  /\ token = [t \in Threads |-> 0]
  /\ snapshot = [t \in Threads |-> 0]
  /\ result = [t \in Threads |-> None]

-----------------------------------------------------------------------------
(* refineq_begin_demo                                                       *)

\* begin found a live row of the key: the caller shares the run.  Of an active one
\* it is told at once, if the sandbox is bound to it.
Replayed(t, k, found) ==
  IF found[k].status = "active" THEN Return(t)
  ELSE /\ token' = [token EXCEPT ![t] = found[k].token]
       /\ Goto(t, "poll")
       /\ UNCHANGED <<call, snapshot, result>>

Lookup(t, k) ==
  IF Live(k) THEN Replayed(t, k, rows)
             ELSE Continue(t, "claim")

BeginDemo(t) ==
  /\ pc[t] = "idle"
  /\ \E k \in Keys :
       IF Live(k) /\ rows[k].status = "active" THEN Return(t)
       ELSE /\ call' = [call EXCEPT ![t] = [tool |-> "begin", key |-> k]]
            /\ IF Live(k) THEN token' = [token EXCEPT ![t] = rows[k].token] /\ Goto(t, "poll")
                          ELSE UNCHANGED token /\ Goto(t, "claim")
            /\ UNCHANGED <<snapshot, result>>
  /\ UNCHANGED <<rows, issued, sandbox, idem, planning, asking>>

\* begin_demo waits for whoever seeds, by calling begin again.
Poll(t) ==
  /\ pc[t] = "poll"
  /\ Lookup(t, call[t].key)
  /\ UNCHANGED <<rows, issued, sandbox, idem, planning, asking>>

\* Five seconds are over: demo_busy.
GiveUp(t) ==
  /\ pc[t] = "poll"
  /\ Return(t)
  /\ UNCHANGED <<rows, issued, sandbox, idem, planning, asking>>

\* The purge and the release of lapsed leases that begin does first.
Maintained(gone) ==
  [k \in Keys |->
     IF k \in gone THEN None
     ELSE IF rows[k] # None /\ rows[k].slot /\ rows[k].lapsed
       THEN Ended(rows[k], IF rows[k].status = "seeding" THEN "failed" ELSE "expired")
       ELSE rows[k]]

\* The caller has the lease.  It seeds, unless it was polling: then it looks on.
Leased(t, r) ==
  /\ Goto(t, IF token[t] = 0 THEN "seed" ELSE "poll")
  /\ call' = [call EXCEPT ![t] = IF token[t] = 0 THEN None ELSE @]
  /\ token' = [token EXCEPT ![t] = r]
  /\ UNCHANGED <<snapshot, result>>

\* Two inserts that race for the slot or the key end as if one came after the
\* other: the unique constraints refuse the second, which then reads the row.
Claim(t) ==
  /\ pc[t] = "claim"
  /\ \E gone \in SUBSET {j \in Keys : rows[j] # None /\ rows[j].status \in Terminal} :
       LET k    == call[t].key
           kept == Maintained(gone)
           busy == \E j \in Keys : kept[j] # None /\ kept[j].slot
       IN \/ /\ kept[k] # None /\ kept[k].status \in {"seeding", "active"}
             /\ rows' = kept
             /\ Replayed(t, k, kept)
             /\ UNCHANGED issued
          \/ /\ kept[k] = None /\ ~busy /\ issued < MaxTokens
             /\ issued' = issued + 1
             /\ rows' = [kept EXCEPT ![k] = Fresh(issued')]
             /\ Leased(t, issued')
          \/ /\ kept[k] # None /\ kept[k].status = "failed" /\ ~busy
             /\ rows' = [kept EXCEPT ![k] = Fresh(kept[k].token)]
             /\ Leased(t, kept[k].token)
             /\ UNCHANGED issued
          \/ /\ IF kept[k] = None THEN busy
                ELSE kept[k].status \in {"completed", "expired"} \/ (kept[k].status = "failed" /\ busy)
             /\ Return(t)
             /\ UNCHANGED <<rows, issued>>
  /\ UNCHANGED <<sandbox, idem, planning, asking>>

\* reset: the transaction, begun by the guard of the lease.
OpenReset(t) ==
  /\ pc[t] = "seed" /\ planning = None
  /\ IF Seeding(token[t])
       THEN planning' = t /\ Continue(t, "reset")
       ELSE Continue(t, "fail") /\ UNCHANGED planning
  /\ UNCHANGED <<rows, issued, sandbox, idem, asking>>

\* ... and ended by the same guard, beside the commit.
CommitReset(t) ==
  /\ pc[t] = "reset"
  /\ planning' = None
  /\ IF Seeding(token[t])
       THEN sandbox' = Baseline(token[t]) /\ Continue(t, "activate")
       ELSE Continue(t, "fail") /\ UNCHANGED sandbox
  /\ UNCHANGED <<rows, issued, idem, asking>>

\* The seed, a check of the fixed material or the store raises.
ResetError(t) ==
  /\ pc[t] \in {"seed", "reset"}
  /\ planning' = IF planning = t THEN None ELSE planning
  /\ Continue(t, "fail")
  /\ UNCHANGED <<rows, issued, sandbox, idem, asking>>

Activate(t) ==
  /\ pc[t] = "activate"
  /\ IF Seeding(token[t])
       THEN /\ rows' = [k \in Keys |-> IF k \in RowsOf(token[t])
                                         THEN [rows[k] EXCEPT !.status = "active"] ELSE rows[k]]
            /\ Return(t)
       ELSE /\ IF \E k \in RowsOf(token[t]) : rows[k].status = "active"
                 THEN Return(t) ELSE Continue(t, "fail")
            /\ UNCHANGED rows
  /\ UNCHANGED <<issued, sandbox, idem, planning, asking>>

\* The row of whoever seeds the run by now, not only this request's.
Fail(t) ==
  /\ pc[t] = "fail"
  /\ rows' = [k \in Keys |->
                IF k \in RowsOf(token[t]) /\ rows[k].status = "seeding" /\ rows[k].slot
                  THEN Ended(rows[k], "failed") ELSE rows[k]]
  /\ Return(t)
  /\ UNCHANGED <<issued, sandbox, idem, planning, asking>>

-----------------------------------------------------------------------------
(* The tools of a run                                                       *)

ReadCall   == [tool : {"read"}, token : 1 .. issued, id : {None}]
TaskCall   == [tool : {"task"}, token : 1 .. issued, id : RequestIds]

\* A client answers a question that its run told it.  (public_question_id depends on
\* the run, so a question of another run is refused like one never told.)
Told(r) == {idem[e].result : e \in {f \in DOMAIN idem : f.token = r /\ f.tool = "task"}} \ {None}

AnswerCall ==
  UNION {[tool : {"answer"}, token : {r}, id : AttemptIds, answer : Answers,
          question : Told(r), version : Versions] : r \in 1 .. issued}

UseTool(t) ==
  /\ pc[t] = "idle"
  /\ \E c \in ReadCall \cup TaskCall \cup AnswerCall :
       /\ call' = [call EXCEPT ![t] = c]
       /\ token' = [token EXCEPT ![t] = c.token]
       /\ Goto(t, IF c.tool = "answer" THEN "replay" ELSE "admit")
  /\ UNCHANGED <<rows, issued, sandbox, idem, planning, asking, snapshot, result>>

\* get_learning_context and search_materials read, then vouch for what they read.
ReadContext(t) ==
  /\ pc[t] = "admit" /\ call[t].tool = "read"
  /\ IF Admitted(token[t]) THEN Continue(t, "project") ELSE Return(t)
  /\ UNCHANGED <<rows, issued, sandbox, idem, planning, asking>>

Project(t) ==
  /\ pc[t] = "project"
  /\ Carry(t, sandbox.fence, "vouch")
  /\ UNCHANGED <<rows, issued, sandbox, idem, planning, asking>>

\* Faulty variant: what was read is not vouched for.
VouchNothing(t) ==
  /\ pc[t] = "vouch"
  /\ Continue(t, "deliver")
  /\ UNCHANGED <<rows, issued, sandbox, idem, planning, asking>>

Vouch(t) ==
  /\ pc[t] = "vouch"
  /\ IF Admitted(token[t]) THEN Continue(t, "deliver") ELSE Return(t)
  /\ UNCHANGED <<rows, issued, sandbox, idem, planning, asking>>

\* What was vouched for goes to the client.
Deliver(t) ==
  /\ pc[t] = "deliver"
  /\ Return(t)
  /\ UNCHANGED <<rows, issued, sandbox, idem, planning, asking>>

\* Entries are kept for longer than a lease lasts, so those of a run are gone only
\* after it, and together with those of the runs before it.
Outdated(r) == {e \in DOMAIN idem : e.token <= r /\ \A k \in RowsOf(e.token) : ~Live(k)}

\* Every look at the table first deletes what is past its retention.
Retained(r) == Restrict(idem, DOMAIN idem \ Outdated(r))

\* The entry is new, or nobody has finished its first call.
Unanswered(e, kept) == e \in DOMAIN kept => kept[e].result = None

WithEntry(e, c, kept) ==
  [f \in DOMAIN kept \cup {e} |->
     IF f \in DOMAIN kept THEN kept[f] ELSE [input |-> Input(c), result |-> None]]

\* get_idempotency, as submit_answer asks it before anything else.
Replay(t) ==
  /\ pc[t] = "replay"
  /\ \E r \in 0 .. issued :
       LET e == Entry(token[t], call[t])
           kept == Retained(r)
       IN /\ idem' = kept
          /\ IF e \in DOMAIN kept /\ kept[e].input # Input(call[t]) THEN Return(t)
             ELSE IF Unanswered(e, kept) THEN Continue(t, "admit")
             ELSE Proceed(t, "complete")
  /\ UNCHANGED <<rows, issued, sandbox, planning, asking>>

\* The run is live and its own; get_idempotency and claim_idempotency.
ClaimKey(t) ==
  /\ pc[t] = "admit" /\ call[t].tool # "read"
  /\ \E r \in 0 .. issued :
       LET e == Entry(token[t], call[t])
           kept == Retained(r)
       IN IF ~Admitted(token[t]) \/ (e \in DOMAIN kept /\ kept[e].input # Input(call[t]))
            THEN Return(t) /\ UNCHANGED idem
          ELSE /\ idem' = WithEntry(e, call[t], kept)
               /\ IF Unanswered(e, kept)
                    THEN Continue(t, IF call[t].tool = "task" THEN "ask" ELSE "grade")
                  ELSE IF call[t].tool = "task" THEN Return(t)
                  ELSE Proceed(t, "complete")
  /\ UNCHANGED <<rows, issued, sandbox, planning, asking>>

-----------------------------------------------------------------------------
(* get_practice_task: next_question for this run                            *)

\* The guard, then the snapshot; the model call follows.
Ask(t) ==
  /\ pc[t] = "ask"
  /\ LET id == call[t].id
     IN IF ~Admitted(token[t]) THEN Return(t)
        ELSE IF id \in DOMAIN sandbox.asked THEN Carry(t, sandbox.asked[id], "save")
        ELSE IF sandbox.pending # None THEN Carry(t, sandbox.pending, "save")
        ELSE /\ snapshot' = [snapshot EXCEPT ![t] = Version(sandbox)]
             /\ Goto(t, "recheck")
             /\ UNCHANGED <<call, token, result>>
  /\ UNCHANGED <<rows, issued, sandbox, idem, planning, asking>>

Recheck(t) ==
  /\ pc[t] = "recheck" /\ asking = None
  /\ LET id == call[t].id
     IN IF ~Admitted(token[t]) THEN Return(t) /\ UNCHANGED asking
        ELSE IF id \in DOMAIN sandbox.asked
          THEN Carry(t, sandbox.asked[id], "save") /\ UNCHANGED asking
        ELSE IF Version(sandbox) # snapshot[t]
          THEN /\ IF sandbox.pending # None THEN Carry(t, sandbox.pending, "save")
                                            ELSE Return(t)
               /\ UNCHANGED asking
        ELSE asking' = t /\ Continue(t, "store")
  /\ UNCHANGED <<rows, issued, sandbox, idem, planning>>

Store(t) ==
  /\ pc[t] = "store"
  /\ asking' = None
  /\ IF FenceHolds(token[t])
       THEN /\ sandbox.sequence < MaxQuestions
            /\ sandbox' = [sandbox EXCEPT
                 !.sequence = @ + 1,
                 !.pending = sandbox.sequence,
                 !.asked = [i \in DOMAIN @ \cup {call[t].id} |->
                              IF i = call[t].id THEN sandbox.sequence ELSE @[i]],
                 !.writers = @ \cup {token[t]}]
            /\ Carry(t, sandbox.sequence, "save")
       ELSE Return(t) /\ UNCHANGED sandbox
  /\ UNCHANGED <<rows, issued, idem, planning>>

-----------------------------------------------------------------------------
(* submit_answer                                                            *)

\* What the tool itself checks before it hands the answer over.
Acceptable(c) ==
  IF c.id \in DOMAIN sandbox.graded
    THEN sandbox.graded[c.id].question = c.question /\ sandbox.graded[c.id].answer = c.answer
    ELSE /\ c.version = Version(sandbox)
         /\ sandbox.pending # None
         /\ c.question = sandbox.pending

IsPending(c) == sandbox.pending = c.question

\* The guards before the model call.
Grade(t) ==
  /\ pc[t] = "grade"
  /\ LET c == call[t]
     IN IF ~(Acceptable(c) /\ Admitted(token[t])) THEN Return(t)
        ELSE IF c.id \in DOMAIN sandbox.graded
          THEN Carry(t, c.question, "save")
        ELSE Continue(t, "record")
  /\ UNCHANGED <<rows, issued, sandbox, idem, planning, asking>>

\* Faulty variant: the question is not looked at again after the model call.
RecordWithoutPending(t) ==
  /\ pc[t] = "record" /\ planning = None
  /\ LET c == call[t]
     IN IF ~(Admitted(token[t]) /\ FenceHolds(token[t])) THEN Return(t) /\ UNCHANGED sandbox
        ELSE /\ sandbox' = [sandbox EXCEPT !.pending = None, !.graded =
                  [i \in DOMAIN @ \cup {c.id} |->
                     IF i \in DOMAIN @ THEN @[i] ELSE [question |-> c.question, answer |-> c.answer]]]
             /\ Carry(t, c.question, "save")
  /\ UNCHANGED <<rows, issued, idem, planning, asking>>

\* grade_once, under the plan transaction that keeps a reset out, after its guard.
RecordGrade(t) ==
  /\ pc[t] = "record" /\ planning = None
  /\ LET c == call[t]
     IN IF ~(Admitted(token[t]) /\ FenceHolds(token[t])) THEN Return(t) /\ UNCHANGED sandbox
        ELSE IF c.id \in DOMAIN sandbox.graded
          THEN Carry(t, c.question, "save") /\ UNCHANGED sandbox
        ELSE IF ~IsPending(c) THEN Return(t) /\ UNCHANGED sandbox
        ELSE /\ sandbox' = [sandbox EXCEPT
                  !.pending = None,
                  !.graded = [i \in DOMAIN @ \cup {c.id} |->
                                IF i = c.id THEN [question |-> c.question, answer |-> c.answer]
                                            ELSE @[i]],
                  !.writers = @ \cup {token[t]}]
             /\ Carry(t, c.question, "save")
  /\ UNCHANGED <<rows, issued, idem, planning, asking>>

-----------------------------------------------------------------------------
(* The end of a call: the client is told what the table says                 *)

\* save_idempotency keeps a result that is already there.
Settled(e, c, res) ==
  [f \in DOMAIN idem \cup {e} |->
     IF f = e /\ Unanswered(e, idem) THEN [input |-> Input(c), result |-> res] ELSE idem[f]]

\* Faulty variant: the run is completed before the result is on record.
SaveLast(t) ==
  /\ pc[t] = "save"
  /\ Proceed(t, "complete")
  /\ UNCHANGED <<rows, issued, sandbox, idem, planning, asking>>

\* A task is read back from the table and told.
Save(t) ==
  /\ pc[t] = "save"
  /\ LET e == Entry(token[t], call[t])
     IN IF Admitted(token[t]) /\ (e \in DOMAIN idem => idem[e].input = Input(call[t]))
          THEN /\ idem' = Settled(e, call[t], result[t])
               /\ IF call[t].tool = "answer" THEN Proceed(t, "complete") ELSE Return(t)
          ELSE Return(t) /\ UNCHANGED idem
  /\ UNCHANGED <<rows, issued, sandbox, planning, asking>>

\* complete: of a lapsed run it records that it expired, and refuses.
Complete(t) ==
  /\ pc[t] = "complete"
  /\ rows' = [k \in Keys |->
                IF k \in RowsOf(token[t]) /\ rows[k].status = "active"
                  THEN Ended(rows[k], IF rows[k].lapsed THEN "expired" ELSE "completed")
                  ELSE rows[k]]
  /\ Return(t)
  /\ UNCHANGED <<issued, sandbox, idem, planning, asking>>

-----------------------------------------------------------------------------
(* Time, crashes and starts                                                 *)

Lapse(k) ==
  /\ Live(k)
  /\ rows' = [rows EXCEPT ![k].lapsed = TRUE]
  /\ UNCHANGED <<issued, sandbox, idem, planning, asking, threads>>

\* recover_startup, when an instance starts beside the others.
Startup ==
  /\ \E k \in Keys : rows[k] # None /\ rows[k].status = "seeding" /\ rows[k].lapsed
  /\ rows' = [k \in Keys |->
                IF rows[k] # None /\ rows[k].status = "seeding" /\ rows[k].lapsed
                  THEN Ended(rows[k], "failed") ELSE rows[k]]
  /\ UNCHANGED <<issued, sandbox, idem, planning, asking, threads>>

\* The process ends in the middle of a request, or, outside the block that turns an
\* exception of the reset into "failed", something raises.  Either way the open
\* transaction is rolled back and the request is gone.
Lost(t) ==
  /\ pc[t] # "idle"
  /\ pc[t] \in {"seed", "reset", "activate", "fail"} => MayCrash
  /\ planning' = IF planning = t THEN None ELSE planning
  /\ asking' = IF asking = t THEN None ELSE asking
  /\ Return(t)
  /\ UNCHANGED <<rows, issued, sandbox, idem>>

Begin(t) ==
  \/ Poll(t) \/ GiveUp(t) \/ Claim(t)
  \/ OpenReset(t) \/ CommitReset(t) \/ ResetError(t) \/ Activate(t) \/ Fail(t)

Tool(t) ==
  \/ ReadContext(t) \/ Project(t) \/ Vouch(t) \/ Deliver(t) \/ Replay(t) \/ ClaimKey(t)
  \/ Ask(t) \/ Recheck(t) \/ Store(t)
  \/ Grade(t) \/ RecordGrade(t)
  \/ Save(t) \/ Complete(t)

Next ==
  \/ \E t \in Threads : BeginDemo(t) \/ UseTool(t) \/ Begin(t) \/ Tool(t) \/ Lost(t)
  \/ \E k \in Keys : Lapse(k)
  \/ Startup

Spec == Init /\ [][Next]_vars

-----------------------------------------------------------------------------
(* Properties                                                               *)

Labels == {"idle", "claim", "poll", "seed", "reset", "activate", "fail",
           "admit", "project", "vouch", "deliver", "replay", "ask", "recheck", "store",
           "grade", "record", "save", "complete"}

\* The rows and the sandbox keep their types; at most one row holds the slot, and
\* exactly the rows that are seeding or active do; a scope is held inside its block.
TypeOK ==
  /\ rows \in [Keys -> Row \cup {None}]
  /\ \A k \in Keys : rows[k] # None =>
       /\ rows[k].token <= issued
       /\ rows[k].slot <=> rows[k].status \notin Terminal
  /\ \A j, k \in Keys : rows[j] # None /\ rows[k] # None /\ rows[j].slot /\ rows[k].slot => j = k
  /\ issued \in 0 .. MaxTokens
  /\ sandbox.fence \in 0 .. issued /\ sandbox.writers \subseteq 1 .. issued
  /\ \A e \in DOMAIN idem : e \in Entries /\ idem[e].result \in Nat \cup {None}
  /\ pc \in [Threads -> Labels]
  /\ token \in [Threads -> 0 .. issued]
  /\ \A t \in Threads : planning = t <=> pc[t] = "reset"
  /\ \A t \in Threads : asking = t <=> pc[t] = "store"

\* Whatever is asked and graded in the sandbox was written by the run it is bound
\* to: a run that expired during a model call does not write into its successor.
SandboxUnmixed == sandbox.writers \subseteq {sandbox.fence}

\* A client that is told what the sandbox holds is told of its own run's sandbox.
ReadsOwnRun == \A t \in Threads : pc[t] = "deliver" => result[t] = token[t]

\* No question is graded twice, at two processes or under two attempts.
GradedOnce ==
  \A i, j \in DOMAIN sandbox.graded :
    sandbox.graded[i].question = sandbox.graded[j].question => i = j

\* A run is completed only when the result of an answer is on record: whoever lost
\* the reply can have it again.
CompletedOnRecord ==
  [][\A k \in Keys :
       rows'[k] # None /\ rows'[k].status = "completed" /\ rows'[k] # rows[k] =>
         \E e \in DOMAIN idem' :
           e.token = rows'[k].token /\ e.tool = "answer" /\ idem'[e].result # None]_vars

\* A live lease to seed has somebody who seeds.  No run checks it, for it does not
\* hold: begin_demo polls by calling begin, which may hand it the lease of a seed that
\* failed, and it does not look at that (tools.py:172).
SeedingHasSeeder ==
  \A k \in Keys : Live(k) /\ rows[k].status = "seeding" =>
    \E t \in Threads :
      token[t] = rows[k].token /\ pc[t] \in {"seed", "reset", "activate", "fail"}

\* A run that is live and active is the one the sandbox was reset for.  Not checked by a
\* run either: a request that stalls for a whole lease after its reset can activate the
\* run for its next seeder (sandbox.py:263).
ActiveRunIsSeeded ==
  \A k \in Keys : Live(k) /\ rows[k].status = "active" => sandbox.fence = rows[k].token
=============================================================================
