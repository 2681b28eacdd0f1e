------------------------ MODULE EvaluationRuns_proofs ------------------------
(***************************************************************************)
(* Proofs about EvaluationRuns: the runs that follow each other in the one  *)
(* sandbox neither write nor read each other's work, a question is graded   *)
(* once, a run is completed only when its answer is on record, and one row  *)
(* at most holds the lease.                                                 *)
(***************************************************************************)
EXTENDS EvaluationRuns, TLAPS

-----------------------------------------------------------------------------
(* The inductive invariant                                                  *)

\* A token names one row, and a new row has a new token.
Leases ==
  /\ issued \in Nat
  /\ DOMAIN rows = Keys
  /\ \A k \in Keys : rows[k] # None => rows[k] \in Row /\ rows[k].token <= issued
  /\ \A j, k \in Keys :
       rows[j] # None /\ rows[k] # None /\ rows[j].token = rows[k].token => j = k

\* Run r was active once: the sandbox will not be reset for it any more.
Begun(r) ==
  /\ r \in Nat /\ r <= issued
  /\ \A k \in RowsOf(r) : rows[k].status \notin {"seeding", "failed"}

\* ... and it has ended.
Over(r) == Begun(r) /\ \A k \in RowsOf(r) : ~Live(k)

OnRecord(r) ==
  \E e \in DOMAIN idem : e.token = r /\ e.tool = "answer" /\ idem[e].result # None

\* Questions are numbered: what was graded is not pending any more.
Box ==
  /\ DOMAIN sandbox = {"fence", "sequence", "pending", "asked", "graded", "writers"}
  /\ sandbox.sequence \in Nat
  /\ sandbox.pending # None => sandbox.pending \in 0 .. sandbox.sequence - 1
  /\ \A i \in DOMAIN sandbox.graded :
       /\ sandbox.graded[i].question \in 0 .. sandbox.sequence - 1
       /\ sandbox.graded[i].question # sandbox.pending
  /\ GradedOnce /\ SandboxUnmixed

\* What a request knows at each of its steps.
Knows(t) ==
  /\ pc[t] = "admit" => call[t].tool \in {"read", "task", "answer"}
  /\ pc[t] \in {"ask", "recheck", "store"} => call[t].tool = "task"
  /\ pc[t] \in {"replay", "grade", "record"} => call[t].tool = "answer"
  /\ pc[t] = "record" => call[t].question # None
  /\ pc[t] = "save" /\ call[t].tool = "answer" => result[t] # None
  /\ pc[t] \in {"project", "vouch"} => Begun(token[t])
  /\ pc[t] = "vouch" => result[t] = token[t] \/ sandbox.fence # token[t]
  /\ pc[t] = "deliver" => result[t] = token[t]
  /\ pc[t] = "complete" => OnRecord(token[t]) \/ Over(token[t])

Locals ==
  /\ DOMAIN pc = Threads /\ DOMAIN call = Threads /\ DOMAIN token = Threads
  /\ DOMAIN snapshot = Threads /\ DOMAIN result = Threads

\* A result is on record only for a run that was active.
Results == \A e \in DOMAIN idem : Begun(e.token)

IInv ==
  /\ Leases /\ Box /\ Locals
  /\ Results
  /\ \A t \in Threads : Knows(t)

-----------------------------------------------------------------------------
(* The rows                                                                 *)

IsLive(row) == row.status \in {"seeding", "active"} /\ ~row.lapsed

\* A row that goes on: the run keeps its token, and one that was active once
\* is not seeded any more, nor lives again.
RowStep(row, next) ==
  /\ next \in Row /\ next.token = row.token
  /\ row.status \notin {"seeding", "failed"} =>
       /\ next.status \notin {"seeding", "failed"}
       /\ IsLive(next) => IsLive(row)

\* What a step does to the table: rows go, go on, or come with a new token.
LeaseStep ==
  /\ issued' \in Nat /\ issued <= issued'
  /\ DOMAIN rows' = Keys
  /\ \A k \in Keys : rows'[k] # None =>
       \/ rows[k] # None /\ RowStep(rows[k], rows'[k])
       \/ rows'[k] \in Row /\ rows'[k].token = issued' /\ issued < issued'
  /\ \A j, k \in Keys :
       /\ rows'[j] # None /\ rows'[j].token > issued
       /\ rows'[k] # None /\ rows'[k].token > issued
       => j = k

\* Steps that only let rows go on.
LEMMA RowsGoOn ==
  ASSUME Leases, UNCHANGED issued, DOMAIN rows' = Keys,
         \A k \in Keys : rows'[k] # None => rows[k] # None /\ RowStep(rows[k], rows'[k])
  PROVE  LeaseStep
  BY DEF Leases, LeaseStep, RowStep, Row, Tokens

LEMMA SameRow ==
  ASSUME NEW row \in Row
  PROVE  RowStep(row, row)
  BY DEF RowStep

LEMMA EndedRow ==
  ASSUME NEW row \in Row, NEW status \in Terminal,
         status = "failed" => row.status = "seeding"
  PROVE  RowStep(row, Ended(row, status))
  BY DEF RowStep, Row, Ended, Terminal, IsLive

LEMMA ActiveRow ==
  ASSUME NEW row \in Row, row.status = "seeding"
  PROVE  RowStep(row, [row EXCEPT !.status = "active"])
  BY DEF RowStep, Row

LEMMA LapsedRow ==
  ASSUME NEW row \in Row
  PROVE  RowStep(row, [row EXCEPT !.lapsed = TRUE])
  BY DEF RowStep, Row, IsLive

\* A failed run that is leased again.
LEMMA FreshRow ==
  ASSUME NEW row \in Row, row.status \in {"seeding", "failed"}
  PROVE  RowStep(row, Fresh(row.token))
  BY DEF RowStep, Row, Fresh

LEMMA MaintainedRows ==
  ASSUME Leases, NEW gone \in SUBSET Keys
  PROVE  \A k \in Keys :
           Maintained(gone)[k] # None =>
             rows[k] # None /\ RowStep(rows[k], Maintained(gone)[k])
  <1> SUFFICES ASSUME NEW k \in Keys, Maintained(gone)[k] # None
               PROVE  rows[k] # None /\ RowStep(rows[k], Maintained(gone)[k])
    OBVIOUS
  <1>1. CASE k \notin gone /\ rows[k] # None /\ rows[k].slot /\ rows[k].lapsed
    <2> DEFINE status == IF rows[k].status = "seeding" THEN "failed" ELSE "expired"
    <2>1. Maintained(gone)[k] = Ended(rows[k], status)
      BY <1>1 DEF Maintained
    <2>2. status \in Terminal /\ (status = "failed" => rows[k].status = "seeding")
      BY DEF Terminal
    <2> HIDE DEF status
    <2> QED BY <1>1, <2>1, <2>2, EndedRow DEF Leases
  <1>2. CASE ~(k \notin gone /\ rows[k] # None /\ rows[k].slot /\ rows[k].lapsed)
    <2>1. k \notin gone /\ Maintained(gone)[k] = rows[k]
      BY <1>2 DEF Maintained
    <2> QED BY <2>1, SameRow DEF Leases
  <1> QED BY <1>1, <1>2

LEMMA ClaimRows ==
  ASSUME Leases, NEW t \in Threads, Claim(t)
  PROVE  LeaseStep
  <1>1. PICK gone \in SUBSET {j \in Keys : rows[j] # None /\ rows[j].status \in Terminal} :
          LET k    == call[t].key
              kept == Maintained(gone)
              busy == \E j \in Keys : kept[j] # None /\ kept[j].slot
          IN \/ rows' = kept /\ UNCHANGED issued
             \/ /\ kept[k] = None /\ issued < MaxTokens /\ issued' = issued + 1
                /\ rows' = [kept EXCEPT ![k] = Fresh(issued')]
             \/ /\ kept[k] # None /\ kept[k].status = "failed" /\ UNCHANGED issued
                /\ rows' = [kept EXCEPT ![k] = Fresh(kept[k].token)]
             \/ UNCHANGED <<rows, issued>>
    BY DEF Claim
  <1> DEFINE k0   == call[t].key
             kept == Maintained(gone)
  <1>2. DOMAIN kept = Keys
    BY DEF Maintained
  <1>3. \A k \in Keys : kept[k] # None => rows[k] # None /\ RowStep(rows[k], kept[k])
    BY MaintainedRows
  <1> HIDE DEF kept
  <1>4. CASE rows' = kept /\ UNCHANGED issued
    BY <1>2, <1>3, <1>4, RowsGoOn
  <1>5. CASE /\ kept[k0] = None /\ issued < MaxTokens /\ issued' = issued + 1
             /\ rows' = [kept EXCEPT ![k0] = Fresh(issued')]
    <2>1. issued' \in Nat /\ issued < issued'
      BY <1>5 DEF Leases
    <2>2. Fresh(issued') \in Row /\ Fresh(issued').token = issued'
      BY <1>5, EvaluationAssumption DEF Leases, Row, Fresh, Tokens
    <2>3. \A k \in Keys : rows'[k] = IF k = k0 THEN Fresh(issued') ELSE kept[k]
      BY <1>2, <1>5
    <2>4. \A k \in Keys : kept[k] # None => kept[k].token <= issued
      BY <1>3 DEF Leases, RowStep
    <2>5. DOMAIN rows' = Keys
      BY <1>2, <1>5
    <2>6. \A k \in Keys : rows'[k] # None /\ rows'[k].token > issued => k = k0
      <3> SUFFICES ASSUME NEW k \in Keys, k # k0, rows'[k] # None, rows'[k].token > issued
                   PROVE  FALSE
        OBVIOUS
      <3>1. kept[k] # None /\ kept[k].token <= issued /\ kept[k].token > issued
        BY <2>3, <2>4
      <3>2. kept[k].token \in Nat /\ issued \in Nat
        BY <3>1, <1>3 DEF Leases, RowStep, Row, Tokens
      <3> QED BY <3>1, <3>2
    <2> QED BY <1>3, <2>1, <2>2, <2>3, <2>5, <2>6 DEF LeaseStep, Leases
  <1>6. CASE /\ kept[k0] # None /\ kept[k0].status = "failed" /\ UNCHANGED issued
             /\ rows' = [kept EXCEPT ![k0] = Fresh(kept[k0].token)]
    <2>1. \A k \in Keys : rows'[k] = IF k = k0 THEN Fresh(kept[k0].token) ELSE kept[k]
      BY <1>2, <1>6
    <2>2. ASSUME k0 \in Keys
          PROVE  rows[k0] # None /\ RowStep(rows[k0], Fresh(kept[k0].token))
      <3>1. rows[k0] # None /\ RowStep(rows[k0], kept[k0]) /\ rows[k0] \in Row
        BY <1>3, <1>6, <2>2 DEF Leases
      <3>2. kept[k0].token = rows[k0].token /\ rows[k0].status \in {"seeding", "failed"}
        BY <1>6, <3>1 DEF RowStep
      <3> QED BY <3>1, <3>2, FreshRow
    <2>3. DOMAIN rows' = Keys
      BY <1>2, <1>6
    <2> QED BY <1>3, <1>6, <2>1, <2>2, <2>3, RowsGoOn
  <1>7. CASE UNCHANGED <<rows, issued>>
    BY <1>7, SameRow, RowsGoOn DEF Leases
  <1> QED BY <1>1, <1>4, <1>5, <1>6, <1>7 DEF kept

\* Every other step leaves the table alone or changes rows in place.
LEMMA NextRows ==
  ASSUME Leases, [Next]_vars
  PROVE  LeaseStep
  <1> DEFINE InPlace ==
        /\ DOMAIN rows' = Keys /\ UNCHANGED issued
        /\ \A k \in Keys : rows'[k] # None => rows[k] # None /\ RowStep(rows[k], rows'[k])
  <1>1. \A k \in Keys : rows[k] # None => rows[k] \in Row /\ RowStep(rows[k], rows[k])
    BY SameRow DEF Leases
  <1>2. ASSUME UNCHANGED <<rows, issued>> PROVE InPlace
    BY <1>1, <1>2 DEF Leases
  <1>3. ASSUME NEW t \in Threads, Activate(t) PROVE InPlace
    <2>1. CASE Seeding(token[t])
      <3>1. /\ UNCHANGED issued
            /\ rows' = [k \in Keys |-> IF k \in RowsOf(token[t])
                                         THEN [rows[k] EXCEPT !.status = "active"] ELSE rows[k]]
        BY <1>3, <2>1 DEF Activate
      <3>2. \A k \in RowsOf(token[t]) : rows[k] \in Row /\ rows[k].status = "seeding"
        BY <2>1 DEF Seeding, RowsOf, Leases
      <3>3. \A k \in RowsOf(token[t]) :
              rows[k] # None /\ RowStep(rows[k], [rows[k] EXCEPT !.status = "active"])
        BY <3>2, ActiveRow DEF RowsOf
      <3> QED BY <1>1, <3>1, <3>3
    <2>2. CASE ~Seeding(token[t])
      BY <1>2, <1>3, <2>2 DEF Activate
    <2> QED BY <2>1, <2>2
  <1>4. ASSUME NEW t \in Threads, Fail(t) PROVE InPlace
    <2>1. /\ UNCHANGED issued
          /\ rows' = [k \in Keys |->
                IF k \in RowsOf(token[t]) /\ rows[k].status = "seeding" /\ rows[k].slot
                  THEN Ended(rows[k], "failed") ELSE rows[k]]
      BY <1>4 DEF Fail
    <2>2. \A k \in RowsOf(token[t]) : rows[k].status = "seeding" =>
            rows[k] # None /\ RowStep(rows[k], Ended(rows[k], "failed"))
      BY <1>1, EndedRow DEF RowsOf, Terminal
    <2> QED BY <1>1, <2>1, <2>2
  <1>5. ASSUME NEW t \in Threads, Complete(t) PROVE InPlace
    <2>1. /\ UNCHANGED issued
          /\ rows' = [k \in Keys |->
                IF k \in RowsOf(token[t]) /\ rows[k].status = "active"
                  THEN Ended(rows[k], IF rows[k].lapsed THEN "expired" ELSE "completed")
                  ELSE rows[k]]
      BY <1>5 DEF Complete
    <2>2. \A k \in RowsOf(token[t]) :
            /\ rows[k] # None /\ RowStep(rows[k], Ended(rows[k], "expired"))
            /\ RowStep(rows[k], Ended(rows[k], "completed"))
      BY <1>1, EndedRow DEF RowsOf, Terminal
    <2> QED BY <1>1, <2>1, <2>2
  <1>6. ASSUME NEW k \in Keys, Lapse(k) PROVE InPlace
    <2>1. /\ rows[k] # None /\ UNCHANGED issued
          /\ rows' = [rows EXCEPT ![k] = [rows[k] EXCEPT !.lapsed = TRUE]]
      BY <1>6 DEF Lapse, Live
    <2>2. RowStep(rows[k], [rows[k] EXCEPT !.lapsed = TRUE])
      BY <1>1, <2>1, LapsedRow
    <2> QED BY <1>1, <2>1, <2>2 DEF Leases
  <1>7. ASSUME Startup PROVE InPlace
    <2>1. /\ UNCHANGED issued
          /\ rows' = [k \in Keys |->
                IF rows[k] # None /\ rows[k].status = "seeding" /\ rows[k].lapsed
                  THEN Ended(rows[k], "failed") ELSE rows[k]]
      BY <1>7 DEF Startup
    <2>2. \A k \in Keys : rows[k] # None /\ rows[k].status = "seeding" =>
            RowStep(rows[k], Ended(rows[k], "failed"))
      BY <1>1, EndedRow DEF Terminal
    <2> QED BY <1>1, <2>1, <2>2
  <1>8. ASSUME NEW t \in Threads, Tool(t), ~Complete(t) PROVE UNCHANGED <<rows, issued>>
    BY <1>8 DEF Tool, ReadContext, Project, Vouch, Deliver, Replay, ClaimKey, Ask, Recheck,
                Store, Grade, RecordGrade, Save
  <1>9. ASSUME NEW t \in Threads,
               BeginDemo(t) \/ UseTool(t) \/ Poll(t) \/ GiveUp(t) \/ OpenReset(t)
                 \/ CommitReset(t) \/ ResetError(t) \/ Lost(t)
        PROVE  UNCHANGED <<rows, issued>>
    BY <1>9 DEF BeginDemo, UseTool, Poll, GiveUp, OpenReset, CommitReset, ResetError, Lost
  <1>10. ASSUME InPlace PROVE LeaseStep
    BY <1>10, RowsGoOn
  <1> HIDE DEF InPlace
  <1>11. ASSUME NEW t \in Threads, Claim(t) PROVE LeaseStep
    BY <1>11, ClaimRows
  <1>12. CASE UNCHANGED vars
    BY <1>2, <1>10, <1>12 DEF vars
  <1>13. ASSUME NEW t \in Threads, Begin(t) PROVE LeaseStep
    BY <1>2, <1>3, <1>4, <1>9, <1>10, <1>11, <1>13 DEF Begin
  <1> QED BY <1>2, <1>5, <1>6, <1>7, <1>8, <1>9, <1>10, <1>12, <1>13 DEF Next

LEMMA NextLeases ==
  ASSUME Leases, LeaseStep
  PROVE  Leases'
  <1>1. \A k \in Keys : rows'[k] # None =>
          /\ rows'[k] \in Row /\ rows'[k].token \in Nat
          /\ rows'[k].token <= issued'
          /\ \/ rows[k] # None /\ rows[k].token = rows'[k].token
             \/ rows'[k].token > issued
    BY DEF Leases, LeaseStep, RowStep, Row, Tokens
  <1>2. ASSUME NEW j \in Keys, NEW k \in Keys,
               rows'[j] # None, rows'[k] # None, rows'[j].token = rows'[k].token
        PROVE  j = k
    <2>1. CASE rows'[j].token > issued
      BY <1>2, <2>1 DEF LeaseStep
    <2>2. CASE ~(rows'[j].token > issued)
      BY <1>1, <1>2, <2>2 DEF Leases
    <2> QED BY <2>1, <2>2
  <1> QED BY <1>1, <1>2 DEF Leases, LeaseStep

\* A run that was active once stays so, and one that is over stays over.
LEMMA BegunStays ==
  ASSUME Leases, LeaseStep, NEW r, Begun(r)
  PROVE  Begun(r)'
  <1>1. r \in Nat /\ r <= issued'
    BY DEF Begun, LeaseStep, Leases
  <1>2. ASSUME NEW k \in Keys, rows'[k] # None, rows'[k].token = r
        PROVE  rows'[k].status \notin {"seeding", "failed"}
    BY <1>2 DEF Begun, LeaseStep, Leases, RowStep, RowsOf
  <1> QED BY <1>1, <1>2 DEF Begun, RowsOf

LEMMA OverStays ==
  ASSUME Leases, LeaseStep, NEW r, Over(r)
  PROVE  Over(r)'
  <1>1. Begun(r)'
    BY BegunStays DEF Over
  <1>2. ASSUME NEW k \in Keys, rows'[k] # None, rows'[k].token = r
        PROVE  ~Live(k)'
    BY <1>2 DEF Over, Begun, LeaseStep, Leases, RowStep, RowsOf, Live, IsLive
  <1> QED BY <1>1, <1>2 DEF Over, RowsOf

\* A run that is admitted was active once.
LEMMA ActiveBegun ==
  ASSUME Leases, NEW r, Active(r)
  PROVE  Begun(r)
  BY DEF Active, Leases, Begun, RowsOf, Row, Tokens

LEMMA SeedingNotBegun ==
  ASSUME NEW r, Seeding(r)
  PROVE  ~Begun(r)
  BY DEF Seeding, Begun

-----------------------------------------------------------------------------
(* The sandbox and the results                                              *)

\* The sandbox changes hands only by the reset of a run that seeds.
FenceStep == sandbox'.fence = sandbox.fence \/ Seeding(sandbox'.fence)

LEMMA StoreBox ==
  ASSUME Box, NEW t \in Threads, Store(t)
  PROVE  Box' /\ FenceStep
  <1>1. CASE FenceHolds(token[t])
    <2>1. /\ sandbox' = [sandbox EXCEPT
                 !.sequence = @ + 1,
                 !.pending = sandbox.sequence,
                 !.asked = [i \in DOMAIN @ \cup {call[t].id} |->
                              IF i = call[t].id THEN sandbox.sequence ELSE @[i]],
                 !.writers = @ \cup {token[t]}]
          /\ sandbox.fence = token[t]
      BY <1>1 DEF Store, FenceHolds
    <2>2. /\ DOMAIN sandbox' = DOMAIN sandbox
          /\ sandbox'.fence = sandbox.fence /\ sandbox'.graded = sandbox.graded
          /\ sandbox'.sequence = sandbox.sequence + 1
          /\ sandbox'.pending = sandbox.sequence
          /\ sandbox'.writers = sandbox.writers \cup {token[t]}
      BY <2>1 DEF Box
    <2> QED BY <2>1, <2>2 DEF Box, GradedOnce, SandboxUnmixed, FenceStep
  <1>2. CASE ~FenceHolds(token[t])
    BY <1>2 DEF Store, Box, GradedOnce, SandboxUnmixed, FenceStep
  <1> QED BY <1>1, <1>2

LEMMA RecordBox ==
  ASSUME Box, NEW t \in Threads, Knows(t), RecordGrade(t)
  PROVE  Box' /\ FenceStep
  <1> DEFINE c == call[t]
  <1>1. CASE UNCHANGED sandbox
    BY <1>1 DEF Box, GradedOnce, SandboxUnmixed, FenceStep
  <1>2. CASE ~UNCHANGED sandbox
    <2>1. /\ sandbox.fence = token[t] /\ c.id \notin DOMAIN sandbox.graded
          /\ sandbox.pending = c.question /\ c.question # None
          /\ sandbox' = [sandbox EXCEPT
                  !.pending = None,
                  !.graded = [i \in DOMAIN @ \cup {c.id} |->
                                IF i = c.id THEN [question |-> c.question, answer |-> c.answer]
                                            ELSE @[i]],
                  !.writers = @ \cup {token[t]}]
      BY <1>2 DEF RecordGrade, FenceHolds, IsPending, Knows
    <2>2. /\ DOMAIN sandbox' = DOMAIN sandbox
          /\ sandbox'.fence = sandbox.fence /\ sandbox'.sequence = sandbox.sequence
          /\ sandbox'.pending = None
          /\ sandbox'.writers = sandbox.writers \cup {token[t]}
          /\ sandbox'.graded = [i \in DOMAIN sandbox.graded \cup {c.id} |->
                IF i = c.id THEN [question |-> c.question, answer |-> c.answer]
                            ELSE sandbox.graded[i]]
      BY <2>1 DEF Box
    <2>3. c.question \in 0 .. sandbox.sequence - 1 /\ c.question # None
      BY <2>1 DEF Box
    <2>4. /\ DOMAIN sandbox'.graded = DOMAIN sandbox.graded \cup {c.id}
          /\ sandbox'.graded[c.id].question = c.question
          /\ \A i \in DOMAIN sandbox.graded : sandbox'.graded[i] = sandbox.graded[i]
      BY <2>1, <2>2
    <2>5. \A i \in DOMAIN sandbox.graded : sandbox.graded[i].question # c.question
      BY <2>1 DEF Box
    <2>6. \A i \in DOMAIN sandbox'.graded :
            sandbox'.graded[i].question \in 0 .. sandbox.sequence - 1
      BY <2>3, <2>4 DEF Box
    <2>7. None \notin 0 .. sandbox.sequence - 1
      BY EvaluationAssumption DEF Box
    <2>8. GradedOnce'
      BY <2>4, <2>5 DEF Box, GradedOnce
    <2>9. SandboxUnmixed'
      BY <2>1, <2>2 DEF Box, SandboxUnmixed
    <2> QED BY <2>2, <2>6, <2>7, <2>8, <2>9 DEF Box, FenceStep
  <1> QED BY <1>1, <1>2

LEMMA ResetBox ==
  ASSUME Box, NEW t \in Threads, CommitReset(t)
  PROVE  Box' /\ FenceStep
  <1>1. CASE Seeding(token[t])
    BY <1>1 DEF CommitReset, Baseline, Box, GradedOnce, SandboxUnmixed, FenceStep
  <1>2. CASE ~Seeding(token[t])
    BY <1>2 DEF CommitReset, Box, GradedOnce, SandboxUnmixed, FenceStep
  <1> QED BY <1>1, <1>2

LEMMA NextBox ==
  ASSUME Box, \A t \in Threads : Knows(t), [Next]_vars
  PROVE  Box' /\ FenceStep
  <1>1. ASSUME UNCHANGED sandbox PROVE Box' /\ FenceStep
    BY <1>1 DEF Box, GradedOnce, SandboxUnmixed, FenceStep
  <1>2. ASSUME NEW t \in Threads, Tool(t) PROVE Box' /\ FenceStep
    BY <1>1, <1>2, StoreBox, RecordBox
       DEF Tool, ReadContext, Project, Vouch, Deliver, Replay, ClaimKey, Ask, Recheck, Grade,
           Save, Complete
  <1>3. ASSUME NEW t \in Threads, Begin(t) PROVE Box' /\ FenceStep
    BY <1>1, <1>3, ResetBox
       DEF Begin, Poll, GiveUp, Claim, OpenReset, ResetError, Activate, Fail
  <1>4. ASSUME NEW t \in Threads, BeginDemo(t) \/ UseTool(t) \/ Lost(t)
        PROVE  UNCHANGED sandbox
    BY <1>4 DEF BeginDemo, UseTool, Lost
  <1>5. ASSUME NEW k \in Keys, Lapse(k) PROVE UNCHANGED sandbox
    BY <1>5 DEF Lapse
  <1>6. ASSUME Startup PROVE UNCHANGED sandbox
    BY <1>6 DEF Startup
  <1>7. CASE UNCHANGED vars
    BY <1>1, <1>7 DEF vars
  <1> QED BY <1>1, <1>2, <1>3, <1>4, <1>5, <1>6, <1>7 DEF Next

\* A result that is on record stays there, until its run is over.
IdemStep ==
  /\ \A e \in DOMAIN idem' : Begun(e.token)
  /\ \A e \in DOMAIN idem : idem[e].result # None =>
       \/ e \in DOMAIN idem' /\ idem'[e].result # None
       \/ Over(e.token)

\* What the retention deletes belongs to runs that are over.
LEMMA RetainedResults ==
  ASSUME Results, NEW r
  PROVE  /\ DOMAIN Retained(r) \subseteq DOMAIN idem
         /\ \A e \in DOMAIN Retained(r) : Retained(r)[e] = idem[e]
         /\ \A e \in DOMAIN idem \ DOMAIN Retained(r) : Over(e.token)
  BY DEF Retained, Restrict, Outdated, Results, Over

LEMMA ReplayIdem ==
  ASSUME Results, NEW t \in Threads, Replay(t)
  PROVE  IdemStep
  <1>1. PICK r \in 0 .. issued : idem' = Retained(r)
    BY DEF Replay
  <1> QED BY <1>1, RetainedResults DEF IdemStep, Results

LEMMA ClaimIdem ==
  ASSUME Results, Leases, NEW t \in Threads, ClaimKey(t)
  PROVE  IdemStep
  <1> DEFINE e0 == Entry(token[t], call[t])
  <1>1. CASE UNCHANGED idem
    BY <1>1 DEF IdemStep, Results
  <1>2. CASE ~UNCHANGED idem
    <2>1. PICK r \in 0 .. issued :
            idem' = WithEntry(e0, call[t], Retained(r)) /\ Admitted(token[t])
      BY <1>2 DEF ClaimKey
    <2>2. Begun(e0.token)
      BY <2>1, ActiveBegun DEF Admitted, Entry
    <2>3. /\ DOMAIN idem' = DOMAIN Retained(r) \cup {e0}
          /\ \A e \in DOMAIN Retained(r) : idem'[e] = Retained(r)[e]
      BY <2>1 DEF WithEntry
    <2> HIDE DEF e0
    <2> QED BY <2>2, <2>3, RetainedResults DEF IdemStep, Results
  <1> QED BY <1>1, <1>2

LEMMA SaveIdem ==
  ASSUME Results, Leases, NEW t \in Threads, Save(t)
  PROVE  IdemStep
  <1> DEFINE e0 == Entry(token[t], call[t])
  <1>1. CASE UNCHANGED idem
    BY <1>1 DEF IdemStep, Results
  <1>2. CASE ~UNCHANGED idem
    <2>1. idem' = Settled(e0, call[t], result[t]) /\ Admitted(token[t])
      BY <1>2 DEF Save
    <2>2. Begun(e0.token)
      BY <2>1, ActiveBegun DEF Admitted, Entry
    <2>3. /\ DOMAIN idem' = DOMAIN idem \cup {e0}
          /\ \A e \in DOMAIN idem : idem[e].result # None => idem'[e] = idem[e]
      BY <2>1 DEF Settled, Unanswered
    <2> HIDE DEF e0
    <2> QED BY <2>2, <2>3 DEF IdemStep, Results
  <1> QED BY <1>1, <1>2

LEMMA NextIdem ==
  ASSUME Results, Leases, [Next]_vars
  PROVE  IdemStep
  <1>1. ASSUME UNCHANGED idem PROVE IdemStep
    BY <1>1 DEF IdemStep, Results
  <1>2. ASSUME NEW t \in Threads, Tool(t) PROVE IdemStep
    BY <1>1, <1>2, ReplayIdem, ClaimIdem, SaveIdem
       DEF Tool, ReadContext, Project, Vouch, Deliver, Ask, Recheck, Store, Grade, RecordGrade,
           Complete
  <1>3. ASSUME NEW t \in Threads, Begin(t) PROVE UNCHANGED idem
    BY <1>3 DEF Begin, Poll, GiveUp, Claim, OpenReset, CommitReset, ResetError, Activate, Fail
  <1>4. ASSUME NEW t \in Threads, BeginDemo(t) \/ UseTool(t) \/ Lost(t)
        PROVE  UNCHANGED idem
    BY <1>4 DEF BeginDemo, UseTool, Lost
  <1>5. ASSUME NEW k \in Keys, Lapse(k) PROVE UNCHANGED idem
    BY <1>5 DEF Lapse
  <1>6. ASSUME Startup PROVE UNCHANGED idem
    BY <1>6 DEF Startup
  <1>7. CASE UNCHANGED vars
    BY <1>1, <1>7 DEF vars
  <1> QED BY <1>1, <1>2, <1>3, <1>4, <1>5, <1>6, <1>7 DEF Next

-----------------------------------------------------------------------------
(* The requests                                                             *)

\* What a step may not touch: the locals of the other requests.
Same(t) ==
  /\ pc'[t] = pc[t] /\ call'[t] = call[t] /\ token'[t] = token[t] /\ result'[t] = result[t]

Alone(t) == Locals' /\ \A u \in Threads \ {t} : Same(u)

\* What a request knows is not undone by what others do.
LEMMA KnowsStays ==
  ASSUME Leases, LeaseStep, FenceStep, IdemStep, NEW t \in Threads, Knows(t), Same(t)
  PROVE  Knows(t)'
  <1>1. \A r : Begun(r) => Begun(r)'
    BY BegunStays
  <1>2. ASSUME pc[t] = "vouch"
        PROVE  result[t] = token[t] \/ sandbox'.fence # token[t]
    <2>1. Begun(token[t]) /\ (result[t] = token[t] \/ sandbox.fence # token[t])
      BY <1>2 DEF Knows
    <2> QED BY <2>1, SeedingNotBegun DEF FenceStep
  <1>3. ASSUME pc[t] = "complete"
        PROVE  OnRecord(token[t])' \/ Over(token[t])'
    <2>1. CASE Over(token[t])
      <3>1. \A r : Over(r) => Over(r)'
        BY OverStays
      <3> QED BY <2>1, <3>1 DEF Same
    <2>2. CASE OnRecord(token[t])
      <3>1. PICK e \in DOMAIN idem :
              e.token = token[t] /\ e.tool = "answer" /\ idem[e].result # None
        BY <2>2 DEF OnRecord
      <3>2. CASE Over(e.token)
        <4>1. \A r : Over(r) => Over(r)'
          BY OverStays
        <4> QED BY <3>1, <3>2, <4>1 DEF Same
      <3>3. CASE e \in DOMAIN idem' /\ idem'[e].result # None
        BY <3>1, <3>3 DEF OnRecord, Same
      <3> QED BY <3>1, <3>2, <3>3 DEF IdemStep
    <2> QED BY <1>3, <2>1, <2>2 DEF Knows
  <1> QED BY <1>1, <1>2, <1>3 DEF Knows, Same

\* Where nothing is to be known.
LEMMA KnowsNothing ==
  ASSUME NEW t \in Threads,
         pc'[t] \in {"idle", "claim", "poll", "seed", "reset", "activate", "fail"}
  PROVE  Knows(t)'
  BY DEF Knows

LEMMA ReturnAlone ==
  ASSUME Locals, NEW t \in Threads, Return(t)
  PROVE  Alone(t) /\ Knows(t)'
  <1>1. Alone(t) /\ pc'[t] = "idle"
    BY DEF Locals, Return, Goto, Alone, Same
  <1> QED BY <1>1, KnowsNothing

LEMMA ContinueAlone ==
  ASSUME Locals, NEW t \in Threads, NEW l, Continue(t, l)
  PROVE  /\ Alone(t) /\ pc'[t] = l /\ call'[t] = call[t]
         /\ token'[t] = token[t] /\ result'[t] = result[t]
  BY DEF Locals, Continue, Goto, Alone, Same

LEMMA CarryAlone ==
  ASSUME Locals, NEW t \in Threads, NEW res, NEW l, Carry(t, res, l)
  PROVE  /\ Alone(t) /\ pc'[t] = l /\ call'[t] = call[t]
         /\ token'[t] = token[t] /\ result'[t] = res
  BY DEF Locals, Carry, Goto, Alone, Same

LEMMA ProceedAlone ==
  ASSUME Locals, NEW t \in Threads, NEW l, Proceed(t, l)
  PROVE  Alone(t) /\ pc'[t] = l /\ token'[t] = token[t]
  BY DEF Locals, Proceed, Goto, Alone, Same

LEMMA ReplayedAlone ==
  ASSUME Locals, NEW t \in Threads, NEW k, NEW found, Replayed(t, k, found)
  PROVE  Alone(t) /\ Knows(t)'
  <1>1. CASE Return(t)
    BY <1>1, ReturnAlone
  <1>2. CASE ~Return(t)
    <2>1. Alone(t) /\ pc'[t] = "poll"
      BY <1>2 DEF Locals, Replayed, Goto, Alone, Same
    <2> QED BY <2>1, KnowsNothing
  <1> QED BY <1>1, <1>2

LEMMA BeginAlone ==
  ASSUME Locals, NEW t \in Threads, Begin(t) \/ BeginDemo(t) \/ Lost(t)
  PROVE  Alone(t) /\ Knows(t)'
  <1> DEFINE Quiet == {"idle", "claim", "poll", "seed", "reset", "activate", "fail"}
  <1>1. ASSUME NEW l \in Quiet, Continue(t, l) PROVE Alone(t) /\ Knows(t)'
    BY <1>1, ContinueAlone, KnowsNothing
  <1>2. ASSUME NEW r, Leased(t, r) PROVE Alone(t) /\ Knows(t)'
    <2>1. Alone(t) /\ pc'[t] \in {"seed", "poll"}
      BY <1>2 DEF Locals, Leased, Goto, Alone, Same
    <2> QED BY <2>1, KnowsNothing
  <1>3. CASE BeginDemo(t)
    <2>1. CASE Return(t)
      BY <2>1, ReturnAlone
    <2>2. CASE ~Return(t)
      <3>1. Alone(t) /\ pc'[t] \in {"poll", "claim"}
        BY <1>3, <2>2 DEF Locals, BeginDemo, Goto, Alone, Same
      <3> QED BY <3>1, KnowsNothing
    <2> QED BY <2>1, <2>2
  <1>4. CASE Poll(t)
    BY <1>1, <1>4, ReplayedAlone DEF Poll, Lookup
  <1>5. CASE GiveUp(t) \/ Fail(t) \/ Lost(t)
    BY <1>5, ReturnAlone DEF GiveUp, Fail, Lost
  <1>6. CASE Claim(t)
    <2>1. \/ Return(t) \/ \E r : Leased(t, r) \/ \E k, found : Replayed(t, k, found)
      BY <1>6 DEF Claim
    <2> QED BY <1>2, <2>1, ReturnAlone, ReplayedAlone
  <1>7. CASE OpenReset(t) \/ CommitReset(t) \/ ResetError(t) \/ Activate(t)
    BY <1>1, <1>7, ReturnAlone DEF OpenReset, CommitReset, ResetError, Activate
  <1> QED BY <1>3, <1>4, <1>5, <1>6, <1>7 DEF Begin

LEMMA UseAlone ==
  ASSUME Locals, NEW t \in Threads, UseTool(t)
  PROVE  Alone(t) /\ Knows(t)'
  <1>1. PICK c \in ReadCall \cup TaskCall \cup AnswerCall :
          /\ call' = [call EXCEPT ![t] = c]
          /\ token' = [token EXCEPT ![t] = c.token]
          /\ pc' = [pc EXCEPT ![t] = IF c.tool = "answer" THEN "replay" ELSE "admit"]
          /\ UNCHANGED <<snapshot, result>>
    BY DEF UseTool, Goto
  <1>2. c.tool \in {"read", "task", "answer"}
    BY DEF ReadCall, TaskCall, AnswerCall
  <1>3. Alone(t)
    BY <1>1 DEF Locals, Alone, Same
  <1>4. call'[t] = c /\ pc'[t] = IF c.tool = "answer" THEN "replay" ELSE "admit"
    BY <1>1 DEF Locals
  <1> QED BY <1>2, <1>3, <1>4 DEF Knows

\* get_learning_context and search_materials.
LEMMA ReadKnows ==
  ASSUME IInv, LeaseStep, NEW t \in Threads,
         ReadContext(t) \/ Project(t) \/ Vouch(t) \/ Deliver(t)
  PROVE  Alone(t) /\ Knows(t)'
  <1> USE DEF IInv
  <1>1. \A r : Begun(r) => Begun(r)'
    BY BegunStays
  <1>2. CASE Return(t)
    BY <1>2, ReturnAlone
  <1>3. CASE ReadContext(t) /\ ~Return(t)
    <2>1. Continue(t, "project") /\ Admitted(token[t])
      BY <1>3 DEF ReadContext
    <2>2. Begun(token[t])
      BY <2>1, ActiveBegun DEF Admitted
    <2> QED BY <1>1, <2>1, <2>2, ContinueAlone DEF Knows
  <1>4. CASE Project(t)
    <2>1. Carry(t, sandbox.fence, "vouch") /\ UNCHANGED sandbox /\ Begun(token[t])
      BY <1>4 DEF Project, Knows
    <2> QED BY <1>1, <2>1, CarryAlone DEF Knows
  <1>5. CASE Vouch(t) /\ ~Return(t)
    <2>1. Continue(t, "deliver") /\ result[t] = token[t]
      BY <1>5 DEF Vouch, Admitted, Knows
    <2> QED BY <2>1, ContinueAlone DEF Knows
  <1> QED BY <1>2, <1>3, <1>4, <1>5 DEF Deliver

\* get_practice_task, once its key is claimed.
LEMMA TaskKnows ==
  ASSUME IInv, NEW t \in Threads, Ask(t) \/ Recheck(t) \/ Store(t)
  PROVE  Alone(t) /\ Knows(t)'
  <1> USE DEF IInv
  <1>1. call[t].tool = "task"
    BY DEF Knows, Ask, Recheck, Store
  <1>2. \/ Return(t)
        \/ \E res : Carry(t, res, "save")
        \/ Continue(t, "store")
        \/ Ask(t) /\ Goto(t, "recheck") /\ UNCHANGED <<call, token, result>>
              /\ snapshot' = [snapshot EXCEPT ![t] = Version(sandbox)]
    BY DEF Ask, Recheck, Store
  <1>3. CASE Return(t)
    BY <1>3, ReturnAlone
  <1>4. ASSUME NEW res, Carry(t, res, "save") PROVE Alone(t) /\ Knows(t)'
    BY <1>1, <1>4, CarryAlone DEF Knows
  <1>5. CASE Continue(t, "store")
    BY <1>1, <1>5, ContinueAlone DEF Knows
  <1>6. CASE /\ Goto(t, "recheck") /\ UNCHANGED <<call, token, result>>
             /\ snapshot' = [snapshot EXCEPT ![t] = Version(sandbox)]
    <2>1. Alone(t) /\ pc'[t] = "recheck" /\ call'[t] = call[t]
      BY <1>6 DEF Locals, Goto, Alone, Same
    <2> QED BY <1>1, <2>1 DEF Knows
  <1> QED BY <1>2, <1>3, <1>4, <1>5, <1>6

LEMMA GradeKnows ==
  ASSUME IInv, NEW t \in Threads, Grade(t) \/ RecordGrade(t)
  PROVE  Alone(t) /\ Knows(t)'
  <1> USE DEF IInv
  <1>1. call[t].tool = "answer"
    BY DEF Knows, Grade, RecordGrade
  <1>2. ~Return(t) => call[t].question # None
    <2>1. CASE Grade(t) /\ ~Return(t)
      <3>1. Acceptable(call[t])
        BY <2>1 DEF Grade
      <3>2. None \notin 0 .. sandbox.sequence - 1
        BY EvaluationAssumption DEF Box
      <3> QED BY <3>1, <3>2 DEF Acceptable, Box
    <2>2. CASE RecordGrade(t)
      BY <2>2 DEF RecordGrade, Knows
    <2> QED BY <2>1, <2>2
  <1>3. \/ Return(t)
        \/ Carry(t, call[t].question, "save")
        \/ Continue(t, "record")
    BY DEF Grade, RecordGrade
  <1>4. CASE Return(t)
    BY <1>4, ReturnAlone
  <1>5. CASE Carry(t, call[t].question, "save") /\ ~Return(t)
    BY <1>2, <1>5, CarryAlone DEF Knows
  <1>6. CASE Continue(t, "record") /\ ~Return(t)
    BY <1>1, <1>2, <1>6, ContinueAlone DEF Knows
  <1> QED BY <1>3, <1>4, <1>5, <1>6

\* Whoever goes on to complete the run has found or left the result on record.
LEMMA CompleteKnows ==
  ASSUME Locals, NEW t \in Threads, Proceed(t, "complete"), OnRecord(token[t])'
  PROVE  Alone(t) /\ Knows(t)'
  BY ProceedAlone DEF Knows, OnRecord

LEMMA KeyKnows ==
  ASSUME IInv, NEW t \in Threads, Replay(t) \/ ClaimKey(t)
  PROVE  Alone(t) /\ Knows(t)'
  <1> USE DEF IInv
  <1> DEFINE e0 == Entry(token[t], call[t])
  <1>1. call[t].tool \in {"task", "answer"}
    BY DEF Knows, Replay, ClaimKey
  <1>2. e0.token = token[t] /\ e0.tool = call[t].tool
    BY DEF Entry
  <1>3. CASE Return(t)
    BY <1>3, ReturnAlone
  <1>4. CASE Replay(t) /\ ~Return(t)
    <2>1. PICK r \in 0 .. issued :
            /\ idem' = Retained(r)
            /\ \/ Continue(t, "admit")
               \/ ~Unanswered(e0, Retained(r)) /\ Proceed(t, "complete")
      BY <1>4 DEF Replay
    <2>2. call[t].tool = "answer"
      BY <1>4 DEF Replay, Knows
    <2>3. CASE Continue(t, "admit")
      BY <1>1, <2>3, ContinueAlone DEF Knows
    <2>4. CASE ~Unanswered(e0, Retained(r)) /\ Proceed(t, "complete")
      <3>1. e0 \in DOMAIN idem' /\ idem'[e0].result # None
        BY <2>1, <2>4 DEF Unanswered
      <3>2. token'[t] = token[t]
        BY <2>4, ProceedAlone
      <3> HIDE DEF e0
      <3>3. OnRecord(token[t])'
        BY <1>2, <2>2, <3>1, <3>2 DEF OnRecord
      <3> QED BY <2>4, <3>3, CompleteKnows
    <2> QED BY <2>1, <2>3, <2>4
  <1>5. CASE ClaimKey(t) /\ ~Return(t)
    <2>1. PICK r \in 0 .. issued :
            /\ idem' = WithEntry(e0, call[t], Retained(r))
            /\ \/ Continue(t, IF call[t].tool = "task" THEN "ask" ELSE "grade")
               \/ /\ ~Unanswered(e0, Retained(r)) /\ call[t].tool # "task"
                  /\ Proceed(t, "complete")
      BY <1>5 DEF ClaimKey
    <2>2. CASE Continue(t, IF call[t].tool = "task" THEN "ask" ELSE "grade")
      BY <1>1, <2>2, ContinueAlone DEF Knows
    <2>3. CASE /\ ~Unanswered(e0, Retained(r)) /\ call[t].tool # "task"
               /\ Proceed(t, "complete")
      <3>1. e0 \in DOMAIN idem' /\ idem'[e0].result # None
        BY <2>1, <2>3 DEF Unanswered, WithEntry
      <3>2. token'[t] = token[t]
        BY <2>3, ProceedAlone
      <3> HIDE DEF e0
      <3>3. OnRecord(token[t])'
        BY <1>1, <1>2, <2>3, <3>1, <3>2 DEF OnRecord
      <3> QED BY <2>3, <3>3, CompleteKnows
    <2> QED BY <2>1, <2>2, <2>3
  <1> QED BY <1>3, <1>4, <1>5

LEMMA SaveKnows ==
  ASSUME IInv, NEW t \in Threads, Save(t)
  PROVE  Alone(t) /\ Knows(t)'
  <1> USE DEF IInv
  <1> DEFINE e0 == Entry(token[t], call[t])
  <1>1. CASE Return(t)
    BY <1>1, ReturnAlone
  <1>2. CASE ~Return(t)
    <2>1. /\ idem' = Settled(e0, call[t], result[t])
          /\ call[t].tool = "answer" /\ Proceed(t, "complete") /\ result[t] # None
      BY <1>2 DEF Save, Knows
    <2>2. e0.token = token[t] /\ e0.tool = "answer"
      BY <2>1 DEF Entry
    <2>3. e0 \in DOMAIN idem' /\ idem'[e0].result # None
      BY <2>1 DEF Settled, Unanswered
    <2>4. token'[t] = token[t]
      BY <2>1, ProceedAlone
    <2> HIDE DEF e0
    <2>5. OnRecord(token[t])'
      BY <2>2, <2>3, <2>4 DEF OnRecord
    <2> QED BY <2>1, <2>5, CompleteKnows
  <1> QED BY <1>1, <1>2

-----------------------------------------------------------------------------
(* The types                                                                *)

\* Exactly the rows that are seeding or active hold the slot, and one at most does.
Slots ==
  /\ rows \in [Keys -> Row \cup {None}] /\ issued \in 0 .. MaxTokens
  /\ \A k \in Keys : rows[k] # None => (rows[k].slot <=> rows[k].status \notin Terminal)
  /\ \A j, k \in Keys : rows[j] # None /\ rows[k] # None /\ rows[j].slot /\ rows[k].slot => j = k

Marks ==
  /\ sandbox.fence \in 0 .. issued /\ sandbox.writers \subseteq 1 .. issued
  /\ \A i \in DOMAIN sandbox.asked : sandbox.asked[i] \in Nat

Stored == \A e \in DOMAIN idem : e \in Entries /\ idem[e].result \in Nat \cup {None}

Scopes ==
  /\ pc \in [Threads -> Labels]
  /\ token \in [Threads -> 0 .. issued]
  /\ \A t \in Threads : planning = t <=> pc[t] = "reset"
  /\ \A t \in Threads : asking = t <=> pc[t] = "store"

\* What a request was asked, at the steps that look at it.
Called(t) ==
  /\ pc[t] \in {"claim", "poll"} => call[t].key \in Keys
  /\ pc[t] \in {"admit", "replay", "ask", "recheck", "store", "grade", "record", "save"} =>
       /\ token[t] # 0 /\ call[t].tool \in {"read", "task", "answer"}
       /\ call[t].tool # "read" => call[t].id \in RequestIds \cup AttemptIds
       /\ call[t].tool = "answer" => call[t].question \in Nat \cup {None}
  /\ pc[t] = "save" => call[t].tool # "read" /\ result[t] \in Nat \cup {None}

Typed == Slots /\ Marks /\ Stored /\ Scopes /\ \A t \in Threads : Called(t)

\* Rows that go on: none takes the slot that did not have it.
SlotsGoOn ==
  /\ rows' \in [Keys -> Row \cup {None}] /\ UNCHANGED issued
  /\ \A k \in Keys : rows'[k] # None =>
       /\ rows'[k].slot <=> rows'[k].status \notin Terminal
       /\ rows[k] # None /\ (rows'[k].slot => rows[k].slot)

LEMMA MaintainedSlots ==
  ASSUME Slots, NEW gone \in SUBSET Keys
  PROVE  /\ Maintained(gone) \in [Keys -> Row \cup {None}]
         /\ \A k \in Keys : Maintained(gone)[k] # None =>
              /\ Maintained(gone)[k].slot <=> Maintained(gone)[k].status \notin Terminal
              /\ rows[k] # None /\ Maintained(gone)[k].token = rows[k].token
              /\ Maintained(gone)[k].slot => rows[k].slot
  BY DEF Slots, Maintained, Ended, Row, Terminal

LEMMA ClaimSlots ==
  ASSUME Slots, NEW t \in Threads, Called(t), Claim(t)
  PROVE  Slots' /\ issued <= issued'
  <1>1. PICK gone \in SUBSET {j \in Keys : rows[j] # None /\ rows[j].status \in Terminal} :
          LET k    == call[t].key
              kept == Maintained(gone)
              busy == \E j \in Keys : kept[j] # None /\ kept[j].slot
          IN \/ rows' = kept /\ UNCHANGED issued
             \/ /\ ~busy /\ issued < MaxTokens /\ issued' = issued + 1
                /\ rows' = [kept EXCEPT ![k] = Fresh(issued')]
             \/ /\ ~busy /\ kept[k] # None /\ UNCHANGED issued
                /\ rows' = [kept EXCEPT ![k] = Fresh(kept[k].token)]
             \/ UNCHANGED <<rows, issued>>
    BY DEF Claim
  <1> DEFINE k0   == call[t].key
             kept == Maintained(gone)
             busy == \E j \in Keys : kept[j] # None /\ kept[j].slot
  <1>2. /\ kept \in [Keys -> Row \cup {None}]
        /\ \A k \in Keys : kept[k] # None =>
             /\ kept[k].slot <=> kept[k].status \notin Terminal
             /\ rows[k] # None /\ (kept[k].slot => rows[k].slot)
    BY MaintainedSlots
  <1>3. k0 \in Keys
    BY DEF Claim, Called
  <1>4. \A r \in Tokens : Fresh(r) \in Row /\ Fresh(r).slot /\ Fresh(r).status \notin Terminal
    BY DEF Fresh, Row, Terminal
  <1>5. \A k \in Keys : kept[k] # None => kept[k].token \in Tokens
    BY <1>2 DEF Row
  <1> HIDE DEF k0, kept
  <1>6. ASSUME NEW r \in Tokens, ~busy, rows' = [kept EXCEPT ![k0] = Fresh(r)],
               issued' \in 0 .. MaxTokens
        PROVE  Slots'
    <2>1. \A k \in Keys : rows'[k] = IF k = k0 THEN Fresh(r) ELSE kept[k]
      BY <1>2, <1>6
    <2>2. rows' \in [Keys -> Row \cup {None}]
      BY <1>2, <1>3, <1>4, <1>6
    <2> QED BY <1>2, <1>4, <1>6, <2>1, <2>2 DEF Slots
  <1>7. CASE rows' = kept /\ UNCHANGED issued
    BY <1>2, <1>7 DEF Slots
  <1>8. CASE /\ ~busy /\ issued < MaxTokens /\ issued' = issued + 1
             /\ rows' = [kept EXCEPT ![k0] = Fresh(issued')]
    <2>1. issued' \in Tokens /\ issued' \in 0 .. MaxTokens /\ issued <= issued'
      BY <1>8, EvaluationAssumption DEF Slots, Tokens
    <2> QED BY <1>6, <1>8, <2>1
  <1>9. CASE /\ ~busy /\ kept[k0] # None /\ UNCHANGED issued
             /\ rows' = [kept EXCEPT ![k0] = Fresh(kept[k0].token)]
    <2>1. kept[k0].token \in Tokens /\ issued' \in 0 .. MaxTokens
      BY <1>3, <1>5, <1>9 DEF Slots
    <2>2. Slots'
      BY <1>6, <1>9, <2>1
    <2> QED BY <1>9, <2>2 DEF Slots
  <1>10. CASE UNCHANGED <<rows, issued>>
    BY <1>10 DEF Slots
  <1> QED BY <1>1, <1>7, <1>8, <1>9, <1>10 DEF k0, kept

LEMMA EndedSlots ==
  ASSUME Slots, UNCHANGED issued, rows' \in [Keys -> {rows'[k] : k \in Keys}],
         \A k \in Keys : \/ rows'[k] = rows[k]
                         \/ rows[k] # None /\ \E s \in Terminal : rows'[k] = Ended(rows[k], s)
  PROVE  SlotsGoOn
  <1>1. \A row \in Row, s \in Terminal : /\ Ended(row, s) \in Row /\ ~Ended(row, s).slot
                                         /\ Ended(row, s).status = s
    BY DEF Ended, Row, Terminal
  <1>2. \A k \in Keys : rows[k] \in Row \cup {None}
    BY DEF Slots
  <1>3. \A k \in Keys : rows'[k] \in Row \cup {None}
    BY <1>1, <1>2
  <1>4. rows' \in [Keys -> Row \cup {None}]
    BY <1>3
  <1> QED BY <1>1, <1>2, <1>4 DEF Slots, SlotsGoOn

LEMMA NextSlots ==
  ASSUME IInv, Typed, [Next]_vars
  PROVE  Slots' /\ issued <= issued'
  <1>0. Slots /\ Leases /\ \A t \in Threads : Called(t)
    BY DEF IInv, Typed
  <1>1. ASSUME SlotsGoOn PROVE Slots' /\ issued <= issued'
    BY <1>0, <1>1 DEF Slots, SlotsGoOn
  <1>2. ASSUME UNCHANGED <<rows, issued>> PROVE Slots' /\ issued <= issued'
    BY <1>0, <1>2 DEF Slots
  <1>3. ASSUME NEW t \in Threads, Activate(t), Seeding(token[t]) PROVE SlotsGoOn
    <2>1. \A k \in RowsOf(token[t]) : rows[k].status = "seeding" /\ rows[k].slot
      BY <1>0, <1>3 DEF Seeding, RowsOf, Leases
    <2> QED BY <1>0, <1>3, <2>1 DEF Activate, SlotsGoOn, Slots, Row, Terminal, RowsOf
  <1>4. ASSUME NEW t \in Threads, Fail(t) \/ Complete(t) PROVE SlotsGoOn
    <2>1. /\ UNCHANGED issued /\ rows' \in [Keys -> {rows'[k] : k \in Keys}]
          /\ \A k \in Keys : \/ rows'[k] = rows[k]
                             \/ rows[k] # None /\ \E s \in Terminal : rows'[k] = Ended(rows[k], s)
      BY <1>4 DEF Fail, Complete, RowsOf, Terminal
    <2> QED BY <1>0, <2>1, EndedSlots
  <1>5. ASSUME NEW k \in Keys, Lapse(k) PROVE SlotsGoOn
    BY <1>0, <1>5 DEF Lapse, Live, SlotsGoOn, Slots, Row
  <1>6. ASSUME Startup PROVE SlotsGoOn
    <2>1. /\ UNCHANGED issued /\ rows' \in [Keys -> {rows'[k] : k \in Keys}]
          /\ \A k \in Keys : \/ rows'[k] = rows[k]
                             \/ rows[k] # None /\ \E s \in Terminal : rows'[k] = Ended(rows[k], s)
      BY <1>6 DEF Startup, Terminal
    <2> QED BY <1>0, <2>1, EndedSlots
  <1>7. ASSUME NEW t \in Threads,
               \/ Tool(t) /\ ~Complete(t)
               \/ BeginDemo(t) \/ UseTool(t) \/ Lost(t)
               \/ Begin(t) /\ ~Fail(t) /\ ~Claim(t) /\ ~(Activate(t) /\ Seeding(token[t]))
        PROVE  UNCHANGED <<rows, issued>>
    BY <1>7 DEF Tool, ReadContext, Project, Vouch, Deliver, Replay, ClaimKey, Ask, Recheck,
                Store, Grade, RecordGrade, Save, BeginDemo, UseTool, Lost, Begin, Poll, GiveUp,
                OpenReset, CommitReset, ResetError, Activate
  <1>8. ASSUME NEW t \in Threads, Claim(t) PROVE Slots' /\ issued <= issued'
    BY <1>0, <1>8, ClaimSlots
  <1>9. CASE UNCHANGED vars
    BY <1>2, <1>9 DEF vars
  <1> QED BY <1>1, <1>2, <1>3, <1>4, <1>5, <1>6, <1>7, <1>8, <1>9 DEF Next, Begin, Tool

\* What is bound to a run stays bound to one that was issued.
LEMMA NextMarks ==
  ASSUME IInv, Typed, [Next]_vars, issued' \in Nat, issued <= issued'
  PROVE  Marks'
  <1>0. /\ Marks /\ Box /\ issued \in Nat /\ token \in [Threads -> 0 .. issued]
        /\ \A t \in Threads : Called(t)
    BY DEF IInv, Typed, Slots, Scopes
  <1>1. ASSUME UNCHANGED sandbox PROVE Marks'
    BY <1>0, <1>1 DEF Marks
  <1>2. ASSUME NEW t \in Threads, Store(t), FenceHolds(token[t]) PROVE Marks'
    <2>1. token[t] \in 1 .. issued
      BY <1>0, <1>2 DEF Store, Called
    <2>2. /\ sandbox'.fence = sandbox.fence
          /\ sandbox'.writers = sandbox.writers \cup {token[t]}
          /\ sandbox'.asked = [i \in DOMAIN sandbox.asked \cup {call[t].id} |->
                                 IF i = call[t].id THEN sandbox.sequence ELSE sandbox.asked[i]]
      BY <1>0, <1>2 DEF Store, Box
    <2> QED BY <1>0, <2>1, <2>2 DEF Marks, Box
  <1>3. ASSUME NEW t \in Threads, RecordGrade(t), ~UNCHANGED sandbox PROVE Marks'
    <2>1. token[t] \in 1 .. issued
      BY <1>0, <1>3 DEF RecordGrade, Called
    <2>2. /\ sandbox'.fence = sandbox.fence /\ sandbox'.asked = sandbox.asked
          /\ sandbox'.writers = sandbox.writers \cup {token[t]}
      BY <1>0, <1>3 DEF RecordGrade, Box
    <2> QED BY <1>0, <2>1, <2>2 DEF Marks
  <1>4. ASSUME NEW t \in Threads, CommitReset(t), Seeding(token[t]) PROVE Marks'
    BY <1>0, <1>4 DEF CommitReset, Baseline, Marks
  <1>5. ASSUME NEW t \in Threads,
               \/ Tool(t) /\ ~RecordGrade(t) /\ ~(Store(t) /\ FenceHolds(token[t]))
               \/ BeginDemo(t) \/ UseTool(t) \/ Lost(t)
               \/ Begin(t) /\ ~(CommitReset(t) /\ Seeding(token[t]))
        PROVE  UNCHANGED sandbox
    BY <1>5 DEF Tool, ReadContext, Project, Vouch, Deliver, Replay, ClaimKey, Ask, Recheck,
                Store, Grade, Save, Complete, BeginDemo, UseTool, Lost, Begin, Poll, GiveUp,
                Claim, OpenReset, CommitReset, ResetError, Activate, Fail
  <1>6. ASSUME NEW k \in Keys, Lapse(k) PROVE UNCHANGED sandbox
    BY <1>6 DEF Lapse
  <1>7. ASSUME Startup PROVE UNCHANGED sandbox
    BY <1>7 DEF Startup
  <1>8. CASE UNCHANGED vars
    BY <1>1, <1>8 DEF vars
  <1> QED BY <1>1, <1>2, <1>3, <1>4, <1>5, <1>6, <1>7, <1>8 DEF Next, Begin, Tool

\* An entry has the run, the tool and the key of the call that made it.
LEMMA NextStored ==
  ASSUME Typed, [Next]_vars
  PROVE  Stored'
  <1>0. /\ Stored /\ Slots /\ token \in [Threads -> 0 .. issued]
        /\ \A t \in Threads : Called(t)
    BY DEF Typed, Scopes
  <1>1. ASSUME UNCHANGED idem PROVE Stored'
    BY <1>0, <1>1 DEF Stored
  <1>2. ASSUME NEW t \in Threads, pc[t] \in {"admit", "save"}, call[t].tool # "read"
        PROVE  Entry(token[t], call[t]) \in Entries
    <2>1. /\ token[t] \in Tokens /\ call[t].tool \in {"task", "answer"}
          /\ call[t].id \in RequestIds \cup AttemptIds
      BY <1>0, <1>2, EvaluationAssumption DEF Called, Slots, Tokens
    <2> QED BY <2>1 DEF Entry, Entries
  <1>3. \A r : /\ DOMAIN Retained(r) \subseteq DOMAIN idem
               /\ \A e \in DOMAIN Retained(r) : Retained(r)[e] = idem[e]
    BY DEF Retained, Restrict
  <1>4. ASSUME NEW t \in Threads, Replay(t) PROVE Stored'
    <2>1. PICK r \in 0 .. issued : idem' = Retained(r)
      BY <1>4 DEF Replay
    <2> QED BY <1>0, <1>3, <2>1 DEF Stored
  <1>5. ASSUME NEW t \in Threads, ClaimKey(t), ~UNCHANGED idem PROVE Stored'
    <2> DEFINE e0 == Entry(token[t], call[t])
    <2>1. PICK r \in 0 .. issued : idem' = WithEntry(e0, call[t], Retained(r))
      BY <1>5 DEF ClaimKey
    <2>2. e0 \in Entries
      BY <1>2, <1>5 DEF ClaimKey
    <2> HIDE DEF e0
    <2>3. /\ DOMAIN idem' = DOMAIN Retained(r) \cup {e0}
          /\ \A e \in DOMAIN idem' : \/ e \in DOMAIN idem /\ idem'[e] = idem[e]
                                     \/ idem'[e].result = None
      BY <1>3, <2>1 DEF WithEntry
    <2> QED BY <1>0, <1>3, <2>2, <2>3 DEF Stored
  <1>6. ASSUME NEW t \in Threads, Save(t), ~UNCHANGED idem PROVE Stored'
    <2> DEFINE e0 == Entry(token[t], call[t])
    <2>1. idem' = Settled(e0, call[t], result[t]) /\ result[t] \in Nat \cup {None}
      BY <1>0, <1>6 DEF Save, Called
    <2>2. e0 \in Entries
      BY <1>0, <1>2, <1>6 DEF Save, Called
    <2> HIDE DEF e0
    <2>3. /\ DOMAIN idem' = DOMAIN idem \cup {e0}
          /\ \A e \in DOMAIN idem' : \/ e \in DOMAIN idem /\ idem'[e] = idem[e]
                                     \/ idem'[e].result = result[t]
      BY <2>1 DEF Settled, Unanswered
    <2> QED BY <1>0, <2>1, <2>2, <2>3 DEF Stored
  <1>7. ASSUME NEW t \in Threads,
               \/ Tool(t) /\ ~Replay(t) /\ ~ClaimKey(t) /\ ~Save(t)
               \/ BeginDemo(t) \/ UseTool(t) \/ Lost(t) \/ Begin(t)
        PROVE  UNCHANGED idem
    BY <1>7 DEF Tool, ReadContext, Project, Vouch, Deliver, Ask, Recheck,
                Store, Grade, RecordGrade, Complete, BeginDemo, UseTool, Lost, Begin, Poll, GiveUp,
                Claim, OpenReset, CommitReset, ResetError, Activate, Fail
  <1>8. ASSUME NEW k \in Keys, Lapse(k) PROVE UNCHANGED idem
    BY <1>8 DEF Lapse
  <1>9. ASSUME Startup PROVE UNCHANGED idem
    BY <1>9 DEF Startup
  <1>10. CASE UNCHANGED vars
    BY <1>1, <1>10 DEF vars
  <1> QED BY <1>1, <1>4, <1>5, <1>6, <1>7, <1>8, <1>9, <1>10 DEF Next, Tool

\* What a request was asked does not change while others work.
LEMMA CalledStays ==
  ASSUME NEW t \in Threads, Called(t), Same(t)
  PROVE  Called(t)'
  BY DEF Called, Same

\* A step of t moves t alone, and takes or leaves a scope only where its label says so.
LEMMA BeginScopes ==
  ASSUME IInv, Typed, NEW t \in Threads, BeginDemo(t) \/ Begin(t) \/ Lost(t),
         issued' \in Nat, issued <= issued', Slots'
  PROVE  Scopes' /\ Called(t)'
  <1>0. /\ pc \in [Threads -> Labels] /\ token \in [Threads -> 0 .. issued] /\ issued \in Nat
        /\ \A u \in Threads : (planning = u <=> pc[u] = "reset") /\ (asking = u <=> pc[u] = "store")
        /\ Called(t) /\ Slots /\ Leases /\ None \notin Threads /\ DOMAIN call = Threads
        /\ 0 .. issued \subseteq 0 .. issued'
        /\ \A k \in Keys : rows[k] # None => rows[k].token \in 0 .. issued'
    BY EvaluationAssumption DEF IInv, Typed, Scopes, Slots, Locals, Leases, Row, Tokens
  <1> USE DEF Goto, Return, Continue, Scopes, Labels, Called
  <1>1. CASE BeginDemo(t)
    BY <1>0, <1>1 DEF BeginDemo, Live
  <1>2. CASE Poll(t) \/ GiveUp(t)
    BY <1>0, <1>2 DEF Poll, Lookup, Replayed, GiveUp, Live
  <1>3. CASE OpenReset(t) \/ CommitReset(t) \/ ResetError(t)
    BY <1>0, <1>3 DEF OpenReset, CommitReset, ResetError
  <1>4. CASE Activate(t) \/ Fail(t)
    BY <1>0, <1>4 DEF Activate, Fail
  <1>5. CASE Lost(t)
    BY <1>0, <1>5 DEF Lost
  <1>6. CASE Claim(t)
    <2>1. /\ pc[t] = "claim" /\ call[t].key \in Keys /\ UNCHANGED <<planning, asking>>
      BY <1>0, <1>6 DEF Claim
    <2>2. \/ Return(t)
          \/ \E gone \in SUBSET Keys :
               \/ Maintained(gone)[call[t].key] # None /\ Replayed(t, call[t].key, Maintained(gone))
               \/ /\ Maintained(gone)[call[t].key] # None
                  /\ Leased(t, Maintained(gone)[call[t].key].token)
          \/ issued' = issued + 1 /\ Leased(t, issued')
      BY <1>6 DEF Claim
    <2>3. \A gone \in SUBSET Keys : Maintained(gone)[call[t].key] # None =>
            Maintained(gone)[call[t].key].token \in 0 .. issued'
      BY <1>0, <2>1, MaintainedSlots
    <2>4. CASE Return(t)
      BY <1>0, <2>1, <2>4
    <2>5. ASSUME NEW r \in 0 .. issued', Leased(t, r) PROVE Scopes' /\ Called(t)'
      BY <1>0, <2>1, <2>5 DEF Leased
    <2>6. ASSUME NEW found, found[call[t].key].token \in 0 .. issued',
                 Replayed(t, call[t].key, found)
          PROVE  Scopes' /\ Called(t)'
      BY <1>0, <2>1, <2>6 DEF Replayed
    <2> QED BY <2>2, <2>3, <2>4, <2>5, <2>6
  <1> QED BY <1>1, <1>2, <1>3, <1>4, <1>5, <1>6 DEF Begin

LEMMA ToolScopes ==
  ASSUME IInv, Typed, NEW t \in Threads, UseTool(t) \/ Tool(t),
         issued' \in Nat, issued <= issued'
  PROVE  Scopes' /\ Called(t)'
  <1>0. /\ pc \in [Threads -> Labels] /\ token \in [Threads -> 0 .. issued] /\ issued \in Nat
        /\ \A u \in Threads : (planning = u <=> pc[u] = "reset") /\ (asking = u <=> pc[u] = "store")
        /\ Called(t) /\ Knows(t) /\ None \notin Threads
        /\ DOMAIN call = Threads /\ DOMAIN result = Threads
        /\ 0 .. issued \subseteq 0 .. issued'
    BY EvaluationAssumption DEF IInv, Typed, Scopes, Slots, Locals
  <1>p. sandbox.pending \in Nat \cup {None} /\ sandbox.sequence \in Nat
    BY DEF IInv, Box
  <1>a. \A i \in DOMAIN sandbox.asked : sandbox.asked[i] \in Nat
    BY DEF Typed, Marks
  <1> USE DEF Goto, Return, Continue, Carry, Proceed, Scopes, Labels, Called
  <1>1. CASE UseTool(t)
    <2>1. PICK c \in ReadCall \cup TaskCall \cup AnswerCall :
            /\ call' = [call EXCEPT ![t] = c]
            /\ token' = [token EXCEPT ![t] = c.token]
            /\ Goto(t, IF c.tool = "answer" THEN "replay" ELSE "admit")
      BY <1>1 DEF UseTool
    <2>2. /\ c.token \in 1 .. issued /\ c.tool \in {"read", "task", "answer"}
          /\ c.tool # "read" => c.id \in RequestIds \cup AttemptIds
          /\ c.tool = "answer" => c.question \in Nat \cup {None}
      <3>1. CASE c \in ReadCall \cup TaskCall
        BY <3>1 DEF ReadCall, TaskCall
      <3>2. CASE c \in AnswerCall
        <4>1. PICK r \in 1 .. issued :
                c \in [tool : {"answer"}, token : {r}, id : AttemptIds, answer : Answers,
                       question : Told(r), version : Versions]
          BY <3>2 DEF AnswerCall
        <4>2. Told(r) \subseteq Nat \cup {None}
          BY DEF Told, Typed, Stored
        <4> QED BY <4>1, <4>2
      <3> QED BY <2>1, <3>1, <3>2
    <2>3. pc[t] = "idle" /\ UNCHANGED <<planning, asking>>
      BY <1>1 DEF UseTool
    <2> QED BY <1>0, <2>1, <2>2, <2>3
  <1>2. CASE ReadContext(t) \/ Project(t) \/ Vouch(t) \/ Deliver(t)
    BY <1>0, <1>2 DEF ReadContext, Project, Vouch, Deliver
  <1>3. CASE Replay(t) \/ ClaimKey(t)
    BY <1>0, <1>3 DEF Replay, ClaimKey
  <1>4. CASE Ask(t)
    BY <1>0, <1>p, <1>a, <1>4 DEF Ask, Knows
  <1>5. CASE Recheck(t)
    BY <1>0, <1>p, <1>a, <1>5 DEF Recheck, Knows
  <1>6. CASE Store(t)
    BY <1>0, <1>p, <1>6 DEF Store, Knows
  <1>7. CASE Grade(t) \/ RecordGrade(t)
    BY <1>0, <1>7 DEF Grade, RecordGrade, Knows
  <1>8. CASE Save(t) \/ Complete(t)
    BY <1>0, <1>8 DEF Save, Complete
  <1> QED BY <1>1, <1>2, <1>3, <1>4, <1>5, <1>6, <1>7, <1>8 DEF Tool

\* A request moves alone.
LEMMA RequestAlone ==
  ASSUME IInv, [Next]_vars,
         NEW t \in Threads, BeginDemo(t) \/ UseTool(t) \/ Begin(t) \/ Tool(t) \/ Lost(t)
  PROVE  Alone(t)
  <1>1. LeaseStep
    BY NextRows DEF IInv
  <1>2. CASE BeginDemo(t) \/ Begin(t) \/ Lost(t)
    BY <1>2, BeginAlone DEF IInv
  <1>3. CASE UseTool(t)
    BY <1>3, UseAlone DEF IInv
  <1>4. CASE Complete(t)
    BY <1>4, ReturnAlone DEF IInv, Complete
  <1>5. CASE Tool(t) /\ ~Complete(t)
    BY <1>1, <1>5, ReadKnows, KeyKnows, TaskKnows, GradeKnows, SaveKnows DEF Tool
  <1> QED BY <1>2, <1>3, <1>4, <1>5

LEMMA InitTyped == Init => Typed
  <1> SUFFICES ASSUME Init PROVE Typed
    OBVIOUS
  <1>1. Slots
    BY EvaluationAssumption DEF Init, Slots
  <1>2. Marks /\ Stored
    BY DEF Init, Baseline, Marks, Stored
  <1>3. Scopes /\ \A t \in Threads : Called(t)
    BY EvaluationAssumption DEF Init, Scopes, Called, Labels
  <1> QED BY <1>1, <1>2, <1>3 DEF Typed

LEMMA NextTyped == IInv /\ Typed /\ [Next]_vars => Typed'
  <1> SUFFICES ASSUME IInv, Typed, [Next]_vars PROVE Typed'
    OBVIOUS
  <1>1. Slots' /\ issued <= issued' /\ issued' \in Nat
    BY NextSlots DEF Slots
  <1>2. Marks' /\ Stored'
    BY <1>1, NextMarks, NextStored
  <1>3. ASSUME NEW t \in Threads, BeginDemo(t) \/ UseTool(t) \/ Begin(t) \/ Tool(t) \/ Lost(t)
        PROVE  Scopes' /\ \A u \in Threads : Called(u)'
    <2>1. Scopes' /\ Called(t)'
      BY <1>1, <1>3, BeginScopes, ToolScopes
    <2>2. Alone(t)
      BY <1>3, RequestAlone
    <2> QED BY <2>1, <2>2, CalledStays DEF Alone, Typed
  <1>4. CASE UNCHANGED threads /\ UNCHANGED <<planning, asking>>
    <2>1. /\ pc' = pc /\ token' = token /\ planning' = planning /\ asking' = asking
          /\ \A u \in Threads : Same(u)
      BY <1>4 DEF threads, Same
    <2>2. \A u \in Threads : Called(u)'
      BY <2>1, CalledStays DEF Typed
    <2>3. Scopes /\ 0 .. issued \subseteq 0 .. issued'
      BY <1>1 DEF Typed, Slots
    <2>4. token \in [Threads -> 0 .. issued']
      BY <2>3 DEF Scopes
    <2>5. Scopes'
      BY <2>1, <2>3, <2>4 DEF Scopes
    <2> QED BY <1>1, <1>2, <2>2, <2>5 DEF Typed
  <1>5. (\E k \in Keys : Lapse(k)) \/ Startup \/ UNCHANGED vars
          => UNCHANGED threads /\ UNCHANGED <<planning, asking>>
    BY DEF Lapse, Startup, vars
  <1> QED BY <1>1, <1>2, <1>3, <1>4, <1>5 DEF Next, Typed

-----------------------------------------------------------------------------
(* Theorems                                                                 *)

LEMMA InitIInv == Init => IInv
  <1> SUFFICES ASSUME Init PROVE IInv
    OBVIOUS
  <1>1. Leases /\ Locals
    BY DEF Init, Leases, Locals
  <1>2. Box
    BY EvaluationAssumption DEF Init, Baseline, Box, GradedOnce, SandboxUnmixed
  <1>3. Results /\ \A t \in Threads : Knows(t)
    BY DEF Init, Results, Knows
  <1> QED BY <1>1, <1>2, <1>3 DEF IInv

LEMMA NextIInv == IInv /\ [Next]_vars => IInv'
  <1> SUFFICES ASSUME IInv, [Next]_vars PROVE IInv'
    OBVIOUS
  <1>1. LeaseStep /\ Leases'
    BY NextRows, NextLeases DEF IInv
  <1>2. Box' /\ FenceStep
    BY NextBox DEF IInv
  <1>3. IdemStep
    BY NextIdem DEF IInv
  <1>4. Results'
    <2>1. \A r : Begun(r) => Begun(r)'
      BY <1>1, BegunStays DEF IInv
    <2> QED BY <1>3, <2>1 DEF IdemStep, Results
  <1>5. ASSUME NEW t \in Threads, Same(t) PROVE Knows(t)'
    BY <1>1, <1>2, <1>3, <1>5, KnowsStays DEF IInv
  <1>6. ASSUME NEW t \in Threads, Alone(t), Knows(t)'
        PROVE  Locals' /\ \A u \in Threads : Knows(u)'
    BY <1>5, <1>6 DEF Alone
  <1>7. ASSUME NEW t \in Threads, BeginDemo(t) \/ UseTool(t) \/ Begin(t) \/ Tool(t) \/ Lost(t)
        PROVE  Alone(t) /\ Knows(t)'
    <2>1. CASE BeginDemo(t) \/ Begin(t) \/ Lost(t)
      BY <2>1, BeginAlone DEF IInv
    <2>2. CASE UseTool(t)
      BY <2>2, UseAlone DEF IInv
    <2>3. CASE Complete(t)
      BY <2>3, ReturnAlone DEF IInv, Complete
    <2>4. CASE Tool(t) /\ ~Complete(t)
      BY <1>1, <2>4, ReadKnows, KeyKnows, TaskKnows, GradeKnows, SaveKnows DEF Tool
    <2> QED BY <1>7, <2>1, <2>2, <2>3, <2>4
  <1>8. ASSUME UNCHANGED threads PROVE Locals' /\ \A u \in Threads : Knows(u)'
    BY <1>5, <1>8 DEF threads, Same, Locals, IInv
  <1>9. (\E k \in Keys : Lapse(k)) \/ Startup \/ UNCHANGED vars => UNCHANGED threads
    BY DEF Lapse, Startup, vars
  <1>10. Locals' /\ \A u \in Threads : Knows(u)'
    BY <1>6, <1>7, <1>8, <1>9 DEF Next
  <1> QED BY <1>1, <1>2, <1>4, <1>10 DEF IInv

\* The sandbox is of one run, its questions are numbered, and each request knows
\* what the guards it has passed still say.
THEOREM Invariance == Spec => []IInv
  BY InitIInv, NextIInv, PTL DEF Spec

\* However long a model call takes, and however many runs follow each other in
\* the sandbox meanwhile, no run writes into the record of another.
THEOREM NoRunWritesIntoAnother == Spec => []SandboxUnmixed
  <1>1. IInv => SandboxUnmixed
    BY DEF IInv, Box
  <1> QED BY <1>1, Invariance, PTL

\* What get_learning_context and search_materials deliver was read while the
\* sandbox was the one of the run that asked.
THEOREM NoRunReadsAnother == Spec => []ReadsOwnRun
  <1>1. IInv => ReadsOwnRun
    BY DEF IInv, Knows, ReadsOwnRun
  <1> QED BY <1>1, Invariance, PTL

\* submit_answer grades a question once, at any number of processes and under any
\* number of attempts.
THEOREM GradesOnce == Spec => []GradedOnce
  <1>1. IInv => GradedOnce
    BY DEF IInv, Box
  <1> QED BY <1>1, Invariance, PTL

\* No step but complete makes a run completed.
LEMMA CompletedBy ==
  ASSUME Leases, [Next]_vars, NEW k \in Keys,
         rows'[k] # None, rows'[k].status = "completed", rows'[k] # rows[k]
  PROVE  \E t \in Threads : Complete(t)
  <1>1. UNCHANGED rows => FALSE
    OBVIOUS
  <1>2. ASSUME NEW t \in Threads, Claim(t) PROVE FALSE
    <2>1. PICK gone, later :
            \/ rows'[k] = Maintained(gone)[k]
            \/ rows'[k] = Fresh(later)
            \/ UNCHANGED rows
      <3>1. PICK gone \in SUBSET {j \in Keys : rows[j] # None /\ rows[j].status \in Terminal} :
              \/ rows' = Maintained(gone)
              \/ \E j, later : rows' = [Maintained(gone) EXCEPT ![j] = Fresh(later)]
              \/ UNCHANGED rows
        BY <1>2 DEF Claim
      <3>2. DOMAIN Maintained(gone) = Keys
        BY DEF Maintained
      <3> HIDE DEF Maintained
      <3> QED BY <3>1, <3>2
    <2>2. Maintained(gone)[k] # None /\ Maintained(gone)[k] # rows[k] =>
            Maintained(gone)[k].status \in {"failed", "expired"}
      BY DEF Maintained, Ended, Leases, Row
    <2>3. Fresh(later).status = "seeding"
      BY DEF Fresh
    <2> QED BY <2>1, <2>2, <2>3
  <1>3. ASSUME NEW t \in Threads, Activate(t) PROVE FALSE
    BY <1>3 DEF Activate, RowsOf, Leases, Row
  <1>4. ASSUME NEW t \in Threads, Fail(t) PROVE FALSE
    BY <1>4 DEF Fail, RowsOf, Ended, Leases, Row
  <1>5. ASSUME NEW j \in Keys, Lapse(j) PROVE FALSE
    BY <1>5 DEF Lapse, Live, Leases, Row
  <1>6. ASSUME Startup PROVE FALSE
    BY <1>6 DEF Startup, Ended, Leases, Row
  <1>7. ASSUME NEW t \in Threads, Tool(t), ~Complete(t) PROVE FALSE
    BY <1>1, <1>7
       DEF Tool, ReadContext, Project, Vouch, Deliver, Replay, ClaimKey, Ask, Recheck, Store,
           Grade, RecordGrade, Save
  <1>8. ASSUME NEW t \in Threads, BeginDemo(t) \/ UseTool(t) \/ Begin(t) \/ Lost(t)
        PROVE  FALSE
    BY <1>1, <1>2, <1>3, <1>4, <1>8
       DEF BeginDemo, UseTool, Begin, Poll, GiveUp, OpenReset, CommitReset, ResetError, Lost
  <1>9. UNCHANGED vars => FALSE
    BY <1>1 DEF vars
  <1> QED BY <1>5, <1>6, <1>7, <1>8, <1>9 DEF Next

\* A run is completed only beside the result that a retry will find, also when
\* a process ends between the grade, the result and the completion.
THEOREM CompletesOnRecord == Spec => CompletedOnRecord
  <1>1. ASSUME IInv, [Next]_vars, NEW k \in Keys,
               rows'[k] # None, rows'[k].status = "completed", rows'[k] # rows[k]
        PROVE  \E e \in DOMAIN idem' :
                 e.token = rows'[k].token /\ e.tool = "answer" /\ idem'[e].result # None
    <2>1. PICK t \in Threads : Complete(t)
      BY <1>1, CompletedBy DEF IInv
    <2>2. /\ k \in RowsOf(token[t]) /\ Live(k) /\ UNCHANGED idem
          /\ rows'[k].token = token[t]
      BY <1>1, <2>1 DEF Complete, IInv, Leases, RowsOf, Row, Ended, Live
    <2>3. Knows(t) /\ pc[t] = "complete"
      BY <1>1, <2>1 DEF Complete, IInv
    <2>4. OnRecord(token[t])
      BY <2>2, <2>3 DEF Knows, Over
    <2> QED BY <2>2, <2>4 DEF OnRecord
  <1>2. IInv /\ [Next]_vars => [\A k \in Keys :
          rows'[k] # None /\ rows'[k].status = "completed" /\ rows'[k] # rows[k] =>
            \E e \in DOMAIN idem' :
              e.token = rows'[k].token /\ e.tool = "answer" /\ idem'[e].result # None]_vars
    BY <1>1
  <1> QED BY <1>2, Invariance, PTL DEF Spec, CompletedOnRecord

\* One row at most holds the slot, and exactly the rows that are seeding or active hold it; every
\* variable keeps its type, and each of the two scopes is held exactly inside its block.
THEOREM TypeCorrect == Spec => []TypeOK
  <1>1. IInv /\ Typed => TypeOK
    BY DEF IInv, Leases, Typed, Slots, Marks, Stored, Scopes, TypeOK
  <1> QED BY <1>1, InitTyped, NextTyped, Invariance, PTL DEF Spec
=============================================================================
