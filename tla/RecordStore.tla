----------------------------- MODULE RecordStore -----------------------------
(***************************************************************************)
(* The versioned records of one owner (SqlRecordStore) under concurrent    *)
(* requests, and the locks that keep their changes apart.  Four kinds:     *)
(*   - a Python lock per record and per scope, in each process;            *)
(*   - an advisory lock per scope, in PostgreSQL, until the commit;        *)
(*   - the owner's row of `users', which every write but a delete locks    *)
(*     until the commit; in SQLite, the write lock of the database;        *)
(*   - the row lock of SELECT FOR UPDATE, in PostgreSQL, until the commit. *)
(*                                                                         *)
(* A request runs a program, a sequence of store operations.  From its     *)
(* first scope to its end it is one transaction; outside a scope each      *)
(* operation commits by itself.  A scope's Python lock goes when the scope *)
(* ends, its advisory lock with the commit.                                *)
(***************************************************************************)
EXTENDS Naturals, Sequences, FiniteSets

CONSTANTS
  Records,
  Scopes,
  Requests,     \* requests of the owner; each runs one program
  Programs,
  Stored,       \* records that exist at first
  Counted,      \* records that a quota counts
  Quota,
  Deployments,  \* [postgres |-> BOOLEAN, process |-> the process of each request]
  None

ASSUME StoreAssumption ==
  /\ Stored \subseteq Records /\ Counted \subseteq Records /\ Quota \in Nat
  /\ Cardinality(Stored \cap Counted) <= Quota
  /\ None \notin Requests
  /\ Records \cap Scopes = {}

VARIABLES
  db,           \* committed rows
  past,         \* history: every row a record has had
  deploy,       \* the deployment, chosen at the start
  writable,     \* no account deletion has fenced the owner
  prog, ip,     \* each request's program and its position in it
  phase,        \* how far the current operation is
  base,         \* the row the current write was computed from
  seen,         \* the last row each request read of a record
  mine,         \* uncommitted writes; a record is in the domain once written
  scopes,       \* scopes whose Python lock the request holds
  xact,         \* scopes whose advisory lock its transaction holds
  owner         \* who holds the owner row (SQLite: the write lock)

calls == <<prog, ip, phase, base, seen, mine, scopes, xact>>
vars  == <<db, past, deploy, writable, calls, owner>>

-----------------------------------------------------------------------------
(* Vocabulary                                                               *)

NoRow  == [version |-> 0, marks |-> {}]
Row    == [version : Nat, marks : SUBSET Requests]

Op(do, on) == [do |-> do, on |-> on]

Writes == {"create", "ensure", "mutate", "save", "restore", "delete"}
Makes  == {"create", "ensure", "restore"}
Reads  == {"require", "read", "count"}

\* Operation i of p is in scope s, which p does not leave before its commit.
InScope(p, i, s) ==
  /\ \E j \in 1 .. i - 1 : p[j] = Op("enter", s)
  /\ \A j \in DOMAIN p : p[j] # Op("leave", s)

\* Whoever does one of `kinds' to record k does it in scope s.
OnlyIn(s, kinds, k) ==
  \A p \in Programs : \A i \in DOMAIN p :
    p[i].do \in kinds /\ p[i].on = k => InScope(p, i, s)

\* Operation i of p has read its record in the scope where alone it may be deleted.
Informed(p, i, kinds) ==
  \E s \in Scopes :
    /\ OnlyIn(s, {"delete"}, p[i].on) /\ InScope(p, i, s)
    /\ \E j, m \in 1 .. i - 1 :
         /\ j < m /\ p[j] = Op("enter", s)
         /\ p[m].do \in kinds /\ p[m].on = p[i].on

\* What callers do with the store: in a transaction they get or create a record in
\* order to change it; and what they delete, save or put back they have not written
\* before in the same request.
ASSUME ProgramAssumption ==
  \A p \in Programs :
    /\ p \in Seq([do : Writes \cup Reads \cup {"enter", "leave"}, on : Records \cup Scopes])
    /\ \A i \in DOMAIN p :
         /\ p[i].on \in Scopes <=> p[i].do \in {"enter", "leave"}
         /\ p[i].do = "ensure" /\ (\E j \in 1 .. i - 1 : p[j].do = "enter") =>
              i < Len(p) /\ p[i + 1] = Op("mutate", p[i].on)
         /\ p[i].do \in {"delete", "save", "restore"} =>
              \A j \in 1 .. i - 1 : p[j].on = p[i].on => p[j].do \notin Writes

\* A version number tells the rows of a record apart only while nobody deletes it.
ASSUME SaveAssumption ==
  \A p \in Programs : \A i \in DOMAIN p : p[i].do = "save" => Informed(p, i, Reads)

\* A delete in a transaction is all it writes, or finds its record, or nobody makes the
\* record meanwhile.
ASSUME DeleteAssumption ==
  \A p \in Programs : \A i \in DOMAIN p :
    p[i].do = "delete" /\ (\E j \in 1 .. i - 1 : p[j].do = "enter") =>
      \/ \A m \in DOMAIN p : p[m].do \in Writes => m = i
      \/ Informed(p, i, {"require"})
      \/ /\ \E s \in Scopes : OnlyIn(s, Makes, p[i].on) /\ InScope(p, i, s)
         /\ \A m \in i + 1 .. Len(p) : p[m].on = p[i].on => p[m].do \notin Writes

\* SQLite is for one process: there only the Python locks keep a scope.
ASSUME DeploymentAssumption ==
  \A d \in Deployments :
    d.postgres \/ \A r, u \in Requests : d.process[r] = d.process[u]

Ended(r)   == ip[r] > Len(prog[r])
Now(r)     == prog[r][ip[r]]
Running(r) == phase[r] \in {"next", "locked", "owned", "selected"}
Doing(r, ph, kinds) == phase[r] = ph /\ ~Ended(r) /\ Now(r).do \in kinds
InTx(r)    == xact[r] # {}
Together(r, u) == deploy.process[r] = deploy.process[u]

\* A request sees its own uncommitted writes, and otherwise what is committed now.
View(r, k) == IF k \in DOMAIN mine[r] THEN mine[r][k] ELSE db[k]

\* Python lock of record k: from TakeRecord to the end of the operation.
LocksRecord(r, k) ==
  /\ phase[r] \in {"locked", "owned", "selected"}
  /\ Now(r).do \in Writes /\ Now(r).on = k

\* Row lock of a committed row: from the select to the end of the transaction.
LocksRow(r, k) ==
  /\ db[k] # NoRow
  /\ k \in DOMAIN mine[r] \/ (phase[r] = "selected" /\ Now(r).on = k)

OwnerFree(r) == owner \in {None, r}

Advance(r) ==
  /\ ip' = [ip EXCEPT ![r] = @ + 1]
  /\ phase' = [phase EXCEPT ![r] = "next"]

\* Everything a transaction holds goes at its end, and a failed one leaves no write.
EndTx(r) ==
  /\ mine'   = [mine EXCEPT ![r] = << >>]
  /\ scopes' = [scopes EXCEPT ![r] = {}]
  /\ xact'   = [xact EXCEPT ![r] = {}]
  /\ owner'  = IF owner = r THEN None ELSE owner

Store(table) ==
  /\ db' = table
  /\ past' = [k \in Records |-> past[k] \cup ({table[k]} \ {NoRow})]

-----------------------------------------------------------------------------
(* Programs of the callers                                                  *)

\* PATCH of a workspace: its title or goal.
Rename(w) == <<Op("require", w), Op("mutate", w)>>

\* Save, retry or answer feedback: one write to the learning record.
PracticeWrite(w, l) == <<Op("require", w), Op("ensure", l), Op("mutate", l)>>

\* WorkspaceService.update_plan: the plan, then the workspace's goal.
ChangePlan(plan, w, l) ==
  <<Op("enter", plan), Op("require", w), Op("ensure", l), Op("mutate", l), Op("mutate", w)>>

\* confirm_topic_suggestion: the workspace's topics, then the plan.
AcceptTopic(plan, w, l) ==
  <<Op("enter", plan), Op("require", w), Op("mutate", w), Op("ensure", l), Op("mutate", l)>>

\* record_journey_event.
RecordEvent(plan, w, e) ==
  <<Op("enter", plan), Op("require", w), Op("ensure", e), Op("mutate", e)>>

\* The deletes of WorkspaceService.delete, with its snapshots before them.
DeleteSpace(plan, w, l, e) ==
  <<Op("enter", plan), Op("require", w), Op("require", l), Op("read", e),
    Op("delete", l), Op("delete", e), Op("delete", w)>>

\* The compensation of a failed delete: snapshots first, then restore in a transaction.
PutBack(plan, w, l, e) ==
  <<Op("read", w), Op("read", l), Op("read", e),
    Op("enter", plan), Op("restore", w), Op("restore", l), Op("restore", e)>>

\* An agent's answer in an open session: its scope is nested in the plan's.
Answer(plan, talk, w, s) ==
  <<Op("enter", plan), Op("require", w), Op("enter", talk), Op("require", s),
    Op("mutate", s), Op("leave", talk)>>

\* An agent's first answer opens a session: the quota's scope is nested in the plan's.
OpenSession(plan, quota, w, s) ==
  <<Op("enter", plan), Op("require", w), Op("enter", quota), Op("count", s),
    Op("create", s), Op("leave", quota)>>

\* A new learning space under its quota.
NewSpace(quota, w, l) ==
  <<Op("enter", quota), Op("count", w), Op("create", w), Op("ensure", l), Op("mutate", l)>>

\* MaterialAnalysisRepository.save over an analysis that it found, and where it found none.
SaveRecord(scope, a) == <<Op("enter", scope), Op("require", a), Op("save", a)>>
AddRecord(scope, a)  == <<Op("enter", scope), Op("read", a), Op("create", a)>>

\* MaterialAnalysisRepository.delete.
DropRecord(scope, a) == <<Op("enter", scope), Op("delete", a)>>

\* What a failed or interrupted deletion puts back, outside every scope.
RestoreRecord(a) == <<Op("read", a), Op("restore", a)>>

-----------------------------------------------------------------------------
Init ==
  /\ db = [k \in Records |-> IF k \in Stored THEN [version |-> 1, marks |-> {}] ELSE NoRow]
  /\ past = [k \in Records |-> {db[k]} \ {NoRow}]
  /\ deploy \in Deployments
  /\ writable = TRUE
  /\ prog = [r \in Requests |-> << >>]
  /\ ip = [r \in Requests |-> 1]
  /\ phase = [r \in Requests |-> "new"]
  /\ base = [r \in Requests |-> NoRow]
  /\ seen = [r \in Requests |-> << >>]
  /\ mine = seen
  /\ scopes = [r \in Requests |-> {}]
  /\ xact = scopes
  /\ owner = None

Arrive(r) ==
  /\ phase[r] = "new"
  /\ \E p \in Programs : prog' = [prog EXCEPT ![r] = p]
  /\ phase' = [phase EXCEPT ![r] = "next"]
  /\ UNCHANGED <<db, past, deploy, writable, ip, base, seen, mine, scopes, xact, owner>>

\* Account deletion sets its fence; it waits for the owner row.
Fence ==
  /\ writable /\ owner = None
  /\ writable' = FALSE
  /\ UNCHANGED <<db, past, deploy, calls, owner>>

-----------------------------------------------------------------------------
(* Scopes                                                                   *)

\* The scope's Python lock ...
EnterScope(r) ==
  /\ Doing(r, "next", {"enter"})
  /\ \A u \in Requests \ {r} : Together(r, u) => Now(r).on \notin scopes[u]
  /\ scopes' = [scopes EXCEPT ![r] = @ \cup {Now(r).on}]
  /\ phase' = [phase EXCEPT ![r] = "locked"]
  /\ UNCHANGED <<db, past, deploy, writable, prog, ip, base, seen, mine, xact, owner>>

\* Faulty variant: no advisory lock.
OpenScopeLocally(r) ==
  /\ Doing(r, "locked", {"enter"})
  /\ xact' = [xact EXCEPT ![r] = @ \cup {Now(r).on}]
  /\ Advance(r)
  /\ UNCHANGED <<db, past, deploy, writable, prog, base, seen, mine, scopes, owner>>

\* ... then, in PostgreSQL, pg_advisory_xact_lock.
OpenScope(r) ==
  /\ Doing(r, "locked", {"enter"})
  /\ deploy.postgres => \A u \in Requests \ {r} : Now(r).on \notin xact[u]
  /\ xact' = [xact EXCEPT ![r] = @ \cup {Now(r).on}]
  /\ Advance(r)
  /\ UNCHANGED <<db, past, deploy, writable, prog, base, seen, mine, scopes, owner>>

\* The end of an inner scope.
LeaveScope(r) ==
  /\ Doing(r, "next", {"leave"})
  /\ scopes' = [scopes EXCEPT ![r] = @ \ {Now(r).on}]
  /\ Advance(r)
  /\ UNCHANGED <<db, past, deploy, writable, prog, base, seen, mine, xact, owner>>

-----------------------------------------------------------------------------
(* Reads                                                                    *)

Full(r) == Cardinality({k \in Counted : View(r, k) # NoRow}) >= Quota

\* A read that must find its record, one that need not, and the count before a quota.
Read(r) ==
  /\ Doing(r, "next", Reads)
  /\ Now(r).do = "require" => View(r, Now(r).on) # NoRow
  /\ Now(r).do = "count" => ~Full(r)
  /\ seen' = [seen EXCEPT ![r] = [k \in DOMAIN @ \cup {Now(r).on} |->
                                    IF k = Now(r).on THEN View(r, k) ELSE @[k]]]
  /\ Advance(r)
  /\ UNCHANGED <<db, past, deploy, writable, prog, base, mine, scopes, xact, owner>>

\* get_or_create finds the record.
EnsureFound(r) ==
  /\ Doing(r, "next", {"ensure"})
  /\ View(r, Now(r).on) # NoRow
  /\ Advance(r)
  /\ UNCHANGED <<db, past, deploy, writable, prog, base, seen, mine, scopes, xact, owner>>

-----------------------------------------------------------------------------
(* Writes: the record's Python lock, the owner row, the row, the statement  *)

TakeRecord(r) ==
  /\ Doing(r, "next", Writes)
  /\ Now(r).do = "ensure" => View(r, Now(r).on) = NoRow
  /\ \A u \in Requests \ {r} : Together(r, u) => ~LocksRecord(u, Now(r).on)
  /\ phase' = [phase EXCEPT ![r] = "locked"]
  /\ UNCHANGED <<db, past, deploy, writable, prog, ip, base, seen, mine, scopes, xact, owner>>

\* Faulty variant: the store does not lock the owner (enforce_owner_state off).
LockOwnerSkipped(r) ==
  /\ Doing(r, "locked", Writes)
  /\ phase' = [phase EXCEPT ![r] = "owned"]
  /\ UNCHANGED <<db, past, deploy, writable, prog, ip, base, seen, mine, scopes, xact, owner>>

\* lock_writable_owner; a delete takes no owner lock.
LockOwner(r) ==
  /\ Doing(r, "locked", Writes)
  /\ IF Now(r).do = "delete" THEN owner' = owner ELSE OwnerFree(r) /\ writable /\ owner' = r
  /\ phase' = [phase EXCEPT ![r] = "owned"]
  /\ UNCHANGED <<db, past, deploy, writable, prog, ip, base, seen, mine, scopes, xact>>

Select(r) ==
  /\ Doing(r, "owned", Writes)
  /\ deploy.postgres => \A u \in Requests \ {r} : ~LocksRow(u, Now(r).on)
  /\ base' = [base EXCEPT ![r] = View(r, Now(r).on)]
  /\ phase' = [phase EXCEPT ![r] = "selected"]
  /\ UNCHANGED <<db, past, deploy, writable, prog, ip, seen, mine, scopes, xact, owner>>

Seen(r) == IF Now(r).on \in DOMAIN seen[r] THEN seen[r][Now(r).on] ELSE NoRow

\* RecordNotFoundError, RecordAlreadyExistsError, StaleVersionError.
Acceptable(r) ==
  CASE Now(r).do = "mutate" -> base[r] # NoRow
    [] Now(r).do = "save"   -> base[r] # NoRow /\ base[r].version = Seen(r).version
    [] Now(r).do = "create" -> base[r] = NoRow
    [] OTHER -> TRUE

\* The row a statement leaves: a transform of `base', or of what was read before a save.
Result(r) ==
  CASE Now(r).do = "mutate" -> [version |-> base[r].version + 1, marks |-> base[r].marks \cup {r}]
    [] Now(r).do = "save"   -> [version |-> Seen(r).version + 1, marks |-> Seen(r).marks \cup {r}]
    [] Now(r).do = "delete" -> NoRow
    [] Now(r).do = "restore" -> IF base[r] = NoRow THEN Seen(r) ELSE base[r]
    [] OTHER -> IF base[r] = NoRow THEN [version |-> 1, marks |-> {r}] ELSE base[r]

\* A delete finds no row.
Misses(r) == Now(r).do = "delete" /\ View(r, Now(r).on) = NoRow

\* The statement; outside a scope it commits with the operation.
Apply(r) ==
  /\ Doing(r, "selected", Writes)
  /\ Acceptable(r)
  /\ deploy.postgres \/ OwnerFree(r)
  /\ IF InTx(r)
       THEN /\ mine' = IF Misses(r) THEN mine
                       ELSE [mine EXCEPT ![r] = [k \in DOMAIN @ \cup {Now(r).on} |->
                                                   IF k = Now(r).on THEN Result(r) ELSE @[k]]]
            /\ owner' = IF deploy.postgres THEN owner ELSE r
            /\ UNCHANGED <<db, past, scopes, xact>>
       ELSE Store([db EXCEPT ![Now(r).on] = Result(r)]) /\ EndTx(r)
  /\ Advance(r)
  /\ UNCHANGED <<deploy, writable, prog, base, seen>>

\* The program is over: commit, release, answer.
Finish(r) ==
  /\ phase[r] = "next" /\ Ended(r)
  /\ Store([k \in Records |-> View(r, k)])
  /\ EndTx(r)
  /\ phase' = [phase EXCEPT ![r] = "done"]
  /\ UNCHANGED <<deploy, writable, prog, ip, base, seen>>

-----------------------------------------------------------------------------
(* Waiting and failing                                                      *)

\* r waits for a Python lock of u.
PyWaits(r, u) ==
  /\ r # u /\ Together(r, u)
  /\ \/ Doing(r, "next", {"enter"}) /\ Now(r).on \in scopes[u]
     \/ Doing(r, "next", Writes) /\ LocksRecord(u, Now(r).on)

\* r waits for a lock that u's database transaction holds.
DbWaits(r, u) ==
  /\ r # u
  /\ \/ deploy.postgres /\ Doing(r, "locked", {"enter"}) /\ Now(r).on \in xact[u]
     \/ Doing(r, "locked", Writes \ {"delete"}) /\ owner = u
     \/ deploy.postgres /\ Doing(r, "owned", Writes) /\ LocksRow(u, Now(r).on)
     \/ ~deploy.postgres /\ Doing(r, "selected", Writes) /\ owner = u

\* SQLite gives up on a busy database; PostgreSQL ends a deadlock among its own locks.
TimesOut(r) ==
  IF deploy.postgres
    THEN \E S \in SUBSET Requests :
           r \in S /\ \A t \in S : (\E u \in S : DbWaits(t, u)) /\ (\E u \in S : DbWaits(u, t))
    ELSE \E u \in Requests : DbWaits(r, u)

\* Reasons for an operation to raise; a transform may refuse what it finds.
MayFail(r) ==
  \/ Doing(r, "next", {"require"}) /\ View(r, Now(r).on) = NoRow
  \/ Doing(r, "next", {"count"}) /\ Full(r)
  \/ Doing(r, "locked", Writes \ {"delete"}) /\ OwnerFree(r) /\ ~writable
  \/ Doing(r, "selected", Writes) /\ ~Acceptable(r)
  \/ Doing(r, "selected", {"mutate"})
  \/ TimesOut(r)

\* Faulty variant: a failed transaction keeps the owner row.
FailHolding(r) ==
  /\ MayFail(r)
  /\ mine'   = [mine EXCEPT ![r] = << >>]
  /\ scopes' = [scopes EXCEPT ![r] = {}]
  /\ xact'   = [xact EXCEPT ![r] = {}]
  /\ phase' = [phase EXCEPT ![r] = "failed"]
  /\ UNCHANGED <<db, past, deploy, writable, prog, ip, base, seen, owner>>

\* The exception leaves the scopes, rolls back and reaches the caller.
Fail(r) ==
  /\ MayFail(r)
  /\ EndTx(r)
  /\ phase' = [phase EXCEPT ![r] = "failed"]
  /\ UNCHANGED <<db, past, deploy, writable, prog, ip, base, seen>>

-----------------------------------------------------------------------------
Step(r) ==
  \/ EnterScope(r) \/ OpenScope(r) \/ LeaveScope(r)
  \/ Read(r) \/ EnsureFound(r)
  \/ TakeRecord(r) \/ LockOwner(r) \/ Select(r) \/ Apply(r)
  \/ Finish(r) \/ Fail(r)

Next == Fence \/ \E r \in Requests : Arrive(r) \/ Step(r)

Spec == Init /\ [][Next]_vars

\* A request that can go on does.
FairSpec == Spec /\ \A r \in Requests : WF_vars(Step(r))

-----------------------------------------------------------------------------
(* Properties                                                               *)

(* Types of the state; a request that has not begun or has ended holds no   *)
(* lock and keeps no write, whichever way it ended (the `with' blocks of    *)
(* owner_transaction and of the operations).                                *)
TypeOK ==
  /\ db \in [Records -> Row] /\ past \in [Records -> SUBSET Row]
  /\ deploy \in Deployments /\ writable \in BOOLEAN
  /\ prog \in [Requests -> Programs \cup {<< >>}] /\ ip \in [Requests -> Nat \ {0}]
  /\ phase \in [Requests -> {"new", "next", "locked", "owned", "selected", "done", "failed"}]
  /\ base \in [Requests -> Row]
  /\ scopes \in [Requests -> SUBSET Scopes] /\ xact \in [Requests -> SUBSET Scopes]
  /\ owner \in Requests \cup {None}
  /\ \A r \in Requests :
       /\ \A f \in {seen[r], mine[r]} :
            DOMAIN f \subseteq Records /\ \A k \in DOMAIN f : f[k] \in Row
       /\ Running(r) \/ (owner # r /\ mine[r] = << >> /\ scopes[r] = {} /\ xact[r] = {})

(* The store keeps its promise: what a transaction does happens at once, at *)
(* its commit, to the rows of that moment.  No update is lost, no request   *)
(* sees or overwrites half of another's, a compensation puts back only what *)
(* there was.                                                               *)
Abstract == INSTANCE AtomicRecords WITH
  Records <- Records, Requests <- Requests, Programs <- Programs, db <- db, past <- past

Atomic == Abstract!Spec

\* A compensation puts a record back whether or not there is room for it.
PutBackOnce(k) ==
  \E r \in Requests : \E i \in 1 .. ip[r] - 1 : prog[r][i].do = "restore" /\ prog[r][i].on = k

(* Two requests that each found room under the quota do not both use it     *)
(* (the count and the create happen under quota_transaction): no more       *)
(* records than the quota, but for those put back.  On SQLite TLC refutes   *)
(* it for TwoFirstAnswers of MCRecordStore, where the quota's scope is      *)
(* within another one.                                                      *)
WithinQuota == Cardinality({k \in Counted : db[k] # NoRow /\ ~PutBackOnce(k)}) <= Quota

(* What WithinQuota asks of the programs: to make a counted record, enter   *)
(* the scope s of its quota, count, and write no other counted record; on   *)
(* SQLite, stay in that scope to the commit.  New learning spaces do so;    *)
(* sessions of the agent do so on PostgreSQL alone.                         *)
CountsFirst(s) ==
  \A p \in Programs : \A i \in DOMAIN p : p[i].do \in {"create", "ensure"} /\ p[i].on \in Counted =>
    /\ \E j, m \in 1 .. i - 1 : j < m /\ p[j] = Op("enter", s) /\ p[m].do = "count"
    /\ \A n \in DOMAIN p : p[n].do \in Writes /\ p[n].on \in Counted => n = i
    /\ (\A d \in Deployments : d.postgres) \/ \A n \in DOMAIN p : p[n] # Op("leave", s)

(* However their locks meet, every request is answered: locks the database  *)
(* arbitrates are given up after a timeout or a detected deadlock.          *)
EveryCallEnds == \A r \in Requests : Running(r) ~> phase[r] \in {"done", "failed"}

(* The owner's writes wait their turn (lock_writable_owner: "Serialize      *)
(* owner writes ..."): no group of requests waits for each other in a way   *)
(* that nothing resolves, neither a timeout (SQLite) nor the deadlock       *)
(* detector, which sees only cycles of database locks (PostgreSQL).  The    *)
(* code does not keep this between two requests of one process over         *)
(* PostgreSQL: TLC refutes it for PlanAndTitle of MCRecordStore.            *)
Waits(r, u) == PyWaits(r, u) \/ DbWaits(r, u)

WritesTakeTurns ==
  \A S \in SUBSET Requests \ {{}} :
    (\A r \in S : (\E u \in S : Waits(r, u)) /\ (\E u \in S : Waits(u, r)))
      => \E r \in S : TimesOut(r)

=============================================================================
