# RefineQ: a verification project

RefineQ is a learning companion: learners upload material, open learning spaces, practise with
generated questions and keep a study plan. The server is a FastAPI application over one SQL
database, an object store and a data directory (`src/src/refineq`). This directory holds TLA+ models of the
parts of the server where several requests, instances, crashes and failing calls meet, the TLC
runs that check them and the proofs that hold for every size.

Paths below are relative to `src/src/refineq` unless they begin with `docs` or `tests`.

## 1. The system

| part | state it keeps | operations | what is hard | what makes it correct |
|---|---|---|---|---|
| Material library (`api/routers/materials.py`, `knowledge/deletion.py`, `knowledge/index.py`) | rows, links and analyses in SQL; bytes in the object store; deletion journals on disk; the recovery lease (a file lock) | upload, link, unlink, analyse, bulk delete, recover at start | two stores without a common transaction; crashes between any two steps; extraction and model calls outside the lease | no listed file loses its bytes; the stores agree again after recovery; nothing deleted returns |
| Account deletion (`identity/deletion.py`, `identity/service.py`, `database/owner_state.py`) | the fence `users.deletion_id`, its own journals | preflight, fence, stage, delete, roll back, recover | requests authenticated before the fence | a fenced account does not grow; an interrupted deletion is undone |
| Workspaces (`workspaces/service.py`) | one record per learning space | create, update, delete with compensation, deferred delete | the delete spans a transaction, the lease and a compensation in a third transaction | a failed delete leaves everything, a successful one nothing |
| Record store (`storage/sql_store.py`) | versioned JSON records per owner | create, read, save with an expected version, mutate, restore, owner transactions | lost updates, survivors of a restore | one writer at a time per record, no version twice |
| Practice loop (`learning/service.py`) | one learning record per space: pending question, history, attempts, mastery | next question, retry, save, answer | the model call runs between a read and a write; double clicks; retries | a question is credited once; an answer grades the question the learner saw |
| Study plan (`learning/service.py`, `learning/planning.py`, `learning/personalized.py`) | plan sessions in the learning record | create, move with displacement, complete, regenerate, clear, have one written by a model | daily capacity, displaced sessions, promised reviews, edits while the model writes | capacity holds; completed work stays completed |
| Identity (`identity/service.py`) | credentials, session versions, reset links | register, login, change or reset a password, revoke, delete and register again | a password checked on one read and a token issued on another; two links at once; counters that start again | an ended token opens nothing ever again |
| Home supervisor (`home/service.py`, `home/policy.py`, `home/tokens.py`) | signed proposals and undo tokens, receipts | dispatch, answer a question, confirm, revise, cancel, undo | confirmation races; state seen before and changed since; a deferred delete whose second half fails; many ways through the questions | a proposal takes effect once, on what was seen; what is forbidden stays refused |
| Agent (`agent/*`) | conversations with numbered turns | reply, replay a turn, delete | a model call between read and write; a space that goes meanwhile | a conversation belongs to a space that exists |
| MCP evaluation server (`mcp/*`) | one sandbox, the lease rows of runs, results by idempotency key | begin, seed, use four tools, expire, purge, recover at start | leases that lapse during a model call; retries at other processes; crashes between grade and result | the sandbox serves one run at a time; a question is graded once |
| Limits (`rate_limits.py`, `api/limits.py`) | sliding windows with a bounded table; counters of uploads | check, admit, receive, release | full tables; tokens that stop working while an upload runs; slow clients | no key above its limit; every slot comes back |
| Start and stop (`api/app.py`) | none | recover, serve, close | a start next to a serving instance | serve only what is recovered |

How they interact: every request enters through a router that verifies the token
(`identity.verify_token`) and calls one service. Services share the SQL database; writes for an owner
take the owner's row (`lock_writable_owner`), which is also what an account deletion fences. Records
of one space are serialised by `plan_transaction`, an SQL transaction under an advisory lock. Whatever
touches objects takes the *recovery lease*, an operating-system lock on
`recovery/.material-object-mutations.lock`, shared by material and account deletions of every process
over the data root. A start runs the account recovery and then the material recovery before it serves.

`PROJECT.json` lists every part with its status, and under `hazards` the places in the code that a test
would hardly reach.

## 2. Modules

| module | models |
|---|---|
| `MaterialLifecycle` | one learner's library, learning spaces and account; request threads; instances that start, recover, serve and crash |
| `MCMaterialLifecycle` | instances of it for TLC: hosts and symmetry |
| `MaterialLifecycle_proofs` | two inductive invariants and eight theorems |
| `AtomicRecords` | what callers of the record store rely on: transactions that happen at once |
| `RecordStore` | one owner's records under concurrent requests: processes, scopes, locks, transactions; implements `AtomicRecords` |
| `MCRecordStore` | the programs of the callers and the deployments that TLC checks |
| `RecordStore_proofs` | its inductive invariants and six theorems: `RecordStore` implements `AtomicRecords`, quotas are kept, locks keep rows and scopes |
| `PracticeLoop` | the learning record of one space: generating, answering, retrying and saving questions in several processes |
| `MCPracticeLoop` | two request threads in one process or two |
| `PracticeLoop_proofs` | the inductive invariant and six theorems |
| `PlanCalendar`, `MCPlanCalendar` | the study plan of one space on a calendar, with targeted plans that a model writes |
| `PlanCalendar_proofs` | the shape of a plan, what its operations do to lists of sessions and to their minutes, and five theorems |
| `EvaluationRuns`, `MCEvaluationRuns` | the MCP evaluation sandbox: leases, seeding, tools, idempotent results |
| `EvaluationRuns_proofs` | its inductive invariants and six theorems |
| `LearningSpaces` | the spaces of one owner, their records, links and conversations, and the delete in two transactions |
| `HomeDispatch` | extends it by proposals, confirmation, undo and receipts of the home supervisor |
| `AgentChat` | extends it by the agent's replies |
| `OnceOnly` | what an idempotency key promises |
| `Assistants`, `MCAssistants` | the supervisor and the agent over the same spaces; implements `OnceOnly` |
| `Assistants_proofs` | its inductive invariant and four theorems, that refinement among them; and three about `HomeRouting` |
| `HomeRouting`, `MCHomeRouting` | what becomes of one text: policy, candidates, model, questions, refusals |
| `Accounts`, `MCAccounts` | one account: password, tokens, reset links, deletion and registration under the same id |
| `Accounts_proofs` | its inductive invariant and four theorems |
| `RequestGate`, `MCRequestGate` | sliding windows and upload slots of one process |
| `RequestGate_proofs` | the balance of the slots, the limits of the windows |

Two detailed modules are shown to implement abstract ones: `RecordStore` implements `AtomicRecords` (property `Atomic`),
`Assistants` implements `OnceOnly` (property `ActsOnce`). The models above the store (`PracticeLoop`, `PlanCalendar`,
`LearningSpaces`, `EvaluationRuns`) take a transaction as one step, which is what the first refinement says.

### 2.1 MaterialLifecycle

State and code:

| variable | in the code |
|---|---|
| `rows`, `links`, `analyses` | tables `materials` and `workspace_materials`; records `material-analyses` |
| `objs` | the objects in the store, named by content hash |
| `spaces`, `born` | workspace records; the ids ever used (uuids do not return) |
| `registered`, `deletionId` | the row in `users` and its fence |
| `journals` | directories under `recovery/`: kind, whether `manifest.json` is there, its entries, the saved blobs and analyses |
| `lease`, `planLock` | `RecoveryLease`; the plan transaction of each workspace |
| `server[i]` | where instance `i` is between `create_app` and shutdown |
| `pc[h]`, `sel`, `todo`, `done`, `made`, `jid`, `ws` | a request thread: where it stands, the materials it was asked about, those it still has to treat and has treated, the objects it created, its deletion id, its workspace |

An action is one durable effect: a lease call, an object call, an SQL transaction or a journal write.
A crash may fall between any two of them. The `*Begin` actions enumerate what a request asks for; `Step(h)` is
the next effect of a request under way; `Recover(i)` the next step of a start.

| request | actions, in the order of the code |
|---|---|
| upload | `UploadBegin` (what has a row already, then extraction), `UploadLease`, `UploadPut`*, `UploadCommit`, or `UploadFails`, `UploadUndo`*, `UploadUndone`; a workspace upload goes on with the link under a new lease |
| link, unlink, analyse | `LinkBegin`, `LinkLease`, `LinkRow`*, `LinkDone`; `Unlink`; `AnalyzeBegin`, `AnalyzeSave` |
| bulk delete | `DeleteBegin`, `DeletePrepare`, `DeleteBlob`*, `DeleteManifest`, `DeleteObject`*, `DeleteAnalysis`*, `DeleteRows`, `Finish`; failing: `DeleteAbort` or `DeleteFails`, `RestoreEntry`*, `Finish` |
| workspace delete | `SpaceDeleteBegin`, `SpaceDeletePrepare`, `SpaceDeleteCommit`, `SpaceDeleteUnlink`, `Finish`; failing: `SpaceDeleteBusy` or `SpaceDeleteFails`, `SpaceDeleteRestore`, `Finish` |
| account delete | `AccountDeleteBegin`, `AccountDeletePrepare`, `AccountFence`, `AccountBlob`*, `AccountStaged`, `AccountObject`*, `AccountDelete`, `Finish`; failing: `AccountRefused`, `AccountBlobFails`, `AccountFails`, `AccountRestore`*, `AccountCancel`, `Finish` |
| start | `StartInstance`, `AccountLease`, then per journal `AccountUndo`*, `AccountLift`, `AccountPurge`; `MaterialLease`, then per journal `MaterialUndo`*, `MaterialPurge` or `MaterialRefuse`; a busy lease skips a recovery |

Abstractions. Bytes, names, quotas and file-name conflicts are not represented: a transaction
that refuses for such a reason is `UploadFails` with nothing left to put, and it needs no error.
`AccountFails` stands for every reason to raise in `complete`, a changed password among them. An object and its
analysis are restored in one step, and the bytes and the manifest entry of one staged object too; doing
either half again is harmless, and a crash between the halves leaves what a crash before both leaves, for
recovery. A directory that `rmtree` leaves half-way may hold any part of it (`FinishLeaves`). Recovery treats journals in
any order, one entry at a time; the code goes through directories sorted by their random ids. The two copies of a
mirrored object store count as one. One learner is modelled: rows, fences and journals of different learners meet only in the lease,
which another learner's request holds exactly as a second handler does.

Bounds: `MaxCrashes`, `MaxErrors` (failing object, SQL or file calls). Refusals that need no failure,
such as 404, 409 or a fence, are not counted.

### 2.2 Runs

| run | instance | states | question |
|---|---|---|---|
| `material_library` | 2 materials, 2 handlers, 1 instance, 2 journals, 1 crash, 1 error, no spaces | 423 437 | all pairs of concurrent requests, a crash and a failing call at every point |
| `material_fleet` | 1 material, 1 space, 1 handler, 2 instances, 3 journals, no crash, 2 errors | 347 993 | a start beside a serving instance; a compensation that fails itself |
| `material_progress` | 1 material, 1 space, 2 handlers, 1 instance, 2 journals, 1 crash, no error, fair | 35 075 | leases and journals are resolved in the end; links; the fence |
| `material_deletion_final` | 1 material, 1 space, 2 handlers | counterexample | the sentence at `docs/operations.md:61` |

What they show:

- **BytesRecoverable**: whenever a row has no object, a complete journal that recovery will replay holds the
  bytes. This is the promise behind "keep original objects until SQL index deletion is known to be
  durable". It rests on the order blobs, manifest, objects, rows, and on uploads undoing only what they created.
- **RecoveredLibrary**: once an instance serves, nobody holds the lease and no compensation or clean-up failed under way,
  rows have their objects, analyses have their rows and no journal is left; and recovery refuses to start only after a
  compensation or clean-up had failed while some instance went on serving (`exposed`).
- **QuietStoresAgree**: without crash or error the two stores agree whenever the lease is free. Two
  uploads of the same bytes, an upload beside a delete, a rejected upload: no orphan.
- **NoResurrection**, **FencedAccountFrozen**, **LinksJoinLiveEnds**: what was
  read before the lease (a material, a workspace, a valid token) is checked again before it is written.
- **LeaseOwned**: the lease marks exactly the request or start that works over both stores.
- **LeaseComesBack**, **JournalsResolved**: with no failing call, also across a crash.

Two materials are enough for the cases that differ: a selection half treated, and one material of a journal
uploaded again. Two handlers give every pair of requests; a third would wait for the same lease. One
crash and one error meet every point of every sequence, the second error of the fleet every point of a compensation, and the proofs carry the invariants to
any number. In the fleet run a journal can be abandoned once per error, and the running
deletion needs one more, hence three. `material_library` has no spaces and `material_fleet` one
handler, because spaces interact with the library only in links and in the lease; the proofs have neither bound.

Fairness (`FairSpec`): weak fairness of `Step(h)`: a thread that can go on does; and of
`Recover(i)`: the supervisor starts an instance that is down, and a start goes on. No request has to arrive, so
`Request(h)` is not fair, and crashes and stops are not either. A request waits for the lease at most a second
and is then refused, which the model allows at any time the lease is taken, so waiting needs no strong fairness.
The liveness properties carry the premise `[](errors = 0)`: after a failing compensation the code leaves the
journal to the next start on purpose, and after a failing restoring transaction of a workspace delete the lease stays with the
process (`workspaces/service.py:653`).

### 2.3 What the code does not keep

- `LeftoverJournalsAreSafe` (stated in the module; TLC refutes it in the instance of `material_library`, no run does). `complete` swallows a failing clean-up because "a leftover or partially removed journal is safe
  for startup recovery to clean". Material ids are content hashes: delete two files, let the clean-up stop half-way,
  upload one of them again and restart. Recovery finds one row of two, raises "partial SQL state", and the
  application does not start any more. With a missing blob and all rows back it fails on the missing file instead.
- `DeletionFinal` (run `material_deletion_final`). A workspace delete takes its snapshots, then finds the lease busy. Its exception handler restores
  every snapshot it finds missing although it deleted nothing. A second delete that succeeds in
  between has answered 204, and the workspace comes back with its learning record, events and sessions.

### 2.4 Proofs

`MaterialLifecycle_proofs` proves, for all materials, workspaces, handlers, instances, journals and any
number of crashes and errors, under `ConstantsAssumption` (hosts are instances, identities are distinct):

| theorem | statement |
|---|---|
| `TypeCorrect` | `Spec => []TypeOK` |
| `LeaseExcludes` | `Spec => []LeaseOwned` |
| `NoBytesLost` | `Spec => []BytesRecoverable` |
| `DeletedStaysDeleted` | `Spec => NoResurrection` |
| `FenceHolds` | `Spec => FencedAccountFrozen` |
| `RecoveryCompletes` | `Spec => []RecoveredLibrary` |
| `StoresAgree` | `Spec => []QuietStoresAgree` |
| `LinksAreLive` | `Spec => LinksJoinLiveEnds` |

`BytesRecoverable` is not inductive: nothing in it says that the handler about to delete an object has
a journal for it. `IInv` adds what the lease holder knows at each program point (`UploadPhase`, `DeletePhase`,
`SpacePhase`, `AccountPhase`, `UnwindPhase`), that the lease has one owner (`LeaseOwned`), that only threads of serving
instances run (`Running`), and the shape of journals and the fence (`Shape`). A step by `h` keeps the phase
of every other handler because the steps that change rows, objects, journals or the fence need the
lease, and two handlers do not hold it (`QuietPhase`, `SamePhase`); this turns a quadratic case analysis into a linear one. The
conjuncts of `IInv` were first checked by TLC as invariants of the library and fleet instances.

The last three theorems need more than `IInv`, and `Tidy` is inductive beside it. `Owning`: a request has a journal only
while it holds the lease, so a journal seen with a free lease is nobody's. `Unexposed`, as long as nothing is `exposed`:
one journal at most is open, it lists only what it has the bytes of, its rows are all there or all gone, and the fence
belongs to an account journal with a manifest; this is why recovery never refuses it, and the sentence that
`LeftoverJournalsAreSafe` quotes fails just where `exposed` begins. `Balanced`, without crash and error: at each
program point rows and objects differ by exactly what the holder has put, deleted or still has to restore (`Levels`). `Analysed`: a
deletion that goes on to the rows has left no analysis of what it deletes. `LinkTarget`: a workspace does not go
while a link to it holds the lease. TLC checked `Tidy` on the instances of the three passing runs first.

Checked by TLC only: the liveness properties, which are beyond the proof system (fairness and `ENABLED`).

### 2.5 RecordStore

A request runs a *program*, the store operations of a caller in their order: `Rename`, `ChangePlan`,
`AcceptTopic`, `PracticeWrite`, `RecordEvent`, `DeleteSpace`, `PutBack` (the compensation of a delete), `Answer`,
`OpenSession`, `NewSpace`, and for analyses `SaveRecord`, `AddRecord`, `DropRecord`, `RestoreRecord`. The data of a row is the set of requests whose change it contains
(`marks`), so a lost update is a missing mark. An action is one lock, read, statement or commit:

| code | actions |
|---|---|
| `owner_transaction` | `EnterScope` (Python lock), `OpenScope` (`pg_advisory_xact_lock`), `LeaveScope` (inner scope), `Finish` (commit) |
| `read`, counts, `get_or_create` | `Read`, `EnsureFound` |
| `create`, `save`, `mutate`, `restore`, `delete` | `TakeRecord` (Python lock), `LockOwner` (`lock_writable_owner`), `Select` (`FOR UPDATE`), `Apply` |
| exceptions, refusals, timeouts | `Fail`: scopes are left and `Database.session` rolls back |
| `begin_account_deletion` | `Fence` |

| variable | in the code |
|---|---|
| `db`, `past` | the table `records`; `past` is history, for what a compensation may put back |
| `deploy` | PostgreSQL or SQLite, and the process of each request |
| `mine`, `xact`, `owner` | what an open database transaction has written and which advisory locks and owner row it holds |
| `scopes`, `phase` | Python locks of scopes and, with the current operation, of its record |
| `base`, `seen` | the row a write starts from; what was read before |

PostgreSQL runs at READ COMMITTED: a read sees what is committed at that moment and the own writes. In SQLite (`pysqlite`
begins a transaction at the first write) `lock_writable_owner` updates the owner's row and so takes the
write lock of the database; a delete takes it with its own statement. A `mutate` may also fail by a refusal of its
transform. A delete that finds no row affects nothing (`Misses`). Errors that callers swallow, e.g. of journey events, and the
delete of records in an older format beside an analysis (`_delete_legacy_records`) are not repeated here, and one owner
is modelled because no lock is shared between owners except the write lock of SQLite.

| run | instance | states | question |
|---|---|---|---|
| `record_store` | 2 requests, 14 programs on 3 spaces, PostgreSQL with a process each or SQLite with one, fair | 80 868 | are transactions atomic, quotas kept, calls answered |

- **Atomic** (`AtomicRecords!Spec`): from its first scope to its end a program takes effect at its commit, on the rows of that
  moment; outside a scope each operation does. This is what the models of the services may rest on. No refinement
  mapping is needed: both have `db` and `past`, and every step but a commit stutters.
- **WithinQuota**: a count and a create under one scope are not raced. `OpenSession` is not part of this run: with it
  the property fails on SQLite (below). What a compensation puts back does not count (`PutBackOnce`), because the code does not ask for room
  then (`workspaces/service.py:651`): a delete, a new space in the place it left, and the delete's compensation make one space more than the quota.
  With two requests this cannot happen; three show it to TLC.
- **EveryCallEnds**: a wait ends by the other's commit, by SQLite's busy timeout or by PostgreSQL's deadlock
  detection. Requests of one process on PostgreSQL are not part of this run for the reason below; for safety they only add locks, so
  `Atomic` and `WithinQuota` hold there as well.

Two requests give every pair of programs, in every order; for any number of requests `Atomic` and `WithinQuota` are proved below, circles of three that wait are not covered. Fairness: a thread that can go on does (`WF` of `Step`); locks need no strong fairness
because nobody requests anything twice.

What the code does not keep (no run of its own; `MCRecordStore` has the deployments and programs with which TLC finds both):

- `WritesTakeTurns` (`OnePgApp`, `PlanAndTitle`), against `database/owner_state.py:17`. `update_plan` writes the learning record, and so holds the owner row until its commit, then asks for the
  Python lock of the workspace. A rename holds that lock and waits for the owner row. PostgreSQL does not see the Python
  lock, no lock or statement timeout is set, and both wait for ever; with them every later write of the owner, an account
  deletion included. On SQLite the rename gives up after the busy timeout.
- `WithinQuota` on SQLite with nested scopes (`OneSqlite`, `TwoFirstAnswers`), against `tests/integration/test_agent_chat.py:605`: the inner Python lock goes before the commit. The test of that name uses one
  learning space, where the outer scope protects the quota.

`RecordStore_proofs` proves, for any number of requests and records:

| theorem | states |
|---|---|
| `Invariance` | `Spec => []IInv` |
| `UpdatesAreNotLost` | `Spec => []NoLostUpdate`: what a write was computed from is what it replaces |
| `WritersKeepTheirRows` | `Spec => RowsKeptForWriter`: nor does another request change that row before the commit |
| `ScopesAreExclusive` | `Spec => []ScopesExclude`: one transaction at a time in an advisory scope |
| `TransactionsAreAtomic` | `Spec => Atomic`: `RecordStore` implements `AtomicRecords` |
| `QuotasAreKept` | `Spec => []WithinQuota`, where programs make counted records as `CountsFirst` says |

The first four hold for any programs whatever, under `StoreAssumption` alone. A lock keeps each row, but which one differs: a row that exists is kept by its row lock in PostgreSQL,
one that does not by the owner row, and in SQLite all by the write lock, although a delete
takes no owner row. `IInv` says which (`Guarded`: who writes has the owner row, and in PostgreSQL nobody else touches an existing row; `Owned`: who is to select has the owner row, and in
SQLite so has whoever has written). `NoLostUpdate`, `RowsKeptForWriter` and `ScopesExclude` are in the proof module and in no run: a lost update would refute `Atomic` already.

`TransactionsAreAtomic` rests on what the callers do, and fails without it. Each assumption is checked by TLC for the programs of the run:

| assumption | why the code justifies it |
|---|---|
| `ProgramAssumption`: a `get_or_create` in a transaction is followed by a change of that record; a request deletes, saves or restores only what it has not written before | `storage/learning.py`, `storage/journey_events.py`: `mutate` of a record begins with it. A compensation is a request of its own here |
| `SaveAssumption`: who saves a row read it in the scope where alone it is deleted | a version number alone cannot tell a row from one that was deleted and made again. Only `MaterialAnalysisRepository.save` and the proposals of `home/events.py:92` save; both read in their scope, and deletes of those records take the same scope |
| `DeleteAssumption`: a delete in a transaction is its only write, or its record was required in the scope of all deletes of it, or nobody makes the record outside the scope | the first is `DropRecord`; the second the space and its learning record (`workspaces/service.py:594`); the third the journey events, made and deleted only in `plan_transaction` |
| `DeploymentAssumption`: SQLite has one process | `docs/plans/2026-08-07-review-remediation-design.md:23`. TLC refutes `Atomic` for SQLite with two, where only a Python lock keeps a scope |

The abstract transaction replays a program on the rows of its commit, while the code read, computed and wrote at different moments before. So the invariant (`HInv`) says of every record an open transaction
has written that replaying the program's operations on it from the row that is committed *now* gives what it has written (`Replays`), and that other commits cannot change that: a row it has
written is locked (`IInv`), a row it deleted may have been any, a row that its delete missed is not made meanwhile (`Unwritten`), a row that it required or is to save has kept its version and therefore its
content (`SeenKnown`, `Current`, `Climbs`). These traces of single records are put together into one outcome of the program when it commits (`FinishCommits`); outside a transaction each statement is one (`ApplyCommits`); all else changes
neither `db` nor `past` (`QuietSteps`). `Outcomes` folds over a program of any length; the induction is over positions (sets of numbers).
Not covered are callers that swallow a failed `create` within a transaction (`HomeEventRepository.record`, `HomeReceiptRepository.save`), which are no programs of the model.

`QuotasAreKept` assumes that the counted records are finitely many and `CountsFirst(s)`: who makes a counted record has entered the scope `s`, has counted, and writes no other counted record; on SQLite it does not leave
`s` before it commits. Learning spaces do so (`workspaces/service.py:290`; `MCRecordStore` assumes it of the run's programs); sessions of the agent do not on SQLite, where the property fails as said above. The invariant (`QInv`) adds to `HInv` that whoever has
counted still finds room (`Room`), which holds because one request at a time is between its count and its commit (`OneCounting`).

### 2.6 PracticeLoop

| variable | in the code (`learning/service.py`, in the learning record unless noted) |
|---|---|
| `version` | version of the record: every mutate counts it up (`RecordStore` shows a mutate atomic, so it is one step here) |
| `pending`, `history`, `sequence` | `pending_question`, `question_history`, `question_sequence` |
| `requests`, `saved` | `question_requests` (request id to question id), `saved_questions` |
| `attempts`, `credited` | `attempts` with `question_snapshot` and `mastery_updated`; `credited_question_ids` of the topic |
| `plan` | status of each plan session |
| `generating`, `asking`, `planning` | the generation lock of each process; `question_transaction`; `plan_transaction` (`storage/learning.py:86-107`) |
| `call`, `pc`, `snapshot`, `draft` | a request thread: its parameters, where it stands, the version or comparison it remembers, the prompt it graded and when |
| `seeds` | history: how often the space was seeded |

| operation | actions |
|---|---|
| `next_question` | `AskQuestion`, `Quarantine` (workspace routes), `ReadSnapshot` (generation lock, replay, plan session, snapshot), `Recheck` (question transaction, after the model call), `StoreQuestion` |
| `submit_answer` | `SubmitAnswer` (first read and grading), `Check` (plan transaction, `prompt_hash`), `RecordGrade`; an ungrounded question goes to `Quarantine` |
| `retry_question`, `set_question_saved`, `seed` | `Retry`, `SetSaved`, `Seed`: one mutate each |
| plan changes | `ChangePlan` (any plan), `Withdraw` (`update_plan_session` with another topic), `DetachPending` (`learning/personalized.py`) |
| exceptions | `Refuse`, at any point before the write |

Abstractions. One topic; a prompt stands for the whole content of a question; whether a grade is mastery
evidence is a choice; the difficulty, the evidence list and journey events are left out. The model call changes
nothing, so the choice of a prompt is made where it is stored. `history` is a set and a full one gives up any
unsaved question: the code deletes the first key of a dictionary, which is the oldest on SQLite, but
PostgreSQL keeps the record as JSONB, without key order. The first read of an answer looks
at the id alone (`learning/service.py:1712`), so its hash may be that of any prompt under that id, or missing; a hash made for another id matches nothing, as that of another prompt does.

Run `practice_loop`: 2 threads (one on a workspace route), in one process or two, 2 prompts, 2 request ids, 2 attempts, 1 plan session,
all limits 1, no new request or single write after 3 writes of the record; 2 404 167 states. Limits of 1 make every list full at once. Three writes
reach a credit, a retry and the second answer, and a store, a save and a replacement between two steps of another thread; longer histories, such as a
credited id that the list forgets before the retry, are covered by the proofs, which have no bounds.
Deadlock is not checked in this run: the bound on writes stops the system, not the code.

- **CreditedOnce**: a question moves the estimate once. The list of credited ids holds 50, so this rests on the attempts too.
- **GradedAsAsked**: the grade comes from a read before the model call, the stored question from the write. As long as the space is not seeded anew in between they are
  one; if it is, ids start again, and an answer that was compared is stored with the question whose hash its client sent. (It need not have been graded for that one: see the limits below.)
- **RetriesRepeat**, **DraftYields**: what two processes do at once with one request id, or with two; the generation lock
  is local, and the version compared under `question_transaction` decides.
- **SavedKept**, **TypeOK**: the limits together, and locks on every way out.

Proved in `PracticeLoop_proofs`, under `LoopAssumption` (bounds are positive, `None` is nothing else) and `NoneAssumption`, for any threads,
processes, ids, prompts and bounds:

| theorem | statement |
|---|---|
| `TypeCorrect` | `Spec => []TypeOK` |
| `CreditCountsOnce` | `Spec => []CreditedOnce` |
| `SavedStays` | `Spec => []SavedKept` |
| `GradeBelongs` | `Spec => []GradedAsAsked` |
| `RepeatsAreIdempotent` | `Spec => RetriesRepeat` |
| `DraftsYield` | `Spec => DraftYields` |

`CreditedOnce` and `SavedKept` are inductive beside the types. The others need what a thread still knows when it goes on: `Asked` (while the space is not seeded anew, the question
with that id asks what was graded, and after the comparison what the client showed), which needs that an id names one question (`Numbered`, `OnePrompt`: the number of a new question is
new, even to attempts whose question the history gave up); `Drafting` (while the version is that of the snapshot, nothing is pending);
`Unanswered` with `Dropped` (a question leaves the history only when that is full, so one that comes back makes it too long). TLC checked all of them first.

Limits of these properties, each a real behaviour of the model and the code:

- `DraftYields` is about the decision. A retry takes no scope, so it can put a question between the decision and the
  write, which then overwrites it.
- The hash ties an answer to the question its client showed, not to the one it was graded for: the client shows a question, the space is seeded and another one takes its id, the answer
  is graded for that one, and during the call the space is seeded once more and generates the first again. The comparison passes and the grade of the other question is stored. `ComparedIsGraded`
  says, after the comment at `learning/service.py:1933-1935`, that this cannot be; TLC refutes it, without a run of its own.
- Nothing is compared if nothing is pending at that moment, or if the client sends no hash; and a space without attempts
  may be seeded anew between comparison and write, after which ids start again.
- A request id can get a second question if its own question was given up by the history and a save of the pending copy brings it back
  just then.
- The pending question of a plan session that no longer exists can only be replaced: each answer is refused.

### 2.7 PlanCalendar

| variable | in the code |
|---|---|
| `plan` | `plan` of the learning record: its id and its sessions in stored order |
| `topics`, `exam`, `budget` | the topics, `exam_at` and `daily_minutes`, which the code writes together in record and plan |
| `pending` | the pending question's topic and `plan_session_id` |
| `requests` | `targeted_plan_requests` |
| `call` | a targeted plan between the model's answer and its commit |
| `reply` | the operation just done and the review its response promises |

| operation | actions |
|---|---|
| create, add a topic, adjust, regenerate, clear | `CreatePlan`, `AddTopic`, `Adjust`, `Regenerate`, `ClearPlan` |
| `update_plan_session`, with `_displace_for_move` | `UpdateSession` (move, complete, reopen, resize, another topic) |
| `add_plan_session` | `AddSession` |
| a question, an answer and its review | `Ask`, `AskAbout`, `TakeAnswer`, `CreditAnswer` |
| `create_targeted_plan` | `BeginTargeted`, `PutTargeted`, `RefuseTargeted` |

Abstractions. One step per operation, since each is one mutate in the plan's scope; a refused request is no step. A day has a few slots,
the learner stays in one time zone, and sessions overlap when they begin in one slot. Session ids say what they were made from, because the code derives them
or draws them at random. Questions and a first plan do not count in `MaxEdits`.

Run `plan_calendar`: three days of two slots, the clock at the first or second day, two exams, two budgets, two topics, at most one added review, two targeted
requests under one key, 3 edits; 179 185 states. Three edits reach a move that displaces into a day that displaces in turn,
a completion and two new plans, and an edit between the two halves of a targeted plan; longer histories and longer plans are outside the run.
The reply is left out of the fingerprint (`VIEW Record`), because no step reads it.

- **BudgetKept**: no request but a reopening and an answer overloads a day of a plan with different ids. Displacement, capacity checks and the builder each compute loads in their own way.
- **MoveLossless**: the displacement loop changes sessions one by one and may find no place for the last.
- **ProgressCarried**: completions are matched to the new plan by id, by kind and by a credited topic.
- **PromiseKept**: the bounded list of reviews gives up completed ones first.
- **LatePlanSpares**: a plan written on an older record keeps what was completed meanwhile and the session of the pending question.

Real behaviour that the properties leave room for: a session that no day can take makes the displacement loop give up after 2 000 steps or raise
`IndexError` (`learning/service.py:861`), and both refuse; one completion can count for a session with its id and for another of its
kind; with more open reviews than places the earliest goes, against the docstring at `learning/service.py:97`; a client that timed out on a targeted
plan still gets it, over edits made meanwhile, except for the protected sessions.

Why `BudgetKept` speaks of different ids: `add_plan_session` derives an id from the plan, the topic, the time and the *number of sessions* (`learning/service.py:1040`).
An answer that replaces a review by another for the same topic can take one away, or trim completed ones, and so a number comes back: the learner who adds the same session again gets an id twice.
`_assert_daily_capacity` leaves out "the session identified by `target_id`" (line 767), which is then both, and a resize of one can bring a day over the budget that the docstring says is kept. It takes more
edits than the run has: TLC finds it, without `DistinctIds`, with `MaxEdits = 5`, `MaxReviews = 2`, one budget of 2, one exam and an addition of one minute. Trying to prove the
property without that condition led to it.

`PlanCalendar_proofs` proves the five properties for any slots of a day, calendar, exams, budgets, topics, activities, payloads, keys and bounds, under `CalendarAssumption`:

| theorem | states |
|---|---|
| `MovesLoseNothing` | `Spec => MoveLossless` |
| `LatePlansSpare` | `Spec => LatePlanSpares` |
| `PromisesAreKept` | `Spec => PromiseKept` |
| `ProgressIsCarried` | `Spec => ProgressCarried` |
| `BudgetsAreKept` | `Spec => BudgetKept` |

All five are about steps, from the invariant `Shape`: a plan is a finite list of sessions with times and flags, and so is every plan that a model has written. What they rest on are lemmas about lists. `PickedFacts`: what is
picked are the chosen sessions, in full. `DisplacedFacts`: the sweep over the days, by induction over the day, only postpones open sessions, by whole days, and each day's overflow is taken from what the day before
has left there, so nothing passes the exam. `InOrderFacts`: sorting keeps every session, since their ranks are a bijection (`Ranks`). `NewReviewStays`: among the reviews that go first when there are too many is never
the one just added, as long as the open ones are within the bound. `Carried`: of the sessions of one kind in a new plan the first ones are completed, and they are as many as were completed before or as there
are.

`BudgetKept` compares sums, which nothing in the tool adds up: `LoadSteps` shows that the recursive function in `Load` exists, and `LoadCompare` and `LoadAppend` follow by induction over the positions: a load is
at most another one and one session, if it counts besides that session only what the other counts. A move is judged on the *other* sessions of a day (`OthersOn`), and the proof has the same cut. `SettleLoads`: after
its overflow is taken from a day, the latest that is left (`LastOfSome`) and all before it fit, and no day but the next has more than it had. `DisplacedLoads`: over the sweep, by induction over the day, the first day
has room for the moved session, and every other one is within the budget or holds no more than before, except the next one as long as the sweep goes on; it is accepted only when it has come to an end.
`PlacedLoads` puts the moved session back, and it is here that different ids are needed: the cut left out what has its id, and that must be it alone. A targeted plan rests on a second invariant, `CallsDaily`: what a
model has written, and no one has stored yet, has one session a day, of at most the payload's minutes, at its hour (`WrittenDaily`). What is kept beside it are completed sessions, which count for nothing, and the one
of the pending question; this one has the hour, too, so that the written one of its day begins with it and is dropped (`MergedLoads`).

### 2.8 EvaluationRuns

`rows` are the lease rows (`mcp_evaluation_runs`), `idem` the results (`mcp_evaluation_idempotency`), `sandbox` the record of the evaluation
workspace with the fence it is bound to, `planning` and `asking` the scopes around it; `pc`, `token`, `snapshot`, `result` are where a request is and what it has read.

| tool | actions |
|---|---|
| `begin_demo` | `BeginDemo`, `Claim` or `Poll`, `OpenReset`, `CommitReset` or `ResetError`, `Activate`, `Fail`, `GiveUp` |
| `get_context` | `ReadContext`, `Project`, `Vouch`, `Deliver` |
| `get_practice_task` | `ClaimKey`, `Ask`, `Recheck`, `Store`, `Save` or `Replay` |
| `submit_answer` | `ClaimKey`, `Grade`, `RecordGrade`, `Save`, `Complete` or `Replay` |
| time, crashes, start | `Lapse`, `Lost`, `Startup` (purge and recovery) |

Abstractions. A step is one transaction, or a guard and the read beside it; an exception in a transaction rolls back. Time is the flag `lapsed`, which
may be set at any moment; results are purged with runs that may be old whenever a purge runs. Every request is in a process of its own, so the locks
of one process help nobody. A client answers only questions of its own run.

Run `evaluation_runs`: 2 requests, 2 client keys, 2 generations of runs, 1 question and 2 attempts each, crashes anywhere; 800 379 states. Two generations are
a predecessor and a successor in the one sandbox, which is what the fence tells apart; two attempts are the retry and the rival.

- **SandboxUnmixed**, **ReadsOwnRun**: a run that expired during a model call neither writes into its successor nor reads it.
- **GradedOnce**, **CompletedOnRecord**: two processes or two attempts on one question; a crash between grade, result and completion.
- **TypeOK**: one row at most holds the slot, exactly while it seeds or is active.

Stated in the module and refuted by TLC in this instance, so in no run: `SeedingHasSeeder` (a poll takes over a failed seed's
lease without noticing, and the slot stays taken until the lease lapses; `mcp/tools.py:172`) and `ActiveRunIsSeeded` (a request that
stalls for a whole lease after its reset activates the run for the next seeder; `mcp/sandbox.py:263`). The run then refuses its tools; nothing is mixed.

`EvaluationRuns_proofs` proves the following for any requests, client keys, generations and bounds, crashes included, under `EvaluationAssumption`
(the bounds are numbers, `None` is nothing else):

| theorem | states |
|---|---|
| `Invariance` | `Spec => []IInv` |
| `NoRunWritesIntoAnother` | `Spec => []SandboxUnmixed` |
| `NoRunReadsAnother` | `Spec => []ReadsOwnRun` |
| `GradesOnce` | `Spec => []GradedOnce` |
| `CompletesOnRecord` | `Spec => CompletedOnRecord` |
| `TypeCorrect` | `Spec => []TypeOK`: one row at most holds the slot, and exactly while it seeds or is active |

`IInv` is `Leases` (a token names one row), `Box` (questions are numbered, a graded one is not pending, with `SandboxUnmixed` and `GradedOnce`),
`Results` (a result is only of a run that was active) and, per request, `Knows(t)`: what the guards it has passed still say. None of the properties is
inductive alone. `ReadsOwnRun` needs that a request that was vouched for had an active run (`Begun`), that such a run is never seeded again, and hence
that a sandbox that has left it does not come back to it; `CompletedOnRecord` needs that a result on record of a run that is not over is never purged. What a
step does to rows, sandbox and results is summed up in `LeaseStep`, `FenceStep` and `IdemStep`, so that one lemma, `KnowsStays`, keeps the knowledge of
all other requests through every action. TLC checked `IInv` on the instance of the run before it was proved.
`TypeCorrect` has an invariant of its own beside it, `Typed`: `Slots` (a step gives the slot to no row while another has it: a claim looks first, an activation finds
only the one row of its token, which `Leases` says is alone) and, per request, `Called(t)`, what was asked at the steps that still look at it.

### 2.9 Assistants: LearningSpaces, HomeDispatch, AgentChat

| variable | in the code |
|---|---|
| `spaces` | workspace rows and learning records, as counts of their writes inside and outside the plan's scope |
| `links`, `sessions` | material links; conversations with their version and turns |
| `lease` | the owner's recovery lease, which a delete takes |
| `tokens`, `receipts` | signed tokens the client keeps, by their claims; receipts among the journey events |
| `effects` | history: which spaces an operation changed |
| `pc`, `call`, `held` | a request thread: its step, its request, what it has read |

| operation | actions |
|---|---|
| resolve, update, link | `CreateSpace`, `ResolveNew`, `ResolveReused`, `Update`, `WritePlan`, `WriteLoose`, `LinkMaterial` |
| delete in two transactions | `BeginDelete`, `CommitDelete`, `Unlink`, or `PutBack`, `Abandon` |
| home | `ProposeSpace`, `ProposeAction`, `DispatchStrong`, `IssueUndo`, `Revise`, `ConfirmSpace`, `CommitSpace`, `ConfirmAction`, `CommitAction`, `BeginUndo`, `CommitUndo`, `UndoNothing` |
| agent | `BeginChat`, `CommitReply`, `DeleteSession` |

Abstractions. A preview and the commit that compares its snapshot again are one step, unless something falls between; a scope is held by the
thread between two of its steps. The lease of a thread lapses only after it ended. Contents are counted. A client keeps at most `MaxTokens` tokens; an expired one is one it no longer uses.
Which turn a full conversation forgets is open: JSONB has no key order. Home events other than receipts, and the permits of `BoundedIntentExecutor`, are left out.

Run `assistants`: 2 threads, 1 request id, 1 material, 1 conversation, 2 ids of spaces, 1 edit, 1 token, 2 replies, 1 turn kept; 633 707 states. Every pair of requests
meets, with the one edit at every point between their steps; two ids of spaces make an undone and a new space, one request id makes every retry a repeat.

- **ActsOnce** (`OnceOnly!Spec`): confirmations and undos, sent again, to another process or next to each other, take effect once, and the
  receipt comes with the effect. The mapping names `receipts` and `effects`.
- **ActsOnWhatWasSeen**: an undo deletes nothing that came after it was offered; a confirmed change meets the plan it was previewed on.
- **TalksHaveSpace**: a reply written over a delete or an undo, or a delete that is put back, leaves no conversation without its space.

Real behaviour the properties leave room for: writers that take no plan scope may slip between an undo's last comparison and its commit; an exception after the commit
of an undo reaches the client although the undo is saved; a conversation deleted and opened anew under its id with the same version is taken for the old one; a proposal revised while
archived spaces exist is refused though current (`home/service.py:1453` hashes other spaces than line 1519); the quota of spaces does not count archived ones, and unarchiving does not check it.

`Assistants_proofs` proves the three properties for any threads, requests, conversations and bounds, under `SpacesAssumption` (bounds are numbers, `None` is nothing else):

| theorem | states |
|---|---|
| `Invariance` | `Spec => []IInv` |
| `TalksAlwaysHaveSpace` | `Spec => []TalksHaveSpace` |
| `ReceiptsActOnce` | `Spec => ActsOnce`, that is `Spec => Once!Spec` |
| `ActsAsSeen` | `Spec => ActsOnWhatWasSeen` |

`IInv` is `Library` (types of spaces and conversations, ids that only grow, `TalksHaveSpace`), `Promises` (the claims of tokens), `Receipts` (no receipt, no
effect), `Scopes` (a receipt's scope and a plan's scope each have one thread in them) and `Knows(t)`: inside a plan's scope the space exists and the plan is the one that was compared; a
deleting thread holds the lease, and an undo finds materials and conversations as in its token; what a delete keeps in order to put it back belongs together; a confirming
thread has no receipt. `TalksHaveSpace` alone is not inductive: putting back needs the last but one. Every step is shown to leave a thread that does not
take it what it knows (`Away`, `Alone`, `KnowsStays`). That `OnceOnly` is implemented needs that nobody else can write a receipt between the
look for it and the commit, which is `Scopes`. TLC checked `IInv` on the instance of the run; `TypeOK` stays with TLC and is in no run.

### 2.10 HomeRouting

`text` is the set of signals in the learner's words, `listing` how the text refers to each space (named, by topic, archived), `server` whether there is a model, `version`
stands for the state hash that options carry, `card` is what the learner sees. `Dispatch` is the first request (`policy.decide`, candidates, model or
fallback, `_dispatch_decision`), `Choose` an answer to a question (`_dispatch_clarified`), `EditSpace` anything that changes spaces. The table `Rules` is the order of
`HomeRoutingPolicy.decide`. What the model says is any decision its schema admits.

Abstractions. One request is one step; what it writes is in `HomeDispatch`. The order of spaces is fixed. The client picks only options it was offered and
sends none of `Kept`, which the web client handles itself. Refusals for quota or a conflict are left out. Run `home_routing`: 3 spaces, 2 places among the candidates, 1 edit, the texts listed in
`MCHomeRouting`, with a model, without one, and without one for an administrator; 301 080 states.

- **ForbiddenIsRefused**: whatever way through the questions, a request that the learner's own words make forbidden gets no answer, no space and no change (`NothingIsServed`); when its words
  are found in the text as it stands too, nothing but the refusal follows (`RefusalStands`). The policy takes quotations out before it looks for such words (`home/policy.py:219-225`), the
  recovery does not (201-202), so there are two signals: `forbidden` and `verbatim`. The second half rests on `Kept`: with `Kept = {}` TLC finds a way from a refusal over
  `change_question` to a proposal (`home/service.py:722`).
- **CreatesOnlyForGoals**: a space is created without asking only for a goal, never by way of a question, a fallback or a changed list. (An answer decided anew because the list changed may
  create, when the text has such a goal, although the learner chose another option.)

Both are proved for any spaces, texts, servers, bounds and histories under `RoutingAssumption`, in the last part of `Assistants_proofs`, the proofs about what the supervisor does:

| theorem | states |
|---|---|
| `ForbiddenIsNotServed` | `RoutingSpec => []NothingIsServed`, whatever the client sends |
| `ForbiddenStaysRefused` | `ASSUME "change_question" \in Kept PROVE RoutingSpec => []ForbiddenIsRefused` |
| `SpacesAreMadeForGoals` | `RoutingSpec => CreatesOnlyForGoals` |

`ForbiddenIsRefused` is not inductive: a card of a forbidden text must not offer a plan to change either (`Unserved(card)`), and what is offered with a refusal must lead back to it, which is `Refusal(card)`. `FirstRule` shows what the order of the rules gives: a forbidden text is out of scope whatever else is in it, and a
strong signal means a goal alone (`PlainGoal`). Each result is then shown to make no space (`Harmless`) or to do so for a strong signal only (`LongTermOffers`). The hypothesis about `Kept` is what the web client does.

Refuted by TLC without a run: `EveryRefusalStands`, against the message at `home/service.py:707` that a forbidden request is not handled even when it is declared a learning task: `archive "Calculus" workspace` is
refused, because without the quotation it reads `archive workspace`, but the recovery looks at the text with the quotation in it, finds nothing, and asks the general question, whose options lead to a proposal. And `NamedAreCandidates`, against the docstring at `home/policy.py:174`: a space met by topic takes the place of one the text names (line 188).
Not stated: clarifications may repeat without a limit; an archived space that is named answers 409 when no model is configured (`home/service.py:1268`).

### 2.11 Accounts

| variable | in the code (`identity/service.py`) |
|---|---|
| `user`, `version`, `disabled` | the row of the account (password hash and deletion fence), its session version, the key for disabled access, which outlives the account |
| `links`, `stored`, `tokens` | reset links; how often a password was stored (salts); access tokens in clients' hands |
| `rowLock`, `linkLock` | PostgreSQL row locks |
| `pc`, `held` | a request and what it has read |

Actions: `Register`, `IssueToken`, `LoginRead`, `LoginFinish`, `ChangePassword`, `RevokeSessions`, `BeginDeletion`, `DeleteLock`, `DeleteAccount`, `DeletionFails`, `CancelDeletion`,
`RequestReset`, `ResetRead`, `ResetWrite`, `ResetMark`, `ResetCommit`, `Deadlocked`, `AdminPassword`, `DisableAccess`. A step is one statement or one transaction as the locks allow.

Abstractions. One account, several processes over PostgreSQL: the Python lock of the service keeps nobody apart. Expiry is no longer being used. The deletion journal is in
`MaterialLifecycle`. Roles, profiles and mail are left out. Run `accounts`: 2 requests, 2 passwords, 2 links, 4 stored hashes, version up to 2, 1 token; 199 017 states. The version and hash bounds stop
the system, so deadlock is not checked.

`Accounts_proofs` proves all three for any threads, passwords, links and bounds, under `AccountsAssumption`:

| theorem | statement | rests on |
|---|---|---|
| `Invariance` | `Spec => []IInv` | |
| `LoginsBind` | `Spec => []LoginBindsCredential` | `Compared`: a login holds a hash with the password it was compared with |
| `EndedTokensStayEnded` | `Spec => EndedStaysEnded` | `Counted`: a hash stored next is new to every token; `Aged`: no token has a version to come |
| `ResetsSpend` | `Spec => ResetSpendsLinks` | `Held`: a reset has its link locked from the first statement, all open ones from the last |

`EndedStaysEnded` is not inductive because the session version starts from zero again with a new account of the same id, so everything hangs on the salt: `Aged` speaks only of tokens of the stored hash.

Real behaviour the properties leave room for: the token of a registration binds to the row as it is when it is issued; links issued after a reset has marked the others stay open; two resets at once
may deadlock in PostgreSQL, which ends one of them; a first `_signing_secret` and the home token key file (`home/tokens.py:69`) are written without excluding a second process at its first start.

### 2.12 RequestGate

`web`, `evaluation` are the sliding windows as ages of their events, `served` (history) what was really let through, `valid` the tokens that work, `activeGlobal`, `activeByOwner` the counters of uploads, `upload` each upload under way.
`Web` and `Evaluate` are requests of one step, for their checks have no await between them; an upload is `Admit`, `Start`, `Receive`, `BodyTimeout`, `Disconnect`, `Finish`. `ChangeToken` ends a token or gives it back.

Run `request_gate`: 2 uploads, 1 token, a table of 2 keys, windows of 2 ticks, idle limit 1, total limit 2; 251 912 states. Two uploads meet both limits; three web keys are one more than the table holds. Fairness: time passes, timers fire and the
application goes on (`WF` of `Tick`, `Start`, `BodyTimeout`, `Finish`); no client has to send anything. That the application's handler ends is assumed.

- **WindowKept** compares the windows with the history of what was served: purging for a new key must not give an old one a fresh window.
- **SlotsBalance**: the owner of an upload is looked up at the start; its token may stop working before the end.
- **EverySlotReturns**: the total limit ends a client that is never too slow for the idle limit.

`RequestGate_proofs` proves both invariants for any uploads, credentials, keys, limits, requests, table sizes and windows, under `GateAssumption`: a finite set of connections, requests with at least one key (one without is not checked at all), and keys that are those of one limiter, as their
prefixes are.

| theorem | states |
|---|---|
| `SlotsAlwaysBalance` | `Spec => []SlotsBalance` |
| `WindowsKept` | `Spec => []WindowKept` |

`SlotsBalance` is inductive with the types of the counters; the steps that keep uploads and owners keep it (`SameUploads`), and `Admit` and `Finish` change both sides by one (`OneMore`, `OneFewer`).

`WindowKept` is not: that a key has room says how many events its window has, not how many of its requests were served. The invariant `Windows` adds what joins them: the last events of a key stand for its served requests, none of them older (`Covers`), and events come
oldest first (`Sorted`), as an event that stands for no request (another key refused it) must not push an older one into the place of one that does. Then `Live`, which drops a beginning of the events only (`LiveIsEnd`), drops nothing that stands for a request in the window
(`LiveCovers`), whether it is the key that is checked or the whole table that is purged (`CheckCounts`). A request is a sequence of checks of any length: `RequestCounts` goes through them by induction, over the function `After`, for which `AfterStep` shows that there is one.
The tool cannot apply an induction rule to a formula, but it can apply one to a set: `Induction` and `LeastNatural` speak of sets of numbers and follow from the well-founded order of finite sets.

## 3. Plan

Done in this order: `MaterialLifecycle`, `RecordStore`, `PracticeLoop`, `EvaluationRuns`, `Assistants`, `PlanCalendar`, `Accounts`, `RequestGate`, `HomeRouting`, with proofs about all of them. Left:

1. Diagnosis, topics and feedback in the learning record.
2. An atomic library (the set of materials, no journals and no lease) that `MaterialLifecycle` implements for what a reader of rows sees.

## 4. Not modelled

- Text extraction, embedding and search ranking, the scoring of intents against workspaces, difficulty and mastery estimates: functions
  over text and floating point with no state between calls. Their results enter a model as a choice.
- Prompts and the validation of model answers: a remote service. A model call is an outcome, accepted or not.
- The mirror between the local object directory and S3: one object store. A read that finds the local copy missing and
  fetches it does not change what a material has.
- Backup, migration and demonstration commands: run by an operator while the application is down.
- Encrypted settings of integrations: one row with one writer. HTTP routing: maps exceptions to status codes.
- The web front end: holds no state that the server relies on, except that it keeps some options to itself (`Kept` in `HomeRouting`).

Out of reach of the proof system, and so checked by TLC only: liveness under fairness and `ENABLED`. Induction over data is done with sets of numbers (`Induction` in `RequestGate_proofs`, `PlanCalendar_proofs` and `RecordStore_proofs`).
