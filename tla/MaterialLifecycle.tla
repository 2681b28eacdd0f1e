-------------------------- MODULE MaterialLifecycle --------------------------
(***************************************************************************)
(* One learner's material library and the requests that change it: upload, *)
(* link, unlink, analyse, bulk delete, workspace delete, account delete,   *)
(* and what a restarting instance does about deletions a crash cut short.  *)
(*                                                                         *)
(* The library lives in two stores that no transaction spans: object bytes *)
(* (`objs') and SQL rows (`rows', `links', `analyses', `spaces', the       *)
(* account row).  A deletion first copies the bytes into a journal         *)
(* directory, then deletes objects, then rows, then the journal.  One      *)
(* file lock, the recovery lease, keeps these sequences apart.             *)
(*                                                                         *)
(* An action is one durable effect: a lease call, an object call, an SQL   *)
(* transaction or a journal write.  An instance may crash between any two. *)
(***************************************************************************)
EXTENDS Naturals, FiniteSets

CONSTANTS
  Materials,    \* material ids; an id is a hash of the content, so it names the bytes
  Workspaces,   \* learning-space ids (uuids, never used twice)
  Handlers,     \* request threads
  Instances,    \* application instances over one data root
  Journals,     \* deletion ids (uuids) naming journal directories
  Host,         \* Host[h] is the instance that runs handler h
  None,
  MaxCrashes,   \* bound: instance crashes
  MaxErrors     \* bound: failing storage, database or file-system calls

ASSUME ConstantsAssumption ==
  /\ Host \in [Handlers -> Instances]
  /\ Handlers \cap Instances = {}
  /\ None \notin Handlers \cup Instances \cup Workspaces \cup Journals
  /\ MaxCrashes \in Nat
  /\ MaxErrors \in Nat

VARIABLES
  rows,         \* materials with an SQL row in the library
  objs,         \* materials whose object exists in the object store
  links,        \* rows of workspace_materials
  analyses,     \* materials with a stored analysis record
  spaces,       \* workspaces with a record (learning, events and sessions go with it)
  born,         \* workspace ids ever created
  registered,   \* the account row exists
  deletionId,   \* users.deletion_id: the fence of an account deletion, or None
  journals,     \* the journal directories
  lease,        \* holder of the recovery lease: a handler, an instance, or None
  planLock,     \* holder of each workspace's plan_transaction, or None
  server,       \* life cycle of each instance
  pc, sel, todo, done, made, jid, ws,   \* each handler's program counter and locals
  acked,        \* history: workspaces whose deletion was answered 204
  exposed,      \* history: an unresolved journal was left while some instance served
  crashes, errors

store  == <<rows, objs, links, analyses>>
people == <<spaces, born, registered, deletionId>>
locals == <<sel, todo, done, made, jid, ws>>
bounds == <<crashes, errors>>
ghosts == <<acked, exposed>>
vars   == <<store, people, journals, lease, planLock, server, pc, locals, ghosts, bounds>>

-----------------------------------------------------------------------------
(* Vocabulary                                                               *)

NewJournal(kind, manifest) ==
  [kind |-> kind, manifest |-> manifest, entries |-> {}, blobs |-> {}, notes |-> {}]

NoJournal == NewJournal("none", FALSE)

Journal == [kind     : {"none", "material", "account"},
            manifest : BOOLEAN,              \* manifest.json is there
            entries  : SUBSET Materials,     \* what the manifest lists
            blobs    : SUBSET Materials,     \* saved bytes
            notes    : SUBSET Materials]     \* saved analyses

Stages == {"down", "account_lease", "account", "material_lease", "material", "up", "refused"}

\* Program points at which a handler holds the lease.
Holding == {"up_put", "up_undo", "ln_link",
            "del_blob", "del_objs", "del_clean", "rb",
            "wd_commit", "wd_unlink", "wd_clean", "wd_restore_held",
            "ad_fence", "ad_blob", "ad_objs", "ad_clean", "ad_rb", "ad_cancel", "unwind"}

Points == Holding \cup {"idle", "up_lease", "ln_lease", "an_save", "del_lease", "wd_lease",
                       "wd_restore", "ad_lease"}

\* Program points of a request about one workspace.
Targeting == {"ln_lease", "ln_link", "wd_lease", "wd_restore",
              "wd_commit", "wd_unlink", "wd_clean", "wd_restore_held"}

\* Program points of a request with a journal of its own.
Deleting == Holding \ {"up_put", "up_undo", "ln_link"}

Goto(h, point) == pc' = [pc EXCEPT ![h] = point]

\* The request is answered: its locals die with it.
Return(h) ==
  /\ Goto(h, "idle")
  /\ sel'  = [sel  EXCEPT ![h] = {}]
  /\ todo' = [todo EXCEPT ![h] = {}]
  /\ done' = [done EXCEPT ![h] = {}]
  /\ made' = [made EXCEPT ![h] = {}]
  /\ jid'  = [jid  EXCEPT ![h] = None]
  /\ ws'   = [ws   EXCEPT ![h] = None]

At(h, point)  == pc[h] = point
Serving(i)    == server[i] = "up"
Acquire(p)    == lease = None /\ lease' = p
Release       == lease' = None
Error         == errors < MaxErrors /\ errors' = errors + 1 /\ UNCHANGED crashes

\* lock_writable_owner: SQL writes for an owner need the row, without a fence.
Writable == registered /\ deletionId = None

\* A request enters: authenticated (verify_token refuses a fenced account), on a live instance.
Enter(h) == At(h, "idle") /\ Serving(Host[h]) /\ Writable

Open(j)  == journals[j].kind # "none"
Fresh(j) == ~Open(j)
SetJournal(j, r) == journals' = [journals EXCEPT ![j] = r]
Rewrite(j, manifest, entries, blobs, notes) ==
  SetJournal(j, [kind |-> journals[j].kind, manifest |-> manifest, entries |-> entries,
                 blobs |-> blobs, notes |-> notes])

\* The journal of the deletion that h runs.
Mine(h) == journals[jid[h]]

\* A journal directory that no running request will finish.
Abandoned == \E j \in Journals : Open(j) /\ \A h \in Handlers : jid[h] # j

-----------------------------------------------------------------------------
(* Initial state: an installed system, before its first start               *)

Init ==
  /\ rows = {} /\ objs = {} /\ links = {} /\ analyses = {}
  /\ spaces = {} /\ born = {} /\ registered = TRUE /\ deletionId = None
  /\ journals = [j \in Journals |-> NoJournal]
  /\ lease = None
  /\ planLock = [w \in Workspaces |-> None]
  /\ server = [i \in Instances |-> "down"]
  /\ pc = [h \in Handlers |-> "idle"]
  /\ sel = [h \in Handlers |-> {}] /\ todo = sel /\ done = sel /\ made = sel
  /\ jid = [h \in Handlers |-> None] /\ ws = jid
  /\ acked = {} /\ exposed = FALSE
  /\ crashes = 0 /\ errors = 0

-----------------------------------------------------------------------------
(* Accounts and workspaces as far as the library needs them                 *)

\* A learner signs up again: the account id is a hash of the e-mail address.
Register(h) ==
  /\ At(h, "idle") /\ Serving(Host[h]) /\ ~registered
  /\ registered' = TRUE
  /\ UNCHANGED <<store, spaces, born, deletionId, journals, lease, planLock, server, pc,
                 locals, ghosts, bounds>>

CreateSpace(h) ==
  /\ Enter(h)
  /\ \E w \in Workspaces \ born : born' = born \cup {w} /\ spaces' = spaces \cup {w}
  /\ UNCHANGED <<store, registered, deletionId, journals, lease, planLock, server, pc,
                 locals, ghosts, bounds>>

-----------------------------------------------------------------------------
(* Upload: upload_materials, then _store_and_index under the lease          *)

\* The request has read which of its materials already have a row, and extracts the rest.
UploadBegin(h) ==
  /\ Enter(h)
  /\ \E S \in SUBSET Materials, w \in spaces \cup {None} :
       /\ ~ (S \subseteq rows)
       /\ sel'  = [sel EXCEPT ![h] = S]
       /\ todo' = [todo EXCEPT ![h] = S \ rows]
       /\ ws'   = [ws EXCEPT ![h] = w]
  /\ Goto(h, "up_lease")
  /\ UNCHANGED <<store, people, journals, lease, planLock, server, done, made, jid,
                 ghosts, bounds>>

UploadLease(h) ==
  /\ At(h, "up_lease") /\ ws[h] \in spaces \cup {None}
  /\ Acquire(h)
  /\ Goto(h, "up_put")
  /\ UNCHANGED <<store, people, journals, planLock, server, locals, ghosts, bounds>>

\* 409 after a second of waiting, or 404: the workspace went away during extraction.
UploadReject(h) ==
  /\ At(h, "up_lease")
  /\ lease # None \/ ws[h] \notin spaces \cup {None}
  /\ Return(h)
  /\ UNCHANGED <<store, people, journals, lease, planLock, server, ghosts, bounds>>

\* Faulty variant: the undo also covers an object that was there before.
UploadPutOwnsAll(h, m) ==
  /\ At(h, "up_put") /\ m \in todo[h]
  /\ objs' = objs \cup {m}
  /\ todo' = [todo EXCEPT ![h] = @ \ {m}]
  /\ done' = [done EXCEPT ![h] = @ \cup {m}]
  /\ made' = [made EXCEPT ![h] = @ \cup {m}]
  /\ UNCHANGED <<rows, links, analyses, people, journals, lease, planLock, server, pc, sel,
                 jid, ws, ghosts, bounds>>

\* put: creates the object, or finds the same bytes there and does not own the undo.
UploadPut(h, m) ==
  /\ At(h, "up_put") /\ m \in todo[h]
  /\ objs' = objs \cup {m}
  /\ todo' = [todo EXCEPT ![h] = @ \ {m}]
  /\ done' = [done EXCEPT ![h] = @ \cup {m}]
  /\ made' = [made EXCEPT ![h] = @ \cup ({m} \ objs)]
  /\ UNCHANGED <<rows, links, analyses, people, journals, lease, planLock, server, pc, sel,
                 jid, ws, ghosts, bounds>>

\* add_documents_with_quota commits; a workspace upload goes on to link under a new lease.
UploadCommit(h) ==
  /\ At(h, "up_put") /\ todo[h] = {} /\ Writable /\ ws[h] \in spaces \cup {None}
  /\ rows' = rows \cup done[h]
  /\ Release
  /\ IF ws[h] = None
       THEN Return(h)
       ELSE /\ Goto(h, "ln_lease")
            /\ done' = [done EXCEPT ![h] = {}] /\ made' = [made EXCEPT ![h] = {}]
            /\ UNCHANGED <<sel, todo, jid, ws>>
  /\ UNCHANGED <<objs, links, analyses, people, journals, planLock, server, ghosts, bounds>>

\* Faulty variant: a failed upload leaves its objects behind.
UploadFailsKept(h) ==
  /\ At(h, "up_put")
  /\ IF todo[h] = {} THEN UNCHANGED bounds ELSE Error
  /\ Release /\ Return(h)
  /\ UNCHANGED <<store, people, journals, planLock, server, ghosts>>

\* A put fails; or the transaction refuses (quota, file name, fence): undo what was created.
UploadFails(h) ==
  /\ At(h, "up_put")
  /\ IF todo[h] = {} THEN UNCHANGED bounds ELSE Error
  /\ Goto(h, "up_undo")
  /\ UNCHANGED <<store, people, journals, lease, planLock, server, locals, ghosts>>

UploadUndo(h, m) ==
  /\ At(h, "up_undo") /\ m \in made[h]
  /\ objs' = objs \ {m}
  /\ made' = [made EXCEPT ![h] = @ \ {m}]
  /\ UNCHANGED <<rows, links, analyses, people, journals, lease, planLock, server, pc, sel,
                 todo, done, jid, ws, ghosts, bounds>>

\* The lease goes in `finally', whether or not every undo worked.
UploadUndone(h) ==
  /\ At(h, "up_undo")
  /\ IF made[h] = {} THEN UNCHANGED bounds ELSE Error
  /\ Release /\ Return(h)
  /\ UNCHANGED <<store, people, journals, planLock, server, ghosts>>

-----------------------------------------------------------------------------
(* Link, unlink and analyse                                                 *)

LinkBegin(h) ==
  /\ Enter(h)
  /\ \E S \in SUBSET Materials \ {{}}, w \in spaces :
       sel' = [sel EXCEPT ![h] = S] /\ ws' = [ws EXCEPT ![h] = w]
  /\ Goto(h, "ln_lease")
  /\ UNCHANGED <<store, people, journals, lease, planLock, server, todo, done, made, jid,
                 ghosts, bounds>>

\* Faulty variant: the workspace seen before the lease is not looked up again.
LinkLeaseStale(h) ==
  /\ At(h, "ln_lease") /\ sel[h] \subseteq rows
  /\ Acquire(h)
  /\ todo' = [todo EXCEPT ![h] = sel[h]]
  /\ Goto(h, "ln_link")
  /\ UNCHANGED <<store, people, journals, planLock, server, sel, done, made, jid, ws,
                 ghosts, bounds>>

LinkLease(h) ==
  /\ At(h, "ln_lease") /\ ws[h] \in spaces /\ sel[h] \subseteq rows
  /\ Acquire(h)
  /\ todo' = [todo EXCEPT ![h] = sel[h]]
  /\ Goto(h, "ln_link")
  /\ UNCHANGED <<store, people, journals, planLock, server, sel, done, made, jid, ws,
                 ghosts, bounds>>

LinkReject(h) ==
  /\ At(h, "ln_lease")
  /\ lease # None \/ ws[h] \notin spaces \/ ~ (sel[h] \subseteq rows)
  /\ Return(h)
  /\ UNCHANGED <<store, people, journals, lease, planLock, server, ghosts, bounds>>

LinkRow(h, m) ==
  /\ At(h, "ln_link") /\ m \in todo[h] /\ m \in rows /\ Writable
  /\ links' = links \cup {<<ws[h], m>>}
  /\ todo' = [todo EXCEPT ![h] = @ \ {m}]
  /\ UNCHANGED <<rows, objs, analyses, people, journals, lease, planLock, server, pc, sel,
                 done, made, jid, ws, ghosts, bounds>>

\* Faulty variant: the lease is not released in `finally'.
LinkDoneHolding(h) ==
  /\ At(h, "ln_link")
  /\ IF todo[h] = {} \/ ~Writable THEN UNCHANGED bounds ELSE Error
  /\ Return(h)
  /\ UNCHANGED <<store, people, journals, lease, planLock, server, ghosts>>

\* All linked, or a link failed: either way the lease is released in `finally'.
LinkDone(h) ==
  /\ At(h, "ln_link")
  /\ IF todo[h] = {} \/ ~Writable THEN UNCHANGED bounds ELSE Error
  /\ Release /\ Return(h)
  /\ UNCHANGED <<store, people, journals, planLock, server, ghosts>>

\* The whole request is one transaction under the lease; when busy it changes nothing.
Unlink(h) ==
  /\ Enter(h) /\ lease = None
  /\ \E w \in spaces, S \in SUBSET Materials \ {{}} :
       /\ ({w} \X S) \cap links # {}
       /\ links' = links \ ({w} \X S)
  /\ UNCHANGED <<rows, objs, analyses, people, journals, lease, planLock, server, pc, locals,
                 ghosts, bounds>>

\* The model call runs without the lease.
AnalyzeBegin(h, m) ==
  /\ Enter(h) /\ m \in rows
  /\ sel' = [sel EXCEPT ![h] = {m}]
  /\ Goto(h, "an_save")
  /\ UNCHANGED <<store, people, journals, lease, planLock, server, todo, done, made, jid, ws,
                 ghosts, bounds>>

AnalyzeSave(h) ==
  /\ At(h, "an_save") /\ lease = None /\ sel[h] \subseteq rows /\ Writable
  /\ analyses' = analyses \cup sel[h]
  /\ Return(h)
  /\ UNCHANGED <<rows, objs, links, people, journals, lease, planLock, server, ghosts, bounds>>

AnalyzeReject(h) ==
  /\ At(h, "an_save")
  /\ lease # None \/ ~ (sel[h] \subseteq rows) \/ ~Writable
  /\ Return(h)
  /\ UNCHANGED <<store, people, journals, lease, planLock, server, ghosts, bounds>>

-----------------------------------------------------------------------------
(* Bulk delete from the library: prepare, complete, rollback                *)

DeleteBegin(h) ==
  /\ Enter(h)
  /\ \E S \in SUBSET Materials \ {{}} : sel' = [sel EXCEPT ![h] = S]
  /\ Goto(h, "del_lease")
  /\ UNCHANGED <<store, people, journals, lease, planLock, server, todo, done, made, jid, ws,
                 ghosts, bounds>>

\* Faulty variant: the manifest is written before the bytes are saved.
DeletePrepareEarly(h) ==
  /\ At(h, "del_lease") /\ Acquire(h)
  /\ \E j \in Journals :
       /\ Fresh(j)
       /\ SetJournal(j, [NewJournal("material", TRUE) EXCEPT !.entries = sel[h]])
       /\ jid'  = [jid EXCEPT ![h] = j]
  /\ todo' = [todo EXCEPT ![h] = sel[h]]
  /\ Goto(h, "del_blob")
  /\ UNCHANGED <<store, people, planLock, server, sel, done, made, ws, ghosts, bounds>>

\* prepare: the lease, then the journal directory.
DeletePrepare(h) ==
  /\ At(h, "del_lease") /\ Acquire(h)
  /\ \E j \in Journals :
       /\ Fresh(j)
       /\ SetJournal(j, NewJournal("material", FALSE))
       /\ jid'  = [jid EXCEPT ![h] = j]
  /\ todo' = [todo EXCEPT ![h] = sel[h]]
  /\ Goto(h, "del_blob")
  /\ UNCHANGED <<store, people, planLock, server, sel, done, made, ws, ghosts, bounds>>

\* 409: acquire_wait (materials) or acquire (accounts) found the lease taken.
DeleteBusy(h) ==
  /\ At(h, "del_lease") \/ At(h, "ad_lease")
  /\ lease # None
  /\ Return(h)
  /\ UNCHANGED <<store, people, journals, lease, planLock, server, ghosts, bounds>>

\* Read the row and the object, save the bytes, snapshot the analysis.
DeleteBlob(h, m) ==
  /\ At(h, "del_blob") /\ m \in todo[h] /\ m \in rows \cap objs
  /\ Rewrite(jid[h], FALSE, {}, Mine(h).blobs \cup {m}, Mine(h).notes \cup ({m} \cap analyses))
  /\ todo' = [todo EXCEPT ![h] = @ \ {m}]
  /\ UNCHANGED <<store, people, lease, planLock, server, pc, sel, done, made, jid, ws,
                 ghosts, bounds>>

\* MaterialNotFoundError, FileNotFoundError, or a failing read: drop the journal.
DeleteAbort(h) ==
  /\ At(h, "del_blob")
  /\ IF todo[h] \subseteq rows \cap objs THEN Error ELSE UNCHANGED bounds
  /\ Goto(h, "unwind")
  /\ UNCHANGED <<store, people, journals, lease, planLock, server, locals, ghosts>>

\* The manifest is written last: with it the journal is complete.
DeleteManifest(h) ==
  /\ At(h, "del_blob") /\ todo[h] = {}
  /\ Rewrite(jid[h], TRUE, sel[h], Mine(h).blobs, Mine(h).notes)
  /\ todo' = [todo EXCEPT ![h] = sel[h]]
  /\ Goto(h, "del_objs")
  /\ UNCHANGED <<store, people, lease, planLock, server, sel, done, made, jid, ws,
                 ghosts, bounds>>

DeleteObject(h, m) ==
  /\ At(h, "del_objs") /\ m \in todo[h]
  /\ objs' = objs \ {m}
  /\ todo' = [todo EXCEPT ![h] = @ \ {m}]
  /\ UNCHANGED <<rows, links, analyses, people, journals, lease, planLock, server, pc, sel,
                 done, made, jid, ws, ghosts, bounds>>

\* Faulty variant: the analysis outlives its material.
DeleteAnalysisKept(h, m) ==
  /\ At(h, "del_objs") /\ todo[h] = {} /\ m \in sel[h] \ done[h]
  /\ UNCHANGED analyses
  /\ done' = [done EXCEPT ![h] = @ \cup {m}]
  /\ UNCHANGED <<rows, objs, links, people, journals, lease, planLock, server, pc, sel,
                 todo, made, jid, ws, ghosts, bounds>>

\* `done' counts the analyses removed so far.
DeleteAnalysis(h, m) ==
  /\ At(h, "del_objs") /\ todo[h] = {} /\ m \in sel[h] \ done[h]
  /\ analyses' = analyses \ {m}
  /\ done' = [done EXCEPT ![h] = @ \cup {m}]
  /\ UNCHANGED <<rows, objs, links, people, journals, lease, planLock, server, pc, sel,
                 todo, made, jid, ws, ghosts, bounds>>

AllRowsThere(h) == todo[h] = {} /\ done[h] = sel[h] => sel[h] \subseteq rows /\ Writable

\* delete_materials: rows and links of the whole selection in one transaction.
DeleteRows(h) ==
  /\ At(h, "del_objs") /\ todo[h] = {} /\ done[h] = sel[h] /\ AllRowsThere(h)
  /\ rows' = rows \ sel[h]
  /\ links' = links \ (Workspaces \X sel[h])
  /\ Goto(h, "del_clean")
  /\ UNCHANGED <<objs, analyses, people, journals, lease, planLock, server, locals,
                 ghosts, bounds>>

\* Faulty variant: a failed deletion drops its journal without restoring.
DeleteFailsUnrestored(h) ==
  /\ At(h, "del_objs")
  /\ IF AllRowsThere(h) THEN Error ELSE UNCHANGED bounds
  /\ Goto(h, "unwind")
  /\ UNCHANGED <<store, people, journals, lease, planLock, server, sel, todo, done, made, jid, ws,
                 ghosts>>

\* Any exception inside complete: restore every entry.
DeleteFails(h) ==
  /\ At(h, "del_objs")
  /\ IF AllRowsThere(h) THEN Error ELSE UNCHANGED bounds
  /\ todo' = [todo EXCEPT ![h] = sel[h]]
  /\ Goto(h, "rb")
  /\ UNCHANGED <<store, people, journals, lease, planLock, server, sel, done, made, jid, ws,
                 ghosts>>

\* _restore, one entry: the object, then the analysis unless one is there.
RestoreEntry(h, m) ==
  /\ At(h, "rb") /\ m \in todo[h]
  /\ m \in Mine(h).notes => Writable
  /\ objs' = objs \cup {m}
  /\ analyses' = analyses \cup ({m} \cap Mine(h).notes)
  /\ todo' = [todo EXCEPT ![h] = @ \ {m}]
  /\ UNCHANGED <<rows, links, people, journals, lease, planLock, server, pc, sel, done, made,
                 jid, ws, ghosts, bounds>>

\* The compensation itself fails, at some entry whose put may have landed: an outage, or the
\* fence of another deletion refuses the analysis.  The lease goes, journal and damage stay.
RestoreFails(h, m) ==
  /\ At(h, "rb") \/ At(h, "ad_rb")
  /\ m \in todo[h]
  /\ IF At(h, "rb") /\ m \in Mine(h).notes /\ ~Writable THEN UNCHANGED bounds ELSE Error
  /\ objs' \in {objs, objs \cup {m}}
  /\ Release /\ Return(h)
  /\ exposed' = TRUE
  /\ UNCHANGED <<rows, links, analyses, people, journals, planLock, server, acked>>

\* durable_remove_tree and _release, at the end of complete, rollback and aborted prepares.
AtEnd(h) ==
  \/ pc[h] \in {"del_clean", "wd_clean", "ad_clean", "unwind"}
  \/ At(h, "rb") /\ todo[h] = {}

Finish(h) ==
  /\ AtEnd(h)
  /\ SetJournal(jid[h], NoJournal)
  /\ acked' = IF At(h, "wd_clean") THEN acked \cup {ws[h]} ELSE acked
  /\ Release /\ Return(h)
  /\ UNCHANGED <<store, people, planLock, server, exposed, bounds>>

\* rmtree stops half-way with an OSError: any part of the directory may be left.
FinishLeaves(h) ==
  /\ AtEnd(h) /\ Error
  /\ \E kept \in SUBSET Mine(h).blobs, manifest \in {FALSE, Mine(h).manifest} :
       Rewrite(jid[h], manifest, Mine(h).entries, kept, Mine(h).notes)
  /\ acked' = IF At(h, "wd_clean") THEN acked \cup {ws[h]} ELSE acked
  /\ exposed' = TRUE
  /\ Release /\ Return(h)
  /\ UNCHANGED <<store, people, planLock, server>>

-----------------------------------------------------------------------------
(* Workspace delete                                                         *)

\* Enter plan_transaction and take the snapshots.
SpaceDeleteBegin(h) ==
  /\ Enter(h)
  /\ \E w \in spaces :
       /\ planLock[w] = None
       /\ planLock' = [planLock EXCEPT ![w] = h]
       /\ ws' = [ws EXCEPT ![h] = w]
  /\ Goto(h, "wd_lease")
  /\ UNCHANGED <<store, people, journals, lease, server, sel, todo, done, made, jid,
                 ghosts, bounds>>

\* prepare with no material ids: the journal only holds the lease's place.
SpaceDeletePrepare(h) ==
  /\ At(h, "wd_lease") /\ Acquire(h)
  /\ \E j \in Journals :
       /\ Fresh(j)
       /\ SetJournal(j, NewJournal("material", TRUE))
       /\ jid' = [jid EXCEPT ![h] = j]
  /\ sel' = [sel EXCEPT ![h] = {m \in rows : <<ws[h], m>> \in links}]
  /\ Goto(h, "wd_commit")
  /\ UNCHANGED <<store, people, planLock, server, todo, done, made, ws, ghosts, bounds>>

Unlock(h) == planLock' = [planLock EXCEPT ![ws[h]] = None]

\* WorkspaceMaterialMutationBusyError: the transaction rolls back, the handler still restores.
SpaceDeleteBusy(h) ==
  /\ At(h, "wd_lease") /\ lease # None
  /\ Unlock(h)
  /\ Goto(h, "wd_restore")
  /\ UNCHANGED <<store, people, journals, lease, server, locals, ghosts, bounds>>

\* Learning record, journey events, sessions and workspace go in one transaction.
SpaceDeleteCommit(h) ==
  /\ At(h, "wd_commit")
  /\ spaces' = spaces \ {ws[h]}
  /\ Unlock(h)
  /\ Goto(h, "wd_unlink")
  /\ UNCHANGED <<store, born, registered, deletionId, journals, lease, server, locals,
                 ghosts, bounds>>

SpaceDeleteUnlink(h) ==
  /\ At(h, "wd_unlink") /\ (Writable \/ sel[h] = {})
  /\ links' = links \ ({ws[h]} \X sel[h])
  /\ Goto(h, "wd_clean")
  /\ UNCHANGED <<rows, objs, analyses, people, journals, lease, planLock, server, locals,
                 ghosts, bounds>>

\* The deletes, their commit, or the unlink raise.
SpaceDeleteFails(h) ==
  /\ pc[h] \in {"wd_commit", "wd_unlink"}
  /\ IF At(h, "wd_unlink") /\ ~Writable /\ sel[h] # {} THEN UNCHANGED bounds ELSE Error
  /\ planLock' = IF At(h, "wd_commit") THEN [planLock EXCEPT ![ws[h]] = None] ELSE planLock
  /\ Goto(h, "wd_restore_held")
  /\ UNCHANGED <<store, people, journals, lease, server, locals, ghosts>>

\* Faulty variant: the snapshots are put back whether or not the account is fenced.
SpaceDeleteRestoreUnfenced(h) ==
  /\ pc[h] \in {"wd_restore", "wd_restore_held"}
  /\ planLock[ws[h]] = None
  /\ spaces' = spaces \cup {ws[h]}
  /\ IF At(h, "wd_restore") THEN Return(h) ELSE Goto(h, "unwind") /\ UNCHANGED locals
  /\ UNCHANGED <<store, born, registered, deletionId, journals, lease, planLock, server,
                 ghosts, bounds>>

\* Put the snapshots back where nothing is; then give up the journal and the lease, if held.
SpaceDeleteRestore(h) ==
  /\ pc[h] \in {"wd_restore", "wd_restore_held"}
  /\ planLock[ws[h]] = None /\ Writable
  /\ spaces' = spaces \cup {ws[h]}
  /\ IF At(h, "wd_restore") THEN Return(h) ELSE Goto(h, "unwind") /\ UNCHANGED locals
  /\ UNCHANGED <<store, born, registered, deletionId, journals, lease, planLock, server,
                 ghosts, bounds>>

\* The restoring transaction raises before rollback(pending) is reached: nobody releases
\* the lease, which the process keeps until it ends.
SpaceDeleteRestoreFails(h) ==
  /\ pc[h] \in {"wd_restore", "wd_restore_held"}
  /\ IF Writable THEN Error ELSE UNCHANGED bounds
  /\ IF At(h, "wd_restore_held")
       THEN lease' = Host[h] /\ exposed' = TRUE
       ELSE UNCHANGED <<lease, exposed>>
  /\ Return(h)
  /\ UNCHANGED <<store, people, journals, planLock, server, acked>>

-----------------------------------------------------------------------------
(* Account delete                                                           *)

\* preflight_account_deletion passed.
AccountDeleteBegin(h) ==
  /\ Enter(h)
  /\ Goto(h, "ad_lease")
  /\ UNCHANGED <<store, people, journals, lease, planLock, server, locals, ghosts, bounds>>

\* The lease, then a journal with an empty manifest.
AccountDeletePrepare(h) ==
  /\ At(h, "ad_lease") /\ Acquire(h)
  /\ \E j \in Journals :
       /\ Fresh(j)
       /\ SetJournal(j, NewJournal("account", TRUE))
       /\ jid' = [jid EXCEPT ![h] = j]
  /\ Goto(h, "ad_fence")
  /\ UNCHANGED <<store, people, planLock, server, sel, todo, done, made, ws, ghosts, bounds>>

\* begin_account_deletion sets the fence; account_storage_objects lists what to stage.
AccountFence(h) ==
  /\ At(h, "ad_fence") /\ Writable
  /\ deletionId' = jid[h]
  /\ todo' = [todo EXCEPT ![h] = rows]
  /\ Goto(h, "ad_blob")
  /\ UNCHANGED <<store, spaces, born, registered, journals, lease, planLock, server, sel, done,
                 made, jid, ws, ghosts, bounds>>

\* A fence is already there, the account is gone, or the database fails: drop the journal.
AccountRefused(h) ==
  /\ At(h, "ad_fence")
  /\ IF Writable THEN Error ELSE UNCHANGED bounds
  /\ Goto(h, "unwind")
  /\ UNCHANGED <<store, people, journals, lease, planLock, server, locals, ghosts>>

\* One object is staged: its bytes, then a manifest that lists it.
AccountBlob(h, m) ==
  /\ At(h, "ad_blob") /\ m \in todo[h] \cap objs
  /\ Rewrite(jid[h], TRUE, Mine(h).entries \cup {m}, Mine(h).blobs \cup {m}, {})
  /\ todo' = [todo EXCEPT ![h] = @ \ {m}]
  /\ UNCHANGED <<store, people, lease, planLock, server, pc, sel, done, made, jid, ws,
                 ghosts, bounds>>

AccountBlobFails(h) ==
  /\ At(h, "ad_blob")
  /\ IF todo[h] \subseteq objs THEN Error ELSE UNCHANGED bounds
  /\ Goto(h, "ad_cancel")
  /\ UNCHANGED <<store, people, journals, lease, planLock, server, locals, ghosts>>

AccountStaged(h) ==
  /\ At(h, "ad_blob") /\ todo[h] = {}
  /\ todo' = [todo EXCEPT ![h] = Mine(h).entries]
  /\ Goto(h, "ad_objs")
  /\ UNCHANGED <<store, people, journals, lease, planLock, server, sel, done, made, jid, ws,
                 ghosts, bounds>>

AccountObject(h, m) ==
  /\ At(h, "ad_objs") /\ m \in todo[h]
  /\ objs' = objs \ {m}
  /\ todo' = [todo EXCEPT ![h] = @ \ {m}]
  /\ UNCHANGED <<rows, links, analyses, people, journals, lease, planLock, server, pc, sel,
                 done, made, jid, ws, ghosts, bounds>>

\* delete_account: one transaction over everything the account owns, links excepted.
AccountDelete(h) ==
  /\ At(h, "ad_objs") /\ todo[h] = {} /\ registered /\ deletionId = jid[h]
  /\ rows' = {} /\ analyses' = {} /\ spaces' = {}
  /\ registered' = FALSE /\ deletionId' = None
  /\ Goto(h, "ad_clean")
  /\ UNCHANGED <<objs, links, born, journals, lease, planLock, server, locals, ghosts, bounds>>

\* An object delete or the transaction raises: put every staged object back.
AccountFails(h) ==
  /\ At(h, "ad_objs") /\ Error
  /\ todo' = [todo EXCEPT ![h] = Mine(h).entries]
  /\ Goto(h, "ad_rb")
  /\ UNCHANGED <<store, people, journals, lease, planLock, server, sel, done, made, jid, ws,
                 ghosts>>

AccountRestore(h, m) ==
  /\ At(h, "ad_rb") /\ m \in todo[h]
  /\ objs' = objs \cup {m}
  /\ todo' = [todo EXCEPT ![h] = @ \ {m}]
  /\ UNCHANGED <<rows, links, analyses, people, journals, lease, planLock, server, pc, sel,
                 done, made, jid, ws, ghosts, bounds>>

Cancelling(h) == At(h, "ad_cancel") \/ (At(h, "ad_rb") /\ todo[h] = {})

AccountCancel(h) ==
  /\ Cancelling(h)
  /\ deletionId' = IF deletionId = jid[h] THEN None ELSE deletionId
  /\ Goto(h, "unwind")
  /\ UNCHANGED <<store, spaces, born, registered, journals, lease, planLock, server, locals,
                 ghosts, bounds>>

\* The fence cannot be lifted: it and the journal wait for the next start.
AccountCancelFails(h) ==
  /\ Cancelling(h) /\ Error
  /\ Release /\ Return(h)
  /\ exposed' = TRUE
  /\ UNCHANGED <<store, people, journals, planLock, server, acked>>

-----------------------------------------------------------------------------
(* An instance starts, recovers, serves, stops or crashes                   *)

Stage(i, stage) == server' = [server EXCEPT ![i] = stage]
OfKind(kind)    == {j \in Journals : journals[j].kind = kind}

StartInstance(i) ==
  /\ server[i] \in {"down", "refused"}
  /\ Stage(i, "account_lease")
  /\ UNCHANGED <<store, people, journals, lease, planLock, pc, locals, ghosts, bounds>>

\* Faulty variant: recovery does not notice that the lease is taken.
AccountLeaseStolen(i) ==
  /\ server[i] = "account_lease"
  /\ lease' = i /\ Stage(i, "account")
  /\ UNCHANGED <<store, people, journals, planLock, pc, locals, ghosts, bounds>>

\* AccountDeletionCoordinator.recover_pending: a busy lease skips the recovery.
AccountLease(i) ==
  /\ server[i] = "account_lease"
  /\ IF lease = None THEN lease' = i /\ Stage(i, "account")
                     ELSE Stage(i, "material_lease") /\ UNCHANGED lease
  /\ UNCHANGED <<store, people, journals, planLock, pc, locals, ghosts, bounds>>

Interrupted(j) == journals[j].manifest /\ registered /\ deletionId = j

\* The account is still there and fenced by this deletion: put its objects back, one by one.
AccountUndo(i, j, m) ==
  /\ server[i] = "account" /\ j \in OfKind("account") /\ Interrupted(j)
  /\ m \in (journals[j].entries \cap journals[j].blobs) \ objs
  /\ objs' = objs \cup {m}
  /\ UNCHANGED <<rows, links, analyses, people, journals, lease, planLock, server, pc, locals,
                 ghosts, bounds>>

\* cancel_account_deletion: lift the fence.
AccountLift(i, j) ==
  /\ server[i] = "account" /\ j \in OfKind("account") /\ Interrupted(j)
  /\ journals[j].entries \subseteq objs
  /\ deletionId' = None
  /\ UNCHANGED <<store, spaces, born, registered, journals, lease, planLock, server, pc,
                 locals, ghosts, bounds>>

\* Residue of a finished, an undone or a never begun deletion.
AccountPurge(i, j) ==
  /\ server[i] = "account" /\ j \in OfKind("account") /\ ~Interrupted(j)
  /\ SetJournal(j, NoJournal)
  /\ UNCHANGED <<store, people, lease, planLock, server, pc, locals, ghosts, bounds>>

AccountRecovered(i) ==
  /\ server[i] = "account" /\ OfKind("account") = {}
  /\ Release /\ Stage(i, "material_lease")
  /\ UNCHANGED <<store, people, journals, planLock, pc, locals, ghosts, bounds>>

\* MaterialDeletionCoordinator.recover_pending: a busy lease skips, and the instance serves.
MaterialLease(i) ==
  /\ server[i] = "material_lease"
  /\ IF lease = None
       THEN lease' = i /\ Stage(i, "material") /\ UNCHANGED exposed
       ELSE Stage(i, "up") /\ exposed' = (exposed \/ Abandoned) /\ UNCHANGED lease
  /\ UNCHANGED <<store, people, journals, planLock, pc, locals, acked, bounds>>

\* Faulty variant: recovery restores without looking at the rows.
UncommittedBlind(j) == journals[j].manifest

\* Every row is there: the deletion never committed, so its effects are undone.
Uncommitted(j) == journals[j].manifest /\ journals[j].entries \subseteq rows
Restorable(j)  == /\ journals[j].entries \subseteq journals[j].blobs
                  /\ journals[j].notes = {} \/ Writable
Restored(j)    == /\ journals[j].entries \subseteq objs
                  /\ journals[j].notes \subseteq analyses

MaterialUndo(i, j, m) ==
  /\ server[i] = "material" /\ j \in OfKind("material")
  /\ Uncommitted(j) /\ Restorable(j) /\ m \in journals[j].entries
  /\ m \notin objs \/ m \in journals[j].notes \ analyses
  /\ objs' = objs \cup {m}
  /\ analyses' = analyses \cup ({m} \cap journals[j].notes)
  /\ UNCHANGED <<rows, links, people, journals, lease, planLock, server, pc, locals,
                 ghosts, bounds>>

\* Undone; or no manifest; or no row is there, and the analyses go too.
Purgeable(j) ==
  \/ ~journals[j].manifest
  \/ Uncommitted(j) /\ Restorable(j) /\ Restored(j)
  \/ journals[j].entries # {} /\ journals[j].entries \cap rows = {}

MaterialPurge(i, j) ==
  /\ server[i] = "material" /\ j \in OfKind("material") /\ Purgeable(j)
  /\ analyses' = IF Uncommitted(j) \/ ~journals[j].manifest THEN analyses
                                                           ELSE analyses \ journals[j].entries
  /\ SetJournal(j, NoJournal)
  /\ UNCHANGED <<rows, objs, links, people, lease, planLock, server, pc, locals, ghosts, bounds>>

\* "partial SQL state", a blob that is gone, or a fence: create_app raises.
MaterialRefuse(i, j) ==
  /\ server[i] = "material" /\ j \in OfKind("material")
  /\ ~Purgeable(j) /\ ~ (Uncommitted(j) /\ Restorable(j))
  /\ Release /\ Stage(i, "refused")
  /\ UNCHANGED <<store, people, journals, planLock, pc, locals, ghosts, bounds>>

\* Faulty variant: the start does not wait for every journal.
MaterialRecoveredEarly(i) ==
  /\ server[i] = "material"
  /\ Release /\ Stage(i, "up")
  /\ exposed' = (exposed \/ Abandoned)
  /\ UNCHANGED <<store, people, journals, planLock, pc, locals, acked, bounds>>

MaterialRecovered(i) ==
  /\ server[i] = "material" /\ OfKind("material") = {}
  /\ Release /\ Stage(i, "up")
  /\ exposed' = (exposed \/ Abandoned)
  /\ UNCHANGED <<store, people, journals, planLock, pc, locals, acked, bounds>>

\* A failing call during recovery: the start fails, the lease goes.
RecoveryFails(i) ==
  /\ server[i] \in {"account", "material"} /\ Error
  /\ Release /\ Stage(i, "down")
  /\ UNCHANGED <<store, people, journals, planLock, pc, locals, ghosts>>

On(i) == {h \in Handlers : Host[h] = i}

\* The operating system drops the file lock, the database the open transactions.
Crash(i) ==
  /\ server[i] \notin {"down", "refused"}
  /\ crashes < MaxCrashes /\ crashes' = crashes + 1
  /\ Stage(i, "down")
  /\ lease' = IF lease \in On(i) \cup {i} THEN None ELSE lease
  /\ planLock' = [w \in Workspaces |-> IF planLock[w] \in On(i) THEN None ELSE planLock[w]]
  /\ pc'   = [h \in Handlers |-> IF h \in On(i) THEN "idle" ELSE pc[h]]
  /\ sel'  = [h \in Handlers |-> IF h \in On(i) THEN {} ELSE sel[h]]
  /\ todo' = [h \in Handlers |-> IF h \in On(i) THEN {} ELSE todo[h]]
  /\ done' = [h \in Handlers |-> IF h \in On(i) THEN {} ELSE done[h]]
  /\ made' = [h \in Handlers |-> IF h \in On(i) THEN {} ELSE made[h]]
  /\ jid'  = [h \in Handlers |-> IF h \in On(i) THEN None ELSE jid[h]]
  /\ ws'   = [h \in Handlers |-> IF h \in On(i) THEN None ELSE ws[h]]
  /\ UNCHANGED <<store, people, journals, acked, errors>>
  /\ exposed' = (exposed \/ ((\E k \in Instances \ {i} : Serving(k)) /\ Abandoned'))

\* Graceful stop: requests are drained, close() frees a lease that a handler left behind.
StopInstance(i) ==
  /\ Serving(i) /\ \A h \in On(i) : At(h, "idle")
  /\ Stage(i, "down")
  /\ lease' = IF lease = i THEN None ELSE lease
  /\ UNCHANGED <<store, people, journals, planLock, pc, locals, ghosts, bounds>>

-----------------------------------------------------------------------------

\* A new request of the learner.
Request(h) ==
  \/ Register(h)   \/ CreateSpace(h)  \/ UploadBegin(h)      \/ LinkBegin(h)
  \/ Unlink(h)     \/ DeleteBegin(h)  \/ SpaceDeleteBegin(h) \/ AccountDeleteBegin(h)
  \/ \E m \in Materials : AnalyzeBegin(h, m)

\* The next step of a request under way.
Step(h) ==
  \/ UploadLease(h)  \/ UploadReject(h) \/ UploadCommit(h)   \/ UploadFails(h)
  \/ UploadUndone(h)
  \/ LinkLease(h)    \/ LinkReject(h)   \/ LinkDone(h)
  \/ AnalyzeSave(h)  \/ AnalyzeReject(h)
  \/ DeletePrepare(h) \/ DeleteBusy(h)  \/ DeleteAbort(h)    \/ DeleteManifest(h)
  \/ DeleteRows(h)   \/ DeleteFails(h)
  \/ Finish(h)       \/ FinishLeaves(h)
  \/ SpaceDeletePrepare(h) \/ SpaceDeleteBusy(h)    \/ SpaceDeleteCommit(h)
  \/ SpaceDeleteUnlink(h)  \/ SpaceDeleteFails(h)   \/ SpaceDeleteRestore(h)
  \/ SpaceDeleteRestoreFails(h)
  \/ AccountDeletePrepare(h) \/ AccountFence(h)  \/ AccountRefused(h)
  \/ AccountBlobFails(h)     \/ AccountStaged(h) \/ AccountDelete(h)
  \/ AccountFails(h)         \/ AccountCancel(h) \/ AccountCancelFails(h)
  \/ \E m \in Materials :
       \/ UploadPut(h, m)    \/ UploadUndo(h, m)   \/ LinkRow(h, m)
       \/ DeleteBlob(h, m)   \/ DeleteObject(h, m) \/ DeleteAnalysis(h, m)
       \/ RestoreEntry(h, m) \/ RestoreFails(h, m)
       \/ AccountBlob(h, m)  \/ AccountObject(h, m) \/ AccountRestore(h, m)

\* The next step of a start.
Recover(i) ==
  \/ StartInstance(i) \/ AccountLease(i)  \/ AccountRecovered(i)
  \/ MaterialLease(i) \/ MaterialRecovered(i) \/ RecoveryFails(i)
  \/ \E j \in Journals : \/ AccountLift(i, j)  \/ AccountPurge(i, j)
                         \/ MaterialPurge(i, j) \/ MaterialRefuse(i, j)
                         \/ \E m \in Materials : AccountUndo(i, j, m) \/ MaterialUndo(i, j, m)

Next ==
  \/ \E h \in Handlers : Request(h) \/ Step(h)
  \/ \E i \in Instances : Recover(i) \/ Crash(i) \/ StopInstance(i)

Spec == Init /\ [][Next]_vars

\* Threads run, and the supervisor starts an instance that is down.
Fairness ==
  /\ \A h \in Handlers : WF_vars(Step(h))
  /\ \A i \in Instances : WF_vars(Recover(i))

FairSpec == Spec /\ Fairness

-----------------------------------------------------------------------------
(* Properties                                                               *)

TypeOK ==
  /\ rows \subseteq Materials /\ objs \subseteq Materials /\ analyses \subseteq Materials
  /\ links \subseteq Workspaces \X Materials
  /\ spaces \subseteq Workspaces /\ born \subseteq Workspaces /\ acked \subseteq Workspaces
  /\ registered \in BOOLEAN /\ exposed \in BOOLEAN
  /\ deletionId \in Journals \cup {None}
  /\ journals \in [Journals -> Journal]
  /\ lease \in Handlers \cup Instances \cup {None}
  /\ planLock \in [Workspaces -> Handlers \cup {None}]
  /\ server \in [Instances -> Stages]
  /\ pc \in [Handlers -> Points]
  /\ sel \in [Handlers -> SUBSET Materials] /\ todo \in [Handlers -> SUBSET Materials]
  /\ done \in [Handlers -> SUBSET Materials] /\ made \in [Handlers -> SUBSET Materials]
  /\ jid \in [Handlers -> Journals \cup {None}]
  /\ ws \in [Handlers -> Workspaces \cup {None}]
  /\ \A h \in Handlers : /\ pc[h] \in Targeting => ws[h] # None
                         /\ pc[h] \in Deleting => jid[h] # None
  /\ crashes \in 0 .. MaxCrashes /\ errors \in 0 .. MaxErrors

\* The recovery lease excludes: whoever is inside a sequence over both stores, a request or a
\* recovering start, is the one holder (RecoveryLease, deletion.py, _store_and_index).
LeaseOwned ==
  /\ \A h \in Handlers : pc[h] \in Holding <=> lease = h
  /\ \A i \in Instances : /\ server[i] \in {"account", "material"} => lease = i
                          /\ lease = i => server[i] \in {"account", "material", "up"}

\* A journal from which recovery will put the bytes of m back.
Covers(j, m) ==
  /\ journals[j].manifest /\ m \in journals[j].entries \cap journals[j].blobs
  /\ journals[j].kind = "account" => deletionId = j

\* No learner ever loses a file that is still listed: whenever the object behind a row is
\* missing, a complete journal that will be replayed holds its bytes.
BytesRecoverable == \A m \in rows \ objs : \E j \in Journals : Covers(j, m)

\* What makes BytesRecoverable inductive: what each holder of the lease knows at each point.
Running ==
  \A h \in Handlers : /\ pc[h] # "idle" => Serving(Host[h])
                      /\ pc[h] \in {"idle", "up_lease"} => done[h] = {} /\ made[h] = {}

Shape ==
  /\ \A j \in Journals : journals[j].kind = "none" => ~journals[j].manifest
  /\ deletionId # None => registered
  /\ \A j \in Journals : journals[j].kind = "account" /\ deletionId = j
                        => journals[j].entries \subseteq rows

UploadPhase(h) ==
  /\ At(h, "up_put") => done[h] \subseteq objs
  /\ pc[h] \in {"up_put", "up_undo"}
       => \A m \in made[h] \cap rows : \E j \in Journals : Covers(j, m)

DeletePhase(h) ==
  /\ At(h, "del_blob") => /\ Mine(h).kind = "material" /\ ~Mine(h).manifest
                          /\ todo[h] \subseteq sel[h]
                          /\ sel[h] \ todo[h] \subseteq Mine(h).blobs \cap rows
  /\ pc[h] \in {"del_objs", "rb"}
       => /\ Mine(h).kind = "material" /\ Mine(h).manifest /\ Mine(h).entries = sel[h]
          /\ sel[h] \subseteq Mine(h).blobs \cap rows /\ todo[h] \subseteq sel[h]
  /\ At(h, "rb") => sel[h] \ todo[h] \subseteq objs
  /\ At(h, "del_clean") => Mine(h).entries \cap rows = {}

SpacePhase(h) ==
  pc[h] \in {"wd_commit", "wd_unlink", "wd_clean", "wd_restore_held"} => Mine(h).entries = {}

AccountPhase(h) ==
  /\ At(h, "ad_fence") => Mine(h) = NewJournal("account", TRUE)
  /\ pc[h] \in {"ad_blob", "ad_objs", "ad_rb", "ad_cancel"}
       => /\ Mine(h).kind = "account" /\ Mine(h).manifest /\ deletionId = jid[h]
          /\ Mine(h).entries \subseteq Mine(h).blobs
  /\ pc[h] \in {"ad_blob", "ad_cancel"} => Mine(h).entries \subseteq objs
  /\ At(h, "ad_blob") => todo[h] \subseteq rows
  /\ At(h, "ad_objs") \/ At(h, "ad_rb") => todo[h] \subseteq Mine(h).entries
  /\ At(h, "ad_rb") => Mine(h).entries \ todo[h] \subseteq objs
  /\ At(h, "ad_clean") => rows = {}

UnwindPhase(h) ==
  At(h, "unwind") => \/ Mine(h).entries = {} \/ ~Mine(h).manifest
                     \/ Mine(h).kind = "account" /\ deletionId # jid[h]

Phase(h) ==
  UploadPhase(h) /\ DeletePhase(h) /\ SpacePhase(h) /\ AccountPhase(h) /\ UnwindPhase(h)

IInv ==
  /\ TypeOK /\ LeaseOwned /\ Running /\ Shape
  /\ \A h \in Handlers : Phase(h)
  /\ BytesRecoverable

\* Unless a compensation or a clean-up failed while serving, the journals that this code writes
\* never stop the next start, and once an instance serves and no sequence is under way, every
\* listed material has its object and no journal is left over.
RecoveredLibrary ==
  ~exposed =>
    /\ \A i \in Instances : server[i] # "refused"
    /\ lease = None /\ (\E i \in Instances : Serving(i))
         => rows \subseteq objs /\ \A j \in Journals : Open(j) => \E h \in Handlers : jid[h] = j

\* An analysis never outlives its material (or the next upload of the same bytes would show it);
\* and without a crash or an error the two stores agree whenever nobody holds the lease: no
\* concurrent upload, deletion or rejected request leaves an object without a row.
QuietStoresAgree ==
  /\ analyses \subseteq rows
  /\ crashes = 0 /\ errors = 0 /\ lease = None => rows = objs

\* What makes RecoveredLibrary, QuietStoresAgree and LinksJoinLiveEnds inductive, beside IInv.

\* Program points between the fence of an account deletion and its end.
Fencing == {"ad_blob", "ad_objs", "ad_rb", "ad_cancel"}

\* A request has a journal of its own only while it holds the lease.
Owning == \A h \in Handlers : jid[h] # None => pc[h] \in Deleting

\* A library with rows belongs to an account.
Living == rows # {} => registered

\* The workspace of a link is there from the lease to the last row.
LinkTarget == \A h \in Handlers : At(h, "ln_link") => ws[h] \in spaces

\* A bulk deletion that goes on to the rows has left no analysis behind.
Analysed ==
  /\ analyses \subseteq rows
  /\ \A h \in Handlers : /\ pc[h] \in {"del_lease", "del_blob"} => done[h] = {}
                         /\ At(h, "del_objs") => done[h] \cap analyses = {}

\* A complete material journal has every byte it lists, and its rows are all there or all gone.
Complete(j) ==
  journals[j].kind = "material" /\ journals[j].manifest
    => /\ journals[j].notes \subseteq journals[j].entries
       /\ journals[j].entries \subseteq journals[j].blobs
       /\ journals[j].entries \subseteq rows \/ journals[j].entries \cap rows = {}

\* While nothing is exposed: at most one journal is open, it is well formed, and it is the fence's
\* only if it belongs to an account deletion.
Unexposed ==
  /\ \A i \in Instances : server[i] # "refused"
  /\ (\E i \in Instances : Serving(i)) => ~Abandoned
  /\ \A j, k \in Journals : Open(j) /\ Open(k) => j = k
  /\ \A j \in Journals : Complete(j)
  /\ deletionId # None => journals[deletionId].kind = "account" /\ journals[deletionId].manifest
  /\ \A h \in Handlers : /\ pc[h] \in Deleting \ Fencing => deletionId # jid[h]
                         /\ At(h, "del_blob") => Mine(h).notes \subseteq sel[h] \ todo[h]

\* How far rows and objects differ at each point, when no crash and no error has happened.
Levels(h) ==
  /\ ~At(h, "ad_rb")
  /\ pc[h] \in {"up_put", "up_undo"} => objs = rows \cup made[h] /\ made[h] \cap rows = {}
  /\ At(h, "up_put") => made[h] \subseteq done[h]
  /\ At(h, "del_objs") => objs = rows \ (sel[h] \ todo[h])
  /\ At(h, "rb") => objs \subseteq rows /\ rows \ todo[h] \subseteq objs
  /\ At(h, "ad_blob") => rows = Mine(h).entries \cup todo[h]
  /\ At(h, "ad_objs") => rows = Mine(h).entries /\ objs = todo[h]
  /\ pc[h] \in Holding \ {"up_put", "up_undo", "del_objs", "rb", "ad_objs"} => objs = rows
  /\ pc[h] \in Holding \ Fencing => deletionId = None

Balanced ==
  crashes = 0 /\ errors = 0
    => /\ \A h \in Handlers : Levels(h)
       /\ lease \notin Handlers => objs = rows /\ deletionId = None

\* The second inductive invariant.
Tidy == Owning /\ Living /\ LinkTarget /\ Analysed /\ (~exposed => Unexposed) /\ Balanced

\* deletion.py:245: "A leftover or partially removed journal is safe for startup recovery to
\* clean."  Read as: start-up recovery never refuses a journal the coordinators left.  The code
\* does not keep this: TLC refutes it with two materials, one crash and one failing call, which
\* is why RecoveredLibrary excepts a failed clean-up.
LeftoverJournalsAreSafe == \A i \in Instances : server[i] # "refused"

\* A workspace whose deletion was acknowledged stays deleted.
DeletionFinal == acked \cap spaces = {}

\* A link is only ever created between a workspace and a material that both exist: upload
\* extraction and lease waiting re-check what the request saw when it arrived.
LinksJoinLiveEnds ==
  [][\A l \in links' \ links : l[1] \in spaces' /\ l[2] \in rows']_vars

\* While an account deletion is in progress nothing of the account grows, whichever requests
\* were authenticated before the fence (lock_writable_owner).
NothingGrows ==
  deletionId # None /\ deletionId' = deletionId
    => /\ rows' \subseteq rows /\ links' \subseteq links
       /\ analyses' \subseteq analyses /\ spaces' \subseteq spaces

FencedAccountFrozen == [][NothingGrows]_vars

\* Recovery and rollback never bring the bytes of a deleted material back: an object only
\* appears under an uploading handler or behind a row.
NothingResurrected ==
  \A m \in objs' \ objs : m \in rows \/ \E h \in Handlers : lease = h /\ At(h, "up_put")

NoResurrection == [][NothingResurrected]_vars

\* Without a failing call every sequence gives the lease back, also across crashes.
LeaseComesBack == [](errors = 0) => (lease # None ~> lease = None)

\* Without a failing call every journal is resolved in the end, by its request or the next start.
JournalsResolved == [](errors = 0) => \A j \in Journals : Open(j) ~> ~Open(j)

=============================================================================
