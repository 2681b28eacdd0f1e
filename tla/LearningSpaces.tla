---------------------------- MODULE LearningSpaces ----------------------------
(***************************************************************************)
(* The learning spaces of one owner, as the home supervisor and the agent   *)
(* see them: a workspace row, the learning record beside it, the links to   *)
(* its materials and the conversations held in it.                          *)
(*                                                                         *)
(* A request that others can overtake between what it reads and what it     *)
(* writes is a thread; every other request is one step.  So is a preview    *)
(* with the commit that compares its snapshot again: a commit that succeeds *)
(* might have been previewed just before.  A scope of the record store is   *)
(* held by the thread that is between two steps of it, with no variable of  *)
(* its own.  Contents are counted, not spelled: a row is the number of its  *)
(* edits, a learning record the numbers of the writes made in the plan's    *)
(* scope and outside it.                                                    *)
(***************************************************************************)
EXTENDS Naturals, FiniteSets

CONSTANTS
  Threads,
  Requests,       \* request ids, chosen by the client
  Materials,
  SessionIds,     \* conversation ids, chosen by the client
  Turns,          \* turn ids, chosen by the client
  MaxWorkspaces,  \* max_workspaces
  MaxSessions,    \* max_sessions
  MaxTurns,       \* MAX_SESSION_TURNS
  MaxIds,         \* bound on the spaces ever created
  MaxEdits,       \* bound on the edits and deletes of all spaces
  MaxReplies,     \* bound on the version of a conversation
  None

\* The row counts its edits; the record its writes in the plan's scope, and others.
Space == [row : Nat, archived : BOOLEAN, plan : Nat, loose : Nat]

ASSUME SpacesAssumption ==
  /\ {MaxWorkspaces, MaxSessions, MaxIds, MaxEdits, MaxReplies} \subseteq Nat
  /\ MaxTurns \in Nat \ {0}
  /\ None \notin Threads \cup Requests /\ None \notin Space

VARIABLES
  spaces,         \* id -> the space, or None
  created,        \* number of ids used so far
  links,          \* id -> materials linked to it, also when it is gone
  sessions,       \* conversation id -> conversation, or None
  lease,          \* the thread that holds the owner's material lease, or None
  edits,          \* edits so far
  pc, call, held  \* thread: next step, its request, what it has read

threads == <<pc, call, held>>
data    == <<spaces, created, links, sessions, edits>>

-----------------------------------------------------------------------------
(* Vocabulary                                                               *)

Ids == 1 .. MaxIds

NewSpace == [row |-> 0, archived |-> FALSE, plan |-> 0, loose |-> 0]

Existing == {w \in Ids : spaces[w] # None}
Visible  == {w \in Existing : ~spaces[w].archived}

\* _workspace_snapshot_hash and _state_hash: equal for equal lists of rows.
Snapshot(ids) == {<<w, spaces[w].row, spaces[w].archived>> : w \in ids}

\* The version of the learning record: its two parts only grow.
Version(w) == <<spaces[w].plan, spaces[w].loose>>

TalksOf(w) == {s \in SessionIds : sessions[s] # None /\ sessions[s].space = w}

\* Every edit and delete counts, and none is made past the bound.
Edit == edits < MaxEdits /\ edits' = edits + 1

\* Threads that are inside the plan scope of w.
InPlanScope(w) == {t \in Threads : pc[t] \in {"moving", "deleting"} /\ call[t].space = w}

Begin(t, c, l) ==
  /\ pc[t] = "idle"
  /\ pc' = [pc EXCEPT ![t] = l]
  /\ call' = [call EXCEPT ![t] = c]

Go(t, l) == pc' = [pc EXCEPT ![t] = l] /\ UNCHANGED call

Finish(t) ==
  /\ pc' = [pc EXCEPT ![t] = "idle"]
  /\ call' = [call EXCEPT ![t] = None]
  /\ held' = [held EXCEPT ![t] = None]

SpacesInit ==
  /\ spaces = [w \in Ids |-> None]
  /\ created = 0
  /\ links = [w \in Ids |-> {}]
  /\ sessions = [s \in SessionIds |-> None]
  /\ lease = None
  /\ edits = 0
  /\ pc = [t \in Threads |-> "idle"]
  /\ call = [t \in Threads |-> None]
  /\ held = [t \in Threads |-> None]

-----------------------------------------------------------------------------
(* Requests of one step                                                     *)

\* PATCH of a workspace: its title or goal, or whether it is archived.  No scope.
Update(w) ==
  /\ w \in Existing /\ Edit
  /\ \E archive \in BOOLEAN :
       spaces' = [spaces EXCEPT ![w].row = @ + 1, ![w].archived = archive]
  /\ UNCHANGED <<created, links, sessions, lease, threads>>

\* A write to the learning record in the plan's scope: an answer, a plan change.
WritePlan(w) ==
  /\ w \in Existing /\ InPlanScope(w) = {} /\ Edit
  /\ spaces' = [spaces EXCEPT ![w].plan = @ + 1]
  /\ UNCHANGED <<created, links, sessions, lease, threads>>

\* A write to it outside that scope: a question stored, a retry, a mark.
WriteLoose(w) ==
  /\ w \in Existing /\ Edit
  /\ spaces' = [spaces EXCEPT ![w].loose = @ + 1]
  /\ UNCHANGED <<created, links, sessions, lease, threads>>

\* A material of the library is linked; refused while somebody holds the lease.
LinkMaterial(w, m) ==
  /\ w \in Existing /\ lease = None /\ Edit
  /\ links' = [links EXCEPT ![w] = @ \cup {m}]
  /\ UNCHANGED <<spaces, created, sessions, lease, threads>>

\* AgentService.delete_session.  No scope.
DeleteSession(s) ==
  /\ sessions[s] # None /\ Edit
  /\ sessions' = [sessions EXCEPT ![s] = None]
  /\ UNCHANGED <<spaces, created, links, lease, threads>>

-----------------------------------------------------------------------------
(* Resolving an intent (POST /workspaces/resolve): preview_resolution, then  *)
(* commit_resolution, which reuses a space or creates one.                   *)

\* The checks of commit_resolution, in the quota's scope.
MayCreate(snapshot) ==
  /\ Cardinality(Visible) < MaxWorkspaces /\ created < MaxIds
  /\ Snapshot(Visible) = snapshot

\* A new row with its learning record.
CreateSpace ==
  /\ created' = created + 1
  /\ spaces' = [spaces EXCEPT ![created'] = NewSpace]
  /\ UNCHANGED <<links, sessions, edits>>

ResolveNew ==
  /\ MayCreate(Snapshot(Visible))
  /\ CreateSpace
  /\ UNCHANGED <<lease, threads>>

\* touch changes the row of a reused space, and a plan it lacks may be made for
\* it in the plan's scope.
ResolveReused(w) ==
  /\ w \in Visible /\ Edit
  /\ \E made \in IF InPlanScope(w) = {} THEN {0, 1} ELSE {0} :
       spaces' = [spaces EXCEPT ![w].row = @ + 1, ![w].plan = @ + made]
  /\ UNCHANGED <<created, links, sessions, lease, threads>>

-----------------------------------------------------------------------------
(* WorkspaceService.delete                                                  *)

\* What the delete keeps in case it must be undone.
KeptCopy(w) == [space |-> spaces[w], talks |-> [s \in TalksOf(w) |-> sessions[s]]]

\* Snapshots and the material lease, inside the plan scope; busy is an error.
BeginDelete(t, w) ==
  /\ w \in Existing /\ InPlanScope(w) = {} /\ lease = None
  /\ Begin(t, [op |-> "delete", request |-> None, space |-> w], "deleting")
  /\ held' = [held EXCEPT ![t] = KeptCopy(w)]
  /\ lease' = t /\ Edit
  /\ UNCHANGED <<spaces, created, links, sessions>>

\* The row, the learning record, the events and the conversations go at once.
RemoveSpace(w) ==
  /\ spaces' = [spaces EXCEPT ![w] = None]
  /\ sessions' = [s \in SessionIds |-> IF s \in TalksOf(w) THEN None ELSE sessions[s]]
  /\ UNCHANGED <<created, links, edits>>

CommitDelete(t) ==
  /\ pc[t] = "deleting" /\ call[t].op = "delete"
  /\ RemoveSpace(call[t].space)
  /\ Go(t, "unlinking")
  /\ UNCHANGED <<held, lease>>

\* unlink_materials and complete: also the end of finalize_deferred_delete.
Unlink(t) ==
  /\ pc[t] = "unlinking"
  /\ links' = [links EXCEPT ![call[t].space] = {}]
  /\ lease' = None
  /\ Finish(t)
  /\ UNCHANGED <<spaces, created, sessions, edits>>

\* A failed unlink puts the rows back, where nobody has made them anew.
PutBack(t) ==
  /\ pc[t] = "unlinking" /\ call[t].op = "delete"
  /\ LET w == call[t].space
         copy == held[t]
     IN /\ spaces' = [spaces EXCEPT ![w] = IF @ = None THEN copy.space ELSE @]
        /\ sessions' = [s \in SessionIds |-> IF s \in DOMAIN copy.talks /\ sessions[s] = None
                                               THEN copy.talks[s] ELSE sessions[s]]
  /\ lease' = None
  /\ Finish(t)
  /\ UNCHANGED <<created, links, edits>>

-----------------------------------------------------------------------------
(* Failures                                                                 *)

\* An error before the commit rolls back the transaction and the lease; one in
\* finalize_deferred_delete rolls back the lease and leaves the links.  When the
\* process ends it is the same, but that the lease lapses later.
Abandon(t) ==
  /\ pc[t] # "idle"
  /\ Finish(t)
  /\ lease' = IF lease = t THEN None ELSE lease
  /\ UNCHANGED data

SpacesNext ==
  \/ \E w \in Ids : Update(w) \/ WritePlan(w) \/ WriteLoose(w) \/ ResolveReused(w)
  \/ ResolveNew
  \/ \E w \in Ids, m \in Materials : LinkMaterial(w, m)
  \/ \E s \in SessionIds : DeleteSession(s)
  \/ \E t \in Threads :
       \/ \E w \in Ids : BeginDelete(t, w)
       \/ CommitDelete(t) \/ Unlink(t) \/ PutBack(t)
       \/ Abandon(t)
=============================================================================
