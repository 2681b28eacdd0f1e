----------------------------- MODULE HomeDispatch -----------------------------
(***************************************************************************)
(* The home supervisor: it turns a text into an answer, a signed proposal or *)
(* a new space, and carries out what the learner confirms.                   *)
(*                                                                         *)
(* A signed token is a record of its claims.  The client may drop a token   *)
(* whenever it is given another; an expired one is one it no longer uses.   *)
(* A receipt is found under a key that the request id determines.           *)
(***************************************************************************)
EXTENDS LearningSpaces

CONSTANT MaxTokens  \* bound on the tokens a client keeps

ASSUME HomeAssumption == MaxTokens \in Nat \ {0}

VARIABLES
  tokens,         \* claims of the tokens the client keeps
  receipts,       \* keys that have a receipt
  effects         \* history: key -> spaces its operation has changed

home == <<tokens, receipts, effects>>

-----------------------------------------------------------------------------
(* Vocabulary                                                               *)

Operations == {"create", "action", "undo"}
Key(op, r) == <<op, r>>
Keys == Operations \X Requests

Rows == SUBSET (Ids \X Nat \X BOOLEAN)

\* Every state hash stands for the state that was hashed.
CreateToken(r, state, revised) ==
  [op |-> "create", request |-> r, space |-> None, state |-> state, revised |-> revised]
ActionToken(r, w) ==
  [op |-> "action", request |-> r, space |-> w, state |-> Version(w), revised |-> FALSE]

\* _created_workspace_state_hash.
CreatedState(w) ==
  [space |-> spaces[w], links |-> links[w],
   talks |-> {<<s, sessions[s].version>> : s \in TalksOf(w)}]

UndoToken(r, w, state) ==
  [op |-> "undo", request |-> r, space |-> w, state |-> state, revised |-> FALSE]

FreshState == [space |-> NewSpace, links |-> {}, talks |-> {}]

Tokens ==
  [op : {"create"}, request : Requests, space : {None}, state : Rows, revised : BOOLEAN]
    \cup [op : {"action"}, request : Requests, space : Ids, revised : {FALSE},
          state : Nat \X Nat]
    \cup [op : {"undo"}, request : Requests, space : Ids, revised : {FALSE},
          state : [space : Space, links : SUBSET Materials, talks : SUBSET (SessionIds \X Nat)]]

\* Threads inside the receipts scope of a key.
InReceiptScope(k) ==
  {t \in Threads : /\ pc[t] \in {"confirming", "moving", "deleting"}
                   /\ Key(call[t].op, call[t].request) = k}

Issue(token) ==
  \E kept \in SUBSET tokens :
    /\ tokens' = kept \cup {token}
    /\ Cardinality(tokens') <= MaxTokens

HomeInit ==
  /\ tokens = {}
  /\ receipts = {}
  /\ effects = [k \in Keys |-> {}]

\* The receipt and what it is for are one transaction.
Receive(t, changed) ==
  LET k == Key(call[t].op, call[t].request)
  IN /\ receipts' = receipts \cup {k}
     /\ effects' = [effects EXCEPT ![k] = @ \cup changed]

-----------------------------------------------------------------------------
(* dispatch                                                                 *)

\* An ambiguous long-term goal that matches no space: a proposal and its token.
ProposeSpace(r) ==
  /\ Issue(CreateToken(r, Snapshot(Visible), FALSE))
  /\ UNCHANGED <<data, lease, threads, receipts, effects>>

\* A change to a planned session of a space that exists.
ProposeAction(r, w) ==
  /\ w \in Existing
  /\ Issue(ActionToken(r, w))
  /\ UNCHANGED <<data, lease, threads, receipts, effects>>

\* A plain statement of a long-term goal creates a space without asking.
DispatchStrong(t, r) ==
  /\ MayCreate(Snapshot(Visible))
  /\ CreateSpace
  /\ Begin(t, [op |-> "strong", request |-> r, space |-> created'], "issuing")
  /\ UNCHANGED <<held, lease, home>>

\* The undo token is issued after the commit, for the space as it is by then.
IssueUndo(t) ==
  /\ pc[t] = "issuing"
  /\ LET w == call[t].space
     IN IF w \in Existing THEN Issue(UndoToken(call[t].request, w, CreatedState(w)))
                          ELSE UNCHANGED tokens
  /\ Finish(t)
  /\ UNCHANGED <<data, lease, receipts, effects>>

-----------------------------------------------------------------------------
(* revise_workspace_proposal                                                *)

\* Its check hashes the archived spaces too.
MayRevise(token) == Snapshot(Existing) = token.state

Revise(token) ==
  /\ token.op = "create" /\ ~token.revised /\ MayRevise(token)
  /\ Issue([token EXCEPT !.revised = TRUE])
  /\ UNCHANGED <<data, lease, threads, receipts, effects>>

-----------------------------------------------------------------------------
(* confirm                                                                  *)

\* Faulty variant: the receipt is not looked up.
EnterScopeOnly(op, r) == InReceiptScope(Key(op, r)) = {}

\* The scope of the key's receipt.  A request whose receipt is there is answered
\* with it; the proposal, its key and the request must be those of the token.
EnterReceiptScope(op, r) ==
  Key(op, r) \notin receipts /\ InReceiptScope(Key(op, r)) = {}

ConfirmSpace(t, token) ==
  /\ token.op = "create" /\ EnterReceiptScope("create", token.request)
  /\ Begin(t, [op |-> "create", request |-> token.request, space |-> None], "confirming")
  /\ held' = [held EXCEPT ![t] = token]
  /\ UNCHANGED <<data, lease, home>>

\* commit_resolution with the snapshot of the preview; otherwise it is a conflict.
CommitSpace(t) ==
  /\ pc[t] = "confirming" /\ MayCreate(held[t].state)
  /\ CreateSpace
  /\ Issue(UndoToken(call[t].request, created', FreshState))
  /\ Receive(t, {created'})
  /\ Finish(t)
  /\ UNCHANGED lease

\* The version is compared before the plan's scope, and again inside it.
SamePlan(token) == token.space \in Existing /\ Version(token.space) = token.state

ConfirmAction(t, token) ==
  /\ token.op = "action" /\ EnterReceiptScope("action", token.request)
  /\ InPlanScope(token.space) = {}
  /\ SamePlan(token)
  /\ Begin(t, [op |-> "action", request |-> token.request, space |-> token.space], "moving")
  /\ held' = [held EXCEPT ![t] = token]
  /\ UNCHANGED <<data, lease, home>>

\* update_plan_session writes what it finds by then.
CommitAction(t) ==
  /\ pc[t] = "moving"
  /\ spaces' = [spaces EXCEPT ![call[t].space].plan = @ + 1]
  /\ Receive(t, {call[t].space})
  /\ Finish(t)
  /\ UNCHANGED <<created, links, sessions, edits, lease, tokens>>

-----------------------------------------------------------------------------
(* undo_created_workspace: in the plan's scope and that of the receipt       *)

\* The space is gone already: a receipt and nothing else.
UndoNothing(token) ==
  /\ token.op = "undo" /\ EnterReceiptScope("undo", token.request)
  /\ token.space \notin Existing
  /\ receipts' = receipts \cup {Key("undo", token.request)}
  /\ UNCHANGED <<data, lease, threads, tokens, effects>>

\* Faulty variant: the state is not compared.
UntouchedAssumed(token) == TRUE

Untouched(token) == CreatedState(token.space) = token.state

\* The lease first, then the comparison; busy or changed is a conflict.
BeginUndo(t, token) ==
  /\ token.op = "undo" /\ EnterReceiptScope("undo", token.request)
  /\ token.space \in Existing /\ InPlanScope(token.space) = {} /\ lease = None
  /\ Untouched(token)
  /\ Begin(t, [op |-> "undo", request |-> token.request, space |-> token.space], "deleting")
  /\ held' = [held EXCEPT ![t] = token]
  /\ lease' = t
  /\ UNCHANGED <<data, home>>

\* The delete, the receipt and the commit; the materials are left for later.
CommitUndo(t) ==
  /\ pc[t] = "deleting" /\ call[t].op = "undo"
  /\ RemoveSpace(call[t].space)
  /\ Receive(t, {call[t].space})
  /\ Go(t, "unlinking")
  /\ UNCHANGED <<held, lease, tokens>>

-----------------------------------------------------------------------------
HomeNext ==
  \/ \E r \in Requests : ProposeSpace(r) \/ \E w \in Ids : ProposeAction(r, w)
  \/ \E token \in tokens : Revise(token) \/ UndoNothing(token)
  \/ \E t \in Threads :
       \/ \E r \in Requests : DispatchStrong(t, r)
       \/ IssueUndo(t)
       \/ \E token \in tokens : ConfirmSpace(t, token) \/ ConfirmAction(t, token) \/ BeginUndo(t, token)
       \/ CommitSpace(t) \/ CommitAction(t) \/ CommitUndo(t)

\* What the receipts promise.
Once == INSTANCE OnceOnly WITH
          Keys <- Keys, Targets <- Ids,
          done <- receipts, effects <- effects
=============================================================================
