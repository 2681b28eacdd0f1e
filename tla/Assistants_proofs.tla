-------------------------- MODULE Assistants_proofs --------------------------
(***************************************************************************)
(* Proofs about Assistants: the supervisor's receipts implement OnceOnly,   *)
(* what it does is done to what the learner saw, and no conversation        *)
(* outlives its space.  The last part is about HomeRouting, what the        *)
(* supervisor decides before any of that: the two share no variable.        *)
(***************************************************************************)
EXTENDS Assistants, HomeRouting, TLAPS

-----------------------------------------------------------------------------
(* The inductive invariant                                                  *)

AnyTalk == [space : Ids, version : Nat, turns : SUBSET Turns]

\* Spaces get new ids, and conversations are held in spaces that exist.
Library ==
  /\ created \in Nat
  /\ DOMAIN spaces = Ids /\ DOMAIN links = Ids /\ DOMAIN sessions = SessionIds
  /\ \A w \in Existing : spaces[w] \in Space /\ w <= created
  /\ \A s \in Conversations : sessions[s] \in AnyTalk
  /\ TalksHaveSpace

\* What the client has been given to confirm or undo.
Promise(token) ==
  /\ DOMAIN token = {"op", "request", "space", "state", "revised"}
  /\ token.op \in Operations /\ token.request \in Requests
  /\ token.op # "create" => token.space \in Ids

Promises == \A token \in tokens : Promise(token)

\* Without a receipt nothing has been done.
Receipts ==
  /\ receipts \subseteq Keys /\ effects = [k \in Keys |-> effects[k]]
  /\ \A k \in Keys \ receipts : effects[k] = {}

Locals == DOMAIN pc = Threads /\ DOMAIN call = Threads /\ DOMAIN held = Threads

Signed == {"confirming", "moving", "deleting"}
Planned == {"moving", "deleting"}

KeyOf(t) == Key(call[t].op, call[t].request)

\* A scope is held by one thread.
Scopes ==
  \A t, u \in Threads :
    \/ pc[t] \in Signed /\ pc[u] \in Signed /\ KeyOf(t) = KeyOf(u)
    \/ pc[t] \in Planned /\ pc[u] \in Planned /\ call[t].space = call[u].space
    => t = u

\* What a delete keeps can be put back: the space with its own conversations.
CopyIsWhole(t) ==
  /\ held[t].space \in Space
  /\ \A s \in DOMAIN held[t].talks :
       held[t].talks[s] \in AnyTalk /\ held[t].talks[s].space = call[t].space

\* What a thread knows at each of its steps.
Knows(t) ==
  /\ pc[t] = "confirming" => call[t].op = "create"
  /\ pc[t] = "moving" => call[t].op = "action" /\ MovesAsSeen(t)
  /\ pc[t] \in {"deleting", "unlinking"} =>
       /\ call[t].op \in {"delete", "undo"}
       /\ call[t].space \in Ids /\ call[t].space <= created /\ lease = t
       /\ call[t].op = "delete" => CopyIsWhole(t)
  /\ pc[t] \in Planned => call[t].space \in Existing
  /\ pc[t] = "deleting" /\ call[t].op = "undo" => UndoesAsSeen(t)
  /\ pc[t] \in Signed /\ call[t].op # "delete" => KeyOf(t) \in Keys \ receipts
  /\ pc[t] = "issuing" => call[t].request \in Requests
  /\ pc[t] = "replying" =>
       call[t].space \in Ids /\ call[t].talk \in SessionIds /\ call[t].turn \in Turns

IInv ==
  /\ Library /\ Promises /\ Receipts /\ Locals /\ Scopes
  /\ \A t \in Threads : Knows(t)

-----------------------------------------------------------------------------
(* What a step leaves to the threads that do not take it                    *)

\* A thread inside a plan's scope finds the plan as it was; one that deletes also
\* the materials, and no other conversations.
Away(u) ==
  /\ created <= created'
  /\ pc[u] \in Planned =>
       /\ spaces'[call[u].space] # None
       /\ spaces'[call[u].space].plan = spaces[call[u].space].plan
  /\ pc[u] = "deleting" =>
       /\ links'[call[u].space] = links[call[u].space]
       /\ \A s \in SessionIds :
            sessions'[s] # None /\ sessions'[s].space = call[u].space =>
              sessions'[s] = sessions[s]

\* Its lease and its missing receipt are its own as well.
Alone(u) ==
  /\ lease = u /\ pc[u] \in {"deleting", "unlinking"} => lease' = u
  /\ pc[u] \in Signed /\ call[u].op # "delete" => KeyOf(u) \notin receipts' \ receipts

Waits(u) == pc'[u] = pc[u] /\ call'[u] = call[u] /\ held'[u] = held[u]

LEMMA KnowsStays ==
  ASSUME Library, Library', NEW u \in Threads, Knows(u), Away(u), Alone(u), Waits(u)
  PROVE  Knows(u)'
  <1>1. call[u].space \in Existing /\ pc[u] \in Planned => call[u].space \in Existing'
    BY DEF Existing, Away
  <1>2. pc[u] = "moving" /\ MovesAsSeen(u) => MovesAsSeen(u)'
    BY DEF MovesAsSeen, Away, Waits, Planned
  <1>3. pc[u] = "deleting" /\ UndoesAsSeen(u) => UndoesAsSeen(u)'
    BY DEF UndoesAsSeen, Away, Waits, Planned, TalksOf
  <1>4. CopyIsWhole(u) => CopyIsWhole(u)'
    BY DEF CopyIsWhole, Waits
  <1>5. KeyOf(u)' = KeyOf(u)
    BY DEF KeyOf, Key, Waits
  <1>6. created \in Nat /\ created' \in Nat
    BY DEF Library
  <1>7. pc[u] \in {"deleting", "unlinking"} /\ lease = u => lease' = u
    BY DEF Alone
  <1>8. pc[u] \in Signed /\ call[u].op # "delete" /\ KeyOf(u) \in Keys \ receipts =>
          KeyOf(u)' \in Keys \ receipts'
    BY <1>5 DEF Alone
  <1>9. /\ pc[u] \in Planned => call[u].space \in Existing'
        /\ pc[u] = "moving" => MovesAsSeen(u)'
        /\ pc[u] = "deleting" /\ call[u].op = "undo" => UndoesAsSeen(u)'
    BY <1>1, <1>2, <1>3 DEF Knows
  <1>10. pc[u] \in {"deleting", "unlinking"} =>
          /\ call[u].space <= created' /\ lease' = u
          /\ call[u].op = "delete" => CopyIsWhole(u)'
    <2>1. pc[u] \in {"deleting", "unlinking"} => call[u].space \in Nat
      BY DEF Knows, Ids
    <2> QED BY <1>4, <1>6, <1>7, <2>1 DEF Knows, Away
  <1>11. pc[u] \in Signed /\ call[u].op # "delete" => KeyOf(u)' \in Keys \ receipts'
    BY <1>8 DEF Knows
  <1> QED
    BY <1>9, <1>10, <1>11 DEF Knows, Waits

-----------------------------------------------------------------------------
(* The library and the threads, step by step                                *)

\* A request that touches one space leaves its plan alone while a thread is in
\* the plan's scope.
LEMMA EditLibrary ==
  ASSUME IInv, NEW w \in Ids, Update(w) \/ WritePlan(w) \/ WriteLoose(w) \/ ResolveReused(w)
  PROVE  Library' /\ \A u \in Threads : Away(u)
  <1>1. PICK next \in Space :
          /\ spaces' = [spaces EXCEPT ![w] = next]
          /\ InPlanScope(w) # {} => next.plan = spaces[w].plan
    <2>1. spaces[w] \in Space
      BY DEF IInv, Library, Existing, Visible, Update, WritePlan, WriteLoose, ResolveReused
    <2> QED
      BY <2>1 DEF Update, WritePlan, WriteLoose, ResolveReused, Space
  <1>2. spaces[w] # None /\ next # None /\ UNCHANGED <<created, links, sessions>>
    BY SpacesAssumption
       DEF Update, WritePlan, WriteLoose, ResolveReused, Existing, Visible
  <1>3. Library'
    BY <1>1, <1>2 DEF IInv, Library, TalksHaveSpace, Conversations, Existing
  <1>4. ASSUME NEW u \in Threads PROVE Away(u)
    <2>1. pc[u] \in Planned => spaces[call[u].space] # None /\ call[u].space \in Ids
      BY DEF IInv, Knows, Existing
    <2>2. pc[u] \in Planned /\ call[u].space = w => u \in InPlanScope(w)
      BY DEF InPlanScope, Planned
    <2> QED
      BY <1>1, <1>2, <2>1, <2>2 DEF Away, IInv, Library
  <1> QED BY <1>3, <1>4

\* A new space has a new id.
LEMMA CreateLibrary ==
  ASSUME IInv, CreateSpace, created < MaxIds
  PROVE  Library' /\ created' \in Ids /\ \A u \in Threads : Away(u)
  <1>1. created' \in Ids /\ created \in Nat /\ created' = created + 1
    BY SpacesAssumption DEF IInv, Library, CreateSpace, Ids
  <1>2. NewSpace \in Space /\ NewSpace # None
    <2>1. NewSpace \in Space
      BY DEF NewSpace, Space
    <2> QED BY <2>1, SpacesAssumption
  <1>3. created' \notin Existing
    BY <1>1 DEF IInv, Library
  <1>4. spaces' = [spaces EXCEPT ![created'] = NewSpace] /\ UNCHANGED <<links, sessions>>
    BY DEF CreateSpace
  <1>5. Library'
    <2>1. \A w \in Existing' : spaces'[w] \in Space /\ w <= created'
      BY <1>1, <1>2, <1>4 DEF IInv, Library, Existing, Ids
    <2>2. Existing \subseteq Existing'
      BY <1>2, <1>4 DEF IInv, Library, Existing
    <2> QED
      BY <1>1, <1>4, <2>1, <2>2 DEF IInv, Library, TalksHaveSpace, Conversations
  <1>6. ASSUME NEW u \in Threads PROVE Away(u)
    BY <1>1, <1>3, <1>4 DEF Away, IInv, Library, Knows, Existing
  <1> QED BY <1>1, <1>5, <1>6

\* A material is linked while nobody deletes.
LEMMA LinkLibrary ==
  ASSUME IInv, NEW w \in Ids, NEW m \in Materials, LinkMaterial(w, m)
  PROVE  Library' /\ \A u \in Threads : Away(u)
  <1>1. Library'
    BY DEF IInv, Library, LinkMaterial, TalksHaveSpace, Conversations, Existing
  <1>2. ASSUME NEW u \in Threads PROVE pc[u] # "deleting"
    BY SpacesAssumption DEF IInv, Knows, LinkMaterial
  <1> QED
    BY <1>1, <1>2 DEF Away, LinkMaterial, IInv, Library, Knows, Existing

LEMMA SessionLibrary ==
  ASSUME IInv, NEW s \in SessionIds, DeleteSession(s)
  PROVE  Library' /\ \A u \in Threads : Away(u)
  <1>1. Library'
    BY DEF IInv, Library, DeleteSession, TalksHaveSpace, Conversations, Existing
  <1> QED
    BY <1>1 DEF Away, DeleteSession, IInv, Library, Knows, Existing

\* Two threads never delete at once.
LEMMA OneDeletes ==
  ASSUME IInv, NEW t \in Threads, NEW u \in Threads,
         pc[t] \in {"deleting", "unlinking"}, pc[u] \in {"deleting", "unlinking"}
  PROVE  t = u
  BY DEF IInv, Knows

\* A space goes with its conversations, inside the scope of its plan.
LEMMA RemoveLibrary ==
  ASSUME IInv, NEW t \in Threads, pc[t] = "deleting", RemoveSpace(call[t].space)
  PROVE  Library' /\ \A u \in Threads \ {t} : Away(u)
  <1>1. call[t].space \in Ids
    BY DEF IInv, Knows
  <1>2. Library'
    BY <1>1 DEF IInv, Library, RemoveSpace, TalksHaveSpace, Conversations, Existing, TalksOf
  <1>3. ASSUME NEW u \in Threads \ {t} PROVE Away(u)
    <2>1. pc[u] # "deleting"
      BY OneDeletes
    <2>2. pc[u] \in Planned => call[u].space # call[t].space
      BY DEF IInv, Scopes, Planned
    <2> QED
      BY <1>1, <2>1, <2>2 DEF Away, RemoveSpace, IInv, Library, Knows, Existing
  <1> QED BY <1>2, <1>3

LEMMA UnlinkLibrary ==
  ASSUME IInv, NEW t \in Threads, Unlink(t)
  PROVE  Library' /\ \A u \in Threads \ {t} : Away(u)
  <1>1. Library'
    BY DEF IInv, Library, Unlink, TalksHaveSpace, Conversations, Existing
  <1>2. ASSUME NEW u \in Threads \ {t} PROVE pc[u] # "deleting"
    BY OneDeletes DEF Unlink
  <1> QED
    BY <1>1, <1>2 DEF Away, Unlink, IInv, Library, Knows, Existing

\* What is put back is a space with conversations of its own.
LEMMA PutBackLibrary ==
  ASSUME IInv, NEW t \in Threads, PutBack(t)
  PROVE  Library' /\ \A u \in Threads \ {t} : Away(u)
  <1> DEFINE w == call[t].space
             copy == held[t]
  <1>1. w \in Ids /\ w <= created /\ CopyIsWhole(t)
    BY DEF IInv, Knows, PutBack
  <1>2. /\ spaces' = [spaces EXCEPT ![w] = IF @ = None THEN copy.space ELSE @]
        /\ sessions' = [s \in SessionIds |->
                          IF s \in DOMAIN copy.talks /\ sessions[s] = None
                            THEN copy.talks[s] ELSE sessions[s]]
        /\ UNCHANGED <<created, links>>
    BY DEF PutBack
  <1>3. copy.space \in Space /\ copy.space # None
    BY <1>1, SpacesAssumption DEF CopyIsWhole
  <1>4. Existing \cup {w} \subseteq Existing'
    BY <1>1, <1>2, <1>3 DEF IInv, Library, Existing
  <1>5. Library'
    <2>1. \A v \in Existing' : spaces'[v] \in Space /\ v <= created'
      BY <1>1, <1>2, <1>3 DEF IInv, Library, Existing
    <2>2. \A s \in Conversations' : sessions'[s] \in AnyTalk /\ sessions'[s].space \in Existing'
      BY <1>1, <1>2, <1>4 DEF IInv, Library, CopyIsWhole, Conversations, TalksHaveSpace
    <2> QED
      BY <1>2, <2>1, <2>2 DEF IInv, Library, TalksHaveSpace
  <1>6. ASSUME NEW u \in Threads \ {t} PROVE Away(u)
    <2>1. pc[u] # "deleting"
      BY OneDeletes DEF PutBack
    <2> QED
      BY <1>2, <2>1 DEF Away, IInv, Library, Knows, Existing
  <1> QED BY <1>5, <1>6

\* The confirmed change is made in the scope of the plan.
LEMMA MoveLibrary ==
  ASSUME IInv, NEW t \in Threads, CommitAction(t)
  PROVE  Library' /\ \A u \in Threads \ {t} : Away(u)
  <1>1. PICK next \in Space : spaces' = [spaces EXCEPT ![call[t].space] = next]
    <2>1. spaces[call[t].space] \in Space
      BY DEF IInv, Library, Knows, CommitAction, Planned
    <2>2. [spaces[call[t].space] EXCEPT !.plan = @ + 1] \in Space
      BY <2>1 DEF Space
    <2> QED BY <2>2 DEF CommitAction
  <1>2. next # None /\ call[t].space \in Existing
    BY SpacesAssumption DEF IInv, Knows, CommitAction, Planned
  <1>3. Library'
    BY <1>1, <1>2 DEF IInv, Library, CommitAction, TalksHaveSpace, Conversations, Existing
  <1>4. ASSUME NEW u \in Threads \ {t}, pc[u] \in Planned PROVE call[u].space # call[t].space
    BY <1>4 DEF IInv, Scopes, CommitAction, Planned
  <1> QED
    BY <1>1, <1>3, <1>4 DEF Away, CommitAction, IInv, Library, Knows, Existing, Planned

LEMMA LongerTalk ==
  ASSUME NEW talk \in AnyTalk, NEW turns \in SUBSET Turns
  PROVE  /\ [talk EXCEPT !.version = @ + 1, !.turns = turns] \in AnyTalk
         /\ [talk EXCEPT !.version = @ + 1, !.turns = turns].space = talk.space
  <1> DEFINE longer == [talk EXCEPT !.version = @ + 1]
  <1>1. longer \in AnyTalk /\ longer.space = talk.space
    BY DEF AnyTalk
  <1>2. [talk EXCEPT !.version = @ + 1, !.turns = turns] = [longer EXCEPT !.turns = turns]
    OBVIOUS
  <1> HIDE DEF longer
  <1>3. [longer EXCEPT !.turns = turns] \in AnyTalk
    BY <1>1 DEF AnyTalk
  <1>4. [longer EXCEPT !.turns = turns].space = longer.space
    BY <1>1 DEF AnyTalk
  <1> QED BY <1>1, <1>2, <1>3, <1>4

\* A reply is stored in a space that exists and that nobody is deleting.
LEMMA ReplyLibrary ==
  ASSUME IInv, NEW t \in Threads, CommitReply(t)
  PROVE  Library' /\ \A u \in Threads \ {t} : Away(u)
  <1> DEFINE s == call[t].talk
  <1>1. call[t].space \in Ids /\ s \in SessionIds /\ call[t].turn \in Turns
    BY DEF IInv, Knows, CommitReply
  <1>2. \/ UNCHANGED sessions
        \/ \E talk \in AnyTalk :
             /\ talk.space = call[t].space /\ call[t].space \in Existing
             /\ sessions' = [sessions EXCEPT ![s] = talk]
    <2>1. CASE ~StillThere(call[t].space)
      BY <2>1 DEF CommitReply
    <2>2. ASSUME StillThere(call[t].space), held[t] # 0, MayAppend(t, s),
                 NEW turns \in Remember(sessions[s].turns, call[t].turn),
                 sessions' = [sessions EXCEPT ![s] =
                                [sessions[s] EXCEPT !.version = @ + 1, !.turns = turns]]
          PROVE  \E talk \in AnyTalk :
                   /\ talk.space = call[t].space /\ call[t].space \in Existing
                   /\ sessions' = [sessions EXCEPT ![s] = talk]
      <3>1. sessions[s] \in AnyTalk /\ sessions[s].space = call[t].space
        BY <1>1, <2>2 DEF MayAppend, IInv, Library, Conversations
      <3>2. turns \in SUBSET Turns
        BY <1>1, <2>2, <3>1 DEF Remember, AnyTalk
      <3> QED BY <2>2, <3>1, <3>2, LongerTalk DEF StillThere
    <2>3. [space |-> call[t].space, version |-> 1, turns |-> {call[t].turn}] \in AnyTalk
      BY <1>1 DEF AnyTalk
    <2> QED
      BY <1>1, <2>1, <2>2, <2>3 DEF CommitReply, StillThere
  <1>3. UNCHANGED <<spaces, created, links>> /\ InPlanScope(call[t].space) = {}
    BY DEF CommitReply
  <1>4. Library'
    BY <1>2, <1>3 DEF IInv, Library, TalksHaveSpace, Conversations, Existing
  <1>5. ASSUME NEW u \in Threads \ {t} PROVE Away(u)
    <2>1. pc[u] = "deleting" => call[u].space # call[t].space
      BY <1>3 DEF InPlanScope
    <2> QED
      BY <1>2, <1>3, <2>1 DEF Away, IInv, Library, Knows, Existing, Planned
  <1> QED BY <1>4, <1>5

-----------------------------------------------------------------------------
(* Tokens, receipts and scopes                                              *)

LEMMA IssueKeeps ==
  ASSUME Promises, NEW token, Issue(token), Promise(token)
  PROVE  Promises'
  BY DEF Promises, Issue

\* A receipt is written by the one thread inside its scope.
LEMMA ReceiveOnce ==
  ASSUME IInv, NEW t \in Threads, pc[t] \in Signed, call[t].op # "delete",
         NEW changed, Receive(t, changed)
  PROVE  /\ Receipts'
         /\ \A u \in Threads \ {t} : pc[u] \in Signed => KeyOf(u) \notin receipts' \ receipts
  <1>1. KeyOf(t) \in Keys \ receipts
    BY DEF IInv, Knows
  <1>2. /\ receipts' = receipts \cup {KeyOf(t)}
        /\ effects' = [effects EXCEPT ![KeyOf(t)] = @ \cup changed]
    BY DEF Receive, KeyOf
  <1>3. Receipts'
    BY <1>1, <1>2 DEF IInv, Receipts
  <1> QED BY <1>2, <1>3 DEF IInv, Scopes

LEMMA LeaveScopes ==
  ASSUME Scopes, NEW t \in Threads, \A u \in Threads \ {t} : Waits(u), pc'[t] \notin Signed
  PROVE  Scopes'
  BY DEF Scopes, Waits, Signed, Planned, KeyOf, Key

\* A thread enters the scope of a receipt, and that of a plan, when they are free.
LEMMA EnterScopes ==
  ASSUME Scopes, NEW t \in Threads, \A u \in Threads \ {t} : Waits(u),
         \A u \in Threads \ {t} :
           /\ pc[u] \in Signed => KeyOf(u) # KeyOf(t)'
           /\ pc'[t] \in Planned /\ pc[u] \in Planned => call[u].space # call'[t].space
  PROVE  Scopes'
  <1>1. \A u \in Threads \ {t} : KeyOf(u)' = KeyOf(u)
    BY DEF KeyOf, Key, Waits
  <1> QED BY <1>1 DEF Scopes, Waits, Signed, Planned

-----------------------------------------------------------------------------
(* A step                                                                   *)

LEMMA TurnStep ==
  ASSUME IInv, NEW t \in Threads, Library', Promises', Receipts', Locals', Scopes', Knows(t)',
         \A u \in Threads \ {t} : Away(u) /\ Alone(u) /\ Waits(u)
  PROVE  IInv'
  <1>1. ASSUME NEW u \in Threads \ {t} PROVE Knows(u)'
    BY KnowsStays DEF IInv
  <1> QED BY <1>1 DEF IInv

\* A step of no thread in particular.
LEMMA PassingStep ==
  ASSUME IInv, Library', Promises', \A u \in Threads : Away(u),
         UNCHANGED <<lease, threads, receipts, effects>>
  PROVE  IInv'
  <1>1. ASSUME NEW u \in Threads PROVE Alone(u) /\ Waits(u)
    BY DEF Alone, Waits, threads
  <1>2. ASSUME NEW u \in Threads PROVE Knows(u)'
    BY <1>1, KnowsStays DEF IInv
  <1>3. Receipts' /\ Locals' /\ Scopes'
    BY DEF IInv, Receipts, Locals, Scopes, KeyOf, Key, threads
  <1> QED BY <1>2, <1>3 DEF IInv

LEMMA SameLibrary ==
  ASSUME IInv, UNCHANGED data
  PROVE  Library' /\ \A u \in Threads : Away(u)
  <1>1. Library'
    BY DEF IInv, Library, data, TalksHaveSpace, Conversations, Existing
  <1> QED BY <1>1 DEF Away, data, IInv, Library, Knows, Existing

LEMMA SamePromises ==
  ASSUME IInv, UNCHANGED tokens
  PROVE  Promises'
  BY DEF IInv, Promises

LEMMA SameReceipts ==
  ASSUME IInv, UNCHANGED <<receipts, effects>>
  PROVE  Receipts'
  BY DEF IInv, Receipts

\* The lease of another thread stays with it.
LEMMA OthersAlone ==
  ASSUME IInv, NEW t \in Threads, UNCHANGED receipts,
         \/ UNCHANGED lease
         \/ pc[t] \in {"deleting", "unlinking"}
         \/ lease = None
         \/ lease' = IF lease = t THEN None ELSE lease
  PROVE  \A u \in Threads \ {t} : Alone(u)
  BY SpacesAssumption DEF IInv, Knows, Alone

\* A thread goes idle.
LEMMA FinishThread ==
  ASSUME IInv, NEW t \in Threads, Finish(t)
  PROVE  /\ Locals' /\ Scopes' /\ Knows(t)'
         /\ \A u \in Threads \ {t} : Waits(u)
  <1>1. Locals' /\ pc'[t] = "idle" /\ \A u \in Threads \ {t} : Waits(u)
    BY DEF IInv, Locals, Finish, Waits
  <1>2. Scopes'
    BY <1>1, LeaveScopes DEF IInv, Signed
  <1>3. Knows(t)'
    BY <1>1 DEF Knows, Signed, Planned
  <1> QED BY <1>1, <1>2, <1>3

LEMMA BeginThread ==
  ASSUME IInv, NEW t \in Threads, NEW c, NEW l, Begin(t, c, l),
         UNCHANGED held \/ \E h : held' = [held EXCEPT ![t] = h]
  PROVE  /\ Locals' /\ pc[t] = "idle" /\ pc'[t] = l /\ call'[t] = c
         /\ \A u \in Threads \ {t} : Waits(u)
  BY DEF IInv, Locals, Begin, Waits

-----------------------------------------------------------------------------
(* The steps                                                                *)

LEMMA PassingStays ==
  ASSUME IInv,
         \/ /\ \/ \E w \in Ids : Update(w) \/ WritePlan(w) \/ WriteLoose(w) \/ ResolveReused(w)
               \/ ResolveNew
               \/ \E w \in Ids, m \in Materials : LinkMaterial(w, m)
               \/ \E s \in SessionIds : DeleteSession(s)
            /\ UNCHANGED home
         \/ \E r \in Requests : ProposeSpace(r) \/ \E w \in Ids : ProposeAction(r, w)
         \/ \E token \in tokens : Revise(token)
  PROVE  IInv'
  <1>1. ASSUME NEW w \in Ids,
               Update(w) \/ WritePlan(w) \/ WriteLoose(w) \/ ResolveReused(w), UNCHANGED home
        PROVE  IInv'
    <2>1. UNCHANGED <<lease, threads, receipts, effects, tokens>>
      BY <1>1 DEF Update, WritePlan, WriteLoose, ResolveReused, home
    <2> QED BY <1>1, <2>1, EditLibrary, SamePromises, PassingStep
  <1>2. ASSUME ResolveNew, UNCHANGED home PROVE IInv'
    <2>1. /\ UNCHANGED <<lease, threads, receipts, effects, tokens>>
          /\ CreateSpace /\ created < MaxIds
      BY <1>2 DEF ResolveNew, MayCreate, home
    <2> QED BY <2>1, CreateLibrary, SamePromises, PassingStep
  <1>3. ASSUME NEW w \in Ids, NEW m \in Materials, LinkMaterial(w, m), UNCHANGED home
        PROVE  IInv'
    <2>1. UNCHANGED <<lease, threads, receipts, effects, tokens>>
      BY <1>3 DEF LinkMaterial, home
    <2> QED BY <1>3, <2>1, LinkLibrary, SamePromises, PassingStep
  <1>4. ASSUME NEW s \in SessionIds, DeleteSession(s), UNCHANGED home PROVE IInv'
    <2>1. UNCHANGED <<lease, threads, receipts, effects, tokens>>
      BY <1>4 DEF DeleteSession, home
    <2> QED BY <1>4, <2>1, SessionLibrary, SamePromises, PassingStep
  <1>5. ASSUME NEW r \in Requests, ProposeSpace(r) \/ \E w \in Ids : ProposeAction(r, w)
        PROVE  IInv'
    <2>1. UNCHANGED <<data, lease, threads, receipts, effects>>
      BY <1>5 DEF ProposeSpace, ProposeAction
    <2>2. Promises'
      BY <1>5, IssueKeeps
         DEF IInv, ProposeSpace, ProposeAction, Promise, CreateToken, ActionToken, Operations
    <2> QED BY <2>1, <2>2, SameLibrary, PassingStep
  <1>6. ASSUME NEW token \in tokens, Revise(token) PROVE IInv'
    <2>1. UNCHANGED <<data, lease, threads, receipts, effects>>
      BY <1>6 DEF Revise
    <2> DEFINE next == [token EXCEPT !.revised = TRUE]
    <2>2. Promise(next)
      BY DEF IInv, Promises, Promise
    <2>3. Issue(next)
      BY <1>6 DEF Revise
    <2> HIDE DEF next
    <2>4. Promises'
      BY <2>2, <2>3, IssueKeeps DEF IInv
    <2> QED BY <2>1, <2>4, SameLibrary, PassingStep
  <1> QED BY <1>1, <1>2, <1>3, <1>4, <1>5, <1>6

\* An undo of a space that is gone leaves a receipt, in the scope of its key.
LEMMA UndoNothingStays ==
  ASSUME IInv, NEW token \in tokens, UndoNothing(token)
  PROVE  IInv'
  <1>1. /\ UNCHANGED <<data, lease, threads, tokens, effects>>
        /\ receipts' = receipts \cup {Key("undo", token.request)}
        /\ InReceiptScope(Key("undo", token.request)) = {}
    BY DEF UndoNothing, EnterReceiptScope
  <1>2. Key("undo", token.request) \in Keys
    BY DEF IInv, Promises, Promise, Key, Keys, Operations
  <1>3. Receipts'
    BY <1>1, <1>2 DEF IInv, Receipts
  <1>4. Locals' /\ Scopes'
    BY <1>1 DEF IInv, Locals, Scopes, KeyOf, Key, threads
  <1>5. ASSUME NEW u \in Threads PROVE Alone(u) /\ Waits(u)
    BY <1>1 DEF Alone, Waits, threads, InReceiptScope, Signed, KeyOf
  <1>6. Library' /\ \A u \in Threads : Away(u)
    BY <1>1, SameLibrary
  <1>7. ASSUME NEW u \in Threads PROVE Knows(u)'
    BY <1>5, <1>6, KnowsStays DEF IInv
  <1> QED BY <1>1, <1>3, <1>4, <1>6, <1>7, SamePromises DEF IInv

LEMMA DeleteStays ==
  ASSUME IInv, NEW t \in Threads, UNCHANGED home,
         \/ \E w \in Ids : BeginDelete(t, w)
         \/ CommitDelete(t) \/ Unlink(t) \/ PutBack(t) \/ Abandon(t)
  PROVE  IInv'
  <1>1. UNCHANGED <<tokens, receipts, effects>>
    BY DEF home
  <1>2. Promises' /\ Receipts'
    BY <1>1, SamePromises, SameReceipts
  <1>3. ASSUME NEW w \in Ids, BeginDelete(t, w) PROVE IInv'
    <2> DEFINE c == [op |-> "delete", request |-> None, space |-> w]
    <2>1. /\ Begin(t, c, "deleting") /\ held' = [held EXCEPT ![t] = KeptCopy(w)]
          /\ lease = None /\ lease' = t
          /\ UNCHANGED <<spaces, created, links, sessions>>
          /\ w \in Existing /\ InPlanScope(w) = {}
      BY <1>3 DEF BeginDelete
    <2>2. /\ Locals' /\ pc'[t] = "deleting" /\ call'[t] = c /\ held'[t] = KeptCopy(w)
          /\ \A u \in Threads \ {t} : Waits(u)
      BY <2>1, BeginThread DEF IInv, Locals
    <2>3. Library' /\ \A u \in Threads : Away(u)
      <3>1. Library'
        BY <2>1 DEF IInv, Library, TalksHaveSpace, Conversations, Existing
      <3> QED BY <2>1, <3>1 DEF Away, IInv, Library, Knows, Existing
    <2>4. ASSUME NEW u \in Threads \ {t}
          PROVE  /\ pc[u] \in Signed => KeyOf(u) # KeyOf(t)'
                 /\ pc[u] \in Planned => call[u].space # w
      <3>1. pc[u] # "deleting"
        BY <2>1, SpacesAssumption DEF IInv, Knows
      <3>2. pc[u] \in Signed => call[u].op # "delete"
        BY <3>1 DEF IInv, Knows, Signed
      <3>3. KeyOf(t)' = <<"delete", None>>
        BY <2>2 DEF KeyOf, Key
      <3> QED BY <2>1, <3>2, <3>3 DEF KeyOf, Key, InPlanScope, Planned
    <2>5. Scopes'
      BY <2>2, <2>4, EnterScopes DEF IInv
    <2>6. CopyIsWhole(t)'
      BY <2>1, <2>2 DEF CopyIsWhole, KeptCopy, TalksOf, IInv, Library, Conversations
    <2>7. Knows(t)'
      BY <2>1, <2>2, <2>6 DEF Knows, Planned, IInv, Library, Existing
    <2>8. \A u \in Threads \ {t} : Alone(u)
      BY <1>1, <2>1, OthersAlone
    <2> QED BY <1>2, <2>2, <2>3, <2>5, <2>7, <2>8, TurnStep
  <1>4. ASSUME CommitDelete(t) PROVE IInv'
    <2>1. /\ pc[t] = "deleting" /\ RemoveSpace(call[t].space)
          /\ Go(t, "unlinking") /\ UNCHANGED <<held, lease>>
      BY <1>4 DEF CommitDelete
    <2>2. Library' /\ \A u \in Threads \ {t} : Away(u)
      BY <2>1, RemoveLibrary
    <2>3. Locals' /\ pc'[t] = "unlinking" /\ call' = call /\ \A u \in Threads \ {t} : Waits(u)
      BY <2>1 DEF IInv, Locals, Go, Waits
    <2>4. Scopes'
      BY <2>3, LeaveScopes DEF IInv, Signed
    <2>5. Knows(t)'
      BY <2>1, <2>3 DEF IInv, Knows, Signed, Planned, RemoveSpace, CopyIsWhole
    <2>6. \A u \in Threads \ {t} : Alone(u)
      BY <1>1, <2>1, OthersAlone
    <2> QED BY <1>2, <2>2, <2>3, <2>4, <2>5, <2>6, TurnStep
  <1>5. ASSUME Unlink(t) \/ PutBack(t) \/ Abandon(t) PROVE IInv'
    <2>1. Library' /\ \A u \in Threads \ {t} : Away(u)
      BY <1>5, UnlinkLibrary, PutBackLibrary, SameLibrary DEF Abandon
    <2>2. /\ Finish(t)
          /\ \/ pc[t] \in {"deleting", "unlinking"}
             \/ lease' = IF lease = t THEN None ELSE lease
      BY <1>5 DEF Unlink, PutBack, Abandon
    <2>3. \A u \in Threads \ {t} : Alone(u)
      BY <1>1, <2>2, OthersAlone
    <2> QED BY <1>2, <2>1, <2>2, <2>3, FinishThread, TurnStep
  <1> QED BY <1>3, <1>4, <1>5

LEMMA DispatchStays ==
  ASSUME IInv, NEW t \in Threads, (\E r \in Requests : DispatchStrong(t, r)) \/ IssueUndo(t)
  PROVE  IInv'
  <1>1. ASSUME NEW r \in Requests, DispatchStrong(t, r) PROVE IInv'
    <2> DEFINE c == [op |-> "strong", request |-> r, space |-> created']
    <2>1. /\ CreateSpace /\ created < MaxIds /\ Begin(t, c, "issuing")
          /\ UNCHANGED <<held, lease, tokens, receipts, effects>>
      BY <1>1 DEF DispatchStrong, MayCreate, home
    <2>2. Library' /\ \A u \in Threads \ {t} : Away(u)
      BY <2>1, CreateLibrary
    <2> HIDE DEF c
    <2>3. /\ Locals' /\ pc'[t] = "issuing" /\ call'[t] = c
          /\ \A u \in Threads \ {t} : Waits(u)
      BY <2>1, BeginThread
    <2>4. Scopes'
      BY <2>3, LeaveScopes DEF IInv, Signed
    <2>5. Knows(t)'
      BY <2>3 DEF Knows, Signed, Planned, c
    <2>6. \A u \in Threads \ {t} : Alone(u)
      BY <2>1, OthersAlone
    <2> QED BY <2>1, <2>2, <2>3, <2>4, <2>5, <2>6, SamePromises, SameReceipts, TurnStep
  <1>2. ASSUME IssueUndo(t) PROVE IInv'
    <2> DEFINE w == call[t].space
               token == UndoToken(call[t].request, w, CreatedState(w))
    <2>1. /\ UNCHANGED <<data, lease, receipts, effects>> /\ Finish(t)
          /\ pc[t] = "issuing"
          /\ (w \in Existing /\ Issue(token)) \/ UNCHANGED tokens
      BY <1>2 DEF IssueUndo
    <2>2. w \in Existing => Promise(token)
      BY <2>1 DEF Promise, UndoToken, Operations, IInv, Knows, Existing
    <2> HIDE DEF token
    <2>3. Promises'
      BY <2>1, <2>2, IssueKeeps, SamePromises DEF IInv
    <2>4. \A u \in Threads \ {t} : Alone(u)
      BY <2>1, OthersAlone
    <2> QED BY <2>1, <2>3, <2>4, SameLibrary, SameReceipts, FinishThread, TurnStep
  <1> QED BY <1>1, <1>2

\* A confirmation enters the scope of its receipt, which is not there.
LEMMA ConfirmStays ==
  ASSUME IInv, NEW t \in Threads, NEW token \in tokens,
         ConfirmSpace(t, token) \/ ConfirmAction(t, token) \/ BeginUndo(t, token)
  PROVE  IInv'
  <1> DEFINE w == token.space
             k == Key(token.op, token.request)
  <1>1. /\ UNCHANGED <<data, tokens, receipts, effects>>
        /\ held' = [held EXCEPT ![t] = token]
        /\ EnterReceiptScope(token.op, token.request)
        /\ lease' = lease \/ lease = None
    BY DEF ConfirmSpace, ConfirmAction, BeginUndo, home
  <1>2. PICK c, l :
          /\ Begin(t, c, l)
          /\ c.op = token.op /\ c.request = token.request
          /\ \/ l = "confirming" /\ token.op = "create"
             \/ /\ l \in Planned /\ c.space = w
                /\ w \in Existing /\ InPlanScope(w) = {}
                /\ l = "moving" => token.op = "action" /\ spaces[w].plan = token.state[1]
                /\ l = "deleting" => /\ token.op = "undo" /\ Untouched(token)
                                     /\ lease = None /\ lease' = t
    <2>1. CASE ConfirmSpace(t, token)
      BY <2>1 DEF ConfirmSpace
    <2>2. CASE ConfirmAction(t, token)
      BY <2>2 DEF ConfirmAction, SamePlan, Version, Planned
    <2>3. CASE BeginUndo(t, token)
      BY <2>3 DEF BeginUndo, Planned
    <2> QED BY <2>1, <2>2, <2>3
  <1>3. /\ Locals' /\ pc'[t] = l /\ call'[t] = c /\ held'[t] = token
        /\ \A u \in Threads \ {t} : Waits(u)
    <2>1. Begin(t, c, l) /\ \E h : held' = [held EXCEPT ![t] = h]
      BY <1>1, <1>2
    <2>2. /\ Locals' /\ pc'[t] = l /\ call'[t] = c
          /\ \A u \in Threads \ {t} : Waits(u)
      BY <2>1, BeginThread
    <2> QED BY <1>1, <2>2 DEF IInv, Locals
  <1>4. KeyOf(t)' = k /\ k \in Keys \ receipts
    BY <1>1, <1>2, <1>3
       DEF KeyOf, Key, Keys, EnterReceiptScope, IInv, Promises, Promise
  <1>5. Scopes'
    <2>1. ASSUME NEW u \in Threads \ {t}
          PROVE  /\ pc[u] \in Signed => KeyOf(u) # k
                 /\ l \in Planned /\ pc[u] \in Planned => call[u].space # c.space
      BY <1>1, <1>2 DEF EnterReceiptScope, InReceiptScope, InPlanScope, Signed, Planned, KeyOf
    <2> QED BY <1>3, <1>4, <2>1, EnterScopes DEF IInv
  <1>6. Library' /\ \A u \in Threads : Away(u)
    BY <1>1, SameLibrary
  <1>7. Knows(t)'
    <2>1. l = "moving" => MovesAsSeen(t)'
      BY <1>1, <1>2, <1>3 DEF MovesAsSeen, data
    <2>2. l = "deleting" => UndoesAsSeen(t)'
      BY <1>1, <1>2, <1>3 DEF UndoesAsSeen, Untouched, CreatedState, TalksOf, data
    <2>3. l \in Planned => c.space \in Existing' /\ c.space \in Ids /\ c.space <= created'
      BY <1>1, <1>2 DEF Existing, data, IInv, Library, Planned
    <2> QED BY <1>1, <1>2, <1>3, <1>4, <2>1, <2>2, <2>3 DEF Knows, Signed, Planned
  <1>8. \A u \in Threads \ {t} : Alone(u)
    BY <1>1, OthersAlone
  <1> QED BY <1>1, <1>3, <1>5, <1>6, <1>7, <1>8, SamePromises, SameReceipts, TurnStep

\* What was confirmed is done together with its receipt.
LEMMA CommitStays ==
  ASSUME IInv, NEW t \in Threads, CommitSpace(t) \/ CommitAction(t) \/ CommitUndo(t)
  PROVE  IInv'
  <1>1. pc[t] \in Signed /\ call[t].op # "delete" /\ KeyOf(t) \in Keys \ receipts
    BY DEF CommitSpace, CommitAction, CommitUndo, Signed, IInv, Knows
  <1>2. PICK changed : Receive(t, changed)
    BY DEF CommitSpace, CommitAction, CommitUndo
  <1>3. /\ Receipts'
        /\ \A u \in Threads \ {t} : pc[u] \in Signed => KeyOf(u) \notin receipts' \ receipts
    BY <1>1, <1>2, ReceiveOnce
  <1>4. lease' = lease
    BY DEF CommitSpace, CommitAction, CommitUndo
  <1>5. \A u \in Threads \ {t} : Alone(u)
    BY <1>3, <1>4 DEF Alone
  <1>6. CASE CommitSpace(t)
    <2> DEFINE token == UndoToken(call[t].request, created', FreshState)
    <2>1. CreateSpace /\ created < MaxIds /\ Issue(token) /\ Finish(t)
      BY <1>6 DEF CommitSpace, MayCreate
    <2>2. Library' /\ created' \in Ids /\ \A u \in Threads \ {t} : Away(u)
      BY <2>1, CreateLibrary
    <2>3. Promise(token)
      BY <1>1, <2>2 DEF Promise, UndoToken, Operations, KeyOf, Key, Keys
    <2> HIDE DEF token
    <2>4. Promises'
      BY <2>1, <2>3, IssueKeeps DEF IInv
    <2> QED BY <1>3, <1>5, <2>1, <2>2, <2>4, FinishThread, TurnStep
  <1>7. CASE CommitAction(t)
    <2>1. Finish(t) /\ UNCHANGED tokens
      BY <1>7 DEF CommitAction
    <2>2. Library' /\ \A u \in Threads \ {t} : Away(u)
      BY <1>7, MoveLibrary
    <2> QED BY <1>3, <1>5, <2>1, <2>2, SamePromises, FinishThread, TurnStep
  <1>8. CASE CommitUndo(t)
    <2>1. /\ pc[t] = "deleting" /\ call[t].op = "undo" /\ RemoveSpace(call[t].space)
          /\ Go(t, "unlinking") /\ UNCHANGED <<held, lease, tokens>>
      BY <1>8 DEF CommitUndo
    <2>2. Library' /\ \A u \in Threads \ {t} : Away(u)
      BY <2>1, RemoveLibrary
    <2>3. Locals' /\ pc'[t] = "unlinking" /\ call' = call /\ \A u \in Threads \ {t} : Waits(u)
      BY <2>1 DEF IInv, Locals, Go, Waits
    <2>4. Scopes'
      BY <2>3, LeaveScopes DEF IInv, Signed
    <2>5. Knows(t)'
      BY <2>1, <2>3 DEF IInv, Knows, Signed, Planned, RemoveSpace
    <2> QED BY <1>3, <1>5, <2>1, <2>2, <2>3, <2>4, <2>5, SamePromises, TurnStep
  <1> QED BY <1>6, <1>7, <1>8

LEMMA ChatStays ==
  ASSUME IInv, ChatNext, UNCHANGED home
  PROVE  IInv'
  <1>1. UNCHANGED <<tokens, receipts, effects>>
    BY DEF home
  <1>2. Promises' /\ Receipts'
    BY <1>1, SamePromises, SameReceipts
  <1>3. ASSUME NEW t \in Threads, NEW w \in Ids, NEW s \in SessionIds, NEW u \in Turns,
               BeginChat(t, w, s, u)
        PROVE  IInv'
    <2> DEFINE c == [op |-> "chat", request |-> None, space |-> w, talk |-> s, turn |-> u]
    <2>1. /\ Begin(t, c, "replying") /\ UNCHANGED <<data, lease>>
          /\ \E h : held' = [held EXCEPT ![t] = h]
      BY <1>3 DEF BeginChat
    <2>2. c.space = w /\ c.talk = s /\ c.turn = u
      OBVIOUS
    <2> HIDE DEF c
    <2>3. /\ Locals' /\ pc'[t] = "replying" /\ call'[t] = c
          /\ \A v \in Threads \ {t} : Waits(v)
      BY <2>1, BeginThread
    <2>4. Scopes'
      BY <2>3, LeaveScopes DEF IInv, Signed
    <2>5. Knows(t)'
      BY <2>2, <2>3 DEF Knows, Signed, Planned
    <2>6. \A v \in Threads \ {t} : Alone(v)
      BY <1>1, <2>1, OthersAlone
    <2> QED BY <1>2, <2>1, <2>3, <2>4, <2>5, <2>6, SameLibrary, TurnStep
  <1>4. ASSUME NEW t \in Threads, CommitReply(t) PROVE IInv'
    <2>1. Library' /\ \A u \in Threads \ {t} : Away(u)
      BY <1>4, ReplyLibrary
    <2>2. Finish(t) /\ UNCHANGED lease
      BY <1>4 DEF CommitReply
    <2>3. \A u \in Threads \ {t} : Alone(u)
      BY <1>1, <2>2, OthersAlone
    <2> QED BY <1>2, <2>1, <2>2, <2>3, FinishThread, TurnStep
  <1> QED BY <1>3, <1>4 DEF ChatNext

-----------------------------------------------------------------------------
(* The theorems                                                             *)

LEMMA InitIInv == Init => IInv
  <1> SUFFICES ASSUME Init PROVE IInv
    OBVIOUS
  <1>1. Library
    BY DEF Init, SpacesInit, Library, Existing, Conversations, TalksHaveSpace
  <1>2. Promises /\ Receipts
    BY DEF Init, HomeInit, Promises, Receipts
  <1>3. Locals /\ \A t \in Threads : pc[t] = "idle"
    BY DEF Init, SpacesInit, Locals
  <1>4. Scopes /\ \A t \in Threads : Knows(t)
    BY <1>3 DEF Scopes, Knows, Signed, Planned
  <1> QED BY <1>1, <1>2, <1>3, <1>4 DEF IInv

LEMMA NextIInv == IInv /\ [Next]_vars => IInv'
  <1> SUFFICES ASSUME IInv, [Next]_vars PROVE IInv'
    OBVIOUS
  <1>1. ASSUME SpacesNext, UNCHANGED home PROVE IInv'
    BY <1>1, PassingStays, DeleteStays DEF SpacesNext
  <1>2. ASSUME HomeNext PROVE IInv'
    BY <1>2, PassingStays, UndoNothingStays, DispatchStays, ConfirmStays, CommitStays DEF HomeNext
  <1>3. ASSUME UNCHANGED vars PROVE IInv'
    <2>1. UNCHANGED data /\ UNCHANGED tokens /\ UNCHANGED <<lease, threads, receipts, effects>>
      BY <1>3 DEF vars, home
    <2> QED BY <2>1, SameLibrary, SamePromises, PassingStep
  <1> QED BY <1>1, <1>2, <1>3, ChatStays DEF Next

\* A scope is held by one thread, and each thread knows what the guards it has
\* passed still say of the spaces, the tokens and the receipts.
THEOREM Invariance == Spec => []IInv
  BY InitIInv, NextIInv, PTL DEF Spec

\* No conversation outlives its space: not when it is deleted, undone or put back
\* while a reply is being written.
THEOREM TalksAlwaysHaveSpace == Spec => []TalksHaveSpace
  <1>1. IInv => TalksHaveSpace
    BY DEF IInv, Library
  <1> QED BY <1>1, Invariance, PTL

\* The receipts implement OnceOnly: a confirmation or an undo takes effect once,
\* together with its receipt.
THEOREM ReceiptsActOnce == Spec => ActsOnce
  <1>1. Init => Once!Init
    BY DEF Init, HomeInit, Once!Init
  <1>2. IInv /\ [Next]_vars => [Once!Next]_<<receipts, effects>>
    <2> SUFFICES ASSUME IInv, [Next]_vars, ~UNCHANGED <<receipts, effects>>
                 PROVE  Once!Next
      OBVIOUS
    <2>1. ASSUME NEW t \in Threads, CommitSpace(t) \/ CommitAction(t) \/ CommitUndo(t)
          PROVE  Once!Next
      <3>1. KeyOf(t) \in Keys \ receipts
        BY <2>1 DEF CommitSpace, CommitAction, CommitUndo, Signed, IInv, Knows
      <3>2. PICK x \in Ids : Receive(t, {x})
        <4>1. CASE CommitSpace(t)
          BY <4>1, CreateLibrary DEF CommitSpace, MayCreate
        <4>2. CASE CommitAction(t)
          BY <4>2 DEF CommitAction, IInv, Knows, Planned, Existing
        <4>3. CASE CommitUndo(t)
          BY <4>3 DEF CommitUndo, IInv, Knows
        <4> QED BY <2>1, <4>1, <4>2, <4>3
      <3>3. effects[KeyOf(t)] = {}
        BY <3>1 DEF IInv, Receipts
      <3>4. /\ receipts' = receipts \cup {KeyOf(t)}
            /\ effects' = [effects EXCEPT ![KeyOf(t)] = {x}]
        BY <3>2, <3>3 DEF Receive, KeyOf
      <3> QED BY <3>1, <3>4 DEF Once!Next, Once!Perform
    <2>2. ASSUME NEW token \in tokens, UndoNothing(token) PROVE Once!Next
      <3> DEFINE k == Key("undo", token.request)
      <3>1. k \in Keys
        BY DEF IInv, Promises, Promise, Key, Keys, Operations
      <3>2. k \notin receipts /\ receipts' = receipts \cup {k} /\ effects' = effects
        BY <2>2 DEF UndoNothing, EnterReceiptScope
      <3>3. effects' = [effects EXCEPT ![k] = {}]
        BY <3>1, <3>2 DEF IInv, Receipts
      <3> HIDE DEF k
      <3> QED BY <3>1, <3>2, <3>3 DEF Once!Next, Once!Perform
    <2>3. ASSUME UNCHANGED home PROVE FALSE
      BY <2>3 DEF home
    <2>4. ASSUME HomeNext,
                 ~ \E t \in Threads : CommitSpace(t) \/ CommitAction(t) \/ CommitUndo(t),
                 ~ \E token \in tokens : UndoNothing(token)
          PROVE  FALSE
      BY <2>4
         DEF HomeNext, ProposeSpace, ProposeAction, Revise, DispatchStrong, IssueUndo,
             ConfirmSpace, ConfirmAction, BeginUndo, home
    <2> QED BY <2>1, <2>2, <2>3, <2>4 DEF Next, vars, home
  <1> QED BY <1>1, <1>2, Invariance, PTL DEF Spec, ActsOnce, Once!Spec

\* An undo deletes what the learner was shown, a confirmed change is made to the
\* plan it was previewed on, whatever comes between the look and the write.
THEOREM ActsAsSeen == Spec => ActsOnWhatWasSeen
  <1>1. IInv /\ [Next]_vars =>
          [\A t \in Threads :
             (Undoes(t) => UndoesAsSeen(t)) /\ (Moves(t) => MovesAsSeen(t))]_vars
    BY DEF IInv, Knows, Undoes, Moves
  <1> QED BY <1>1, Invariance, PTL DEF Spec, ActsOnWhatWasSeen

-----------------------------------------------------------------------------
(* Routing                                                                  *)

\* What an option may be; a forbidden text is offered two of them.
Picks == {"direct_answer", "open", "act", "recover_learning", "create_workspace",
          "change_question", "configure_model"}

Offers(result) == \A option \in result.options : option.pick \in Picks

\* A goal that nothing goes with.
PlainGoal ==
  /\ "goal" \in text
  /\ text \cap {"forbidden", "quoted", "unrelated", "evaluation", "veto"} = {}

\* No answer and no change, nor an option that leads to a change of a plan.
Unserved(result) ==
  /\ result.kind \notin {"direct_answer", "unavailable", "created", "workspace_action", "no_plan"}
  /\ \A option \in result.options : option.pick # "act"

\* A refusal, and what is offered with it leads back to it.
Refusal(result) ==
  /\ result.kind \in {"none", "out_of_scope"}
  /\ \A option \in result.options : option.pick \in {"recover_learning", "change_question"}

\* A result that made a space did so for a goal.
Made(result) ==
  /\ Offers(result)
  /\ result.kind = "created" => PlainGoal

\* Results that make no space.
Harmless(cards) == \A result \in cards : result.kind # "created" /\ Offers(result)

-----------------------------------------------------------------------------
(* The rules                                                                *)

LEMMA FirstRule ==
  ASSUME NEW list
  PROVE  /\ "forbidden" \in text => Decide(list) = "out_of_scope"
         /\ Decide(list) = "strong" => PlainGoal
         /\ Decide(list) \in {"out_of_scope", "direct_answer", "open", "action", "cross",
                              "evaluation", "strong", "ambiguous", "clarify", "semantic"}
  <1> DEFINE found == {i \in DOMAIN Rules : Applies(Rules[i], list)}
             first == Min(found)
  <1>1. DOMAIN Rules = 1 .. 13
    BY DEF Rules
  <1>2. Decide(list) = IF found = {} THEN "semantic" ELSE Rules[first][2]
    BY DEF Decide
  <1>3. CASE found = {}
    <2>1. 1 \notin found
      BY <1>3
    <2>2. "forbidden" \notin text
      BY <1>1, <2>1 DEF Applies, Rules
    <2> QED BY <1>2, <1>3, <2>2
  <1>4. CASE found # {}
    <2>1. first \in found /\ \A i \in found : first <= i
      <3>1. found \in SUBSET Nat
        BY <1>1
      <3>2. \E i \in found : \A j \in found : i <= j
        <4> DEFINE Low(i) == i \in found /\ \A j \in 1 .. i - 1 : j \notin found
        <4>1. \E i \in 1 .. 13 : Low(i)
          <5>1. \A j \in found : j \in 1 .. 13
            BY <1>1
          <5> HIDE DEF found
          <5> QED BY <1>4, <5>1
        <4>2. PICK i \in 1 .. 13 : Low(i)
          BY <4>1
        <4>3. \A j \in found : j \in 1 .. 13
          BY <1>1
        <4> HIDE DEF found
        <4> QED BY <4>2, <4>3
      <3> HIDE DEF found
      <3> QED BY <3>2 DEF Min
    <2>2. first \in 1 .. 13 /\ Applies(Rules[first], list)
      BY <1>1, <2>1
    <2>3. \A i \in 1 .. 13 : i < first => ~Applies(Rules[i], list)
      <3>1. \A i \in 1 .. 13 : Applies(Rules[i], list) => i \in found
        BY <1>1
      <3> HIDE DEF first, found
      <3> QED BY <2>1, <2>2, <3>1
    <2>4. Decide(list) = Rules[first][2]
      BY <1>2, <1>4
    <2> HIDE DEF first, found
    <2>5. "forbidden" \in text => first = 1
      BY <2>2, <2>3 DEF Applies, Rules
    <2>6. Rules[first][2] = "strong" => first = 10
      BY <2>2 DEF Rules
    <2>7. first = 10 => PlainGoal
      <3>1. SUFFICES ASSUME first = 10 PROVE PlainGoal
        OBVIOUS
      <3>2. "goal" \in text
        BY <2>2, <3>1 DEF Applies, Rules
      <3>3. \A i \in {1, 2, 4, 7, 9} : Rules[i][1] \notin text
        BY <2>3, <3>1 DEF Applies, Rules
      <3>4. /\ Rules[1][1] = "forbidden" /\ Rules[2][1] = "quoted" /\ Rules[4][1] = "unrelated"
            /\ Rules[7][1] = "evaluation" /\ Rules[9][1] = "veto"
        BY DEF Rules
      <3> QED BY <3>2, <3>3, <3>4 DEF PlainGoal
    <2> QED BY <2>2, <2>4, <2>5, <2>6, <2>7 DEF Rules
  <1> QED BY <1>3, <1>4

-----------------------------------------------------------------------------
(* The results                                                              *)

LEMMA FinalHarmless ==
  ASSUME NEW kind, NEW w, kind # "created"
  PROVE  Harmless({Final(kind, w)})
  BY DEF Harmless, Offers, Final

LEMMA OpenedHarmless ==
  ASSUME NEW w, NEW list
  PROVE  Harmless(Opened(w, list))
  BY DEF Harmless, Offers, Opened, Final

LEMMA AllOpenedHarmless ==
  ASSUME NEW S, NEW list
  PROVE  Harmless(UNION {Opened(w, list) : w \in S})
  BY OpenedHarmless DEF Harmless

LEMMA QuestionHarmless ==
  ASSUME NEW list
  PROVE  Harmless({Question(list)})
  BY DEF Harmless, Offers, Question, Asking, Option, Picks

LEMMA FallbackHarmless ==
  ASSUME NEW list
  PROVE  Harmless(Fallback(list))
  BY OpenedHarmless, QuestionHarmless DEF Fallback

LEMMA OfferedHarmless ==
  ASSUME NEW pick \in Picks, NEW S
  PROVE  Harmless({Asking("clarify", {Option(pick, w) : w \in S})})
  BY DEF Harmless, Offers, Asking, Option

LEMMA ClarifiedHarmless ==
  ASSUME NEW ids, NEW pick \in Picks, NEW list
  PROVE  Harmless(Clarified(ids, pick, list))
  <1> DEFINE offered == SelectSeq(ids, LAMBDA w : w \in ToSet(list))
             asked == Asking("clarify", {Option(pick, w) : w \in ToSet(First(3, offered))})
  <1>1. Harmless({asked})
    BY OfferedHarmless
  <1>2. Clarified(ids, pick, list) \in {{Question(list)}, Fallback(list), {asked}}
    BY DEF Clarified
  <1> HIDE DEF asked
  <1> QED BY <1>1, <1>2, QuestionHarmless, FallbackHarmless

LEMMA RefusedHarmless ==
  ASSUME NEW recoverable \in BOOLEAN
  PROVE  Harmless(Refused(recoverable)) /\ \A result \in Refused(recoverable) : Refusal(result)
  BY DEF Harmless, Offers, Refusal, Refused, Asking, Option, Picks

LEMMA UnconfiguredHarmless ==
  ASSUME NEW list
  PROVE  Harmless(Unconfigured(list))
  <1> DEFINE refused == {Asking("out_of_scope",
                 {Option("change_question", NoSpace),
                  Option(IF server = "admin" THEN "configure_model" ELSE "create_workspace",
                         NoSpace)})}
             led == UNION {Opened(w, OpenSpaces) : w \in ToSet(list)}
  <1>1. Harmless(refused)
    BY DEF Harmless, Offers, Asking, Option, Picks
  <1>2. Harmless(led)
    BY AllOpenedHarmless
  <1>3. Unconfigured(list) \in {refused, led}
    BY DEF Unconfigured
  <1> HIDE DEF refused, led
  <1> QED BY <1>1, <1>2, <1>3

LEMMA RepliedHarmless ==
  ASSUME NEW list
  PROVE  Harmless(Replied(list))
  <1>1. Harmless({Final("direct_answer", NoSpace), Final("unavailable", NoSpace)})
    BY FinalHarmless DEF Harmless
  <1> QED BY <1>1, UnconfiguredHarmless DEF Replied

\* Only a strong signal makes a space.
LEMMA LongTermOffers ==
  ASSUME NEW strong \in BOOLEAN
  PROVE  /\ ~strong => Harmless(LongTerm(strong))
         /\ \A result \in LongTerm(strong) : Offers(result)
  <1> DEFINE found == UNION {Opened(w, Candidates(OpenSpaces)) : w \in ToSet(OpenSpaces)}
             made == Final(IF strong THEN "created" ELSE "propose_workspace", NoSpace)
  <1>1. Harmless(found)
    BY AllOpenedHarmless
  <1>2. Offers(made) /\ (~strong => made.kind # "created")
    BY DEF Offers, Final
  <1>3. LongTerm(strong) = found \cup {made}
    BY DEF LongTerm
  <1> HIDE DEF found, made
  <1> QED BY <1>1, <1>2, <1>3 DEF Harmless

LEMMA ChangedPlanHarmless ==
  ASSUME NEW ids, NEW list
  PROVE  Harmless(ChangedPlan(ids, list))
  <1> DEFINE some == Clarified(IF ids = <<>> THEN First(3, list) ELSE ids, "act", list)
             single == IF ids = <<>> THEN list ELSE ids
             change == IF "dated" \in text THEN {Final("workspace_action", single[1])}
                         ELSE {Question(list)}
  <1>1. Harmless(some)
    BY ClarifiedHarmless DEF Picks
  <1>2. Harmless(change) /\ Harmless({Final("no_plan", NoSpace)})
    BY FinalHarmless, QuestionHarmless
  <1>3. ChangedPlan(ids, list) \in {some, {Final("no_plan", NoSpace)} \cup change}
    BY DEF ChangedPlan
  <1> HIDE DEF some, change
  <1> QED BY <1>1, <1>2, <1>3 DEF Harmless

LEMMA ComparedHarmless ==
  ASSUME NEW list
  PROVE  Harmless(Compared(list))
  BY AllOpenedHarmless, LongTermOffers DEF Compared

LEMMA EvaluatedHarmless ==
  ASSUME NEW ids, NEW list
  PROVE  Harmless(Evaluated(ids, list))
  <1>1. Evaluated(ids, list)
          \in {LongTerm(FALSE), Opened(ids[1], list), Clarified(ids, "open", list)}
    BY DEF Evaluated
  <1> QED BY <1>1, LongTermOffers, OpenedHarmless, ClarifiedHarmless DEF Picks

LEMMA ClassifiedHarmless ==
  ASSUME NEW list
  PROVE  Harmless(Classified(list))
  <1> DEFINE opened == UNION {Opened(w, list) : w \in ToSet(list)}
             clarified == Clarified(<<>>, "open", list)
  <1>1. Harmless(opened)
    BY AllOpenedHarmless
  <1>2. /\ Harmless(Replied(list)) /\ Harmless(LongTerm(FALSE)) /\ Harmless(Refused(TRUE))
        /\ Harmless(clarified) /\ Harmless(Fallback(list)) /\ Harmless(Unconfigured(list))
    BY RepliedHarmless, LongTermOffers, RefusedHarmless, ClarifiedHarmless, FallbackHarmless,
       UnconfiguredHarmless DEF Picks
  <1>3. Classified(list) =
          IF server # "ready" THEN Unconfigured(list)
            ELSE opened \cup Replied(list) \cup LongTerm(FALSE)
                   \cup Refused(TRUE) \cup clarified \cup Fallback(list)
    BY DEF Classified
  <1> HIDE DEF opened, clarified
  <1> QED BY <1>1, <1>2, <1>3 DEF Harmless

\* A text that is decided: a space is made for a goal only, and a forbidden text
\* is refused.
LEMMA DecidedMade ==
  ASSUME NEW list
  PROVE  \A result \in Decided(list) :
           Made(result) /\ ("forbidden" \in text => Refusal(result))
  <1> DEFINE decision == Decide(AllSpaces)
             named == First(3, Named(AllSpaces))
             matched == IF Named(AllSpaces) # <<>> THEN Named(AllSpaces) ELSE Matched(AllSpaces)
  <1>1. /\ "forbidden" \in text => decision = "out_of_scope"
        /\ decision = "strong" => PlainGoal
        /\ decision \in {"out_of_scope", "direct_answer", "open", "action", "cross",
                         "evaluation", "strong", "ambiguous", "clarify", "semantic"}
    BY FirstRule
  <1>2. Decided(list) =
          CASE decision = "out_of_scope"  -> Refused(TRUE)
            [] decision = "direct_answer" -> Replied(list)
            [] decision = "open"          -> IF Len(named) = 1 THEN Opened(named[1], list)
                                               ELSE Clarified(named, "open", list)
            [] decision = "action"        -> ChangedPlan(named, list)
            [] decision = "cross"         -> Compared(list)
            [] decision = "evaluation"    -> Evaluated(First(3, matched), list)
            [] decision = "strong"        -> LongTerm(TRUE)
            [] decision = "ambiguous"     -> LongTerm(FALSE)
            [] decision = "clarify"       -> Clarified(<<>>, "open", list)
            [] decision = "semantic"      -> Classified(list)
    BY DEF Decided
  <1> HIDE DEF decision, named, matched
  <1>3. CASE decision = "out_of_scope"
    <2>1. Decided(list) = Refused(TRUE)
      BY <1>2, <1>3
    <2> QED BY <2>1, RefusedHarmless DEF Made, Harmless
  <1>4. CASE decision = "strong"
    <2>1. Decided(list) = LongTerm(TRUE)
      BY <1>2, <1>4
    <2> QED BY <1>1, <1>4, <2>1, LongTermOffers DEF Made
  <1>5. CASE decision \in {"direct_answer", "open", "action", "cross", "evaluation",
                           "ambiguous", "clarify", "semantic"}
    <2>1. Harmless(Decided(list))
      <3>1. /\ Harmless(Replied(list)) /\ Harmless(Opened(named[1], list))
            /\ Harmless(Clarified(named, "open", list)) /\ Harmless(ChangedPlan(named, list))
            /\ Harmless(Compared(list)) /\ Harmless(Evaluated(First(3, matched), list))
            /\ Harmless(LongTerm(FALSE)) /\ Harmless(Clarified(<<>>, "open", list))
            /\ Harmless(Classified(list))
        BY RepliedHarmless, OpenedHarmless, ClarifiedHarmless, ChangedPlanHarmless,
           ComparedHarmless, EvaluatedHarmless, LongTermOffers, ClassifiedHarmless DEF Picks
      <3> QED BY <1>2, <1>5, <3>1
    <2> QED BY <1>1, <1>5, <2>1 DEF Made, Harmless
  <1> QED BY <1>1, <1>3, <1>4, <1>5

\* A question that is answered makes nothing, and no answer to the refusal of a
\* forbidden text leads anywhere else.
LEMMA ChosenMade ==
  ASSUME NEW option, option.pick \in Picks, NEW list
  PROVE  \A result \in Chosen(option, list) : Made(result)
  <1> DEFINE pick == option.pick
  <1>1. Chosen(option, list) =
          CASE pick = "direct_answer" ->
                 IF Decide(OpenSpaces) = "out_of_scope" THEN Refused(TRUE) ELSE Replied(list)
            [] pick = "open"             -> Opened(option.space, list)
            [] pick = "act"              -> ChangedPlan(<<option.space>>, list)
            [] pick = "recover_learning" ->
                 IF AllowsRecovery THEN {Question(list)} ELSE Refused(FALSE)
            [] pick = "create_workspace" -> LongTerm(FALSE)
            [] pick \in {"change_question", "configure_model"} -> {Question(list)}
    BY DEF Chosen
  <1>2. /\ Harmless(Refused(TRUE)) /\ Harmless(Refused(FALSE)) /\ Harmless(Replied(list))
        /\ Harmless(Opened(option.space, list)) /\ Harmless(ChangedPlan(<<option.space>>, list))
        /\ Harmless({Question(list)}) /\ Harmless(LongTerm(FALSE))
    BY RefusedHarmless, RepliedHarmless, OpenedHarmless, ChangedPlanHarmless,
       QuestionHarmless, LongTermOffers
  <1> HIDE DEF pick
  <1>3. Harmless(Chosen(option, list))
    <2>1. pick \in Picks
      BY DEF pick
    <2> QED BY <1>1, <1>2, <2>1 DEF Picks
  <1> QED BY <1>3 DEF Made, Harmless

\* No option but that of a plan to change leads a forbidden text anywhere but to
\* a question, a proposal or a space to open.
LEMMA ChosenUnserved ==
  ASSUME NEW option, option.pick \in Picks \ {"act"}, "forbidden" \in text, NEW list
  PROVE  \A result \in Chosen(option, list) : Unserved(result)
  <1> DEFINE pick == option.pick
             opened == Opened(option.space, list)
             found == UNION {Opened(w, Candidates(OpenSpaces)) : w \in ToSet(OpenSpaces)}
  <1>1. Decide(OpenSpaces) = "out_of_scope"
    BY FirstRule
  <1>2. \/ Chosen(option, list) = Refused(TRUE) \/ Chosen(option, list) = Refused(FALSE)
        \/ Chosen(option, list) = opened \/ Chosen(option, list) = LongTerm(FALSE)
        \/ Chosen(option, list) = {Question(list)}
    <2>1. pick \in Picks \ {"act"}
      OBVIOUS
    <2>2. Chosen(option, list) =
            CASE pick = "direct_answer"    -> Refused(TRUE)
              [] pick = "open"             -> opened
              [] pick = "act"              -> ChangedPlan(<<option.space>>, list)
              [] pick = "recover_learning" ->
                   IF AllowsRecovery THEN {Question(list)} ELSE Refused(FALSE)
              [] pick = "create_workspace" -> LongTerm(FALSE)
              [] pick \in {"change_question", "configure_model"} -> {Question(list)}
      BY <1>1 DEF Chosen
    <2> HIDE DEF pick, opened
    <2> QED BY <2>1, <2>2 DEF Picks
  <1>3. /\ \A result \in Refused(TRUE) : Unserved(result)
        /\ \A result \in Refused(FALSE) : Unserved(result)
    BY RefusedHarmless DEF Refusal, Unserved
  <1>4. \A result \in {Question(list)} : Unserved(result)
    BY DEF Unserved, Question, Asking, Option
  <1>5. \A w, among : \A result \in Opened(w, among) : Unserved(result)
    BY DEF Unserved, Opened, Final
  <1>6. \A result \in LongTerm(FALSE) : Unserved(result)
    <2>1. LongTerm(FALSE) = found \cup {Final("propose_workspace", NoSpace)}
      BY DEF LongTerm
    <2>2. \A result \in found : Unserved(result)
      BY <1>5
    <2>3. Unserved(Final("propose_workspace", NoSpace))
      BY DEF Unserved, Final
    <2> HIDE DEF found
    <2> QED BY <2>1, <2>2, <2>3
  <1>7. \A result \in opened : Unserved(result)
    BY <1>5
  <1> HIDE DEF opened, pick, found
  <1>8. CASE Chosen(option, list) = Refused(TRUE)
    BY <1>8, <1>3
  <1>9. CASE Chosen(option, list) = Refused(FALSE)
    BY <1>9, <1>3
  <1>10. CASE Chosen(option, list) = opened
    BY <1>10, <1>7
  <1>11. CASE Chosen(option, list) = LongTerm(FALSE)
    BY <1>11, <1>6
  <1>12. CASE Chosen(option, list) = {Question(list)}
    BY <1>12, <1>4
  <1> QED BY <1>2, <1>8, <1>9, <1>10, <1>11, <1>12

LEMMA ChosenRefused ==
  ASSUME NEW option, option.pick = "recover_learning", "verbatim" \in text, NEW list
  PROVE  \A result \in Chosen(option, list) : Refusal(result)
  <1>1. ~AllowsRecovery
    BY DEF AllowsRecovery
  <1>2. Chosen(option, list) = Refused(FALSE)
    BY <1>1 DEF Chosen
  <1> QED BY <1>2, RefusedHarmless

-----------------------------------------------------------------------------
(* The steps                                                                *)

LEMMA ShowStep ==
  ASSUME NEW cards, \A result \in cards : Made(result), Show(cards)
  PROVE  /\ Made(card') /\ Made(card)' /\ UNCHANGED text
         /\ (\A result \in cards : Unserved(result)) => Unserved(card)'
         /\ (\A result \in cards : Refusal(result)) => Refusal(card)'
  <1>1. card' \in cards /\ text' = text
    BY DEF Show
  <1> QED BY <1>1 DEF Made, Offers, Unserved, Refusal, PlainGoal

LEMMA InitMade == RoutingInit => Made(card) /\ Unserved(card) /\ Refusal(card)
  BY DEF RoutingInit, Made, Offers, Unserved, Refusal, Final

LEMMA NextMade ==
  ASSUME Made(card), [RoutingNext]_routing
  PROVE  Made(card)' /\ Made(card') /\ UNCHANGED text
  <1>1. CASE Dispatch
    BY <1>1, DecidedMade, ShowStep DEF Dispatch
  <1>2. ASSUME NEW option \in card.options, Choose(option)
        PROVE  Made(card)' /\ Made(card') /\ UNCHANGED text
    <2> DEFINE list == Candidates(AllSpaces)
    <2>1. option.pick \in Picks
      BY <1>2 DEF Made, Offers
    <2>2. Show(Chosen(option, list)) \/ Show(Decided(list))
      BY <1>2 DEF Choose
    <2> HIDE DEF list
    <2> QED BY <2>1, <2>2, ChosenMade, DecidedMade, ShowStep
  <1>3. CASE (\E w \in Ranks : EditSpace(w)) \/ UNCHANGED routing
    <2>1. card' = card /\ text' = text
      BY <1>3 DEF EditSpace, routing
    <2> QED BY <2>1 DEF Made, Offers, PlainGoal
  <1> QED BY <1>1, <1>2, <1>3 DEF RoutingNext

LEMMA NextUnserved ==
  ASSUME "forbidden" \in text, Made(card), Unserved(card), [RoutingNext]_routing
  PROVE  Unserved(card)'
  <1>1. CASE Dispatch
    BY <1>1, DecidedMade, ShowStep DEF Dispatch, Refusal, Unserved
  <1>2. ASSUME NEW option \in card.options, Choose(option)
        PROVE  Unserved(card)'
    <2> DEFINE list == Candidates(AllSpaces)
    <2>1. option.pick \in Picks \ {"act"}
      BY <1>2 DEF Made, Offers, Unserved
    <2>2. Show(Chosen(option, list)) \/ Show(Decided(list))
      BY <1>2 DEF Choose
    <2>3. \A result \in Decided(list) : Made(result) /\ Unserved(result)
      BY DecidedMade DEF Refusal, Unserved
    <2> HIDE DEF list
    <2> QED BY <2>1, <2>2, <2>3, ChosenMade, ChosenUnserved, ShowStep
  <1>3. CASE (\E w \in Ranks : EditSpace(w)) \/ UNCHANGED routing
    <2>1. card' = card
      BY <1>3 DEF EditSpace, routing
    <2> QED BY <2>1 DEF Unserved
  <1> QED BY <1>1, <1>2, <1>3 DEF RoutingNext

\* What was refused may be asked again only from the start: the client sends no
\* option to change the question.
LEMMA NextRefused ==
  ASSUME "change_question" \in Kept, {"forbidden", "verbatim"} \subseteq text,
         Made(card), Refusal(card), [RoutingNext]_routing
  PROVE  Refusal(card)'
  <1>1. CASE Dispatch
    BY <1>1, DecidedMade, ShowStep DEF Dispatch
  <1>2. ASSUME NEW option \in card.options, Choose(option)
        PROVE  Refusal(card)'
    <2> DEFINE list == Candidates(AllSpaces)
    <2>1. option.pick \in Picks /\ option.pick = "recover_learning"
      BY <1>2 DEF Choose, Made, Offers, Refusal
    <2>2. Show(Chosen(option, list)) \/ Show(Decided(list))
      BY <1>2 DEF Choose
    <2> HIDE DEF list
    <2> QED BY <2>1, <2>2, ChosenMade, ChosenRefused, DecidedMade, ShowStep
  <1>3. CASE (\E w \in Ranks : EditSpace(w)) \/ UNCHANGED routing
    <2>1. card' = card
      BY <1>3 DEF EditSpace, routing
    <2> QED BY <2>1 DEF Refusal
  <1> QED BY <1>1, <1>2, <1>3 DEF RoutingNext

\* Whatever spaces there are, however the learner's text names them, whichever
\* models answer, whatever the client sends and in whatever order options are
\* chosen and spaces change: a forbidden request is not answered or carried out.
THEOREM ForbiddenIsNotServed == RoutingSpec => []NothingIsServed
  <1> DEFINE Settled == Made(card) /\ ("forbidden" \in text => Unserved(card))
  <1>1. RoutingInit => Settled
    BY InitMade
  <1>2. Settled /\ [RoutingNext]_routing => Settled'
    BY NextMade, NextUnserved
  <1>3. Settled => NothingIsServed
    BY DEF Unserved, NothingIsServed
  <1> HIDE DEF Settled
  <1> QED BY <1>1, <1>2, <1>3, PTL DEF RoutingSpec

\* And when its words are found in the text as it stands, it stays refused, as
\* long as the client keeps the option to change the question to itself.
THEOREM ForbiddenStaysRefused ==
  ASSUME "change_question" \in Kept
  PROVE  RoutingSpec => []ForbiddenIsRefused
  <1> DEFINE Settled ==
        Made(card) /\ ({"forbidden", "verbatim"} \subseteq text => Refusal(card))
  <1>1. RoutingInit => Settled
    BY InitMade
  <1>2. Settled /\ [RoutingNext]_routing => Settled'
    BY NextMade, NextRefused
  <1>3. Settled => RefusalStands
    BY DEF Refusal, RefusalStands
  <1>4. NothingIsServed /\ RefusalStands => ForbiddenIsRefused
    BY DEF ForbiddenIsRefused
  <1> HIDE DEF Settled
  <1> QED BY <1>1, <1>2, <1>3, <1>4, ForbiddenIsNotServed, PTL DEF RoutingSpec

\* A space is made without asking for nothing but a goal of the learner's own
\* that nothing else in the text goes with, whatever the client sends.
THEOREM SpacesAreMadeForGoals == RoutingSpec => CreatesOnlyForGoals
  <1> DEFINE Settled == Made(card)
  <1>1. RoutingInit => Settled
    BY InitMade
  <1>2. Settled /\ [RoutingNext]_routing => Settled'
    BY NextMade
  <1>3. Settled /\ [RoutingNext]_routing =>
          [card'.kind = "created" /\ version' # version =>
             /\ "goal" \in text
             /\ text \cap {"forbidden", "quoted", "unrelated", "evaluation", "veto"} = {}]_routing
    BY NextMade DEF Made, PlainGoal
  <1> HIDE DEF Settled
  <1> QED BY <1>1, <1>2, <1>3, PTL DEF RoutingSpec, CreatesOnlyForGoals
=============================================================================
