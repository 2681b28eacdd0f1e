------------------------------ MODULE Assistants ------------------------------
(***************************************************************************)
(* The home supervisor and the agent at work on the same learning spaces.   *)
(***************************************************************************)
EXTENDS HomeDispatch, AgentChat

vars == <<data, lease, threads, home>>

Init == SpacesInit /\ HomeInit

Next ==
  \/ SpacesNext /\ UNCHANGED home
  \/ HomeNext
  \/ ChatNext /\ UNCHANGED home

Spec == Init /\ [][Next]_vars

-----------------------------------------------------------------------------
(* Properties                                                               *)

TypeOK ==
  /\ spaces \in [Ids -> Space \cup {None}]
  /\ created \in 0 .. MaxIds
  /\ links \in [Ids -> SUBSET Materials]
  /\ sessions \in [SessionIds -> Talk \cup {None}]
  /\ lease \in Threads \cup {None}
  /\ pc \in [Threads -> {"idle", "issuing", "confirming", "moving", "deleting", "unlinking",
                         "replying"}]
  /\ edits \in 0 .. MaxEdits
  /\ tokens \subseteq Tokens
  /\ receipts \subseteq Keys
  /\ effects \in [Keys -> SUBSET Ids]

\* A conversation belongs to a space that exists: a reply that was being
\* written while its space was deleted or undone is thrown away, and a delete
\* that is put back brings both back together.
TalksHaveSpace == \A s \in Conversations : sessions[s].space \in Existing

\* However often a proposal is confirmed or an undo is asked for, and whatever
\* happens to the spaces in between, it takes effect once and has a receipt
\* exactly when it was carried out.
ActsOnce == Once!Spec

\* What was seen: for an undo, the space, its materials and its conversations
\* with their versions; for a confirmed change, the plan and its version.
Undoes(t) == pc[t] = "deleting" /\ call[t].op = "undo" /\ pc'[t] = "unlinking"
UndoesAsSeen(t) ==
  LET w == call[t].space
      state == held[t].state
  IN /\ spaces[w].plan = state.space.plan
     /\ links[w] = state.links
     /\ {<<s, sessions[s].version>> : s \in TalksOf(w)} \subseteq state.talks

Moves(t) == pc[t] = "moving" /\ receipts' # receipts
MovesAsSeen(t) == spaces[call[t].space].plan = held[t].state[1]

\* The supervisor acts on what the learner saw: an undo deletes no plan, answer,
\* material or reply that came after it was offered, and a confirmed change is
\* made to the plan it was previewed on, whatever other requests did between the
\* look and the write.  (Writes that take no plan scope may still slip in after
\* the last comparison: a plan cleared or made anew is counted in another field.)
ActsOnWhatWasSeen ==
  [][\A t \in Threads :
       (Undoes(t) => UndoesAsSeen(t)) /\ (Moves(t) => MovesAsSeen(t))]_vars
=============================================================================
