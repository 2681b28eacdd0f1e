------------------------------- MODULE AgentChat -------------------------------
(***************************************************************************)
(* The agent's conversations.  A reply takes a call of a remote model, so   *)
(* the conversation is read before it and written after it, in the plan's   *)
(* scope and that of the conversation, or of the owner's conversation quota. *)
(* Each request is in a process of its own: the generation lock, which is   *)
(* one process's, helps nobody here.                                        *)
(***************************************************************************)
EXTENDS LearningSpaces

Talk == [space : Ids, version : 1 .. MaxReplies, turns : SUBSET Turns]

\* The oldest stored turns go when there are too many; JSON objects that
\* PostgreSQL returns are not in the order they were written.
Remember(turns, u) ==
  IF Cardinality(turns \cup {u}) <= MaxTurns
    THEN {turns \cup {u}}
    ELSE {(turns \ {old}) \cup {u} : old \in turns}

\* replay_turn: the stored answer is returned.
Answered(s, u) == sessions[s] # None /\ u \in sessions[s].turns

Conversations == {s \in SessionIds : sessions[s] # None}

\* The checks before the model is called.
BeginChat(t, w, s, u) ==
  /\ w \in Existing
  /\ sessions[s] # None => sessions[s].space = w
  /\ sessions[s] = None => Cardinality(Conversations) < MaxSessions
  /\ ~Answered(s, u)
  /\ Begin(t, [op |-> "chat", request |-> None, space |-> w, talk |-> s, turn |-> u], "replying")
  /\ held' = [held EXCEPT ![t] = IF sessions[s] = None THEN 0 ELSE sessions[s].version]
  /\ UNCHANGED <<data, lease>>

\* Faulty variant: the space is not looked up again.
StillThereAssumed(w) == TRUE

\* The space and its learning record are looked up again, in the plan's scope.
StillThere(w) == w \in Existing

\* A conversation that was read must be there, unchanged and still without this turn.
MayAppend(t, s) ==
  /\ sessions[s] # None
  /\ sessions[s].space = call[t].space
  /\ ~Answered(s, call[t].turn)
  /\ sessions[s].version = held[t]

\* One that was not there must still not be, and the quota have room for it.
MayOpen(t, s) == sessions[s] = None /\ Cardinality(Conversations) < MaxSessions

CommitReply(t) ==
  /\ pc[t] = "replying" /\ InPlanScope(call[t].space) = {}
  /\ LET s == call[t].talk
         old == sessions[s]
     IN IF ~StillThere(call[t].space)
          THEN UNCHANGED sessions
          ELSE \/ /\ held[t] # 0 /\ MayAppend(t, s) /\ old.version < MaxReplies
                  /\ \E turns \in Remember(old.turns, call[t].turn) :
                       sessions' = [sessions EXCEPT ![s] =
                                      [old EXCEPT !.version = @ + 1, !.turns = turns]]
               \/ /\ held[t] = 0 /\ MayOpen(t, s)
                  /\ sessions' = [sessions EXCEPT ![s] =
                       [space |-> call[t].space, version |-> 1, turns |-> {call[t].turn}]]
               \/ /\ IF held[t] = 0 THEN ~MayOpen(t, s)
                                       ELSE ~(MayAppend(t, s) /\ old.version < MaxReplies)
                  /\ UNCHANGED sessions
  /\ Finish(t)
  /\ UNCHANGED <<spaces, created, links, edits, lease>>

ChatNext ==
  \E t \in Threads :
    \/ \E w \in Ids, s \in SessionIds, u \in Turns : BeginChat(t, w, s, u)
    \/ CommitReply(t)
=============================================================================
