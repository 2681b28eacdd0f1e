------------------------------ MODULE HomeRouting ------------------------------
(***************************************************************************)
(* What the home supervisor does with one text: the routing policy, the     *)
(* bounded list of learning spaces it considers, the model it may ask, and  *)
(* the questions it asks back until the learner has an answer, a space or a  *)
(* proposal.                                                                *)
(*                                                                         *)
(* A text is the set of patterns found in it; what the policy and the       *)
(* constraint parser look for in the learner's own words is a pattern of    *)
(* its own.  A space is whether it exists and how the text refers to it.    *)
(* One request is one step: what it writes is the subject of HomeDispatch.  *)
(***************************************************************************)
EXTENDS Naturals, SequencesExt

CONSTANTS
  Ranks,          \* learning spaces, 1 the last one used
  Texts,          \* sets of signals: the texts a learner may send
  Servers,        \* what there may be to answer: see server
  Kept,           \* options that the web client handles itself and does not send
  MaxCandidates,  \* MAX_DISPATCH_CANDIDATES
  MaxChanges,     \* bound on the changes to the spaces
  NoSpace

VARIABLES
  text,           \* the text that is asked about
  server,         \* "ready", or "unset" or "admin": no model, for a learner or an admin
  listing,        \* id -> space
  version,        \* changes to the spaces so far: the state hash
  card            \* the result that the learner sees

routing == <<text, server, listing, version, card>>

-----------------------------------------------------------------------------
(* Vocabulary                                                               *)

\* The rules of the policy in their order: what is found, what it means.
Rules == <<
  <<"forbidden",  "out_of_scope">>,  <<"quoted", "direct_answer">>,
  <<"open",       "open">>,          <<"unrelated", "out_of_scope">>,
  <<"action",     "action">>,        <<"cross", "cross">>,
  <<"evaluation", "evaluation">>,    <<"oneShot", "direct_answer">>,
  <<"veto",       "direct_answer">>, <<"goal", "strong">>,
  <<"verb",       "ambiguous">>,     <<"task", "direct_answer">>,
  <<"vague",      "clarify">> >>

\* "forbidden" is found in the learner's own words, where a space takes the place
\* of a quotation, "verbatim" in the text as it stands: words within quotes are
\* found in the second alone, `archive "Calculus" workspace' in the first alone.
\* "dated": a day or a length is given.
Signals == {rule[1] : rule \in ToSet(Rules)} \cup {"verbatim", "dated"}

Listing ==
  [status : {"active", "archived"}, match : {"none", "topic", "named"}]
    \cup [status : {"absent"}, match : {"none"}]

ASSUME RoutingAssumption ==
  /\ Ranks \subseteq Nat \ {0} /\ Texts \subseteq SUBSET Signals
  /\ MaxCandidates \in Nat \ {0} /\ MaxChanges \in Nat

\* Both lists of spaces, the last used first.
InOrder(ids) == SetToSortSeq(ids, <)
AllSpaces  == InOrder({w \in Ranks : listing[w].status # "absent"})
OpenSpaces == InOrder({w \in Ranks : listing[w].status = "active"})

Having(list, match) == SelectSeq(list, LAMBDA w : listing[w].match = match)
Named(list)   == Having(list, "named")
Matched(list) == SelectSeq(Having(list, "topic"), LAMBDA w : listing[w].status = "active")

First(n, list) == SubSeq(list, 1, IF n < Len(list) THEN n ELSE Len(list))

-----------------------------------------------------------------------------
(* select_dispatch_candidates                                               *)

\* One that must be kept takes the place of the last one.
Keep(selected, w) ==
  IF w \in ToSet(selected) THEN selected
    ELSE Append(First(MaxCandidates - 1, selected), w)

Candidates(list) ==
  LET recent == First(MaxCandidates, SelectSeq(list, LAMBDA w : listing[w].status = "active"))
  IN InOrder(ToSet(FoldLeft(Keep, recent, Named(list) \o Matched(list))))

-----------------------------------------------------------------------------
(* HomeRoutingPolicy                                                        *)

Applies(rule, list) ==
  /\ rule[1] \in text
  /\ rule[1] = "open" => Named(list) # <<>>
  /\ rule[1] = "oneShot" => Named(list) = <<>>

\* The first rule that applies; a text that none applies to is for the model.
Decide(list) ==
  LET found == {i \in DOMAIN Rules : Applies(Rules[i], list)}
  IN IF found = {} THEN "semantic" ELSE Rules[Min(found)][2]

\* Faulty variant: whatever was refused may be declared a learning task.
AllowsAnyRecovery == TRUE

\* allows_learning_recovery, which takes no quotation out of the text.
AllowsRecovery == "verbatim" \notin text

-----------------------------------------------------------------------------
(* Results, each a set of cards: what the model says is not known before.    *)
(* A card that asks back carries a token of the spaces as they were.        *)

Final(kind, w) == [kind |-> kind, space |-> w, options |-> {}, version |-> 0]
Asking(kind, options) ==
  [kind |-> kind, space |-> NoSpace, options |-> options, version |-> version]
Option(pick, w) == [pick |-> pick, space |-> w]

\* _open_workspace_result: the space must be among those given.
Opened(w, list) ==
  {IF w \in ToSet(list) THEN Final("open_workspace", w) ELSE Final("conflict", NoSpace)}

\* _clarify_result without spaces to choose from.
Question(list) ==
  Asking("clarify",
         {Option("direct_answer", NoSpace), Option("create_workspace", NoSpace)}
           \cup {Option("open", w) : w \in ToSet(First(1, list))})

\* _deterministic_model_fallback.
Fallback(list) ==
  IF Len(Named(list)) = 1 THEN Opened(Named(list)[1], list) ELSE {Question(list)}

\* _clarify_result: a question has two or three options.  One that is left with
\* a single option is not valid, which dispatch takes for a failure of the model.
Clarified(ids, pick, list) ==
  LET offered == SelectSeq(ids, LAMBDA w : w \in ToSet(list))
  IN CASE offered = <<>>     -> {Question(list)}
       [] Len(offered) = 1   -> Fallback(list)
       [] OTHER              ->
            {Asking("clarify", {Option(pick, w) : w \in ToSet(First(3, offered))})}

\* _out_of_scope_result.
Refused(recoverable) ==
  {Asking("out_of_scope",
          IF recoverable
            THEN {Option("recover_learning", NoSpace), Option("change_question", NoSpace)}
            ELSE {})}

\* _model_unconfigured_result: a learner is led to one of the summarised spaces.
Unconfigured(list) ==
  IF list # <<>> /\ server = "unset" THEN UNION {Opened(w, OpenSpaces) : w \in ToSet(list)}
    ELSE {Asking("out_of_scope",
                 {Option("change_question", NoSpace),
                  Option(IF server = "admin" THEN "configure_model" ELSE "create_workspace",
                         NoSpace)})}

\* _direct_answer_result: the answer, or an error that is shown as such.
Replied(list) ==
  IF server # "ready" THEN Unconfigured(list)
    ELSE {Final("direct_answer", NoSpace), Final("unavailable", NoSpace)}

\* Faulty variant: a new one without a proposal, however weak the signal.
LongTermAtOnce(strong) ==
  (UNION {Opened(w, Candidates(OpenSpaces)) : w \in ToSet(OpenSpaces)})
    \cup {Final("created", NoSpace)}

\* _long_term_result: a space that the preview finds, a new one for a strong
\* signal, otherwise a proposal.
LongTerm(strong) ==
  (UNION {Opened(w, Candidates(OpenSpaces)) : w \in ToSet(OpenSpaces)})
    \cup {Final(IF strong THEN "created" ELSE "propose_workspace", NoSpace)}

\* _workspace_action_result, without or with a plan to change.
ChangedPlan(ids, list) ==
  LET single == IF ids = <<>> THEN list ELSE ids
  IN IF Len(single) # 1 \/ single[1] \notin ToSet(list)
       THEN Clarified(IF ids = <<>> THEN First(3, list) ELSE ids, "act", list)
       ELSE {Final("no_plan", NoSpace)}
              \cup IF "dated" \in text THEN {Final("workspace_action", single[1])}
                     ELSE {Question(list)}

\* _cross_workspace_result: the first in an order of urgency that is left open.
Compared(list) ==
  IF list = <<>> THEN LongTerm(FALSE) ELSE UNION {Opened(w, list) : w \in ToSet(list)}

\* What follows an evaluation: the space that has the material.
Evaluated(ids, list) ==
  CASE ids = <<>>   -> LongTerm(FALSE)
    [] Len(ids) = 1 -> Opened(ids[1], list)
    [] OTHER        -> Clarified(ids, "open", list)

\* The model classifies the text, within what it may say; or fails.
Classified(list) ==
  IF server # "ready" THEN Unconfigured(list)
    ELSE (UNION {Opened(w, list) : w \in ToSet(list)}) \cup Replied(list)
           \cup LongTerm(FALSE) \cup Refused(TRUE)
           \cup Clarified(<<>>, "open", list) \cup Fallback(list)

\* _dispatch_decision, for the spaces there are and the candidates among them.
Decided(list) ==
  LET decision == Decide(AllSpaces)
      named    == First(3, Named(AllSpaces))
      matched  == IF Named(AllSpaces) # <<>> THEN Named(AllSpaces) ELSE Matched(AllSpaces)
  IN CASE decision = "out_of_scope"  -> Refused(TRUE)
       [] decision = "direct_answer" -> Replied(list)
       [] decision = "open"          -> IF Len(named) = 1 THEN Opened(named[1], list)
                                          ELSE Clarified(named, "open", list)
       [] decision = "action"        -> ChangedPlan(named, list)
       [] decision = "cross"         -> Compared(list)
       [] decision = "evaluation"    -> Evaluated(First(3, matched), list)
       [] decision = "strong"        -> LongTerm(TRUE)
       [] decision = "ambiguous"     -> LongTerm(FALSE)
       [] decision = "clarify"       -> Clarified(<<>>, "open", list)
       [] decision = "semantic"      -> Classified(list)

\* _dispatch_clarified, for spaces that have not changed since.
Chosen(option, list) ==
  CASE option.pick = "direct_answer" ->
         IF Decide(OpenSpaces) = "out_of_scope" THEN Refused(TRUE) ELSE Replied(list)
    [] option.pick = "open"             -> Opened(option.space, list)
    [] option.pick = "act"              -> ChangedPlan(<<option.space>>, list)
    [] option.pick = "recover_learning" ->
         IF AllowsRecovery THEN {Question(list)} ELSE Refused(FALSE)
    [] option.pick = "create_workspace" -> LongTerm(FALSE)
    [] option.pick \in {"change_question", "configure_model"} -> {Question(list)}

-----------------------------------------------------------------------------
(* The specification                                                        *)

RoutingInit ==
  /\ text \in Texts /\ server \in Servers
  /\ listing \in [Ranks -> Listing]
  /\ version = 0
  /\ card = Final("none", NoSpace)

\* A strong signal adds a space, which the text may well name.
Show(cards) ==
  \E result \in cards :
    /\ card' = result
    /\ IF result.kind = "created"
         THEN /\ version < MaxChanges /\ version' = version + 1
              /\ \E w \in Ranks, match \in {"none", "topic", "named"} :
                   /\ listing[w].status = "absent"
                   /\ listing' = [listing EXCEPT ![w] = [status |-> "active", match |-> match]]
         ELSE UNCHANGED <<listing, version>>
    /\ UNCHANGED <<text, server>>

\* The text is sent, or sent again.
Dispatch == Show(Decided(Candidates(AllSpaces)))

\* An option is chosen; if the spaces have changed the text is decided anew.
Choose(option) ==
  /\ option \in card.options /\ option.pick \notin Kept
  /\ LET list == Candidates(AllSpaces)
     IN Show(IF version = card.version THEN Chosen(option, list) ELSE Decided(list))

\* Meanwhile a space is made, renamed, archived, opened again or deleted.
EditSpace(w) ==
  /\ version < MaxChanges /\ version' = version + 1
  /\ \E space \in Listing \ {listing[w]} : listing' = [listing EXCEPT ![w] = space]
  /\ UNCHANGED <<text, server, card>>

RoutingNext ==
  \/ Dispatch
  \/ \E option \in card.options : Choose(option)
  \/ \E w \in Ranks : EditSpace(w)

RoutingSpec == RoutingInit /\ [][RoutingNext]_routing

-----------------------------------------------------------------------------
(* Properties                                                               *)

\* A request that the learner's own words make forbidden (destructive, of high
\* risk or in real time) is neither answered nor carried out.
NothingIsServed ==
  "forbidden" \in text =>
    card.kind \notin {"direct_answer", "unavailable", "created", "workspace_action", "no_plan"}

\* When its words are found in the text as it stands too, no question, proposal
\* or space follows the refusal.
RefusalStands ==
  {"forbidden", "verbatim"} \subseteq text => card.kind \in {"none", "out_of_scope"}

\* Both, whatever spaces the text names and whichever way through the questions
\* the learner takes: declared a learning task, decided anew after the spaces
\* changed, asked again.  The second half rests on Kept: with Kept = {}
\* "change_question", which a refusal offers, leads to a question and from there
\* to a proposal, because the service answers an option it has no rule for with
\* the general question.
ForbiddenIsRefused == NothingIsServed /\ RefusalStands

\* What the service says to the learner who contests a refusal: a forbidden
\* request is not handled on the home page even when it is declared a learning
\* task (home/service.py:707).
\* No run checks it, for it does not hold: with the text {"forbidden"}, a request
\* that a quotation interrupts, TLC contests the refusal and is asked whether to
\* have a space, from where a proposal follows.  (home/policy.py:201-202 looks for
\* the words with the quotation among them, 219-225 without it.)
EveryRefusalStands == "forbidden" \in text => card.kind \in {"none", "out_of_scope"}

\* A space is made without asking only for a goal (something to learn, in the
\* learner's own words, and a limit in time) that no veto, no quotation and no
\* request for an evaluation goes with; never by way of a question that was
\* answered, a refusal that was contested, or a text that was decided anew after
\* the spaces changed.
CreatesOnlyForGoals ==
  [][card'.kind = "created" /\ version' # version =>
       /\ "goal" \in text
       /\ text \cap {"forbidden", "quoted", "unrelated", "evaluation", "veto"} = {}]_routing

\* What the policy and its tests say of the candidates: a space that the text
\* names is among them, as long as they are not more than there is place for.
\* No run checks it, for it does not hold: with three spaces, two places, two
\* spaces that the text names and one it only touches, TLC finds that the topic
\* takes the place of a name.  (home/policy.py pops the last one selected, kept
\* or not.)
NamedAreCandidates ==
  Len(Named(AllSpaces)) <= MaxCandidates =>
    ToSet(Named(AllSpaces)) \subseteq ToSet(Candidates(AllSpaces))
=============================================================================
