------------------------------- MODULE Accounts -------------------------------
(***************************************************************************)
(* Credentials of one account: its password, the access tokens given out    *)
(* for it, its password reset links, and what becomes of them when the      *)
(* account is deleted and registered again under the same id.               *)
(*                                                                         *)
(* PostgreSQL, several processes: the lock of IdentityService is one         *)
(* process's and keeps nobody here apart, a statement sees what is committed *)
(* before it, and the rows of the account and of its links are locked as the *)
(* statements lock them.  A token or link that has expired is one nobody     *)
(* uses any more.  The journal of an account deletion is in                 *)
(* MaterialLifecycle; here it is its fence and its password.                *)
(***************************************************************************)
EXTENDS Naturals, FiniteSets

CONSTANTS
  Threads,        \* requests at work
  Passwords,
  Links,          \* password reset links that can be issued
  None,
  MaxHashes,      \* bound on the passwords that are ever stored
  MaxVersion,     \* bound on the session version
  MaxTokens       \* bound on the access tokens a client keeps

ASSUME AccountsAssumption ==
  /\ None \notin Threads
  /\ MaxHashes \in Nat /\ MaxVersion \in Nat /\ MaxTokens \in Nat

VARIABLES
  user,           \* None, or the row: password hash and deletion fence
  version,        \* session version; 0 when there is no such row
  disabled,       \* interactive access is disabled; outlives the account
  links,          \* link -> "unissued", "open", or "spent": used, or its row is gone
  stored,         \* passwords stored so far
  tokens,         \* access tokens that clients hold
  pc, held,       \* where a request is, and what it has read
  rowLock,        \* request that has locked the row of the account
  linkLock        \* link -> request that has locked its row

rows    == <<user, version, disabled, links, stored>>
locks   == <<rowLock, linkLock>>
threads == <<pc, held>>
vars    == <<rows, tokens, threads, locks>>

-----------------------------------------------------------------------------
(* Vocabulary                                                               *)

\* Faulty variant: equal passwords have equal hashes.
UnsaltedHash(p) == <<p, 0>>

\* bcrypt with a new salt.
NewHash(p) == <<p, stored + 1>>

Hash == Passwords \X (0 .. MaxHashes)

\* Does the password belong to the hash?
Checks(p, hash) == hash[1] = p

\* What a token is bound to, and, as history, the password its holder showed
\* and whether that was at a login.
Token == [hash : Hash, version : 0 .. MaxVersion, shown : Passwords, login : BOOLEAN]

\* verify_token, apart from the fence of a deletion that may be taken back.
Current(token) ==
  /\ user # None /\ ~disabled
  /\ token.hash = user.hash
  /\ token.version = version

Valid(token) == Current(token) /\ user.fence = None

Open == {l \in Links : links[l] = "open"}

Go(t, l, h) ==
  /\ pc' = [pc EXCEPT ![t] = l]
  /\ held' = [held EXCEPT ![t] = h]

End(t) == Go(t, "idle", None)

\* A client keeps the tokens it likes.
Give(token) ==
  \E kept \in SUBSET tokens :
    /\ tokens' = kept \cup {token}
    /\ Cardinality(tokens') <= MaxTokens

\* An update of the row, if it is there.
Put(p) ==
  /\ stored < MaxHashes /\ stored' = stored + 1
  /\ user' = IF user = None THEN None ELSE [user EXCEPT !.hash = NewHash(p)]

\* The row is there and nobody else has locked it.
RowFree(t) == user # None /\ rowLock \in {None, t}

\* Rows of links that others have locked are waited for.
LinksFree(t) == \A l \in Open : linkLock[l] \in {None, t}

\* The links in ls have been used, or their rows deleted.
Spend(ls) == links' = [l \in Links |-> IF l \in ls THEN "spent" ELSE links[l]]

Init ==
  /\ user = None /\ version = 0 /\ disabled = FALSE
  /\ links = [l \in Links |-> "unissued"]
  /\ stored = 0 /\ tokens = {}
  /\ pc = [t \in Threads |-> "idle"]
  /\ held = [t \in Threads |-> None]
  /\ rowLock = None
  /\ linkLock = [l \in Links |-> None]

-----------------------------------------------------------------------------
(* Registration and login                                                   *)

\* The insert; an account that is there makes it fail.
Register(t, p) ==
  /\ pc[t] = "idle" /\ user = None /\ stored < MaxHashes
  /\ stored' = stored + 1
  /\ user' = [hash |-> NewHash(p), fence |-> None]
  /\ Go(t, "registered", p)
  /\ UNCHANGED <<version, disabled, links, tokens, locks>>

\* issue_token binds to the row as it is by then, or finds none it may use.
IssueToken(t) ==
  /\ pc[t] = "registered"
  /\ IF user # None /\ user.fence = None /\ ~disabled
       THEN Give([hash |-> user.hash, version |-> version, shown |-> held[t], login |-> FALSE])
       ELSE UNCHANGED tokens
  /\ End(t)
  /\ UNCHANGED <<rows, locks>>

\* authenticate_with_token: the row first; what is wrong with it is an error.
LoginRead(t, p) ==
  /\ pc[t] = "idle"
  /\ user # None /\ user.fence = None /\ Checks(p, user.hash)
  /\ Go(t, "checked", [hash |-> user.hash, shown |-> p])
  /\ UNCHANGED <<rows, tokens, locks>>

\* Faulty variant: issue_token after the check, as at a registration.
BoundToRow(t) == IF user = None THEN held[t].hash ELSE user.hash

\* The token is bound to the hash that was checked.
BoundTo(t) == held[t].hash

\* Then the session version and whether access is disabled; the row is not read
\* again, so the token may be one that never works.
LoginFinish(t) ==
  /\ pc[t] = "checked"
  /\ IF ~disabled
       THEN Give([hash |-> BoundTo(t), version |-> version,
                  shown |-> held[t].shown, login |-> TRUE])
       ELSE UNCHANGED tokens
  /\ End(t)
  /\ UNCHANGED <<rows, locks>>

-----------------------------------------------------------------------------
(* Requests with an access token: it is verified before the operation starts *)

Authenticate(t, token) ==
  /\ pc[t] = "idle" /\ Valid(token)
  /\ Go(t, "admitted", None)
  /\ UNCHANGED <<rows, tokens, locks>>

\* change_password waits for the row; it does not ask for the fence.
ChangePassword(t, old, new) ==
  /\ pc[t] = "admitted" /\ RowFree(t) /\ Checks(old, user.hash)
  /\ Put(new)
  /\ End(t)
  /\ UNCHANGED <<version, disabled, links, tokens, locks>>

RevokeSessions(t) ==
  /\ pc[t] = "admitted" /\ user # None
  /\ version < MaxVersion /\ version' = version + 1
  /\ End(t)
  /\ UNCHANGED <<user, disabled, links, stored, tokens, locks>>

\* Everything else, and what is refused by now.
OtherRequest(t) ==
  /\ pc[t] = "admitted"
  /\ End(t)
  /\ UNCHANGED <<rows, tokens, locks>>

\* begin_account_deletion.
BeginDeletion(t, p) ==
  /\ pc[t] = "admitted" /\ RowFree(t) /\ Checks(p, user.hash) /\ user.fence = None
  /\ user' = [user EXCEPT !.fence = t]
  /\ Go(t, "deleting", p)
  /\ UNCHANGED <<version, disabled, links, stored, tokens, locks>>

\* delete_account locks the row.  A password that was changed or reset behind
\* the fence makes it fail: the deletion is taken back.
DeleteLock(t) ==
  /\ pc[t] = "deleting" /\ RowFree(t)
  /\ IF Checks(held[t], user.hash)
       THEN /\ rowLock' = t
            /\ Go(t, "purging", None)
       ELSE /\ Go(t, "cancelling", None)
            /\ UNCHANGED rowLock
  /\ UNCHANGED <<rows, tokens, linkLock>>

DeleteAccount(t) ==
  /\ pc[t] = "purging" /\ LinksFree(t)
  /\ user' = None /\ version' = 0
  /\ Spend(Open)
  /\ rowLock' = None
  /\ End(t)
  /\ UNCHANGED <<disabled, stored, tokens, linkLock>>

\* A failure elsewhere in the deletion, or its recovery after a crash.
DeletionFails(t) ==
  /\ pc[t] = "deleting"
  /\ Go(t, "cancelling", None)
  /\ UNCHANGED <<rows, tokens, locks>>

\* cancel_account_deletion updates the row.
CancelDeletion(t) ==
  /\ pc[t] = "cancelling" /\ RowFree(t)
  /\ user' = [user EXCEPT !.fence = None]
  /\ End(t)
  /\ UNCHANGED <<version, disabled, links, stored, tokens, locks>>

-----------------------------------------------------------------------------
(* Password reset links                                                     *)

\* The new row refers to the account's, which a deletion has locked for itself.
RequestReset(l) ==
  /\ user # None /\ ~disabled
  /\ \A t \in Threads : pc[t] # "purging"
  /\ links[l] = "unissued"
  /\ links' = [links EXCEPT ![l] = "open"]
  /\ UNCHANGED <<user, version, disabled, stored, tokens, threads, locks>>

\* Faulty variant: the row of the link is read without a lock.
ReadLink(t, l) == UNCHANGED linkLock

\* SELECT ... FOR UPDATE waits for the lock.
LockLink(t, l) == linkLock[l] = None /\ linkLock' = [linkLock EXCEPT ![l] = t]

\* reset_password: a link that is unknown or used, or whose account is disabled,
\* is refused.
ResetRead(t, l, p) ==
  /\ pc[t] = "idle" /\ links[l] = "open" /\ ~disabled
  /\ LockLink(t, l)
  /\ Go(t, "resetting", [link |-> l, password |-> p, open |-> Open])
  /\ UNCHANGED <<rows, tokens, rowLock>>

\* The update of the account's row.
ResetWrite(t) ==
  /\ pc[t] = "resetting" /\ rowLock = None
  /\ rowLock' = t
  /\ Go(t, "marking", held[t])
  /\ UNCHANGED <<rows, tokens, linkLock>>

\* The update of every link of the account that is still open.
ResetMark(t) ==
  /\ pc[t] = "marking" /\ LinksFree(t)
  /\ linkLock' = [l \in Links |-> IF l \in Open THEN t ELSE linkLock[l]]
  /\ Go(t, "marked", [held[t] EXCEPT !.open = @ \cup Open])
  /\ UNCHANGED <<rows, tokens, rowLock>>

Unlocked(t) == [l \in Links |-> IF linkLock[l] = t THEN None ELSE linkLock[l]]

\* A link that was issued since the update is not among them.
ResetCommit(t) ==
  /\ pc[t] = "marked"
  /\ Put(held[t].password)
  /\ Spend({l \in Links : linkLock[l] = t})
  /\ linkLock' = Unlocked(t) /\ rowLock' = None
  /\ End(t)
  /\ UNCHANGED <<version, disabled, tokens>>

\* A request has locked a link and waits for the account's row; the one that has
\* locked the row waits for that link.
Deadlocked(t, u) ==
  /\ pc[t] = "resetting" /\ linkLock[held[t].link] = t
  /\ rowLock = u /\ pc[u] \in {"marking", "purging"}

\* PostgreSQL ends one of the two, and its transaction is undone.
Aborted(t) ==
  /\ \E u \in Threads : Deadlocked(t, u) \/ Deadlocked(u, t)
  /\ linkLock' = Unlocked(t)
  /\ rowLock' = IF rowLock = t THEN None ELSE rowLock
  /\ Go(t, IF pc[t] = "purging" THEN "cancelling" ELSE "idle", None)
  /\ UNCHANGED <<rows, tokens>>

-----------------------------------------------------------------------------
(* Operators                                                                *)

\* create_or_update_admin.
AdminPassword(p) ==
  /\ rowLock = None
  /\ IF user = None
       THEN /\ stored < MaxHashes /\ stored' = stored + 1
            /\ user' = [hash |-> NewHash(p), fence |-> None]
       ELSE Put(p)
  /\ UNCHANGED <<version, disabled, links, tokens, threads, locks>>

\* disable_interactive_access: the version, once, and the links.
DisableAccess ==
  /\ user # None /\ LinksFree(None)
  /\ disabled' = TRUE
  /\ IF disabled THEN UNCHANGED version
                 ELSE version < MaxVersion /\ version' = version + 1
  /\ Spend(Open)
  /\ UNCHANGED <<user, stored, tokens, threads, locks>>

-----------------------------------------------------------------------------
Anonymous(t) ==
  \/ \E p \in Passwords : Register(t, p) \/ LoginRead(t, p)
  \/ IssueToken(t) \/ LoginFinish(t)
  \/ \E l \in Links, p \in Passwords : ResetRead(t, l, p)
  \/ ResetWrite(t) \/ ResetMark(t) \/ ResetCommit(t)

Authenticated(t) ==
  \/ \E token \in tokens : Authenticate(t, token)
  \/ \E old, new \in Passwords : ChangePassword(t, old, new)
  \/ RevokeSessions(t) \/ OtherRequest(t)
  \/ \E p \in Passwords : BeginDeletion(t, p)
  \/ DeleteLock(t) \/ DeleteAccount(t) \/ DeletionFails(t) \/ CancelDeletion(t)

Next ==
  \/ \E t \in Threads : Anonymous(t) \/ Authenticated(t) \/ Aborted(t)
  \/ \E l \in Links : RequestReset(l)
  \/ \E p \in Passwords : AdminPassword(p)
  \/ DisableAccess

Spec == Init /\ [][Next]_vars

-----------------------------------------------------------------------------
(* Properties                                                               *)

Row == [hash : Hash, fence : Threads \cup {None}]

TypeOK ==
  /\ user \in Row \cup {None}
  /\ version \in 0 .. MaxVersion
  /\ disabled \in BOOLEAN
  /\ links \in [Links -> {"unissued", "open", "spent"}]
  /\ stored \in 0 .. MaxHashes
  /\ tokens \subseteq Token
  /\ rowLock \in Threads \cup {None}
  /\ linkLock \in [Links -> Threads \cup {None}]

\* A token that was ended stays ended: by a password that was changed or reset,
\* by revoked sessions, by disabled access or by a deletion, and whatever follows:
\* the old password again, a new account under the same id, whose session version
\* starts at zero again.  (Only a deletion that is taken back gives them back.)
EndedStaysEnded ==
  [][\A token \in tokens : ~Current(token) => ~Current(token)']_vars

\* A token from a login is good for nothing but the account whose password was
\* shown: between the check and the token the password may be changed, or the
\* account deleted and registered by someone else.
LoginBindsCredential ==
  \A token \in tokens :
    token.login /\ Current(token) => Checks(token.shown, user.hash)

\* A link resets one password, once, and takes every other link of the account
\* with it that was open when the reset began.
ResetSpendsLinks ==
  [][\A t \in Threads :
       pc[t] = "marked" /\ pc'[t] = "idle" =>
         /\ links[held[t].link] = "open"
         /\ \A l \in held[t].open : links'[l] = "spent"]_vars
=============================================================================
