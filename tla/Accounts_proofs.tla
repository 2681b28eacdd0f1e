---------------------------- MODULE Accounts_proofs ----------------------------
(***************************************************************************)
(* Proofs about Accounts: what ends a token ends it for good, a login binds *)
(* to the password that was shown, and a reset takes every open link along. *)
(***************************************************************************)
EXTENDS Accounts, TLAPS

-----------------------------------------------------------------------------
(* The inductive invariant                                                  *)

Stored == Passwords \X (0 .. stored)

\* What is stored was counted: a hash that is stored next is new to everybody.
Shape ==
  /\ stored \in Nat /\ version \in Nat
  /\ DOMAIN pc = Threads /\ DOMAIN held = Threads
  /\ DOMAIN links = Links /\ DOMAIN linkLock = Links
  /\ \A l \in Links : links[l] \in {"unissued", "open", "spent"}

Counted ==
  /\ user # None => user \in [hash : Stored, fence : Threads \cup {None}]
  /\ \A token \in tokens : token.hash \in Stored /\ token.version \in Nat
  /\ \A t \in Threads : pc[t] = "checked" => held[t].hash \in Stored

\* The version of a token is not one that is still to come.
Aged ==
  user # None => \A token \in tokens : token.hash = user.hash => token.version <= version

\* A login has compared the password with the hash that it binds to.
Compared ==
  /\ \A token \in tokens : token.login => Checks(token.shown, token.hash)
  /\ \A t \in Threads : pc[t] = "checked" => Checks(held[t].shown, held[t].hash)

\* A reset holds its link from the first statement on, and from the last one on
\* every link that was open: nobody else spends them.
Holding(t) ==
  pc[t] \in {"resetting", "marking", "marked"} =>
    /\ held[t] \in [link : Links, password : Passwords, open : SUBSET Links]
    /\ linkLock[held[t].link] = t /\ links[held[t].link] = "open"
    /\ \A l \in held[t].open : links[l] \in {"open", "spent"}
    /\ pc[t] = "marked" => \A l \in held[t].open : links[l] = "spent" \/ linkLock[l] = t

Held == \A t \in Threads : Holding(t)

IInv == Shape /\ Counted /\ Aged /\ Compared /\ Held

-----------------------------------------------------------------------------
(* Steps                                                                    *)

LEMMA InitIInv == Init => IInv
  BY SMT DEF Init, IInv, Shape, Counted, Aged, Compared, Held, Holding, Stored

\* What a thread does that leaves tokens, rows and links alone.
LEMMA QuietStep ==
  ASSUME IInv, NEW t \in Threads, NEW l, NEW h,
         l \notin {"checked", "resetting", "marking", "marked"},
         Go(t, l, h), UNCHANGED <<rows, tokens, linkLock>>
  PROVE  IInv'
  <1> USE DEF IInv, Go, rows, locks, Shape, Counted, Stored
  <1>1. Shape' /\ Counted'
    OBVIOUS
  <1>2. Aged' /\ Compared'
    BY DEF Aged, Compared, Checks
  <1>3. Held'
    BY DEF Held, Holding
  <1> QED BY <1>1, <1>2, <1>3

\* A token that is given out, bound to a hash that is stored and the version of now.
LEMMA GiveStep ==
  ASSUME IInv, NEW t \in Threads, NEW token, Give(token),
         token.hash \in Stored, token.version = version,
         token.login => Checks(token.shown, token.hash),
         End(t), UNCHANGED <<rows, locks>>
  PROVE  IInv'
  <1> USE DEF IInv, Go, End, rows, locks, Give
  <1>1. Shape' /\ Counted'
    BY DEF Shape, Counted, Stored
  <1>2. Aged' /\ Compared'
    BY DEF Shape, Aged, Compared, Checks
  <1>3. Held'
    BY DEF Shape, Held, Holding
  <1> QED BY <1>1, <1>2, <1>3

\* A password that is stored is a hash nobody has seen, if the row is there.
LEMMA PutStep ==
  ASSUME IInv, NEW p \in Passwords,
         stored' = stored + 1,
         user' = None \/ (user' \in [hash : {NewHash(p)}, fence : Threads \cup {None}]),
         UNCHANGED <<version, tokens>>
  PROVE  /\ user' # None => user' \in [hash : Stored', fence : Threads \cup {None}]
         /\ \A token \in tokens : token.hash \in Stored' /\ token.version \in Nat
         /\ \A h \in Stored : h \in Stored'
         /\ Aged'
  <1> USE DEF IInv, Shape, Counted, Stored, NewHash
  <1>1. user' # None => user' \in [hash : Stored', fence : Threads \cup {None}]
    OBVIOUS
  <1>2. \A h \in Stored : h \in Stored' /\ h # NewHash(p)
    OBVIOUS
  <1>3. Aged'
    BY <1>2 DEF Aged
  <1> QED BY <1>1, <1>2, <1>3

LEMMA StoredStep ==
  ASSUME IInv, NEW p \in Passwords, Put(p), UNCHANGED <<version, tokens>>
  PROVE  /\ user' # None => user' \in [hash : Stored', fence : Threads \cup {None}]
         /\ \A token \in tokens : token.hash \in Stored' /\ token.version \in Nat
         /\ \A h \in Stored : h \in Stored'
         /\ Aged'
  <1>1. user' = None \/ user' \in [hash : {NewHash(p)}, fence : Threads \cup {None}]
    <2>1. CASE user = None
      BY <2>1 DEF Put
    <2>2. CASE user # None
      <3>1. user \in [hash : Stored, fence : Threads \cup {None}]
        BY <2>2 DEF IInv, Counted
      <3>2. user' = [user EXCEPT !.hash = NewHash(p)]
        BY <2>2 DEF Put
      <3> QED BY <3>1, <3>2
    <2> QED BY <2>1, <2>2
  <1>2. stored' = stored + 1
    BY DEF Put
  <1> QED BY <1>1, <1>2, PutStep

-----------------------------------------------------------------------------
(* Every step keeps the invariant                                           *)

LEMMA AnonymousStep ==
  ASSUME IInv, NEW t \in Threads, Anonymous(t)
  PROVE  IInv'
  <1>1. ASSUME NEW p \in Passwords, Register(t, p)
        PROVE  IInv'
    <2> USE <1>1 DEF Register, Go, locks
    <2>1. /\ user' # None => user' \in [hash : Stored', fence : Threads \cup {None}]
          /\ \A token \in tokens : token.hash \in Stored' /\ token.version \in Nat
          /\ \A h \in Stored : h \in Stored'
          /\ Aged'
      BY PutStep
    <2>2. Shape' /\ Counted' /\ Compared'
      BY <2>1 DEF IInv, Shape, Counted, Compared, Checks
    <2>3. Held'
      BY DEF IInv, Shape, Held, Holding
    <2> QED BY <2>1, <2>2, <2>3 DEF IInv
  <1>2. ASSUME NEW p \in Passwords, LoginRead(t, p)
        PROVE  IInv'
    <2> USE <1>2 DEF LoginRead, Go, locks, rows, IInv
    <2>1. Shape' /\ Counted'
      BY DEF Shape, Counted, Stored
    <2>2. Aged' /\ Compared'
      BY DEF Shape, Aged, Compared, Checks
    <2>3. Held'
      BY DEF Shape, Held, Holding
    <2> QED BY <2>1, <2>2, <2>3
  <1>3. ASSUME IssueToken(t)
        PROVE  IInv'
    <2>1. CASE user # None /\ user.fence = None /\ ~disabled
      <3> DEFINE token == [hash |-> user.hash, version |-> version,
                           shown |-> held[t], login |-> FALSE]
      <3>1. token.hash \in Stored /\ token.version = version /\ ~token.login
        BY <2>1 DEF IInv, Counted
      <3>2. Give(token) /\ End(t) /\ UNCHANGED <<rows, locks>>
        BY <1>3, <2>1 DEF IssueToken
      <3> HIDE DEF token
      <3> QED BY <3>1, <3>2, GiveStep
    <2>2. CASE ~(user # None /\ user.fence = None /\ ~disabled)
      BY <1>3, <2>2, QuietStep DEF IssueToken, End, locks
    <2> QED BY <2>1, <2>2
  <1>4. ASSUME LoginFinish(t)
        PROVE  IInv'
    <2>1. CASE ~disabled
      <3> DEFINE token == [hash |-> BoundTo(t), version |-> version,
                           shown |-> held[t].shown, login |-> TRUE]
      <3>1. token.hash \in Stored /\ token.version = version
            /\ Checks(token.shown, token.hash)
        BY <1>4, <2>1 DEF IInv, Counted, Compared, LoginFinish, BoundTo
      <3>2. Give(token) /\ End(t) /\ UNCHANGED <<rows, locks>>
        BY <1>4, <2>1 DEF LoginFinish
      <3> HIDE DEF token
      <3> QED BY <3>1, <3>2, GiveStep
    <2>2. CASE disabled
      BY <1>4, <2>2, QuietStep DEF LoginFinish, End, locks
    <2> QED BY <2>1, <2>2
  <1>5. ASSUME NEW l \in Links, NEW p \in Passwords, ResetRead(t, l, p)
        PROVE  IInv'
    <2> USE <1>5 DEF ResetRead, LockLink, Go, rows, IInv
    <2>1. Shape' /\ Counted'
      BY DEF Shape, Counted, Stored
    <2>2. Aged' /\ Compared'
      BY DEF Shape, Aged, Compared, Checks
    <2>3. held'[t] = [link |-> l, password |-> p, open |-> Open] /\ pc'[t] = "resetting"
          /\ Open \subseteq Links /\ links' = links
          /\ linkLock[l] = None /\ linkLock' = [linkLock EXCEPT ![l] = t]
      BY DEF Shape, Open
    <2>4. Holding(t)'
      BY <2>3 DEF Shape, Holding, Open
    <2>5. ASSUME NEW u \in Threads, u # t PROVE Holding(u)'
      <3>1. pc'[u] = pc[u] /\ held'[u] = held[u] /\ Holding(u)
        BY <2>5 DEF Shape, Held
      <3> QED BY <2>3, <2>5, <3>1, AccountsAssumption DEF Shape, Holding
    <2> QED BY <2>1, <2>2, <2>4, <2>5 DEF Held
  <1>6. ASSUME ResetWrite(t)
        PROVE  IInv'
    <2> USE <1>6 DEF ResetWrite, Go, rows, IInv
    <2>1. Shape' /\ Counted'
      BY DEF Shape, Counted, Stored
    <2>2. Aged' /\ Compared'
      BY DEF Shape, Aged, Compared, Checks
    <2>3. Held'
      BY DEF Shape, Held, Holding
    <2> QED BY <2>1, <2>2, <2>3
  <1>7. ASSUME ResetMark(t)
        PROVE  IInv'
    <2> USE <1>7 DEF ResetMark, Go, rows, IInv
    <2>1. Shape' /\ Counted'
      BY DEF Shape, Counted, Stored
    <2>2. Aged' /\ Compared'
      BY DEF Shape, Aged, Compared, Checks
    <2>3. held[t] \in [link : Links, password : Passwords, open : SUBSET Links]
      BY DEF Held, Holding
    <2>4. held'[t] = [link |-> held[t].link, password |-> held[t].password,
                      open |-> held[t].open \cup Open]
      BY <2>3 DEF Shape
    <2>5. Open \subseteq Links
      BY DEF Open
    <2>6. linkLock' = [l \in Links |-> IF l \in Open THEN t ELSE linkLock[l]]
          /\ links' = links /\ LinksFree(t)
      OBVIOUS
    <2>7. Holding(t)'
      BY <2>3, <2>4, <2>5, <2>6 DEF Shape, Held, Holding, Open
    <2>8. ASSUME NEW u \in Threads, u # t PROVE Holding(u)'
      <3>1. pc'[u] = pc[u] /\ held'[u] = held[u]
        BY <2>8 DEF Shape
      <3>2. Holding(u)
        BY DEF Held
      <3> QED BY <2>6, <2>8, <3>1, <3>2, AccountsAssumption DEF Shape, Holding, Open, LinksFree
    <2> QED BY <2>1, <2>2, <2>7, <2>8 DEF Held
  <1>8. ASSUME ResetCommit(t)
        PROVE  IInv'
    <2> DEFINE p == held[t].password
    <2>1. pc[t] = "marked" /\ Put(p) /\ UNCHANGED <<version, disabled, tokens>>
          /\ Spend({l \in Links : linkLock[l] = t}) /\ linkLock' = Unlocked(t)
          /\ Go(t, "idle", None)
      BY <1>8 DEF ResetCommit, End
    <2>2. p \in Passwords
      BY <2>1 DEF IInv, Held, Holding
    <2> HIDE DEF p
    <2>3. /\ user' # None => user' \in [hash : Stored', fence : Threads \cup {None}]
          /\ \A token \in tokens : token.hash \in Stored' /\ token.version \in Nat
          /\ \A h \in Stored : h \in Stored'
          /\ Aged'
      BY <2>1, <2>2, StoredStep
    <2>4. Shape'
      BY <2>1 DEF IInv, Shape, Put, Go, Spend, Unlocked
    <2>5. Counted' /\ Compared'
      BY <2>1, <2>3 DEF IInv, Shape, Counted, Compared, Checks, Go
    <2>6. ASSUME NEW u \in Threads PROVE Holding(u)'
      BY <2>1 DEF IInv, Shape, Held, Holding, Go, Spend, Unlocked
    <2> QED BY <2>3, <2>4, <2>5, <2>6 DEF IInv, Held
  <1> QED
    BY <1>1, <1>2, <1>3, <1>4, <1>5, <1>6, <1>7, <1>8 DEF Anonymous

LEMMA AuthenticatedStep ==
  ASSUME IInv, NEW t \in Threads, Authenticated(t)
  PROVE  IInv'
  <1>1. ASSUME NEW token \in tokens, Authenticate(t, token)
        PROVE  IInv'
    BY <1>1, QuietStep DEF Authenticate, locks
  <1>2. ASSUME NEW old \in Passwords, NEW new \in Passwords, ChangePassword(t, old, new)
        PROVE  IInv'
    <2> USE <1>2 DEF ChangePassword, End, Go, locks
    <2>1. /\ user' # None => user' \in [hash : Stored', fence : Threads \cup {None}]
          /\ \A token \in tokens : token.hash \in Stored' /\ token.version \in Nat
          /\ \A h \in Stored : h \in Stored'
          /\ Aged'
      BY StoredStep
    <2>2. Shape' /\ Counted' /\ Compared'
      BY <2>1 DEF IInv, Shape, Counted, Compared, Checks, Put
    <2>3. Held'
      BY DEF IInv, Shape, Held, Holding
    <2> QED BY <2>1, <2>2, <2>3 DEF IInv
  <1>3. ASSUME RevokeSessions(t)
        PROVE  IInv'
    <2> USE <1>3 DEF RevokeSessions, End, Go, locks, IInv
    <2>1. Shape' /\ Counted'
      BY DEF Shape, Counted, Stored
    <2>2. Aged' /\ Compared'
      BY DEF Shape, Aged, Counted, Compared, Checks
    <2>3. Held'
      BY DEF Shape, Held, Holding
    <2> QED BY <2>1, <2>2, <2>3
  <1>4. ASSUME OtherRequest(t) \/ DeletionFails(t) \/ DeleteLock(t)
        PROVE  IInv'
    BY <1>4, QuietStep DEF OtherRequest, DeletionFails, DeleteLock, End, locks
  <1>5. ASSUME NEW p \in Passwords, BeginDeletion(t, p)
        PROVE  IInv'
    <2> USE <1>5 DEF BeginDeletion, RowFree, Go, locks, IInv
    <2>1. user \in [hash : Stored, fence : Threads \cup {None}]
      BY DEF Counted
    <2>2. user' \in [hash : Stored, fence : Threads \cup {None}] /\ user'.hash = user.hash
      BY <2>1
    <2>3. Shape' /\ Counted'
      BY <2>2 DEF Shape, Counted, Stored
    <2>4. Aged' /\ Compared'
      BY <2>2 DEF Shape, Aged, Compared, Checks
    <2>5. Held'
      BY DEF Shape, Held, Holding
    <2> QED BY <2>3, <2>4, <2>5
  <1>6. ASSUME DeleteAccount(t)
        PROVE  IInv'
    <2> USE <1>6 DEF DeleteAccount, End, Go, Spend, IInv
    <2>1. Shape' /\ Counted'
      BY DEF Shape, Counted, Stored
    <2>2. Aged' /\ Compared'
      BY DEF Shape, Aged, Compared, Checks
    <2>3. Held'
      BY AccountsAssumption DEF Shape, Held, Holding, Open, LinksFree
    <2> QED BY <2>1, <2>2, <2>3
  <1>7. ASSUME CancelDeletion(t)
        PROVE  IInv'
    <2> USE <1>7 DEF CancelDeletion, RowFree, End, Go, locks, IInv
    <2>1. user \in [hash : Stored, fence : Threads \cup {None}]
      BY DEF Counted
    <2>2. user' \in [hash : Stored, fence : Threads \cup {None}] /\ user'.hash = user.hash
      BY <2>1
    <2>3. Shape' /\ Counted'
      BY <2>2 DEF Shape, Counted, Stored
    <2>4. Aged' /\ Compared'
      BY <2>2 DEF Shape, Aged, Compared, Checks
    <2>5. Held'
      BY DEF Shape, Held, Holding
    <2> QED BY <2>3, <2>4, <2>5
  <1> QED
    BY <1>1, <1>2, <1>3, <1>4, <1>5, <1>6, <1>7 DEF Authenticated

\* Only one that waits is ended: it holds its own link, and nobody else's.
LEMMA AbortedStep ==
  ASSUME IInv, NEW t \in Threads, Aborted(t)
  PROVE  IInv'
  <1> USE DEF Aborted, Go, rows, IInv
  <1>1. Shape' /\ Counted'
    BY DEF Shape, Counted, Stored, Unlocked
  <1>2. Aged' /\ Compared'
    BY DEF Shape, Aged, Compared, Checks
  <1>3. ASSUME NEW u \in Threads PROVE Holding(u)'
    BY DEF Shape, Held, Holding, Unlocked
  <1> QED BY <1>1, <1>2, <1>3 DEF Held

LEMMA OperatorStep ==
  ASSUME IInv,
         \/ \E l \in Links : RequestReset(l)
         \/ \E p \in Passwords : AdminPassword(p)
         \/ DisableAccess
  PROVE  IInv'
  <1>1. ASSUME NEW l \in Links, RequestReset(l)
        PROVE  IInv'
    <2> USE <1>1 DEF RequestReset, threads, locks, IInv
    <2>1. Shape' /\ Counted'
      BY DEF Shape, Counted, Stored
    <2>2. Aged' /\ Compared'
      BY DEF Aged, Compared, Checks
    <2>3. Held'
      BY DEF Shape, Held, Holding
    <2> QED BY <2>1, <2>2, <2>3
  <1>2. ASSUME NEW p \in Passwords, AdminPassword(p)
        PROVE  IInv'
    <2> USE <1>2 DEF AdminPassword, threads, locks
    <2>1. /\ user' # None => user' \in [hash : Stored', fence : Threads \cup {None}]
          /\ \A token \in tokens : token.hash \in Stored' /\ token.version \in Nat
          /\ \A h \in Stored : h \in Stored'
          /\ Aged'
      <3>1. CASE user = None
        BY <3>1, PutStep
      <3>2. CASE user # None
        BY <3>2, StoredStep
      <3> QED BY <3>1, <3>2
    <2>2. Shape' /\ Counted' /\ Compared'
      BY <2>1 DEF IInv, Shape, Counted, Compared, Checks, Put
    <2>3. Held'
      BY DEF IInv, Held, Holding
    <2> QED BY <2>1, <2>2, <2>3 DEF IInv
  <1>3. ASSUME DisableAccess
        PROVE  IInv'
    <2> USE <1>3 DEF DisableAccess, threads, locks, Spend, IInv
    <2>1. Shape' /\ Counted'
      BY DEF Shape, Counted, Stored
    <2>2. Aged' /\ Compared'
      BY DEF Shape, Aged, Counted, Compared, Checks
    <2>3. Held'
      BY AccountsAssumption DEF Shape, Held, Holding, Open, LinksFree
    <2> QED BY <2>1, <2>2, <2>3
  <1> QED
    BY <1>1, <1>2, <1>3

LEMMA NextIInv == IInv /\ [Next]_vars => IInv'
  <1> SUFFICES ASSUME IInv, [Next]_vars PROVE IInv'
    OBVIOUS
  <1>1. CASE UNCHANGED vars
    BY <1>1 DEF vars, rows, threads, locks, IInv, Shape, Counted, Stored, Aged, Compared,
                Checks, Held, Holding
  <1>2. CASE Next
    BY <1>2, AnonymousStep, AuthenticatedStep, AbortedStep, OperatorStep DEF Next
  <1> QED BY <1>1, <1>2

\* What requests know at each of their steps about the rows they have read and
\* locked, with what holds of the rows themselves.
THEOREM Invariance == Spec => []IInv
  BY InitIInv, NextIInv, PTL DEF Spec

-----------------------------------------------------------------------------
(* Theorems                                                                 *)

\* A token from a login works only while the password that was shown is the
\* one of the account: authenticate_with_token binds it to the hash it checked.
THEOREM LoginsBind == Spec => []LoginBindsCredential
  <1>1. IInv => LoginBindsCredential
    BY DEF IInv, Compared, LoginBindsCredential, Current, Checks
  <1> QED BY <1>1, Invariance, PTL

\* The row of the account is gone, has a hash that is new, or is as it was but
\* for its fence and a version that only counts up.
RowAges ==
  \/ user' = None
  \/ user'.hash \notin Stored
  \/ /\ user # None /\ user'.hash = user.hash /\ disabled' = disabled
     /\ version' \in {version, version + 1}
  \/ disabled'

LEMMA RowsAge ==
  ASSUME IInv, [Next]_vars
  PROVE  RowAges
  <1> DEFINE Fresh(p) == stored' = stored + 1 /\ user'.hash = NewHash(p)
  <1>1. ASSUME NEW p, Fresh(p)
        PROVE  RowAges
    BY <1>1 DEF RowAges, Stored, NewHash, IInv, Shape
  <1>2. ASSUME NEW p, Put(p)
        PROVE  RowAges
    <2>1. CASE user = None
      BY <1>2, <2>1 DEF Put, RowAges
    <2>2. CASE user # None
      <3>1. user \in [hash : Stored, fence : Threads \cup {None}]
        BY <2>2 DEF IInv, Counted
      <3> QED BY <1>1, <1>2, <2>2, <3>1 DEF Put
    <2> QED BY <2>1, <2>2
  <1>3. CASE UNCHANGED rows
    BY <1>3 DEF rows, RowAges
  <1>4. ASSUME NEW t \in Threads, Anonymous(t)
        PROVE  RowAges
    <2>1. ASSUME NEW p \in Passwords, Register(t, p)
          PROVE  RowAges
      BY <1>1, <2>1 DEF Register
    <2>2. ASSUME ResetCommit(t)
          PROVE  RowAges
      BY <1>2, <2>2 DEF ResetCommit
    <2> QED
      BY <1>3, <1>4, <2>1, <2>2 DEF Anonymous, LoginRead, IssueToken, LoginFinish, ResetRead,
                                    ResetWrite, ResetMark
  <1>5. ASSUME NEW t \in Threads, Authenticated(t)
        PROVE  RowAges
    <2>1. ASSUME NEW old, NEW new, ChangePassword(t, old, new)
          PROVE  RowAges
      BY <1>2, <2>1 DEF ChangePassword
    <2>2. ASSUME RevokeSessions(t)
          PROVE  RowAges
      BY <2>2 DEF RevokeSessions, RowAges
    <2>3. ASSUME NEW p, BeginDeletion(t, p) \/ CancelDeletion(t)
          PROVE  RowAges
      <3>1. user \in [hash : Stored, fence : Threads \cup {None}]
        BY <2>3 DEF BeginDeletion, CancelDeletion, RowFree, IInv, Counted
      <3> QED BY <2>3, <3>1 DEF BeginDeletion, CancelDeletion, RowFree, RowAges
    <2>4. ASSUME DeleteAccount(t)
          PROVE  RowAges
      BY <2>4 DEF DeleteAccount, RowAges
    <2> QED
      BY <1>3, <1>5, <2>1, <2>2, <2>3, <2>4 DEF Authenticated, Authenticate, OtherRequest,
                                                DeleteLock, DeletionFails
  <1>6. ASSUME NEW t \in Threads, Aborted(t)
        PROVE  RowAges
    BY <1>3, <1>6 DEF Aborted
  <1>7. ASSUME NEW l \in Links, RequestReset(l)
        PROVE  RowAges
    BY <1>7 DEF RequestReset, RowAges
  <1>8. ASSUME NEW p \in Passwords, AdminPassword(p)
        PROVE  RowAges
    BY <1>1, <1>2, <1>8 DEF AdminPassword
  <1>9. CASE DisableAccess
    BY <1>9 DEF DisableAccess, RowAges
  <1> QED
    BY <1>3, <1>4, <1>5, <1>6, <1>7, <1>8, <1>9 DEF Next, vars

\* Nothing gives a token back that a changed password, a revocation, disabled
\* access or a deletion has ended, a new account under the same id included:
\* every stored hash is new, and a version that is passed does not return.
THEOREM EndedTokensStayEnded == Spec => EndedStaysEnded
  <1>1. IInv /\ IInv' /\ [Next]_vars
          => [\A token \in tokens : ~Current(token) => ~Current(token)']_vars
    <2> SUFFICES ASSUME IInv, IInv', [Next]_vars, NEW token \in tokens, ~Current(token)
                 PROVE  ~Current(token)'
      OBVIOUS
    <2>1. RowAges
      BY RowsAge
    <2>2. token.hash \in Stored /\ token.version \in Nat /\ version \in Nat
          /\ (user # None /\ token.hash = user.hash => token.version <= version)
      BY DEF IInv, Shape, Counted, Aged
    <2> QED BY <2>1, <2>2 DEF RowAges, Current
  <1> QED BY <1>1, Invariance, PTL DEF Spec, EndedStaysEnded

\* Only the commit of a reset ends a request that has marked the links.
LEMMA MarkedEnds ==
  ASSUME IInv, [Next]_vars, NEW t \in Threads, pc[t] = "marked", pc'[t] = "idle"
  PROVE  ResetCommit(t)
  <1> USE DEF IInv, Shape, Go, End, threads
  <1>1. ASSUME NEW u \in Threads, Anonymous(u)
        PROVE  ResetCommit(t)
    BY <1>1 DEF Anonymous, Register, LoginRead, IssueToken, LoginFinish, ResetRead, ResetWrite,
                ResetMark, ResetCommit
  <1>2. ASSUME NEW u \in Threads, Authenticated(u)
        PROVE  FALSE
    BY <1>2 DEF Authenticated, Authenticate, ChangePassword, RevokeSessions, OtherRequest,
                BeginDeletion, DeleteLock, DeleteAccount, DeletionFails, CancelDeletion
  <1>3. ASSUME NEW u \in Threads, Aborted(u)
        PROVE  FALSE
    BY <1>3 DEF Aborted, Deadlocked
  <1>4. ASSUME \/ \E l \in Links : RequestReset(l)
               \/ \E p \in Passwords : AdminPassword(p)
               \/ DisableAccess
        PROVE  FALSE
    BY <1>4 DEF RequestReset, AdminPassword, DisableAccess
  <1> QED
    BY <1>1, <1>2, <1>3, <1>4 DEF Next, vars

\* A reset uses its link and leaves none of the links open that it found.
THEOREM ResetsSpend == Spec => ResetSpendsLinks
  <1>1. IInv /\ [Next]_vars
          => [\A t \in Threads :
                pc[t] = "marked" /\ pc'[t] = "idle" =>
                  /\ links[held[t].link] = "open"
                  /\ \A l \in held[t].open : links'[l] = "spent"]_vars
    <2> SUFFICES ASSUME IInv, [Next]_vars, NEW t \in Threads, pc[t] = "marked", pc'[t] = "idle"
                 PROVE  /\ links[held[t].link] = "open"
                        /\ \A l \in held[t].open : links'[l] = "spent"
      OBVIOUS
    <2>1. ResetCommit(t)
      BY MarkedEnds
    <2>2. Holding(t)
      BY DEF IInv, Held
    <2> QED BY <2>1, <2>2 DEF ResetCommit, Spend, Holding
  <1> QED BY <1>1, Invariance, PTL DEF Spec, ResetSpendsLinks
==============================================================================
