-------------------------- MODULE RecordStore_proofs --------------------------
(***************************************************************************)
(* Proofs about RecordStore, for any programs of the callers and any       *)
(* deployment: no write is computed from a row that is not there any more  *)
(* when it commits, an advisory lock keeps transactions of a scope apart,  *)
(* and so the store implements AtomicRecords.                              *)
(***************************************************************************)
EXTENDS RecordStore, FiniteSetTheorems, TLAPS

-----------------------------------------------------------------------------
(* What the locks are for                                                   *)

\* r has read record k in order to write it anew.
Writing(r, k) == phase[r] = "selected" /\ Now(r).do # "delete" /\ Now(r).on = k

\* ... or has written it and not committed.
Holds(r, k) == Writing(r, k) \/ (k \in DOMAIN mine[r] /\ mine[r][k] # NoRow)

\* What a write is computed from is what it replaces: no update is lost between
\* the select of an operation and its statement.
NoLostUpdate ==
  \A r \in Requests, k \in Records : Writing(r, k) => base[r] = View(r, k)

\* ... nor between the statement and the commit of the transaction around it.
RowsKeptForWriter ==
  [][\A r \in Requests, k \in Records : Holds(r, k) /\ Holds(r, k)' => UNCHANGED db[k]]_vars

\* In PostgreSQL, two transactions in one scope do not overlap, in whatever
\* processes they are.
ScopesExclude ==
  deploy.postgres =>
    \A r, u \in Requests : xact[r] \cap xact[u] # {} => r = u

-----------------------------------------------------------------------------
(* The inductive invariant                                                  *)

Touches(r, k) == k \in DOMAIN mine[r] \/ (phase[r] = "selected" /\ Now(r).on = k)

\* The owner row keeps inserts apart, the row lock keeps other writers off a row
\* that exists.
Guarded ==
  \A r \in Requests, k \in Records :
    Holds(r, k) =>
      /\ owner = r
      /\ deploy.postgres /\ db[k] # NoRow => \A u \in Requests \ {r} : ~Touches(u, k)

\* Whoever is about to select has the owner row; in SQLite, whoever has written.
Owned ==
  \A r \in Requests :
    /\ phase[r] = "owned" /\ Now(r).do # "delete" => owner = r
    /\ ~deploy.postgres /\ DOMAIN mine[r] # {} => owner = r

Shape ==
  /\ DOMAIN db = Records
  /\ DOMAIN prog = Requests /\ DOMAIN ip = Requests /\ DOMAIN phase = Requests
  /\ DOMAIN base = Requests /\ DOMAIN mine = Requests /\ DOMAIN xact = Requests

IInv == Shape /\ Guarded /\ Owned /\ NoLostUpdate /\ ScopesExclude

-----------------------------------------------------------------------------
(* Steps of one request                                                     *)

OthersWait(r) ==
  \A u \in Requests \ {r} :
    /\ prog'[u] = prog[u] /\ ip'[u] = ip[u] /\ phase'[u] = phase[u]
    /\ base'[u] = base[u] /\ mine'[u] = mine[u] /\ xact'[u] = xact[u]

LEMMA OthersKeep ==
  ASSUME NEW r \in Requests, OthersWait(r), NEW u \in Requests \ {r}
  PROVE  /\ Now(u)' = Now(u)
         /\ \A k : (Writing(u, k)' <=> Writing(u, k)) /\ (Holds(u, k)' <=> Holds(u, k))
         /\ \A k : Touches(u, k)' <=> Touches(u, k)
  <1>1. Now(u)' = Now(u) /\ phase'[u] = phase[u] /\ mine'[u] = mine[u]
    BY DEF OthersWait, Now
  <1> QED BY <1>1 DEF Writing, Holds, Touches

\* What a step of r must show: that its own locks are as they should be, that it
\* gets at no row which another holds, and that it leaves such rows and the
\* owner row of the other alone.
LEMMA StepStays ==
  ASSUME IInv, NEW r \in Requests, OthersWait(r), Shape', ScopesExclude', deploy' = deploy,
         \A u \in Requests \ {r} : owner = u => owner' = u,
         \A u \in Requests \ {r}, k \in Records : Holds(u, k) =>
           /\ db'[k] = db[k]
           /\ deploy.postgres /\ db[k] # NoRow => ~Touches(r, k)',
         phase'[r] = "owned" /\ Now(r)'.do # "delete" => owner' = r,
         ~deploy.postgres /\ DOMAIN mine'[r] # {} => owner' = r,
         \A k \in Records : Writing(r, k)' => base'[r] = View(r, k)',
         \A k \in Records : Holds(r, k)' =>
           /\ owner' = r
           /\ deploy.postgres /\ db'[k] # NoRow => \A u \in Requests \ {r} : ~Touches(u, k)
  PROVE  IInv'
  <1>1. Guarded'
    <2> SUFFICES ASSUME NEW v \in Requests, NEW k \in Records, Holds(v, k)'
                 PROVE  /\ owner' = v
                        /\ deploy'.postgres /\ db'[k] # NoRow =>
                             \A u \in Requests \ {v} : ~Touches(u, k)'
      BY DEF Guarded
    <2>1. CASE v = r
      BY <2>1, OthersKeep
    <2>2. CASE v # r
      <3>1. Holds(v, k) /\ owner = v
        BY <2>2, OthersKeep DEF IInv, Guarded
      <3>2. owner' = v /\ db'[k] = db[k]
        BY <2>2, <3>1
      <3>3. ASSUME deploy.postgres, db[k] # NoRow, NEW u \in Requests \ {v}
            PROVE  ~Touches(u, k)'
        <4>1. ~Touches(u, k)
          BY <3>1, <3>3 DEF IInv, Guarded
        <4>2. u # r => ~Touches(u, k)'
          BY <4>1, OthersKeep
        <4>3. u = r => ~Touches(u, k)'
          BY <2>2, <3>1, <3>3
        <4> QED BY <4>2, <4>3
      <3> QED BY <3>2, <3>3
    <2> QED BY <2>1, <2>2
  <1>2. Owned'
    <2> SUFFICES ASSUME NEW v \in Requests
                 PROVE  /\ phase'[v] = "owned" /\ Now(v)'.do # "delete" => owner' = v
                        /\ ~deploy'.postgres /\ DOMAIN mine'[v] # {} => owner' = v
      BY DEF Owned
    <2>1. CASE v = r
      BY <2>1
    <2>2. CASE v # r
      <3>1. Now(v)' = Now(v) /\ phase'[v] = phase[v] /\ mine'[v] = mine[v]
        BY <2>2, OthersKeep DEF OthersWait
      <3> QED BY <2>2, <3>1 DEF IInv, Owned
    <2> QED BY <2>1, <2>2
  <1>3. NoLostUpdate'
    <2> SUFFICES ASSUME NEW v \in Requests, NEW k \in Records, Writing(v, k)'
                 PROVE  base'[v] = View(v, k)'
      BY DEF NoLostUpdate
    <2>1. CASE v = r
      BY <2>1
    <2>2. CASE v # r
      <3>1. Writing(v, k) /\ Holds(v, k)
        BY <2>2, OthersKeep DEF Holds
      <3>2. base[v] = View(v, k) /\ db'[k] = db[k]
        BY <2>2, <3>1 DEF IInv, NoLostUpdate
      <3> QED BY <2>2, <3>2 DEF View, OthersWait
    <2> QED BY <2>1, <2>2
  <1> QED BY <1>1, <1>2, <1>3 DEF IInv

\* A step that writes nothing and ends before or after the critical part.
LEMMA CalmStays ==
  ASSUME IInv, NEW r \in Requests, OthersWait(r), Shape', ScopesExclude',
         UNCHANGED <<db, deploy, base, mine, owner>>,
         phase'[r] \notin {"owned", "selected"}
  PROVE  IInv'
  <1>1. \A k : ~Writing(r, k)' /\ (Touches(r, k)' => Touches(r, k)) /\ (Holds(r, k)' => Holds(r, k))
    BY DEF Writing, Touches, Holds
  <1>2. \A u \in Requests \ {r}, k \in Records : Holds(u, k) /\ deploy.postgres /\ db[k] # NoRow =>
          ~Touches(r, k)'
    BY <1>1 DEF IInv, Guarded
  <1>3. \A k \in Records : Holds(r, k)' =>
          /\ owner' = r
          /\ deploy.postgres /\ db'[k] # NoRow => \A u \in Requests \ {r} : ~Touches(u, k)
    BY <1>1 DEF IInv, Guarded
  <1>4. ~deploy.postgres /\ DOMAIN mine'[r] # {} => owner' = r
    BY DEF IInv, Owned
  <1> QED BY <1>1, <1>2, <1>3, <1>4, StepStays

\* A transaction ends, having changed no row that another holds.
LEMMA EndStays ==
  ASSUME IInv, NEW r \in Requests, EndTx(r), UNCHANGED <<prog, base, deploy>>, DOMAIN db' = Records,
         \A u \in Requests \ {r} : ip'[u] = ip[u] /\ phase'[u] = phase[u],
         DOMAIN ip' = Requests, DOMAIN phase' = Requests,
         phase'[r] \notin {"owned", "selected"},
         \A u \in Requests \ {r}, k \in Records : Holds(u, k) => db'[k] = db[k]
  PROVE  IInv'
  <1>1. OthersWait(r) /\ Shape' /\ mine'[r] = << >> /\ xact'[r] = {}
    BY DEF IInv, Shape, EndTx, OthersWait
  <1>2. ScopesExclude'
    BY <1>1 DEF IInv, ScopesExclude, OthersWait
  <1>3. \A k : ~Writing(r, k)' /\ ~Touches(r, k)' /\ ~Holds(r, k)'
    BY <1>1 DEF Writing, Touches, Holds
  <1>4. \A u \in Requests \ {r} : owner = u => owner' = u
    BY DEF EndTx
  <1>5. DOMAIN mine'[r] = {}
    BY <1>1
  <1> QED BY <1>1, <1>2, <1>3, <1>4, <1>5, StepStays

-----------------------------------------------------------------------------
(* The steps                                                                *)

\* The advisory lock.
LEMMA OpenScopeStays ==
  ASSUME IInv, NEW r \in Requests, OpenScope(r)
  PROVE  IInv'
  <1>1. /\ OthersWait(r) /\ Shape' /\ phase'[r] = "next"
        /\ UNCHANGED <<db, deploy, base, mine, owner>>
    BY DEF IInv, Shape, OthersWait, OpenScope, Advance
  <1>2. /\ xact' = [xact EXCEPT ![r] = @ \cup {Now(r).on}]
        /\ deploy.postgres => \A u \in Requests \ {r} : Now(r).on \notin xact[u]
        /\ DOMAIN xact = Requests
    BY DEF OpenScope, IInv, Shape
  <1>3. ScopesExclude'
    BY <1>1, <1>2 DEF IInv, ScopesExclude
  <1> QED BY <1>1, <1>3, CalmStays

\* The steps before the critical part, and reads.
LEMMA CalmSteps ==
  ASSUME IInv, NEW r \in Requests,
         \/ Arrive(r) \/ EnterScope(r) \/ LeaveScope(r)
         \/ Read(r) \/ EnsureFound(r) \/ TakeRecord(r)
  PROVE  IInv'
  <1>1. /\ OthersWait(r) /\ Shape' /\ phase'[r] \in {"next", "locked"}
        /\ UNCHANGED <<db, deploy, base, mine, owner, xact>>
    BY DEF IInv, Shape, OthersWait, Arrive, EnterScope, LeaveScope, Read, EnsureFound, TakeRecord,
           Advance
  <1>2. ScopesExclude'
    BY <1>1 DEF IInv, ScopesExclude
  <1> QED BY <1>1, <1>2, CalmStays

\* Who takes the owner row took it from nobody.
LEMMA LockOwnerStays ==
  ASSUME IInv, NEW r \in Requests, LockOwner(r)
  PROVE  IInv'
  <1>1. /\ OthersWait(r) /\ Shape' /\ phase'[r] = "owned" /\ phase[r] = "locked" /\ Now(r)' = Now(r)
        /\ UNCHANGED <<db, deploy, base, mine, xact>>
    BY DEF IInv, Shape, OthersWait, LockOwner, Doing, Now
  <1>2. ScopesExclude'
    BY <1>1 DEF IInv, ScopesExclude
  <1>3. /\ Now(r).do # "delete" => owner' = r
        /\ owner' = owner \/ (owner' = r /\ owner \in {None, r})
    BY DEF LockOwner, OwnerFree
  <1>4. \A k : /\ ~Writing(r, k)'
               /\ Touches(r, k)' <=> Touches(r, k)
               /\ Holds(r, k)' <=> Holds(r, k)
    BY <1>1 DEF Writing, Touches, Holds
  <1>5. \A u \in Requests \ {r} : owner = u => owner' = u
    BY <1>3, StoreAssumption
  <1>6. \A u \in Requests \ {r}, k \in Records : Holds(u, k) /\ deploy.postgres /\ db[k] # NoRow =>
          ~Touches(r, k)'
    BY <1>4 DEF IInv, Guarded
  <1>7. \A k \in Records : Holds(r, k)' =>
          /\ owner' = r
          /\ deploy.postgres /\ db'[k] # NoRow => \A u \in Requests \ {r} : ~Touches(u, k)
    BY <1>1, <1>3, <1>4 DEF IInv, Guarded
  <1>8. ~deploy.postgres /\ DOMAIN mine'[r] # {} => owner' = r
    BY <1>1, <1>3 DEF IInv, Owned
  <1> QED BY <1>1, <1>2, <1>3, <1>4, <1>5, <1>6, <1>7, <1>8, StepStays

\* The select waits for the lock of a row that exists.
LEMMA SelectStays ==
  ASSUME IInv, NEW r \in Requests, Select(r)
  PROVE  IInv'
  <1> DEFINE on == Now(r).on
  <1>1. /\ OthersWait(r) /\ Shape' /\ phase[r] = "owned" /\ phase'[r] = "selected"
        /\ Now(r)' = Now(r) /\ base'[r] = View(r, on)
        /\ UNCHANGED <<db, deploy, mine, owner, xact>>
    BY DEF IInv, Shape, OthersWait, Select, Doing, Now
  <1>2. ScopesExclude'
    BY <1>1 DEF IInv, ScopesExclude
  <1>3. \A u \in Requests \ {r} : deploy.postgres /\ db[on] # NoRow => ~Touches(u, on)
    BY DEF Select, LocksRow, Touches
  <1>4. /\ \A k : Writing(r, k)' => k = on /\ Now(r).do # "delete"
        /\ \A k : Touches(r, k)' => Touches(r, k) \/ k = on
        /\ \A k : Holds(r, k)' => Holds(r, k) \/ (k = on /\ Now(r).do # "delete")
    BY <1>1 DEF Writing, Touches, Holds
  <1>5. \A k : Writing(r, k)' => base'[r] = View(r, k)'
    BY <1>1, <1>4 DEF View
  <1>6. ASSUME NEW u \in Requests \ {r}, NEW k \in Records, Holds(u, k), deploy.postgres,
               db[k] # NoRow
        PROVE  ~Touches(r, k)'
    <2>1. Touches(u, k)
      BY <1>6 DEF Holds, Writing, Touches
    <2>2. ~Touches(r, k)
      BY <1>6 DEF IInv, Guarded
    <2> QED BY <1>3, <1>4, <1>6, <2>1, <2>2
  <1>7. \A k \in Records : Holds(r, k)' =>
          /\ owner' = r
          /\ deploy.postgres /\ db'[k] # NoRow => \A u \in Requests \ {r} : ~Touches(u, k)
    BY <1>1, <1>3, <1>4 DEF IInv, Guarded, Owned
  <1>8. ~deploy.postgres /\ DOMAIN mine'[r] # {} => owner' = r
    BY <1>1 DEF IInv, Owned
  <1> QED BY <1>1, <1>2, <1>5, <1>6, <1>7, <1>8, StepStays

\* A statement inside a transaction.
LEMMA ApplyInTxStays ==
  ASSUME IInv, NEW r \in Requests, Apply(r), InTx(r)
  PROVE  IInv'
  <1> DEFINE on == Now(r).on
  <1>1. /\ OthersWait(r) /\ Shape' /\ phase[r] = "selected" /\ phase'[r] = "next"
        /\ \/ mine'[r] = mine[r]
           \/ mine'[r] = [k \in DOMAIN mine[r] \cup {on} |->
                             IF k = on THEN Result(r) ELSE mine[r][k]]
        /\ UNCHANGED <<db, deploy, base, xact>>
    BY DEF IInv, Shape, OthersWait, Apply, Doing, Advance
  <1>2. ScopesExclude'
    BY <1>1 DEF IInv, ScopesExclude
  <1>3. /\ deploy.postgres => owner' = owner
        /\ ~deploy.postgres => owner' = r /\ owner \in {None, r}
    BY DEF Apply, OwnerFree
  <1>4. \A k : ~Writing(r, k)' /\ (Touches(r, k)' => Touches(r, k))
    BY <1>1 DEF Writing, Touches
  <1>5. \A k : Holds(r, k)' => Holds(r, k)
    <2>1. Now(r).do = "delete" => Result(r) = NoRow
      BY DEF Result
    <2> QED BY <1>1, <2>1 DEF Holds, Writing
  <1>6. \A u \in Requests \ {r} : owner = u => owner' = u
    BY <1>3, StoreAssumption
  <1>7. \A u \in Requests \ {r}, k \in Records : Holds(u, k) /\ deploy.postgres /\ db[k] # NoRow =>
          ~Touches(r, k)'
    BY <1>4 DEF IInv, Guarded
  <1>8. \A k \in Records : Holds(r, k)' =>
          /\ owner' = r
          /\ deploy.postgres /\ db'[k] # NoRow => \A u \in Requests \ {r} : ~Touches(u, k)
    BY <1>1, <1>3, <1>5 DEF IInv, Guarded
  <1> QED BY <1>1, <1>2, <1>3, <1>4, <1>6, <1>7, <1>8, StepStays

\* Nobody commits over a row that another holds: not a statement on its own ...
LEMMA ApplySpares ==
  ASSUME IInv, NEW r \in Requests, Apply(r), ~InTx(r),
         NEW u \in Requests \ {r}, NEW k \in Records, Holds(u, k)
  PROVE  db'[k] = db[k]
  <1> DEFINE on == Now(r).on
  <1>1. /\ db' = [db EXCEPT ![on] = Result(r)] /\ phase[r] = "selected"
        /\ ~deploy.postgres => owner \in {None, r}
        /\ DOMAIN db = Records
    BY DEF Apply, Store, Doing, OwnerFree, IInv, Shape
  <1>2. owner = u
    BY DEF IInv, Guarded
  <1>3. deploy.postgres
    BY <1>1, <1>2, StoreAssumption
  <1>4. CASE k # on
    BY <1>1, <1>4
  <1>5. CASE k = on
    <2>1. Touches(r, k)
      BY <1>1, <1>5 DEF Touches
    <2>2. db[k] = NoRow
      BY <1>3, <2>1 DEF IInv, Guarded
    <2>3. Now(r).do = "delete"
      BY <1>1, <1>2, <1>5 DEF IInv, Guarded, Holds, Writing
    <2> QED BY <1>1, <1>5, <2>2, <2>3 DEF Result
  <1> QED BY <1>4, <1>5

\* ... nor a transaction.
LEMMA FinishSpares ==
  ASSUME IInv, NEW r \in Requests, Finish(r),
         NEW u \in Requests \ {r}, NEW k \in Records, Holds(u, k)
  PROVE  db'[k] = db[k]
  <1>1. db'[k] = View(r, k)
    BY DEF Finish, Store
  <1>2. owner = u
    BY DEF IInv, Guarded
  <1>3. CASE k \in DOMAIN mine[r]
    <2>1. deploy.postgres
      BY <1>2, <1>3 DEF IInv, Owned
    <2>2. db[k] = NoRow
      BY <1>3, <2>1 DEF IInv, Guarded, Touches
    <2>3. mine[r][k] = NoRow
      BY <1>2, <1>3 DEF IInv, Guarded, Holds
    <2> QED BY <1>1, <1>3, <2>2, <2>3 DEF View
  <1>4. CASE k \notin DOMAIN mine[r]
    BY <1>1, <1>4 DEF View
  <1> QED BY <1>3, <1>4

LEMMA EndSteps ==
  ASSUME IInv, NEW r \in Requests, (Apply(r) /\ ~InTx(r)) \/ Finish(r) \/ Fail(r)
  PROVE  IInv'
  <1>1. ASSUME Apply(r), ~InTx(r) PROVE IInv'
    <2>1. /\ EndTx(r) /\ UNCHANGED <<prog, base, deploy>> /\ DOMAIN db' = Records
          /\ phase' = [phase EXCEPT ![r] = "next"] /\ ip' = [ip EXCEPT ![r] = @ + 1]
      BY <1>1 DEF Apply, Advance, Store, IInv, Shape
    <2>2. /\ \A u \in Requests \ {r} : ip'[u] = ip[u] /\ phase'[u] = phase[u]
          /\ DOMAIN ip' = Requests /\ DOMAIN phase' = Requests /\ phase'[r] = "next"
      BY <2>1 DEF IInv, Shape
    <2>3. \A u \in Requests \ {r}, k \in Records : Holds(u, k) => db'[k] = db[k]
      BY <1>1, ApplySpares
    <2> QED BY <2>1, <2>2, <2>3, EndStays
  <1>2. ASSUME Finish(r) PROVE IInv'
    <2>1. /\ EndTx(r) /\ UNCHANGED <<prog, base, deploy, ip>> /\ DOMAIN db' = Records
          /\ phase' = [phase EXCEPT ![r] = "done"]
      BY <1>2 DEF Finish, Store
    <2>2. /\ \A u \in Requests \ {r} : ip'[u] = ip[u] /\ phase'[u] = phase[u]
          /\ DOMAIN ip' = Requests /\ DOMAIN phase' = Requests /\ phase'[r] = "done"
      BY <2>1 DEF IInv, Shape
    <2>3. \A u \in Requests \ {r}, k \in Records : Holds(u, k) => db'[k] = db[k]
      BY <1>2, FinishSpares
    <2> QED BY <2>1, <2>2, <2>3, EndStays
  <1>3. ASSUME Fail(r) PROVE IInv'
    <2>1. /\ EndTx(r) /\ UNCHANGED <<prog, base, deploy, ip, db>>
          /\ phase' = [phase EXCEPT ![r] = "failed"]
      BY <1>3 DEF Fail
    <2>2. /\ \A u \in Requests \ {r} : ip'[u] = ip[u] /\ phase'[u] = phase[u]
          /\ DOMAIN ip' = Requests /\ DOMAIN phase' = Requests /\ phase'[r] = "failed"
          /\ DOMAIN db' = Records
      BY <2>1 DEF IInv, Shape
    <2> QED BY <2>1, <2>2, EndStays
  <1> QED BY <1>1, <1>2, <1>3

-----------------------------------------------------------------------------
(* The theorems                                                             *)

LEMMA InitIInv == Init => IInv
  <1> SUFFICES ASSUME Init PROVE IInv
    OBVIOUS
  <1>1. Shape /\ \A r \in Requests : phase[r] = "new" /\ mine[r] = << >> /\ xact[r] = {}
    BY DEF Init, Shape
  <1>2. \A r \in Requests : DOMAIN mine[r] = {}
    BY <1>1
  <1>3. ScopesExclude
    BY <1>1 DEF ScopesExclude
  <1> QED
    BY <1>1, <1>2, <1>3 DEF IInv, Guarded, Owned, NoLostUpdate, Holds, Writing

LEMMA NextIInv == IInv /\ [Next]_vars => IInv'
  <1> SUFFICES ASSUME IInv, [Next]_vars PROVE IInv'
    OBVIOUS
  <1>1. ASSUME NEW r \in Requests, Arrive(r) \/ Step(r) PROVE IInv'
    BY <1>1, CalmSteps, OpenScopeStays, LockOwnerStays, SelectStays, ApplyInTxStays, EndSteps
       DEF Step
  <1>2. ASSUME Fence \/ UNCHANGED vars PROVE IInv'
    <2>1. UNCHANGED <<db, deploy, prog, ip, phase, base, mine, xact, owner>>
      BY <1>2 DEF Fence, vars, calls
    <2>2. \A r, k : (Writing(r, k)' <=> Writing(r, k)) /\ (Holds(r, k)' <=> Holds(r, k))
                    /\ (Touches(r, k)' <=> Touches(r, k)) /\ View(r, k)' = View(r, k)
      BY <2>1 DEF Writing, Holds, Touches, Now, View
    <2>3. Guarded' /\ NoLostUpdate'
      BY <2>1, <2>2 DEF IInv, Guarded, NoLostUpdate
    <2> QED BY <2>1, <2>3 DEF IInv, Shape, Owned, Now, ScopesExclude
  <1> QED BY <1>1, <1>2 DEF Next

\* The locks are where they should be, whatever the callers run and wherever.
THEOREM Invariance == Spec => []IInv
  BY InitIInv, NextIInv, PTL DEF Spec

\* mutate, save, create and restore compute a row from the one they replace.
THEOREM UpdatesAreNotLost == Spec => []NoLostUpdate
  <1>1. IInv => NoLostUpdate
    BY DEF IInv
  <1> QED BY <1>1, Invariance, PTL

\* A row stays as it was selected until the transaction that writes it commits.
THEOREM WritersKeepTheirRows == Spec => RowsKeptForWriter
  <1>1. IInv /\ [Next]_vars =>
          [\A r \in Requests, k \in Records : Holds(r, k) /\ Holds(r, k)' => UNCHANGED db[k]]_vars
    <2> SUFFICES ASSUME IInv, Next, NEW u \in Requests, NEW k \in Records, Holds(u, k), Holds(u, k)'
                 PROVE  db'[k] = db[k]
      OBVIOUS
    <2>1. ASSUME Fence PROVE db' = db
      BY <2>1 DEF Fence
    <2>2. ASSUME NEW r \in Requests, Finish(r) \/ (Apply(r) /\ ~InTx(r)) PROVE db'[k] = db[k]
      <3>1. CASE r = u
        <4>1. EndTx(r) /\ phase'[r] \in {"next", "done"}
          BY <2>2 DEF Finish, Apply, Advance, IInv, Shape
        <4>2. mine'[r] = << >>
          BY <4>1 DEF EndTx, IInv, Shape
        <4>3. DOMAIN mine'[r] = {}
          BY <4>2
        <4> QED BY <3>1, <4>1, <4>3 DEF Holds, Writing
      <3>2. CASE r # u
        BY <2>2, <3>2, FinishSpares, ApplySpares
      <3> QED BY <3>1, <3>2
    <2>3. ASSUME NEW r \in Requests, Arrive(r) \/ Step(r), ~Finish(r), ~(Apply(r) /\ ~InTx(r))
          PROVE  db' = db
      BY <2>3 DEF Step, Arrive, EnterScope, OpenScope, LeaveScope, Read, EnsureFound, TakeRecord,
                  LockOwner, Select, Apply, Fail
    <2> QED BY <2>1, <2>2, <2>3 DEF Next
  <1> QED BY <1>1, Invariance, PTL DEF Spec, RowsKeptForWriter

\* pg_advisory_xact_lock keeps the transactions of a scope apart, which the other
\* modules take for granted when they make such a transaction one step.
THEOREM ScopesAreExclusive == Spec => []ScopesExclude
  <1>1. IInv => ScopesExclude
    BY DEF IInv
  <1> QED BY <1>1, Invariance, PTL
-----------------------------------------------------------------------------
(* Induction                                                                *)

\* The segments below the members of a set of numbers are finite sets, of which
\* one is the smallest.
LEMMA LeastNatural ==
  ASSUME NEW S \in SUBSET Nat, S # {}
  PROVE  \E n \in S : \A m \in S : n <= m
  <1> DEFINE Segments == {0 .. n : n \in S}
             R == StrictSubsetOrdering(Int)
             F == FiniteSubsetsOf(Int)
  <1>1. IsWellFoundedOn(R, F)
    BY FS_StrictSubsetOrderingWellFounded
  <1>2. Segments \subseteq F
    <2>1. \A n \in S : IsFiniteSet(0 .. n)
      BY FS_Interval
    <2>2. \A n \in S : 0 .. n \in F
      BY <2>1 DEF FiniteSubsetsOf
    <2> HIDE DEF F
    <2> QED BY <2>2
  <1>3. Segments # {}
    OBVIOUS
  <1>4. \E A \in Segments : \A B \in Segments : <<B, A>> \notin R
    <2> HIDE DEF Segments, R, F
    <2> QED BY <1>1, <1>2, <1>3, WFMin
  <1>5. PICK n \in S : \A m \in S : <<0 .. m, 0 .. n>> \notin R
    BY <1>4
  <1>6. ASSUME NEW m \in S, m < n PROVE FALSE
    <2>1. 0 .. m \subseteq 0 .. n /\ n \in 0 .. n /\ n \notin 0 .. m
      BY <1>6
    <2>2. 0 .. m \in SUBSET Int /\ 0 .. n \in SUBSET Int /\ 0 .. m # 0 .. n
      BY <2>1
    <2>3. <<0 .. m, 0 .. n>> \in R
      BY <2>1, <2>2 DEF StrictSubsetOrdering
    <2> QED BY <1>5, <2>3
  <1> QED BY <1>6

\* A set with 0, and with n + 1 for every n in it, has all numbers.
LEMMA Induction ==
  ASSUME NEW S, 0 \in S, \A n \in Nat : n \in S => n + 1 \in S
  PROVE  \A n \in Nat : n \in S
  <1> SUFFICES ASSUME Nat \ S # {} PROVE FALSE
    OBVIOUS
  <1>1. PICK n \in Nat \ S : \A m \in Nat \ S : n <= m
    <2> DEFINE D == Nat \ S
    <2> D \in SUBSET Nat /\ D # {}
      OBVIOUS
    <2> HIDE DEF D
    <2>1. \E n \in D : \A m \in D : n <= m
      BY LeastNatural
    <2> QED BY <2>1 DEF D
  <1>2. n # 0 /\ n - 1 \in Nat /\ ~ (n <= n - 1) /\ n = (n - 1) + 1
    OBVIOUS
  <1>3. n - 1 \in S
    BY <1>1, <1>2
  <1> QED BY <1>2, <1>3

-----------------------------------------------------------------------------
(* A transaction takes effect at its commit: what the proof keeps of it      *)

Rows == [version : Nat \ {0}, marks : SUBSET Requests]
RowOrNone == Rows \cup {NoRow}

\* One operation may make row y of row x of record k, all of whose rows so far are in `was'.
RowStep(op, r, k, was, x, y) ==
  IF op.do \in Writes /\ op.on = k
    THEN /\ op.do \in {"mutate", "save"} =>
              x.version > 0 /\ y = [version |-> x.version + 1, marks |-> x.marks \cup {r}]
         /\ op.do = "create" => ~(x.version > 0) /\ y = [version |-> 1, marks |-> {r}]
         /\ op.do = "ensure" => y = IF x.version > 0 THEN x ELSE [version |-> 1, marks |-> {r}]
         /\ op.do = "delete" => y = NoRow
         /\ op.do = "restore" => IF x.version > 0 THEN y = x ELSE y \in was \cup {NoRow}
    ELSE y = x

\* Operations first to last of p may turn row x into row y.
Trace(p, first, last, r, k, was, x, y) ==
  \E T : /\ T[first - 1] = x /\ T[last] = y
         /\ \A i \in first .. last : RowStep(p[i], r, k, was, T[i - 1], T[i])

\* The transaction of r began with operation f.
Begins(r, f) ==
  /\ f \in 1 .. ip[r] - 1 /\ prog[r][f].do = "enter"
  /\ \A j \in 1 .. f - 1 : prog[r][j].do # "enter"

WriteAt(r, i, k) == prog[r][i].do \in Writes /\ prog[r][i].on = k

Wrote(r, k) == \E i \in 1 .. ip[r] - 1 : WriteAt(r, i, k)

Deleted(r, f, k) ==
  \E i \in f .. ip[r] - 1 : prog[r][i].do = "delete" /\ prog[r][i].on = k

\* Where a request stands in its program.
Control(r) ==
  /\ ip[r] \in Nat \ {0} /\ (phase[r] = "new" => ip[r] = 1)
  /\ Running(r) => prog[r] \in Programs /\ ip[r] <= Len(prog[r]) + 1
  /\ InTx(r) => Running(r) /\ \E f : Begins(r, f)
  /\ ~InTx(r) => /\ DOMAIN mine[r] = {}
                 /\ Running(r) => \A i \in 1 .. ip[r] - 1 : prog[r][i].do # "enter"
  /\ \A k \in DOMAIN mine[r] : Wrote(r, k)

\* What the transaction has written of a record is what its operations make of the
\* row that is committed now, which stays until the commit; after a delete, of any row.
Replays(r) ==
  \A f, k : InTx(r) /\ Begins(r, f) /\ k \in DOMAIN mine[r] =>
    IF Deleted(r, f, k)
      THEN \A x : Trace(prog[r], f, ip[r] - 1, r, k, past[k], x, mine[r][k])
      ELSE /\ Trace(prog[r], f, ip[r] - 1, r, k, past[k], db[k], mine[r][k])
           /\ mine[r][k] # NoRow \/ (owner = r /\ db[k] = NoRow)

\* r has entered scope s and does not leave it before the commit: it holds both locks.
Within(r, s) ==
  /\ \E j \in 1 .. ip[r] - 1 : prog[r][j].do = "enter" /\ prog[r][j].on = s
  /\ \A j \in DOMAIN prog[r] : prog[r][j] # Op("leave", s)

\* Nobody else can make record k while r runs.
Unmade(r, k) == \E s : OnlyIn(s, Makes, k) /\ Within(r, s)

\* Operation i of p is the last write to its record; the only write of all.
Ends(p, i)  == \A m \in i + 1 .. Len(p) : p[m].on = p[i].on => p[m].do \notin Writes
Alone(p, i) == \A m \in DOMAIN p : p[m].do \in Writes => m = i

\* What it has not written, no operation of it writes, but one that found a record
\* and is about to change it, and a delete that found none: there is still none, or
\* the delete was all.
Unwritten(r) ==
  \A f, k, i : InTx(r) /\ Begins(r, f) /\ k \notin DOMAIN mine[r] =>
    (i \in f .. ip[r] - 1 /\ WriteAt(r, i, k) =>
       \/ i = ip[r] - 1 /\ prog[r][i].do = "ensure"
       \/ /\ prog[r][i].do = "delete" /\ Ends(prog[r], i)
          /\ Alone(prog[r], i) \/ (db[k] = NoRow /\ Unmade(r, k)))

\* What a request has read and not written was committed once.
SeenKnown(r) ==
  \A k \in DOMAIN seen[r] : ~Wrote(r, k) => seen[r][k] \in past[k] \cup {NoRow}

InScopes(r) ==
  /\ Running(r) => \A s : Within(r, s) => s \in scopes[r] /\ s \in xact[r]
  /\ phase[r] = "locked" /\ ~Ended(r) /\ Now(r).do = "enter" => Now(r).on \in scopes[r]

\* r has read record k, in a way of `kinds', in a scope that keeps deletes away.
Relies(r, k, kinds) ==
  /\ Running(r) /\ ~Wrote(r, k)
  /\ \E s : /\ OnlyIn(s, {"delete"}, k) /\ Within(r, s)
            /\ \E j, m \in 1 .. ip[r] - 1 :
                 /\ j < m /\ prog[r][j].do = "enter" /\ prog[r][j].on = s
                 /\ prog[r][m].do \in kinds /\ prog[r][m].on = k

\* A row that is not deleted only grows.
Climbs(x, y) == x # NoRow => y # NoRow /\ (y.version > x.version \/ y = x)

\* So what it read is what there is, or the version number tells; what it found is there.
Current(r) ==
  \A k : /\ Relies(r, k, Reads) => k \in DOMAIN seen[r] /\ Climbs(seen[r][k], db[k])
         /\ Relies(r, k, {"require"}) => db[k] # NoRow

Request(r) == Control(r) /\ Replays(r) /\ Unwritten(r) /\ SeenKnown(r) /\ Current(r)

RowsTyped ==
  /\ db \in [Records -> RowOrNone] /\ past \in [Records -> SUBSET Rows]
  /\ \A k \in Records : db[k] \in past[k] \cup {NoRow}
  /\ base \in [Requests -> RowOrNone]
  /\ DOMAIN seen = Requests
  /\ \A r \in Requests :
       /\ DOMAIN mine[r] \subseteq Records /\ \A k \in DOMAIN mine[r] : mine[r][k] \in RowOrNone
       /\ DOMAIN seen[r] \subseteq Records /\ \A k \in DOMAIN seen[r] : seen[r][k] \in RowOrNone

\* No two requests of one process have the Python lock of a scope.
Scoped ==
  /\ deploy \in Deployments /\ DOMAIN scopes = Requests
  /\ \A r, u \in Requests : r # u /\ Together(r, u) => scopes[r] \cap scopes[u] = {}
  /\ \A r \in Requests : InScopes(r)

HInv == IInv /\ RowsTyped /\ Scoped /\ \A r \in Requests : Request(r)

-----------------------------------------------------------------------------
(* Traces of a record                                                        *)

\* Operations that leave a row alone, one by one, leave it alone together.
LEMMA TraceIdles ==
  ASSUME NEW p, NEW first \in Nat \ {0}, NEW last \in Nat, first <= last + 1,
         NEW r, NEW k, NEW was, NEW x,
         \A i \in first .. last : RowStep(p[i], r, k, was, x, x)
  PROVE  Trace(p, first, last, r, k, was, x, x)
  <1> DEFINE T == [i \in first - 1 .. last |-> x]
  <1>1. \A i \in first - 1 .. last : T[i] = x
    OBVIOUS
  <1>2. /\ first - 1 \in first - 1 .. last /\ last \in first - 1 .. last
        /\ \A i \in first .. last : i \in first - 1 .. last /\ i - 1 \in first - 1 .. last
    OBVIOUS
  <1> HIDE DEF T
  <1>3. T[first - 1] = x /\ T[last] = x /\ \A i \in first .. last : T[i] = x /\ T[i - 1] = x
    BY <1>1, <1>2
  <1>4. \A i \in first .. last : RowStep(p[i], r, k, was, T[i - 1], T[i])
    BY <1>3
  <1> QED BY <1>3, <1>4 DEF Trace

\* One more operation at the end.
LEMMA TraceExtends ==
  ASSUME NEW p, NEW first \in Nat \ {0}, NEW last \in Nat, first <= last + 1, NEW r, NEW k, NEW was,
         NEW x, NEW y, NEW z,
         Trace(p, first, last, r, k, was, x, y), RowStep(p[last + 1], r, k, was, y, z)
  PROVE  Trace(p, first, last + 1, r, k, was, x, z)
  <1>1. PICK T : /\ T[first - 1] = x /\ T[last] = y
                 /\ \A i \in first .. last : RowStep(p[i], r, k, was, T[i - 1], T[i])
    BY DEF Trace
  <1> DEFINE U == [i \in first - 1 .. last + 1 |-> IF i = last + 1 THEN z ELSE T[i]]
  <1>2. /\ U[last + 1] = z
        /\ \A i \in first - 1 .. last : U[i] = T[i]
    OBVIOUS
  <1> HIDE DEF U
  <1>3. U[first - 1] = x /\ U[last] = y
    BY <1>1, <1>2
  <1>4. ASSUME NEW i \in first .. last + 1
        PROVE  RowStep(p[i], r, k, was, U[i - 1], U[i])
    <2>1. CASE i = last + 1
      <3>1. U[i - 1] = y /\ U[i] = z /\ p[i] = p[last + 1]
        BY <1>2, <1>3, <2>1
      <3> QED BY <3>1
    <2>2. CASE i # last + 1
      <3>1. i \in first .. last /\ U[i] = T[i] /\ U[i - 1] = T[i - 1]
        BY <1>2, <2>2
      <3> QED BY <1>1, <3>1
    <2> QED BY <2>1, <2>2
  <1> QED BY <1>2, <1>3, <1>4 DEF Trace

\* History only gives a restore more to choose from.
LEMMA TraceGrows ==
  ASSUME NEW p, NEW first, NEW last, NEW r, NEW k, NEW was, NEW more, was \subseteq more,
         NEW x, NEW y, Trace(p, first, last, r, k, was, x, y)
  PROVE  Trace(p, first, last, r, k, more, x, y)
  <1>1. PICK T : /\ T[first - 1] = x /\ T[last] = y
                 /\ \A i \in first .. last : RowStep(p[i], r, k, was, T[i - 1], T[i])
    BY DEF Trace
  <1>2. \A i \in first .. last : RowStep(p[i], r, k, more, T[i - 1], T[i])
    BY <1>1 DEF RowStep
  <1> QED BY <1>1, <1>2 DEF Trace

LEMMA RowFacts ==
  ASSUME NEW x \in RowOrNone
  PROVE  /\ x.version \in Nat
         /\ x # NoRow <=> x.version > 0
         /\ x # NoRow => x \in Rows
  BY DEF RowOrNone, Rows, NoRow

LEMMA ClimbsOn ==
  ASSUME NEW x \in RowOrNone, NEW y \in RowOrNone, NEW z \in RowOrNone, Climbs(x, y), Climbs(y, z)
  PROVE  Climbs(x, z)
  <1>1. x.version \in Nat /\ y.version \in Nat /\ z.version \in Nat
    BY RowFacts
  <1> QED BY <1>1 DEF Climbs

\* An operation that does not delete a row lets it grow.
LEMMA StepClimbs ==
  ASSUME NEW op, NEW r, NEW k, NEW was, NEW x, NEW y,
         RowStep(op, r, k, was, x, y), ~ (op.do = "delete" /\ op.on = k),
         x.version \in Nat, x.version > 0
  PROVE  y.version \in Nat /\ (y.version > x.version \/ y = x)
  <1>1. CASE op.do \in Writes /\ op.on = k
    <2>1. op.do \in {"mutate", "save"} => y.version = x.version + 1
      BY <1>1 DEF RowStep
    <2>2. op.do \in {"create", "ensure", "restore"} => y = x
      BY <1>1 DEF RowStep
    <2> QED BY <1>1, <2>1, <2>2 DEF Writes
  <1>2. CASE ~ (op.do \in Writes /\ op.on = k)
    BY <1>2 DEF RowStep
  <1> QED BY <1>1, <1>2

LEMMA TraceClimbs ==
  ASSUME NEW p, NEW first \in Nat \ {0}, NEW last \in Nat, first <= last + 1,
         NEW r, NEW k, NEW was, NEW x \in RowOrNone, NEW y,
         Trace(p, first, last, r, k, was, x, y),
         \A i \in first .. last : ~ (p[i].do = "delete" /\ p[i].on = k)
  PROVE  Climbs(x, y)
  <1> SUFFICES ASSUME x # NoRow PROVE y # NoRow /\ (y.version > x.version \/ y = x)
    BY DEF Climbs
  <1>1. PICK T : /\ T[first - 1] = x /\ T[last] = y
                 /\ \A i \in first .. last : RowStep(p[i], r, k, was, T[i - 1], T[i])
    BY DEF Trace
  <1>2. x.version \in Nat /\ x.version > 0
    BY RowFacts
  <1> DEFINE Grown(z) == z.version \in Nat /\ (z.version > x.version \/ z = x)
             S == {n \in Nat : first - 1 <= n /\ n <= last => Grown(T[n])}
  <1>3. Grown(T[first - 1])
    BY <1>1, <1>2
  <1>4. 0 \in S
    <2> HIDE DEF Grown
    <2> QED BY <1>3
  <1>5. ASSUME NEW n \in Nat, n \in S PROVE n + 1 \in S
    <2>1. CASE first <= n + 1 /\ n + 1 <= last
      <3>1. Grown(T[n]) /\ n + 1 \in first .. last /\ (n + 1) - 1 = n
        BY <1>5, <2>1
      <3> DEFINE a == T[n]
                 b == T[n + 1]
      <3>2. RowStep(p[n + 1], r, k, was, a, b)
        BY <1>1, <3>1
      <3>3. a.version \in Nat /\ a.version > 0 /\ (a.version > x.version \/ a = x)
        BY <1>2, <3>1
      <3> HIDE DEF a, b
      <3>4. b.version \in Nat /\ (b.version > a.version \/ b = a)
        BY <3>1, <3>2, <3>3, StepClimbs
      <3>5. Grown(b)
        BY <1>2, <3>3, <3>4
      <3> HIDE DEF Grown
      <3> QED BY <3>5 DEF b
    <2>2. CASE ~ (first <= n + 1 /\ n + 1 <= last)
      <3>1. n + 1 = first - 1 \/ ~ (first - 1 <= n + 1 /\ n + 1 <= last)
        BY <2>2
      <3> HIDE DEF Grown
      <3> QED BY <1>3, <3>1
    <2> QED BY <2>1, <2>2
  <1> HIDE DEF S
  <1>6. last \in S
    BY <1>4, <1>5, Induction
  <1>7. Grown(y)
    BY <1>1, <1>6 DEF S
  <1> QED BY <1>2, <1>7 DEF NoRow

\* What does not make a row of a record leaves none where none is.
LEMMA TraceMisses ==
  ASSUME NEW p, NEW first \in Nat \ {0}, NEW last \in Nat, first <= last + 1,
         NEW r, NEW k, NEW was, NEW y, Trace(p, first, last, r, k, was, NoRow, y),
         \A i \in first .. last : ~ (p[i].do \in Makes /\ p[i].on = k)
  PROVE  y = NoRow
  <1>1. PICK T : /\ T[first - 1] = NoRow /\ T[last] = y
                 /\ \A i \in first .. last : RowStep(p[i], r, k, was, T[i - 1], T[i])
    BY DEF Trace
  <1> DEFINE S == {n \in Nat : first - 1 <= n /\ n <= last => T[n] = NoRow}
  <1>2. 0 \in S
    BY <1>1
  <1>3. ASSUME NEW n \in Nat, n \in S PROVE n + 1 \in S
    <2>1. CASE first <= n + 1 /\ n + 1 <= last
      <3>1. T[n] = NoRow /\ n + 1 \in first .. last /\ (n + 1) - 1 = n
        BY <1>3, <2>1
      <3>2. RowStep(p[n + 1], r, k, was, NoRow, T[n + 1])
        BY <1>1, <3>1
      <3>3. ~ (NoRow.version > 0)
        BY DEF NoRow
      <3>4. T[n + 1] = NoRow
        BY <3>1, <3>2, <3>3 DEF RowStep, Makes, Writes
      <3> QED BY <3>4
    <2>2. CASE ~ (first <= n + 1 /\ n + 1 <= last)
      <3>1. n + 1 = first - 1 \/ ~ (first - 1 <= n + 1 /\ n + 1 <= last)
        BY <2>2
      <3> QED BY <1>1, <3>1
    <2> QED BY <2>1, <2>2
  <1> HIDE DEF S
  <1>4. last \in S
    BY <1>2, <1>3, Induction
  <1> QED BY <1>1, <1>4 DEF S

-----------------------------------------------------------------------------
(* What the abstract store makes of a sequence of operations                 *)

\* The sets of tables that Outcomes builds.
Builds(g, p, first, last, r) ==
  /\ g[first - 1] = {db}
  /\ \A n \in first .. last : \A s \in g[n - 1] : \A t \in Abstract!After(p[n], r, s) : t \in g[n]

\* Outcomes is defined by a recursive function, and such a function exists.
LEMMA OutcomeSteps ==
  ASSUME NEW p, NEW first \in Nat \ {0}, NEW last \in Nat, first <= last + 1, NEW r
  PROVE  \E g : Builds(g, p, first, last, r) /\ Abstract!Outcomes(p, first, last, r) = g[last]
  <1> DEFINE Tables(prior, n) ==
               IF n < first THEN {db} ELSE UNION {Abstract!After(p[n], r, t) : t \in prior}
             Form(g, m) ==
               g = [n \in 0 .. m |->
                     IF n < first THEN {db}
                       ELSE UNION {Abstract!After(p[n], r, t) : t \in g[n - 1]}]
             S == {m \in Nat : \E g : \A n \in 0 .. m : g[n] = Tables(g[n - 1], n)}
  <1>1. 0 \in S
    <2> DEFINE g == [n \in -1 .. 0 |-> IF n = -1 THEN {} ELSE Tables({}, 0)]
    <2> HIDE DEF Tables
    <2>1. \A n \in 0 .. 0 : g[n] = Tables(g[n - 1], n)
      OBVIOUS
    <2> HIDE DEF g
    <2> QED BY <2>1
  <1>2. ASSUME NEW m \in Nat, m \in S PROVE m + 1 \in S
    <2> HIDE DEF Tables
    <2>1. PICK g : \A n \in 0 .. m : g[n] = Tables(g[n - 1], n)
      BY <1>2
    <2> DEFINE h == [n \in -1 .. m + 1 |-> IF n <= m THEN g[n] ELSE Tables(g[m], m + 1)]
    <2>2. ASSUME NEW n \in 0 .. m + 1 PROVE h[n] = Tables(h[n - 1], n)
      <3>1. CASE n \in 0 .. m
        <4>1. h[n] = g[n] /\ h[n - 1] = g[n - 1]
          BY <3>1
        <4> QED BY <2>1, <3>1, <4>1
      <3>2. CASE n = m + 1
        <4>1. h[n] = Tables(g[m], m + 1) /\ h[n - 1] = g[m]
          BY <3>2
        <4> QED BY <3>2, <4>1
      <3> QED BY <3>1, <3>2
    <2>3. m + 1 \in Nat
      OBVIOUS
    <2> HIDE DEF h
    <2> QED BY <2>2, <2>3
  <1> HIDE DEF S
  <1>3. last \in S
    BY <1>1, <1>2, Induction
  <1>4. PICK a : \A n \in 0 .. last : a[n] = Tables(a[n - 1], n)
    BY <1>3 DEF S
  <1> DEFINE b == [n \in 0 .. last |-> a[n]]
  <1>5. Form(b, last)
    <2>1. \A n \in 0 .. last : ~ (n < first) => n - 1 \in 0 .. last
      OBVIOUS
    <2>2. \A n \in 0 .. last : ~ (n < first) => b[n - 1] = a[n - 1]
      BY <2>1
    <2> QED BY <1>4, <2>2
  <1> DEFINE tables == CHOOSE g : Form(g, last)
  <1>6. Form(tables, last)
    <2> HIDE DEF b
    <2> QED BY <1>5
  <1>7. Abstract!Outcomes(p, first, last, r) = tables[last]
    BY DEF Abstract!Outcomes
  <1> HIDE DEF tables
  <1>8. Builds(tables, p, first, last, r)
    <2>1. \A n \in 0 .. last : tables[n] = Tables(tables[n - 1], n)
      BY <1>6
    <2>2. tables[first - 1] = {db}
      <3>1. first - 1 \in 0 .. last /\ first - 1 < first
        OBVIOUS
      <3> QED BY <2>1, <3>1
    <2>3. ASSUME NEW n \in first .. last PROVE n \in 0 .. last /\ ~ (n < first)
      OBVIOUS
    <2>4. \A n \in first .. last :
            tables[n] = UNION {Abstract!After(p[n], r, t) : t \in tables[n - 1]}
      BY <2>1, <2>3
    <2> HIDE DEF Tables
    <2> QED BY <2>2, <2>4 DEF Builds
  <1> QED BY <1>7, <1>8

\* One step of every record is a step of the table.
LEMMA RowsMakeTable ==
  ASSUME NEW op, op.do \in Writes => op.on \in Records, NEW r, NEW s, NEW t,
         s = [k \in Records |-> s[k]], t = [k \in Records |-> t[k]],
         \A k \in Records : RowStep(op, r, k, past[k], s[k], t[k])
  PROVE  t \in Abstract!After(op, r, s)
  <1>1. CASE op.do \notin Writes
    <2>1. \A k \in Records : t[k] = s[k]
      BY <1>1 DEF RowStep
    <2>2. t = s
      BY <2>1
    <2> QED BY <1>1, <2>2 DEF Abstract!After, Writes
  <1>2. CASE op.do \in Writes
    <2> DEFINE on == op.on
    <2>1. on \in Records /\ RowStep(op, r, on, past[on], s[on], t[on])
      BY <1>2
    <2>2. \A k \in Records \ {on} : t[k] = s[k]
      BY DEF RowStep
    <2>3. t = [s EXCEPT ![on] = t[on]]
      BY <2>1, <2>2
    <2>4. t[on] = s[on] => t = s
      BY <2>2
    <2>5. CASE op.do \in {"mutate", "save"}
      BY <2>1, <2>3, <2>5, <1>2 DEF RowStep, Abstract!After
    <2>6. CASE op.do = "create"
      BY <2>1, <2>3, <2>6, <1>2 DEF RowStep, Abstract!After
    <2>7. CASE op.do = "ensure"
      BY <2>1, <2>3, <2>4, <2>7, <1>2 DEF RowStep, Abstract!After
    <2>8. CASE op.do = "delete"
      BY <2>1, <2>3, <2>8, <1>2 DEF RowStep, Abstract!After, Abstract!NoRow, NoRow
    <2>9. CASE op.do = "restore"
      <3>1. CASE s[on].version > 0
        BY <2>1, <2>4, <2>9, <3>1, <1>2 DEF RowStep, Abstract!After
      <3>2. CASE ~ (s[on].version > 0)
        <4>1. t[on] \in past[on] \cup {NoRow}
          BY <2>1, <2>9, <3>2, <1>2 DEF RowStep
        <4>2. Abstract!After(op, r, s) =
                UNION {{[s EXCEPT ![on] = x]} : x \in past[on] \cup {NoRow}}
          BY <2>9, <3>2 DEF Abstract!After, Abstract!NoRow, NoRow
        <4> QED BY <2>3, <4>1, <4>2
      <3> QED BY <3>1, <3>2
    <2> QED BY <1>2, <2>5, <2>6, <2>7, <2>8, <2>9 DEF Writes
  <1> QED BY <1>1, <1>2

\* A trace of every record makes a transaction of the abstract store.
LEMMA TracesMakeOutcome ==
  ASSUME NEW p, NEW first \in Nat \ {0}, NEW last \in Nat, first <= last + 1, NEW r, NEW t,
         db = [k \in Records |-> db[k]], t = [k \in Records |-> t[k]],
         \A i \in first .. last : p[i].do \in Writes => p[i].on \in Records,
         \A k \in Records : Trace(p, first, last, r, k, past[k], db[k], t[k])
  PROVE  t \in Abstract!Outcomes(p, first, last, r)
  <1>1. PICK g : Builds(g, p, first, last, r) /\ Abstract!Outcomes(p, first, last, r) = g[last]
    BY OutcomeSteps
  <1> DEFINE Way(k, T) ==
               /\ T[first - 1] = db[k] /\ T[last] = t[k]
               /\ \A i \in first .. last : RowStep(p[i], r, k, past[k], T[i - 1], T[i])
             ways == [k \in Records |-> CHOOSE T : Way(k, T)]
             Table(n) == [k \in Records |-> ways[k][n]]
             S == {n \in Nat : first - 1 <= n /\ n <= last => Table(n) \in g[n]}
  <1>2. \A k \in Records : Way(k, ways[k])
    BY DEF Trace
  <1> HIDE DEF ways
  <1>3. Table(first - 1) = db /\ Table(last) = t
    BY <1>2
  <1>4. Table(first - 1) \in g[first - 1]
    <2> HIDE DEF Table
    <2> QED BY <1>1, <1>3 DEF Builds
  <1>5. 0 \in S
    BY <1>4
  <1>6. ASSUME NEW n \in Nat, n \in S PROVE n + 1 \in S
    <2> SUFFICES ASSUME first <= n + 1, n + 1 <= last PROVE Table(n + 1) \in g[n + 1]
      <3>1. n + 1 = first - 1 => Table(n + 1) \in g[n + 1]
        <4> HIDE DEF Table
        <4> QED BY <1>4
      <3> HIDE DEF Table
      <3> QED BY <3>1
    <2>1. Table(n) \in g[n] /\ n + 1 \in first .. last /\ (n + 1) - 1 = n
      BY <1>6
    <2>2. \A k \in Records : RowStep(p[n + 1], r, k, past[k], Table(n)[k], Table(n + 1)[k])
      BY <1>2, <2>1
    <2> HIDE DEF Table, S
    <2>3. Table(n + 1) \in Abstract!After(p[n + 1], r, Table(n))
      <3>1. /\ Table(n) = [k \in Records |-> Table(n)[k]]
            /\ Table(n + 1) = [k \in Records |-> Table(n + 1)[k]]
        BY DEF Table
      <3> QED BY <2>1, <2>2, <3>1, RowsMakeTable
    <2> QED BY <1>1, <2>1, <2>3 DEF Builds
  <1> HIDE DEF S, Table
  <1>7. last \in S
    BY <1>5, <1>6, Induction
  <1> QED BY <1>1, <1>3, <1>7 DEF S

-----------------------------------------------------------------------------
(* Requests and their programs                                               *)

\* What ProgramAssumption says of one operation.
LEMMA OpFacts ==
  ASSUME NEW p \in Programs, NEW i \in 1 .. Len(p)
  PROVE  /\ Len(p) \in Nat
         /\ p[i].do \in Writes \cup Reads \cup {"enter", "leave"}
         /\ p[i].do \in Writes \cup Reads => p[i].on \in Records
         /\ p[i] = Op(p[i].do, p[i].on)
         /\ p[i].do = "ensure" /\ (\E j \in 1 .. i - 1 : p[j].do = "enter") =>
              i < Len(p) /\ p[i + 1].do = "mutate" /\ p[i + 1].on = p[i].on
         /\ p[i].do \in {"delete", "save", "restore"} =>
              \A j \in 1 .. i - 1 : ~ (p[j].do \in Writes /\ p[j].on = p[i].on)
         /\ p[i].do = "save" => Informed(p, i, Reads)
  <1> DEFINE Ops == [do : Writes \cup Reads \cup {"enter", "leave"}, on : Records \cup Scopes]
  <1>0. p \in Seq(Ops)
    BY ProgramAssumption
  <1>1. i \in DOMAIN p /\ Len(p) \in Nat
    <2> HIDE DEF Ops
    <2> QED BY <1>0
  <1>2. p[i] \in Ops
    <2> HIDE DEF Ops
    <2> QED BY <1>0
  <1>3. p[i].do \in Writes \cup Reads => p[i].on \in Records
    <2>1. p[i].on \in Scopes <=> p[i].do \in {"enter", "leave"}
      BY <1>1, ProgramAssumption
    <2> QED BY <1>2, <2>1 DEF Writes, Reads
  <1>4. p[i].do = "ensure" /\ (\E j \in 1 .. i - 1 : p[j].do = "enter") =>
          i < Len(p) /\ p[i + 1].do = "mutate" /\ p[i + 1].on = p[i].on
    <2>1. p[i].do = "ensure" /\ (\E j \in 1 .. i - 1 : p[j].do = "enter") =>
            i < Len(p) /\ p[i + 1] = Op("mutate", p[i].on)
      BY <1>1, ProgramAssumption
    <2> QED BY <2>1 DEF Op
  <1>5. p[i].do \in {"delete", "save", "restore"} =>
          \A j \in 1 .. i - 1 : ~ (p[j].do \in Writes /\ p[j].on = p[i].on)
    BY <1>1, ProgramAssumption
  <1>6. p[i].do = "save" => Informed(p, i, Reads)
    BY <1>1, SaveAssumption
  <1>7. p[i] = Op(p[i].do, p[i].on)
    BY <1>2 DEF Op
  <1> QED BY <1>1, <1>2, <1>3, <1>4, <1>5, <1>6, <1>7

\* In a transaction, what gets or creates a record is not the last operation.
LEMMA EnsureMutates ==
  ASSUME NEW p \in Programs, NEW i \in 1 .. Len(p), p[i].do = "ensure",
         NEW f \in 1 .. i - 1, p[f].do = "enter"
  PROVE  i < Len(p) /\ p[i + 1].do = "mutate" /\ p[i + 1].on = p[i].on
  <1>1. \E j \in 1 .. i - 1 : p[j].do = "enter"
    OBVIOUS
  <1> QED BY <1>1, OpFacts

\* A scope of operation i is one that the request has entered by then.
LEMMA ScopeHeld ==
  ASSUME NEW r, ip[r] \in Nat, NEW i \in Nat, i <= ip[r], NEW s, InScope(prog[r], i, s)
  PROVE  Within(r, s)
  <1>1. PICK j \in 1 .. i - 1 : prog[r][j] = Op("enter", s)
    BY DEF InScope
  <1>2. j \in 1 .. ip[r] - 1 /\ prog[r][j].do = "enter" /\ prog[r][j].on = s
    BY <1>1 DEF Op
  <1> QED BY <1>2 DEF Within, InScope

\* Whoever has read a record as Informed says relies on it.
LEMMA InformedRelies ==
  ASSUME NEW r, Running(r), ip[r] \in Nat, NEW kinds, Informed(prog[r], ip[r], kinds),
         NEW k, k = Now(r).on, ~Wrote(r, k)
  PROVE  Relies(r, k, kinds)
  <1>1. PICK s : /\ OnlyIn(s, {"delete"}, k) /\ InScope(prog[r], ip[r], s)
                 /\ \E j, m \in 1 .. ip[r] - 1 :
                      /\ j < m /\ prog[r][j] = Op("enter", s)
                      /\ prog[r][m].do \in kinds /\ prog[r][m].on = k
    BY DEF Informed, Now
  <1>2. Within(r, s)
    BY <1>1, ScopeHeld
  <1>3. \E j, m \in 1 .. ip[r] - 1 : /\ j < m /\ prog[r][j].do = "enter" /\ prog[r][j].on = s
                                      /\ prog[r][m].do \in kinds /\ prog[r][m].on = k
    BY <1>1 DEF Op
  <1> QED BY <1>1, <1>2, <1>3 DEF Relies

\* A record that must be there is read.
LEMMA RequiredIsRead ==
  ASSUME NEW r, NEW k, Relies(r, k, {"require"})
  PROVE  Relies(r, k, Reads)
  <1>1. "require" \in Reads
    BY DEF Reads
  <1> QED BY <1>1 DEF Relies

\* A request that neither moves nor loses a row it relies on.
LEMMA UnmovedKeeps ==
  ASSUME NEW u \in Requests, Request(u), RowsTyped,
         prog'[u] = prog[u], ip'[u] = ip[u], mine'[u] = mine[u], xact'[u] = xact[u],
         seen'[u] = seen[u], Running(u)' <=> Running(u), phase'[u] = "new" => phase[u] = "new",
         owner = u => owner' = u,
         \A k \in Records : past[k] \subseteq past'[k],
         \A k \in Records : db'[k] \in RowOrNone /\ (Relies(u, k, Reads) => Climbs(db[k], db'[k])),
         \A k \in Records : Unmade(u, k) /\ Running(u) /\ db[k] = NoRow => db'[k] = NoRow,
         \A k \in DOMAIN mine[u] :
           IF mine[u][k] # NoRow THEN db'[k] = db[k]
             ELSE owner = u /\ db[k] = NoRow => db'[k] = NoRow
  PROVE  Request(u)'
  <1>1. /\ \A f : Begins(u, f)' <=> Begins(u, f)
        /\ \A f, k : Deleted(u, f, k)' <=> Deleted(u, f, k)
        /\ \A i, k : WriteAt(u, i, k)' <=> WriteAt(u, i, k)
        /\ \A k : Wrote(u, k)' <=> Wrote(u, k)
        /\ \A s : Within(u, s)' <=> Within(u, s)
        /\ InTx(u)' <=> InTx(u)
    BY DEF Begins, Deleted, Wrote, WriteAt, Within, InTx
  <1>2. Control(u)'
    <2>1. Control(u)
      BY DEF Request
    <2> QED BY <1>1, <2>1 DEF Control
  <1>3. Replays(u)'
    <2> SUFFICES ASSUME NEW f, NEW k, InTx(u), Begins(u, f), k \in DOMAIN mine[u]
                 PROVE  IF Deleted(u, f, k)
                          THEN \A x : Trace(prog[u], f, ip[u] - 1, u, k, past'[k], x, mine[u][k])
                          ELSE /\ Trace(prog[u], f, ip[u] - 1, u, k, past'[k], db'[k], mine[u][k])
                               /\ mine[u][k] # NoRow \/ (owner' = u /\ db'[k] = NoRow)
      BY <1>1 DEF Replays
    <2>1. k \in Records /\ past[k] \subseteq past'[k]
      BY DEF RowsTyped
    <2>2. CASE Deleted(u, f, k)
      <3>1. \A x : Trace(prog[u], f, ip[u] - 1, u, k, past[k], x, mine[u][k])
        BY <2>2 DEF Request, Replays
      <3>2. \A x : Trace(prog[u], f, ip[u] - 1, u, k, past'[k], x, mine[u][k])
        BY <2>1, <3>1, TraceGrows
      <3> QED BY <2>2, <3>2
    <2>3. CASE ~Deleted(u, f, k)
      <3>1. /\ Trace(prog[u], f, ip[u] - 1, u, k, past[k], db[k], mine[u][k])
            /\ mine[u][k] # NoRow \/ (owner = u /\ db[k] = NoRow)
        BY <2>3 DEF Request, Replays
      <3>2. db'[k] = db[k] /\ (mine[u][k] # NoRow \/ (owner' = u /\ db'[k] = NoRow))
        BY <3>1
      <3>3. Trace(prog[u], f, ip[u] - 1, u, k, past'[k], db[k], mine[u][k])
        BY <2>1, <3>1, TraceGrows
      <3> QED BY <2>3, <3>2, <3>3
    <2> QED BY <2>2, <2>3
  <1>4. Unwritten(u)'
    <2> SUFFICES ASSUME NEW f, NEW k, NEW i, InTx(u), Begins(u, f), k \notin DOMAIN mine[u],
                        i \in f .. ip[u] - 1, WriteAt(u, i, k)
                 PROVE  \/ i = ip[u] - 1 /\ prog[u][i].do = "ensure"
                        \/ /\ prog[u][i].do = "delete" /\ Ends(prog[u], i)
                           /\ Alone(prog[u], i) \/ (db'[k] = NoRow /\ Unmade(u, k)')
      BY <1>1 DEF Unwritten
    <2>1. \/ i = ip[u] - 1 /\ prog[u][i].do = "ensure"
          \/ /\ prog[u][i].do = "delete" /\ Ends(prog[u], i)
             /\ Alone(prog[u], i) \/ (db[k] = NoRow /\ Unmade(u, k))
      BY DEF Request, Unwritten
    <2>2. Unmade(u, k) => Unmade(u, k)'
      BY <1>1 DEF Unmade, OnlyIn
    <2>3. Running(u) /\ prog[u] \in Programs /\ ip[u] \in Nat /\ ip[u] <= Len(prog[u]) + 1
      BY DEF Request, Control
    <2>4. f \in 1 .. ip[u] - 1 /\ Len(prog[u]) \in Nat
      BY <2>3, ProgramAssumption DEF Begins
    <2>5. i \in 1 .. Len(prog[u])
      BY <2>3, <2>4
    <2>6. k \in Records
      BY <2>3, <2>5, OpFacts DEF WriteAt
    <2> QED BY <2>1, <2>2, <2>3, <2>6
  <1>5. SeenKnown(u)'
    <2>1. SeenKnown(u) /\ DOMAIN seen[u] \subseteq Records
      BY DEF Request, RowsTyped
    <2> QED BY <1>1, <2>1 DEF SeenKnown
  <1>6. Current(u)'
    <2>0. \A k, kinds : Relies(u, k, kinds)' => Relies(u, k, kinds)
      BY <1>1 DEF Relies, OnlyIn
    <2>1. ASSUME NEW k, Relies(u, k, Reads)
          PROVE  k \in DOMAIN seen[u] /\ Climbs(seen[u][k], db'[k])
      <3>1. k \in DOMAIN seen[u] /\ Climbs(seen[u][k], db[k]) /\ k \in Records
        BY <2>1 DEF Request, Current, RowsTyped
      <3>2. seen[u][k] \in RowOrNone /\ db[k] \in RowOrNone /\ db'[k] \in RowOrNone
        BY <3>1 DEF RowsTyped
      <3> QED BY <2>1, <3>1, <3>2, ClimbsOn
    <2>2. ASSUME NEW k, Relies(u, k, {"require"}) PROVE db'[k] # NoRow
      <3>1. Relies(u, k, Reads)
        BY <2>2, RequiredIsRead
      <3>2. k \in Records /\ db[k] # NoRow
        BY <2>2, <3>1 DEF Request, Current, RowsTyped
      <3> QED BY <3>1, <3>2 DEF Climbs
    <2> QED BY <2>0, <2>1, <2>2 DEF Current, Climbs
  <1> QED BY <1>2, <1>3, <1>4, <1>5, <1>6 DEF Request

\* A transaction has one beginning.
LEMMA BeginsOnce ==
  ASSUME NEW r \in Requests, ip[r] \in Nat, NEW f, NEW g, Begins(r, f), Begins(r, g)
  PROVE  f = g
  <1>1. f \in Nat /\ g \in Nat /\ ~ (f < g) /\ ~ (g < f)
    BY DEF Begins
  <1> QED BY <1>1

\* One step forward in a program: what the operation was decides the rest.
Moves(r) ==
  /\ Running(r) /\ Running(r)' /\ ~Ended(r) /\ prog'[r] = prog[r] /\ ip'[r] = ip[r] + 1
  /\ phase'[r] # "new"

LEMMA MovedFacts ==
  ASSUME NEW r \in Requests, Control(r), Moves(r), InTx(r) \/ ~InTx(r)'
  PROVE  /\ ip[r] \in Nat \ {0} /\ prog[r] \in Programs /\ ip[r] \in 1 .. Len(prog[r])
         /\ Len(prog[r]) \in Nat
         /\ \A f : Begins(r, f)' /\ InTx(r)' => Begins(r, f)
         /\ \A f : Begins(r, f) => Begins(r, f)' /\ f \in 1 .. ip[r] - 1
         /\ \A i, k : WriteAt(r, i, k)' <=> WriteAt(r, i, k)
         /\ \A k : Wrote(r, k)' <=> Wrote(r, k) \/ WriteAt(r, ip[r], k)
         /\ \A f, k : Begins(r, f) =>
              (Deleted(r, f, k)' <=> \/ Deleted(r, f, k)
                                     \/ Now(r).do = "delete" /\ Now(r).on = k)
         /\ \A k : Unmade(r, k) => Unmade(r, k)'
  <1>1. /\ ip[r] \in Nat \ {0} /\ prog[r] \in Programs /\ ip[r] \in 1 .. Len(prog[r])
        /\ Len(prog[r]) \in Nat
    <2>1. prog[r] \in Programs /\ ip[r] \in Nat \ {0}
      BY DEF Control, Moves
    <2>2. Len(prog[r]) \in Nat
      BY <2>1, ProgramAssumption
    <2> QED BY <2>1, <2>2 DEF Moves, Ended
  <1>2. \A i : i \in 1 .. ip'[r] - 1 <=> i \in 1 .. ip[r] - 1 \/ i = ip[r]
    BY <1>1 DEF Moves
  <1>3. \A i, k : WriteAt(r, i, k)' <=> WriteAt(r, i, k)
    BY DEF WriteAt, Moves
  <1>4. \A f : Begins(r, f) => Begins(r, f)' /\ f \in 1 .. ip[r] - 1
    BY <1>2 DEF Begins, Moves
  <1>5. ASSUME NEW f, Begins(r, f)', InTx(r)' PROVE Begins(r, f)
    <2>1. PICK g : Begins(r, g)
      BY <1>5 DEF Control
    <2>2. f \in 1 .. ip[r] /\ g \in 1 .. ip[r] - 1 /\ prog[r][g].do = "enter"
          /\ prog[r][f].do = "enter" /\ \A j \in 1 .. f - 1 : prog[r][j].do # "enter"
      <3>1. prog'[r] = prog[r] /\ f \in 1 .. ip'[r] - 1
        BY <1>5 DEF Begins, Moves
      <3>2. f \in 1 .. ip[r]
        BY <1>1, <3>1 DEF Moves
      <3> QED BY <1>5, <2>1, <3>1, <3>2 DEF Begins
    <2>3. ~ (g < f)
      BY <2>2
    <2> QED BY <1>1, <2>2, <2>3 DEF Begins
  <1>6. \A k : Wrote(r, k)' <=> Wrote(r, k) \/ WriteAt(r, ip[r], k)
    BY <1>2, <1>3 DEF Wrote
  <1>7. ASSUME NEW f, NEW k, Begins(r, f)
        PROVE  Deleted(r, f, k)' <=> Deleted(r, f, k) \/ (Now(r).do = "delete" /\ Now(r).on = k)
    <2>1. f \in 1 .. ip[r] - 1
      BY <1>7 DEF Begins
    <2>2. \A i : i \in f .. ip'[r] - 1 <=> i \in f .. ip[r] - 1 \/ i = ip[r]
      BY <1>1, <2>1 DEF Moves
    <2> QED BY <2>2 DEF Deleted, Now, Moves
  <1>8. \A k : Unmade(r, k) => Unmade(r, k)'
    <2>1. \A s : Within(r, s) => Within(r, s)'
      BY <1>2 DEF Within, Moves
    <2> QED BY <2>1 DEF Unmade, OnlyIn
  <1> QED BY <1>1, <1>3, <1>4, <1>5, <1>6, <1>7, <1>8
-----------------------------------------------------------------------------
(* An operation that writes nothing                                          *)

\* A request comes to rely on a record by reading it.
LEMMA ReliesBefore ==
  ASSUME NEW r \in Requests, NEW k, NEW kinds, Relies(r, k, kinds)', Running(r), ~Wrote(r, k),
         ip[r] \in Nat, prog'[r] = prog[r], ip'[r] = ip[r] + 1,
         ~ (Now(r).do \in kinds /\ Now(r).on = k)
  PROVE  Relies(r, k, kinds)
  <1>1. PICK s : /\ OnlyIn(s, {"delete"}, k) /\ Within(r, s)'
                 /\ \E j, m \in 1 .. ip'[r] - 1 :
                      /\ j < m /\ prog[r][j].do = "enter" /\ prog[r][j].on = s
                      /\ prog[r][m].do \in kinds /\ prog[r][m].on = k
    BY DEF Relies, OnlyIn
  <1>2. PICK j \in 1 .. ip[r], m \in 1 .. ip[r] :
               /\ j < m /\ prog[r][j].do = "enter" /\ prog[r][j].on = s
               /\ prog[r][m].do \in kinds /\ prog[r][m].on = k
    BY <1>1
  <1>3. m # ip[r]
    BY <1>2 DEF Now
  <1>4. j \in 1 .. ip[r] - 1 /\ m \in 1 .. ip[r] - 1
    BY <1>2, <1>3
  <1>5. Within(r, s)
    BY <1>1, <1>2, <1>4 DEF Within
  <1> QED BY <1>1, <1>2, <1>4, <1>5 DEF Relies

\* An operation goes by: a read, a scope, get_or_create of a record that is there, or a
\* delete that finds none.
Skips(r) ==
  \/ Now(r).do \notin Writes
  \/ Now(r).do = "ensure" /\ View(r, Now(r).on) # NoRow
  \/ /\ Now(r).do = "delete" /\ Now(r).on \notin DOMAIN mine[r] /\ Ends(prog[r], ip[r])
     /\ Alone(prog[r], ip[r]) \/ (db[Now(r).on] = NoRow /\ Unmade(r, Now(r).on))

LEMMA SkipKeeps ==
  ASSUME NEW r \in Requests, Request(r), RowsTyped, Moves(r), Skips(r),
         mine'[r] = mine[r], UNCHANGED <<db, past>>, owner = r => owner' = r,
         Now(r).do = "require" => View(r, Now(r).on) # NoRow,
         InTx(r)' <=> InTx(r), Now(r).do = "enter" => InTx(r),
         DOMAIN seen[r] \subseteq DOMAIN seen'[r],
         Now(r).do \in Reads => Now(r).on \in DOMAIN seen'[r],
         \A k \in DOMAIN seen'[r] :
           \/ k \in Records /\ seen'[r][k] = View(r, k)
           \/ /\ k \in DOMAIN seen[r] /\ seen'[r][k] = seen[r][k]
              /\ ~ (Now(r).do \in Reads /\ Now(r).on = k)
  PROVE  Request(r)'
  <1>0. Control(r) /\ Replays(r) /\ Unwritten(r) /\ SeenKnown(r) /\ Current(r)
    BY DEF Request
  <1>1. /\ ip[r] \in Nat \ {0} /\ prog[r] \in Programs /\ ip[r] \in 1 .. Len(prog[r])
        /\ Len(prog[r]) \in Nat
        /\ \A f : Begins(r, f)' /\ InTx(r)' => Begins(r, f)
        /\ \A f : Begins(r, f) => Begins(r, f)' /\ f \in 1 .. ip[r] - 1
        /\ \A i, k : WriteAt(r, i, k)' <=> WriteAt(r, i, k)
        /\ \A k : Wrote(r, k)' <=> Wrote(r, k) \/ WriteAt(r, ip[r], k)
        /\ \A f, k : Begins(r, f) =>
             (Deleted(r, f, k)' <=> \/ Deleted(r, f, k)
                                    \/ Now(r).do = "delete" /\ Now(r).on = k)
        /\ \A k : Unmade(r, k) => Unmade(r, k)'
    BY <1>0, MovedFacts
  <1>2. prog'[r] = prog[r] /\ ip'[r] = ip[r] + 1 /\ Running(r) /\ Running(r)' /\ phase'[r] # "new"
    BY DEF Moves
  <1>3. Control(r)'
    <2>1. \A i : i \in 1 .. ip'[r] - 1 <=> i \in 1 .. ip[r] - 1 \/ i = ip[r]
      BY <1>1, <1>2
    <2>2. InTx(r)' => \E f : Begins(r, f)'
      BY <1>0, <1>1 DEF Control
    <2>3. ~InTx(r)' => DOMAIN mine'[r] = {} /\ \A i \in 1 .. ip'[r] - 1 : prog'[r][i].do # "enter"
      BY <1>0, <1>2, <2>1 DEF Control, Now, Moves
    <2>4. \A k \in DOMAIN mine'[r] : Wrote(r, k)'
      BY <1>0, <1>1 DEF Control
    <2>5. ip'[r] \in Nat \ {0} /\ ip'[r] <= Len(prog'[r]) + 1
      BY <1>1, <1>2
    <2> QED BY <1>1, <1>2, <2>2, <2>3, <2>4, <2>5 DEF Control
  <1>4. Replays(r)'
    <2> SUFFICES ASSUME NEW f, NEW k, InTx(r)', Begins(r, f)', k \in DOMAIN mine[r]
                 PROVE  IF Deleted(r, f, k)
                          THEN \A x : Trace(prog[r], f, ip[r], r, k, past[k], x, mine[r][k])
                          ELSE /\ Trace(prog[r], f, ip[r], r, k, past[k], db[k], mine[r][k])
                               /\ mine[r][k] # NoRow \/ (owner' = r /\ db[k] = NoRow)
      <3>1. \A k \in DOMAIN mine[r] : ~ (Now(r).do = "delete" /\ Now(r).on = k)
        BY DEF Skips, Writes
      <3>2. ip'[r] - 1 = ip[r]
        BY <1>1, <1>2
      <3> QED BY <1>1, <1>2, <3>1, <3>2 DEF Replays
    <2>1. Begins(r, f) /\ InTx(r) /\ f \in 1 .. ip[r] - 1 /\ mine[r][k] \in RowOrNone
      BY <1>1 DEF RowsTyped
    <2> DEFINE last == ip[r] - 1
               y == mine[r][k]
    <2>2. last \in Nat /\ f \in Nat \ {0} /\ f <= last + 1 /\ last + 1 = ip[r]
      BY <1>1, <2>1
    <2>3. RowStep(prog[r][ip[r]], r, k, past[k], y, y)
      <3>1. CASE ~ (Now(r).do \in Writes /\ Now(r).on = k)
        BY <3>1 DEF RowStep, Now
      <3>2. CASE Now(r).do \in Writes /\ Now(r).on = k
        <4>1. Now(r).do = "ensure" /\ y # NoRow
          BY <3>2 DEF View, Skips
        <4>2. y.version > 0
          <5>1. y \in RowOrNone
            BY <2>1
          <5> HIDE DEF y
          <5> QED BY <4>1, <5>1, RowFacts
        <4> QED BY <4>1, <4>2 DEF RowStep, Now
      <3> QED BY <3>1, <3>2
    <2>4. \A x : Trace(prog[r], f, last, r, k, past[k], x, y) =>
                 Trace(prog[r], f, ip[r], r, k, past[k], x, y)
      <3> HIDE DEF last, y
      <3>1. RowStep(prog[r][last + 1], r, k, past[k], y, y)
        BY <2>2, <2>3
      <3>2. \A x : Trace(prog[r], f, last, r, k, past[k], x, y) =>
                   Trace(prog[r], f, last + 1, r, k, past[k], x, y)
        BY <2>2, <3>1, TraceExtends
      <3> QED BY <2>2, <3>2
    <2>5. IF Deleted(r, f, k)
            THEN \A x : Trace(prog[r], f, last, r, k, past[k], x, y)
            ELSE /\ Trace(prog[r], f, last, r, k, past[k], db[k], y)
                 /\ y # NoRow \/ (owner = r /\ db[k] = NoRow)
      BY <1>0, <2>1 DEF Replays
    <2> HIDE DEF last
    <2> QED BY <2>4, <2>5
  <1>5. Unwritten(r)'
    <2> DEFINE Missed(i, k) ==
                 /\ prog[r][i].do = "delete" /\ Ends(prog[r], i)
                 /\ Alone(prog[r], i) \/ (db[k] = NoRow /\ Unmade(r, k))
    <2> SUFFICES ASSUME NEW f, NEW k, NEW i, InTx(r)', Begins(r, f)', k \notin DOMAIN mine[r],
                        i \in f .. ip[r], WriteAt(r, i, k)
                 PROVE  (i = ip[r] /\ prog[r][i].do = "ensure") \/ Missed(i, k)
      <3>1. ip'[r] - 1 = ip[r]
        BY <1>1, <1>2
      <3> QED BY <1>1, <1>2, <3>1 DEF Unwritten
    <2>1. Begins(r, f) /\ InTx(r) /\ f \in 1 .. ip[r] - 1
      BY <1>1
    <2>2. CASE i = ip[r]
      <3>1. Now(r) = prog[r][i] /\ Now(r).do \in Writes /\ Now(r).on = k
        BY <2>2 DEF WriteAt, Now
      <3> QED BY <2>2, <3>1 DEF Skips
    <2>3. CASE i # ip[r]
      <3>1. i \in f .. ip[r] - 1
        BY <1>1, <2>1, <2>3
      <3>2. (i = ip[r] - 1 /\ prog[r][i].do = "ensure") \/ Missed(i, k)
        BY <1>0, <2>1, <3>1 DEF Unwritten
      <3> HIDE DEF Missed
      <3>3. ASSUME i = ip[r] - 1, prog[r][i].do = "ensure" PROVE FALSE
        <4>1. i \in 1 .. Len(prog[r]) /\ i + 1 = ip[r]
          BY <1>1, <2>1, <3>1, <3>3
        <4>2. f \in 1 .. i - 1 /\ prog[r][f].do = "enter"
          <5>1. prog[r][f].do = "enter"
            BY <2>1 DEF Begins
          <5>2. f # i
            BY <3>3, <5>1
          <5>3. f \in 1 .. i - 1
            BY <1>1, <2>1, <3>1, <5>2
          <5> QED BY <5>1, <5>3
        <4>3. Now(r).do = "mutate"
          <5> DEFINE p == prog[r]
          <5>1. p \in Programs /\ i \in 1 .. Len(p) /\ p[i].do = "ensure" /\ p[f].do = "enter"
            BY <1>1, <3>3, <4>1, <4>2
          <5> HIDE DEF p
          <5>2. p[i + 1].do = "mutate"
            BY <4>2, <5>1, EnsureMutates
          <5> QED BY <4>1, <5>2 DEF Now, p
        <4> QED BY <4>3 DEF Skips, Writes
      <3> QED BY <3>2, <3>3
    <2> QED BY <2>2, <2>3
  <1>6. SeenKnown(r)'
    <2> SUFFICES ASSUME NEW k \in DOMAIN seen'[r], ~Wrote(r, k)'
                 PROVE  seen'[r][k] \in past[k] \cup {NoRow}
      BY DEF SeenKnown
    <2>1. ~Wrote(r, k)
      BY <1>1
    <2>2. k \notin DOMAIN mine[r]
      BY <1>0, <2>1 DEF Control
    <2> QED BY <1>0, <2>1, <2>2 DEF SeenKnown, View, RowsTyped
  <1>7. ASSUME NEW k, Relies(r, k, Reads)'
        PROVE  k \in DOMAIN seen'[r] /\ Climbs(seen'[r][k], db[k])
    <2>1. ~Wrote(r, k) /\ k \notin DOMAIN mine[r]
      BY <1>0, <1>1, <1>7 DEF Control, Relies
    <2>2. CASE Now(r).do \in Reads /\ Now(r).on = k
      <3>1. k \in DOMAIN seen'[r] /\ seen'[r][k] = db[k]
        BY <2>1, <2>2 DEF View
      <3> QED BY <3>1 DEF Climbs
    <2>3. CASE ~ (Now(r).do \in Reads /\ Now(r).on = k)
      <3>1. Relies(r, k, Reads)
        BY <1>1, <1>2, <1>7, <2>1, <2>3, ReliesBefore
      <3>2. k \in DOMAIN seen[r] /\ Climbs(seen[r][k], db[k])
        BY <1>0, <3>1 DEF Current
      <3>3. seen'[r][k] = db[k] \/ seen'[r][k] = seen[r][k]
        BY <2>1, <3>2 DEF View
      <3> QED BY <3>2, <3>3 DEF Climbs
    <2> QED BY <2>2, <2>3
  <1>8. ASSUME NEW k, Relies(r, k, {"require"})' PROVE db[k] # NoRow
    <2>1. ~Wrote(r, k) /\ k \notin DOMAIN mine[r]
      BY <1>0, <1>1, <1>8 DEF Control, Relies
    <2>2. CASE Now(r).do = "require" /\ Now(r).on = k
      BY <2>1, <2>2 DEF View
    <2>3. CASE ~ (Now(r).do = "require" /\ Now(r).on = k)
      <3>1. ~ (Now(r).do \in {"require"} /\ Now(r).on = k)
        BY <2>3
      <3>2. Relies(r, k, {"require"})
        BY <1>1, <1>2, <1>8, <2>1, <3>1, ReliesBefore
      <3> QED BY <1>0, <3>2 DEF Current
    <2> QED BY <2>2, <2>3
  <1>9. Current(r)'
    BY <1>7, <1>8 DEF Current, Climbs, Reads
  <1> QED BY <1>3, <1>4, <1>5, <1>6, <1>9 DEF Request

\* The first scope makes a transaction of what is to come.
LEMMA FirstScopeKeeps ==
  ASSUME NEW r \in Requests, Request(r), Moves(r), Now(r).do = "enter", ~InTx(r), InTx(r)',
         mine'[r] = mine[r], seen'[r] = seen[r], past' = past
  PROVE  Request(r)'
  <1>1. /\ ip[r] \in Nat \ {0} /\ prog[r] \in Programs /\ ip[r] <= Len(prog[r]) + 1
        /\ DOMAIN mine[r] = {} /\ \A i \in 1 .. ip[r] - 1 : prog[r][i].do # "enter"
    BY DEF Request, Control, Moves
  <1>2. Len(prog[r]) \in Nat
    BY <1>1, ProgramAssumption
  <1>3. /\ prog'[r] = prog[r] /\ ip'[r] = ip[r] + 1 /\ ip[r] <= Len(prog[r])
        /\ Running(r)' /\ phase'[r] # "new"
    BY <1>1, <1>2 DEF Moves, Ended
  <1>4. PICK f \in Nat \ {0} : f = ip[r]
    BY <1>1
  <1>5. \A i : i \in 1 .. ip'[r] - 1 <=> i \in 1 .. f - 1 \/ i = f
    BY <1>1, <1>3, <1>4
  <1>6. prog'[r][f].do = "enter" /\ prog[r][f] = Now(r)
    BY <1>3, <1>4 DEF Now
  <1>7. Begins(r, f)'
    BY <1>1, <1>3, <1>4, <1>5, <1>6 DEF Begins
  <1>8. Control(r)'
    <2>1. ip'[r] \in Nat \ {0} /\ ip'[r] <= Len(prog'[r]) + 1 /\ prog'[r] \in Programs
      BY <1>1, <1>2, <1>3
    <2> QED BY <1>1, <1>3, <1>7, <2>1 DEF Control
  <1>9. Replays(r)'
    BY <1>1 DEF Replays
  <1>10. Unwritten(r)'
    <2> SUFFICES ASSUME NEW g, NEW k, NEW i, Begins(r, g)', i \in g .. ip'[r] - 1,
                        prog'[r][i].do \in Writes
                 PROVE  FALSE
      BY DEF Unwritten, WriteAt
    <2>1. g \in 1 .. ip'[r] - 1 /\ prog'[r][g].do = "enter"
      BY DEF Begins
    <2>2. g = f
      BY <1>1, <1>3, <1>4, <1>5, <2>1
    <2>3. i = f
      BY <1>3, <1>4, <2>2
    <2> QED BY <1>6, <2>3 DEF Writes
  <1>11. SeenKnown(r)'
    <2>1. \A k : Wrote(r, k) => Wrote(r, k)'
      BY <1>3, <1>4, <1>5 DEF Wrote, WriteAt
    <2> QED BY <2>1 DEF Request, SeenKnown
  <1>12. Current(r)'
    <2> SUFFICES ASSUME NEW k, NEW kinds, Relies(r, k, kinds)' PROVE FALSE
      BY DEF Current
    <2>1. PICK j \in 1 .. f, m \in 1 .. f : j < m /\ prog[r][j].do = "enter"
      BY <1>3, <1>4 DEF Relies
    <2> QED BY <1>1, <1>4, <2>1
  <1> QED BY <1>8, <1>9, <1>10, <1>11, <1>12 DEF Request
-----------------------------------------------------------------------------
(* A statement                                                               *)

\* What a statement leaves is what the abstract store would make of the row there is.
LEMMA ResultStep ==
  ASSUME HInv, NEW r \in Requests, Apply(r), NEW on, on = Now(r).on
  PROVE  /\ RowStep(Now(r), r, on, past[on], View(r, on), Result(r))
         /\ Result(r) \in RowOrNone /\ on \in Records /\ Now(r).do \in Writes
         /\ Now(r).do # "delete" => base[r] = View(r, on) /\ Writing(r, on)
         /\ Now(r).do \in {"delete", "save", "restore"} => on \notin DOMAIN mine[r]
         /\ Running(r) /\ ~Ended(r) /\ prog[r] \in Programs /\ ip[r] \in 1 .. Len(prog[r])
  <1>1. /\ phase[r] = "selected" /\ Running(r) /\ ~Ended(r) /\ Now(r).do \in Writes /\ Acceptable(r)
        /\ Request(r) /\ RowsTyped /\ NoLostUpdate
    BY DEF Apply, Doing, Running, HInv, IInv
  <1>2. /\ prog[r] \in Programs /\ ip[r] \in 1 .. Len(prog[r]) /\ Now(r) = prog[r][ip[r]]
    <2>1. prog[r] \in Programs /\ ip[r] \in Nat \ {0}
      BY <1>1 DEF Request, Control
    <2>2. Len(prog[r]) \in Nat
      BY <2>1, ProgramAssumption
    <2> QED BY <1>1, <2>1, <2>2 DEF Ended, Now
  <1>3. /\ on \in Records
        /\ Now(r).do = "save" => Informed(prog[r], ip[r], Reads)
        /\ Now(r).do \in {"delete", "save", "restore"} =>
             \A j \in 1 .. ip[r] - 1 : ~WriteAt(r, j, on)
    <2> DEFINE p == prog[r]
               i == ip[r]
    <2>1. p \in Programs /\ i \in 1 .. Len(p) /\ Now(r) = p[i]
      BY <1>2
    <2>2. \A j : WriteAt(r, j, on) <=> p[j].do \in Writes /\ p[j].on = on
      BY DEF WriteAt
    <2> HIDE DEF p, i
    <2>3. /\ p[i].do \in Writes \cup Reads => p[i].on \in Records
          /\ p[i].do \in {"delete", "save", "restore"} =>
               \A j \in 1 .. i - 1 : ~ (p[j].do \in Writes /\ p[j].on = p[i].on)
          /\ p[i].do = "save" => Informed(p, i, Reads)
      BY <2>1, OpFacts
    <2>4. /\ on \in Records
          /\ Now(r).do = "save" => Informed(p, i, Reads)
          /\ Now(r).do \in {"delete", "save", "restore"} =>
               \A j \in 1 .. i - 1 : ~WriteAt(r, j, on)
      BY <1>1, <2>1, <2>2, <2>3
    <2> QED BY <2>4 DEF p, i
  <1>4. View(r, on) \in RowOrNone /\ base[r] \in RowOrNone /\ Seen(r) \in RowOrNone
    BY <1>1, <1>3 DEF View, Seen, RowsTyped, RowOrNone
  <1>5. Now(r).do # "delete" => base[r] = View(r, on) /\ Writing(r, on)
    BY <1>1, <1>3 DEF NoLostUpdate, Writing
  <1>6. Now(r).do \in {"delete", "save", "restore"} =>
          /\ on \notin DOMAIN mine[r] /\ View(r, on) = db[on]
          /\ Seen(r) \in past[on] \cup {NoRow}
    <2> SUFFICES ASSUME Now(r).do \in {"delete", "save", "restore"}
                 PROVE  /\ on \notin DOMAIN mine[r] /\ View(r, on) = db[on]
                        /\ Seen(r) \in past[on] \cup {NoRow}
      OBVIOUS
    <2>1. ~Wrote(r, on)
      BY <1>3 DEF Wrote
    <2>2. on \notin DOMAIN mine[r]
      BY <1>1, <2>1 DEF Request, Control
    <2>3. Seen(r) \in past[on] \cup {NoRow}
      BY <1>1, <2>1 DEF Request, SeenKnown, Seen
    <2> QED BY <2>2, <2>3 DEF View
  <1>7. Now(r).do = "save" => Seen(r) = base[r]
    <2> SUFFICES ASSUME Now(r).do = "save" PROVE Seen(r) = base[r]
      OBVIOUS
    <2>1. base[r] # NoRow /\ base[r].version = Seen(r).version /\ base[r] = db[on]
      BY <1>1, <1>5, <1>6 DEF Acceptable
    <2>2. base[r].version > 0
      BY <1>4, <2>1, RowFacts
    <2>8. ~Wrote(r, on)
      BY <1>3 DEF Wrote
    <2>9. Relies(r, on, Reads)
      BY <1>1, <1>2, <1>3, <2>8, InformedRelies
    <2>10. on \in DOMAIN seen[r] /\ Climbs(seen[r][on], db[on])
      BY <1>1, <2>9 DEF Request, Current
    <2>11. Seen(r) = seen[r][on] /\ Seen(r).version \in Nat
      BY <1>1, <1>4, <2>10, RowFacts DEF Seen
    <2>12. Seen(r) # NoRow
      BY <2>1, <2>2 DEF NoRow
    <2> QED BY <2>1, <2>10, <2>11, <2>12 DEF Climbs
  <1>8. /\ base[r].version \in Nat /\ (base[r] # NoRow <=> base[r].version > 0)
        /\ base[r] # NoRow => base[r] \in Rows
    BY <1>4, RowFacts
  <1>9. [version |-> 1, marks |-> {r}] \in RowOrNone /\ NoRow \in RowOrNone
    BY DEF RowOrNone, Rows
  <1> DEFINE Goal == /\ RowStep(Now(r), r, on, past[on], View(r, on), Result(r))
                     /\ Result(r) \in RowOrNone
  <1>16. Now(r).do \in Writes /\ Now(r).on = on
    BY <1>1
  <1>10. ASSUME Now(r).do \in {"mutate", "save"} PROVE Goal
    <2>1. /\ base[r] \in Rows /\ base[r].version > 0 /\ View(r, on) = base[r]
          /\ Result(r) = [version |-> base[r].version + 1, marks |-> base[r].marks \cup {r}]
      BY <1>1, <1>5, <1>7, <1>8, <1>10 DEF Acceptable, Result
    <2>2. Result(r) \in RowOrNone
      BY <2>1 DEF Rows, RowOrNone
    <2>3. RowStep(Now(r), r, on, past[on], View(r, on), Result(r))
      BY <1>16, <1>10, <2>1 DEF RowStep
    <2> QED BY <2>2, <2>3
  <1>11. ASSUME Now(r).do = "create" PROVE Goal
    <2>1. /\ base[r] = NoRow /\ View(r, on) = base[r] /\ ~ (base[r].version > 0)
          /\ Result(r) = [version |-> 1, marks |-> {r}]
      BY <1>1, <1>5, <1>8, <1>11 DEF Acceptable, Result
    <2> QED BY <1>16, <1>9, <1>11, <2>1 DEF RowStep
  <1>12. ASSUME Now(r).do = "ensure" PROVE Goal
    <2>1. /\ View(r, on) = base[r]
          /\ Result(r) = IF base[r] = NoRow THEN [version |-> 1, marks |-> {r}] ELSE base[r]
      BY <1>5, <1>12 DEF Result
    <2> QED BY <1>16, <1>4, <1>8, <1>9, <1>12, <2>1 DEF RowStep
  <1>13. ASSUME Now(r).do = "delete" PROVE Goal
    BY <1>16, <1>9, <1>13 DEF RowStep, Result
  <1>14. ASSUME Now(r).do = "restore" PROVE Goal
    <2>1. /\ View(r, on) = base[r] /\ Seen(r) \in past[on] \cup {NoRow}
          /\ Result(r) = IF base[r] = NoRow THEN Seen(r) ELSE base[r]
      BY <1>5, <1>6, <1>14 DEF Result
    <2> QED BY <1>16, <1>4, <1>8, <1>14, <2>1 DEF RowStep
  <1>15. Goal
    BY <1>1, <1>10, <1>11, <1>12, <1>13, <1>14 DEF Writes
  <1> QED BY <1>1, <1>2, <1>3, <1>5, <1>6, <1>15

\* In a transaction it goes on with the trace of its record.
LEMMA ApplyInTxKeeps ==
  ASSUME HInv, NEW r \in Requests, Apply(r), InTx(r), ~Misses(r)
  PROVE  Request(r)'
  <1> DEFINE y == Result(r)
             last == ip[r] - 1
  <1>0. PICK on : on = Now(r).on
    OBVIOUS
  <1>1. /\ RowStep(Now(r), r, on, past[on], View(r, on), y)
        /\ y \in RowOrNone /\ on \in Records /\ Now(r).do \in Writes
        /\ Now(r).do # "delete" => base[r] = View(r, on) /\ Writing(r, on)
        /\ Now(r).do \in {"delete", "save", "restore"} => on \notin DOMAIN mine[r]
        /\ Running(r) /\ ~Ended(r) /\ prog[r] \in Programs /\ ip[r] \in 1 .. Len(prog[r])
    BY <1>0, ResultStep
  <1>2. /\ mine'[r] = [k \in DOMAIN mine[r] \cup {on} |-> IF k = on THEN y ELSE mine[r][k]]
        /\ UNCHANGED <<db, past, prog, seen, xact>> /\ ip'[r] = ip[r] + 1 /\ phase'[r] = "next"
        /\ owner' = owner \/ owner' = r
        /\ Acceptable(r)
    BY <1>0 DEF Apply, Advance, HInv, IInv, Shape
  <1>3. Moves(r) /\ InTx(r)'
    BY <1>1, <1>2 DEF Moves, Running, InTx
  <1>4. /\ Control(r) /\ Replays(r) /\ Unwritten(r) /\ SeenKnown(r) /\ Current(r)
        /\ RowsTyped /\ Guarded
    BY DEF HInv, IInv, Request
  <1>5. /\ ip[r] \in Nat \ {0} /\ Len(prog[r]) \in Nat
        /\ \A f : Begins(r, f)' /\ InTx(r)' => Begins(r, f)
        /\ \A f : Begins(r, f) => Begins(r, f)' /\ f \in 1 .. ip[r] - 1
        /\ \A i, k : WriteAt(r, i, k)' <=> WriteAt(r, i, k)
        /\ \A k : Wrote(r, k)' <=> Wrote(r, k) \/ WriteAt(r, ip[r], k)
        /\ \A f, k : Begins(r, f) =>
             (Deleted(r, f, k)' <=> \/ Deleted(r, f, k)
                                    \/ Now(r).do = "delete" /\ Now(r).on = k)
        /\ \A k : Unmade(r, k) => Unmade(r, k)'
    BY <1>3, <1>4, MovedFacts
  <1>6. /\ DOMAIN mine'[r] = DOMAIN mine[r] \cup {on} /\ mine'[r][on] = y
        /\ \A k \in DOMAIN mine[r] \ {on} : mine'[r][k] = mine[r][k]
    BY <1>2
  <1>7. /\ ip'[r] - 1 = ip[r] /\ last \in Nat /\ last + 1 = ip[r]
        /\ prog[r][last + 1] = Now(r)
        /\ \A f : Begins(r, f) => f \in Nat \ {0} /\ f <= last + 1
    BY <1>2, <1>5 DEF Now
  <1> HIDE DEF y, last
  <1>8. Control(r)'
    <2>1. \E f : Begins(r, f)'
      BY <1>4, <1>5 DEF Control
    <2>2. \A k \in DOMAIN mine'[r] : Wrote(r, k)'
      <3>1. WriteAt(r, ip[r], on)
        BY <1>0, <1>1 DEF WriteAt, Now
      <3> QED BY <1>4, <1>5, <1>6, <3>1 DEF Control
    <2>3. /\ ip'[r] \in Nat \ {0} /\ ip'[r] <= Len(prog'[r]) + 1 /\ prog'[r] \in Programs
          /\ phase'[r] # "new" /\ Running(r)'
      BY <1>1, <1>2, <1>3, <1>5 DEF Moves
    <2> QED BY <1>3, <2>1, <2>2, <2>3 DEF Control
  <1>18. \A i \in 1 .. ip[r] - 1 : prog[r][i].on = on => ~Ends(prog[r], i)
    BY <1>0, <1>1, <1>5 DEF Ends, Now
  <1>9. ASSUME NEW f, Begins(r, f), on \notin DOMAIN mine[r], NEW i \in f .. last
        PROVE  /\ RowStep(prog[r][i], r, on, past[on], db[on], db[on])
               /\ Now(r).do = "delete" => ~WriteAt(r, i, on)
    <2>1. WriteAt(r, i, on) =>
            prog[r][i].do = "ensure" /\ Now(r).do = "mutate" /\ db[on].version > 0
      <3> SUFFICES ASSUME WriteAt(r, i, on)
                   PROVE  prog[r][i].do = "ensure" /\ Now(r).do = "mutate" /\ db[on].version > 0
        OBVIOUS
      <3>1. i = ip[r] - 1 /\ prog[r][i].do = "ensure"
        <4>1. i \in f .. ip[r] - 1 /\ i \in 1 .. ip[r] - 1 /\ prog[r][i].on = on
          BY <1>5, <1>9 DEF last, WriteAt
        <4> QED BY <1>4, <1>9, <1>18, <4>1 DEF Unwritten
      <3>2. i \in 1 .. Len(prog[r]) /\ prog[r][i + 1] = Now(r)
        BY <1>1, <1>5, <1>9, <3>1 DEF Now
      <3>3. Now(r).do = "mutate"
        <4>1. f \in 1 .. i - 1 /\ prog[r][f].do = "enter"
          BY <1>9, <3>1 DEF Begins
        <4> DEFINE p == prog[r]
        <4>2. p \in Programs /\ i \in 1 .. Len(p) /\ p[i].do = "ensure" /\ p[f].do = "enter"
          BY <1>1, <3>1, <3>2, <4>1
        <4>3. p[i + 1] = Now(r)
          BY <3>2
        <4> HIDE DEF p
        <4> QED BY <4>1, <4>2, <4>3, EnsureMutates
      <3>4. db[on] # NoRow
        BY <1>1, <1>2, <1>9, <3>3 DEF Acceptable, View
      <3>5. db[on] \in RowOrNone
        BY <1>1, <1>4 DEF RowsTyped
      <3> QED BY <3>1, <3>3, <3>4, <3>5, RowFacts
    <2> QED BY <2>1 DEF RowStep, WriteAt
  <1>10. ASSUME NEW f, Begins(r, f), ~Deleted(r, f, on)
         PROVE  Trace(prog[r], f, last, r, on, past[on], db[on], View(r, on))
    <2>1. CASE on \in DOMAIN mine[r]
      BY <1>4, <1>10, <2>1 DEF Replays, View, last
    <2>2. CASE on \notin DOMAIN mine[r]
      <3>1. \A i \in f .. last : RowStep(prog[r][i], r, on, past[on], db[on], db[on])
        BY <1>9, <1>10, <2>2
      <3>2. View(r, on) = db[on]
        BY <2>2 DEF View
      <3> QED BY <1>7, <1>10, <3>1, <3>2, TraceIdles
    <2> QED BY <2>1, <2>2
  <1>11. ASSUME NEW f, Begins(r, f), Deleted(r, f, on), NEW x
         PROVE  Trace(prog[r], f, last, r, on, past[on], x, View(r, on))
    <2>1. PICK i \in f .. ip[r] - 1 : prog[r][i].do = "delete" /\ prog[r][i].on = on
      BY <1>11 DEF Deleted
    <2>2. WriteAt(r, i, on) /\ prog[r][i].do # "ensure"
      BY <2>1 DEF WriteAt, Writes
    <2>3. on \in DOMAIN mine[r]
      <3>1. i \in 1 .. ip[r] - 1 /\ ~Ends(prog[r], i)
        BY <1>5, <1>11, <1>18, <2>1
      <3> QED BY <1>4, <1>11, <2>2, <3>1 DEF Unwritten
    <2> QED BY <1>4, <1>11, <2>3 DEF Replays, View, last
  <1>12. ASSUME NEW f, Begins(r, f), Now(r).do = "delete", NEW x
         PROVE  /\ Trace(prog[r], f, last, r, on, past[on], x, x)
                /\ RowStep(Now(r), r, on, past[on], x, y)
    <2>1. \A i \in f .. last : ~WriteAt(r, i, on)
      BY <1>1, <1>9, <1>12
    <2>2. \A i \in f .. last : RowStep(prog[r][i], r, on, past[on], x, x)
      BY <2>1 DEF RowStep, WriteAt
    <2>3. y = NoRow
      BY <1>12 DEF Result, y
    <2> QED BY <1>0, <1>1, <1>7, <1>12, <2>2, <2>3, TraceIdles DEF RowStep
  <1>13. ASSUME NEW f, Begins(r, f), ~Deleted(r, f, on), Now(r).do # "delete", y = NoRow
         PROVE  owner' = r /\ db[on] = NoRow
    <2>1. Now(r).do = "restore" /\ base[r] = NoRow
      <3>1. [version |-> 1, marks |-> {r}] # NoRow
        BY DEF NoRow
      <3>2. base[r] # NoRow => base[r].version + 1 # 0 /\ Seen(r).version + 1 # 0
        BY <1>4, RowFacts DEF RowsTyped, Seen, RowOrNone, Rows, NoRow
      <3> QED BY <1>1, <1>13, <3>1, <3>2 DEF Result, y, Writes, NoRow
    <2>2. on \notin DOMAIN mine[r] /\ db[on] = NoRow
      BY <1>1, <2>1 DEF View
    <2>3. owner = r
      BY <1>1, <1>4, <2>1 DEF Guarded, Holds
    <2> QED BY <1>2, <2>2, <2>3
  <1>14. Replays(r)'
    <2> SUFFICES ASSUME NEW f, NEW k, Begins(r, f), k \in DOMAIN mine'[r]
                 PROVE  IF Deleted(r, f, k)'
                          THEN \A x : Trace(prog[r], f, last + 1, r, k, past[k], x, mine'[r][k])
                          ELSE /\ Trace(prog[r], f, last + 1, r, k, past[k], db[k], mine'[r][k])
                               /\ mine'[r][k] # NoRow \/ (owner' = r /\ db[k] = NoRow)
      <3>1. prog'[r] = prog[r] /\ db' = db /\ past' = past /\ ip'[r] - 1 = last + 1
        BY <1>2, <1>7
      <3> QED BY <1>5, <3>1 DEF Replays
    <2>1. \A x, z : Trace(prog[r], f, last, r, k, past[k], x, z)
                    /\ RowStep(Now(r), r, k, past[k], z, mine'[r][k]) =>
                      Trace(prog[r], f, last + 1, r, k, past[k], x, mine'[r][k])
      BY <1>7, TraceExtends
    <2>2. CASE k = on
      <3>1. ASSUME ~Deleted(r, f, k)'
            PROVE  /\ Trace(prog[r], f, last + 1, r, k, past[k], db[k], mine'[r][k])
                   /\ mine'[r][k] # NoRow \/ (owner' = r /\ db[k] = NoRow)
        <4>1. ~Deleted(r, f, on) /\ Now(r).do # "delete"
          BY <1>0, <1>5, <2>2, <3>1
        <4>2. mine'[r][k] = y /\ (y # NoRow \/ (owner' = r /\ db[on] = NoRow))
          BY <1>6, <1>13, <2>2, <4>1
        <4> QED BY <1>1, <1>10, <2>1, <2>2, <4>1, <4>2
      <3>2. ASSUME Deleted(r, f, k)', NEW x
            PROVE  Trace(prog[r], f, last + 1, r, k, past[k], x, mine'[r][k])
        <4>1. mine'[r][k] = y
          BY <1>6, <2>2
        <4>2. CASE Deleted(r, f, on)
          BY <1>1, <1>11, <2>1, <2>2, <4>1, <4>2
        <4>3. CASE ~Deleted(r, f, on)
          <5>1. Now(r).do = "delete"
            BY <1>5, <2>2, <3>2, <4>3
          <5> QED BY <1>12, <2>1, <2>2, <4>1, <5>1
        <4> QED BY <4>2, <4>3
      <3> QED BY <3>1, <3>2
    <2>3. CASE k # on
      <3>1. k \in DOMAIN mine[r] /\ mine'[r][k] = mine[r][k]
        BY <1>6, <2>3
      <3>2. RowStep(Now(r), r, k, past[k], mine[r][k], mine[r][k])
        BY <1>0, <2>3 DEF RowStep
      <3>3. Deleted(r, f, k)' <=> Deleted(r, f, k)
        BY <1>0, <1>5, <2>3
      <3>4. CASE Deleted(r, f, k)
        <4>1. \A x : Trace(prog[r], f, last, r, k, past[k], x, mine[r][k])
          BY <1>4, <3>1, <3>4 DEF Replays, last
        <4> QED BY <2>1, <3>1, <3>2, <3>3, <3>4, <4>1
      <3>5. CASE ~Deleted(r, f, k)
        <4>1. /\ Trace(prog[r], f, last, r, k, past[k], db[k], mine[r][k])
              /\ mine[r][k] # NoRow \/ (owner = r /\ db[k] = NoRow)
          BY <1>4, <3>1, <3>5 DEF Replays, last
        <4> QED BY <1>2, <2>1, <3>1, <3>2, <3>3, <3>5, <4>1
      <3> QED BY <3>4, <3>5
    <2> QED BY <2>2, <2>3
  <1>15. Unwritten(r)'
    <2> DEFINE Missed(i, k) ==
                 /\ prog[r][i].do = "delete" /\ Ends(prog[r], i)
                 /\ Alone(prog[r], i) \/ (db[k] = NoRow /\ Unmade(r, k))
    <2> SUFFICES ASSUME NEW f, NEW k, NEW i, Begins(r, f), k \notin DOMAIN mine'[r],
                        i \in f .. ip[r], WriteAt(r, i, k)
                 PROVE  Missed(i, k)
      <3>1. prog'[r] = prog[r] /\ db' = db /\ ip'[r] - 1 = ip[r]
        BY <1>2, <1>7
      <3> QED BY <1>5, <3>1 DEF Unwritten
    <2>1. k # on /\ k \notin DOMAIN mine[r]
      BY <1>6
    <2>2. i # ip[r]
      BY <1>0, <2>1 DEF WriteAt, Now
    <2>3. f \in 1 .. ip[r] - 1 /\ i \in f .. ip[r] - 1
      BY <1>5, <2>2
    <2>4. (i = ip[r] - 1 /\ prog[r][i].do = "ensure") \/ Missed(i, k)
      BY <1>4, <2>1, <2>3 DEF Unwritten
    <2> HIDE DEF Missed
    <2>5. ASSUME i = ip[r] - 1, prog[r][i].do = "ensure" PROVE FALSE
      <3>1. i \in 1 .. Len(prog[r]) /\ prog[r][i + 1] = Now(r)
        BY <1>1, <1>5, <2>3, <2>5 DEF Now
      <3>2. Now(r).on = k
        <4>1. f \in 1 .. i - 1 /\ prog[r][f].do = "enter"
          BY <2>3, <2>5 DEF Begins
        <4> DEFINE p == prog[r]
        <4>2. p \in Programs /\ i \in 1 .. Len(p) /\ p[i].do = "ensure" /\ p[f].do = "enter"
          BY <1>1, <2>5, <3>1, <4>1
        <4>3. p[i + 1] = Now(r) /\ p[i].on = k
          BY <3>1 DEF WriteAt
        <4> HIDE DEF p
        <4> QED BY <4>1, <4>2, <4>3, EnsureMutates
      <3> QED BY <1>0, <2>1, <3>2
    <2> QED BY <2>4, <2>5
  <1>16. SeenKnown(r)'
    BY <1>2, <1>4, <1>5 DEF SeenKnown
  <1>17. Current(r)'
    <2>1. Now(r).do \notin Reads /\ Now(r).do # "require"
      BY <1>1 DEF Writes, Reads
    <2>2. ASSUME NEW k, NEW kinds, kinds \subseteq Reads, Relies(r, k, kinds)'
          PROVE  Relies(r, k, kinds)
      <3>1. ~Wrote(r, k) /\ ~ (Now(r).do \in kinds /\ Now(r).on = k)
        BY <1>5, <2>1, <2>2 DEF Relies
      <3> QED BY <1>1, <1>2, <1>5, <2>2, <3>1, ReliesBefore
    <2>3. {"require"} \subseteq Reads
      BY DEF Reads
    <2>4. ASSUME NEW k, Relies(r, k, Reads)' PROVE Relies(r, k, Reads)
      BY <2>2, <2>4
    <2>5. ASSUME NEW k, Relies(r, k, {"require"})' PROVE Relies(r, k, {"require"})
      BY <2>2, <2>3, <2>5
    <2>6. \A k : Relies(r, k, Reads) => k \in DOMAIN seen[r] /\ Climbs(seen[r][k], db[k])
      BY <1>4 DEF Current
    <2>7. \A k : Relies(r, k, {"require"}) => db[k] # NoRow
      BY <1>4 DEF Current
    <2>8. seen' = seen /\ db' = db
      BY <1>2
    <2> QED BY <2>4, <2>5, <2>6, <2>7, <2>8 DEF Current, Climbs, Reads
  <1> QED BY <1>8, <1>14, <1>15, <1>16, <1>17 DEF Request

\* A delete that finds no row is the last write to its record, and either all that
\* the transaction writes, or nobody makes that row before the commit.
LEMMA MissFacts ==
  ASSUME HInv, NEW r \in Requests, Apply(r), InTx(r), Misses(r)
  PROVE  Skips(r)
  <1> DEFINE p == prog[r]
             i == ip[r]
             k == Now(r).on
  <1>1. /\ Running(r) /\ p \in Programs /\ i \in 1 .. Len(p) /\ k \notin DOMAIN mine[r]
        /\ Now(r).do = "delete"
    BY ResultStep DEF Misses
  <1>2. /\ Control(r) /\ Current(r) /\ i \in Nat \ {0} /\ k = p[i].on /\ p[i].do = "delete"
    BY <1>1 DEF HInv, Request, Control, Now
  <1>3. db[k] = NoRow
    BY <1>1 DEF Misses, View
  <1>4. ~Wrote(r, k) /\ i \in DOMAIN p /\ Len(p) \in Nat
    <2> HIDE DEF p, i, k
    <2>1. \A j \in 1 .. i - 1 : ~ (p[j].do \in Writes /\ p[j].on = k)
      BY <1>1, <1>2, OpFacts
    <2>2. i \in DOMAIN p /\ Len(p) \in Nat
      BY <1>1, ProgramAssumption
    <2> QED BY <2>1, <2>2 DEF Wrote, WriteAt, p, i
  <1>5. \E j \in 1 .. i - 1 : p[j].do = "enter"
    BY <1>2 DEF Control, Begins
  <1> HIDE DEF p, i, k
  <1>6. \/ \A m \in DOMAIN p : p[m].do \in Writes => m = i
        \/ Informed(p, i, {"require"})
        \/ /\ \E s \in Scopes : OnlyIn(s, Makes, p[i].on) /\ InScope(p, i, s)
           /\ \A m \in i + 1 .. Len(p) : p[m].on = p[i].on => p[m].do \notin Writes
    BY <1>1, <1>2, <1>4, <1>5, DeleteAssumption
  <1>7. CASE \A m \in DOMAIN p : p[m].do \in Writes => m = i
    <2>1. \A m \in i + 1 .. Len(p) : m \in DOMAIN p /\ m # i
      BY <1>1, <1>2, <1>4, ProgramAssumption
    <2>2. Ends(p, i) /\ Alone(p, i)
      BY <1>7, <2>1 DEF Ends, Alone
    <2> QED BY <1>1, <2>2 DEF Skips, p, i, k
  <1>8. CASE Informed(p, i, {"require"})
    <2>1. Relies(r, k, {"require"})
      BY <1>1, <1>2, <1>4, <1>8, InformedRelies DEF p, i, k
    <2> QED BY <1>2, <1>3, <2>1 DEF Current
  <1>9. CASE /\ \E s \in Scopes : OnlyIn(s, Makes, p[i].on) /\ InScope(p, i, s)
             /\ \A m \in i + 1 .. Len(p) : p[m].on = p[i].on => p[m].do \notin Writes
    <2>1. PICK s \in Scopes : OnlyIn(s, Makes, k) /\ InScope(p, i, s)
      BY <1>2, <1>9
    <2>2. Within(r, s)
      BY <1>2, <2>1, ScopeHeld DEF p, i
    <2>3. Unmade(r, k) /\ Ends(p, i)
      BY <1>9, <2>1, <2>2 DEF Unmade, Ends
    <2> QED BY <1>1, <1>3, <2>3 DEF Skips, p, i, k
  <1> QED BY <1>6, <1>7, <1>8, <1>9

-----------------------------------------------------------------------------
(* The end of a transaction                                                  *)

\* Nothing of a transaction is left when it has committed or failed.
LEMMA EndKeeps ==
  ASSUME HInv, NEW r \in Requests, (Apply(r) /\ ~InTx(r)) \/ Finish(r) \/ Fail(r)
  PROVE  Request(r)'
  <1>1. /\ mine'[r] = << >> /\ xact'[r] = {} /\ prog' = prog /\ seen' = seen
        /\ \A k \in Records : past[k] \subseteq past'[k]
    BY DEF Apply, Finish, Fail, EndTx, Store, HInv, IInv, Shape
  <1>2. DOMAIN mine'[r] = {} /\ ~InTx(r)'
    BY <1>1 DEF InTx
  <1>3. Control(r) /\ SeenKnown(r) /\ ip[r] \in Nat \ {0} /\ DOMAIN seen[r] \subseteq Records
    BY DEF HInv, Request, Control, RowsTyped
  <1>4. Replays(r)' /\ Unwritten(r)'
    BY <1>2 DEF Replays, Unwritten
  <1>5. ASSUME Apply(r), ~InTx(r) PROVE Control(r)' /\ SeenKnown(r)' /\ Current(r)'
    <2>1. /\ Running(r) /\ ~Ended(r) /\ prog[r] \in Programs /\ ip[r] \in 1 .. Len(prog[r])
          /\ Now(r).do \in Writes
      BY <1>5, ResultStep
    <2>2. ip'[r] = ip[r] + 1 /\ phase'[r] = "next"
      BY <1>5 DEF Apply, Advance, HInv, IInv, Shape
    <2>3. Running(r)' /\ phase'[r] # "new" /\ Len(prog[r]) \in Nat
      BY <2>1, <2>2, ProgramAssumption DEF Running
    <2>4. \A i : i \in 1 .. ip'[r] - 1 <=> i \in 1 .. ip[r] - 1 \/ i = ip[r]
      BY <1>3, <2>2
    <2>5. \A i \in 1 .. ip'[r] - 1 : prog'[r][i].do # "enter"
      BY <1>1, <1>3, <1>5, <2>1, <2>4 DEF Control, Now, Writes
    <2>6. Control(r)'
      <3>1. ip'[r] \in Nat \ {0} /\ ip'[r] <= Len(prog'[r]) + 1 /\ prog'[r] \in Programs
        BY <1>1, <1>3, <2>1, <2>2, <2>3
      <3> QED BY <1>2, <2>3, <2>5, <3>1 DEF Control
    <2>7. \A k : Wrote(r, k) => Wrote(r, k)'
      BY <1>1, <2>4 DEF Wrote, WriteAt
    <2>8. SeenKnown(r)'
      BY <1>1, <1>3, <2>7 DEF SeenKnown
    <2>9. Current(r)'
      BY <2>5 DEF Current, Relies
    <2> QED BY <2>6, <2>8, <2>9
  <1>6. ASSUME Finish(r) \/ Fail(r) PROVE Control(r)' /\ SeenKnown(r)' /\ Current(r)'
    <2>1. ip' = ip /\ phase'[r] \in {"done", "failed"}
      BY <1>6 DEF Finish, Fail, HInv, IInv, Shape
    <2>2. ~Running(r)' /\ phase'[r] # "new"
      BY <2>1 DEF Running
    <2>3. Control(r)'
      BY <1>2, <1>3, <2>1, <2>2 DEF Control
    <2>4. \A k : Wrote(r, k) <=> Wrote(r, k)'
      BY <1>1, <2>1 DEF Wrote, WriteAt
    <2>5. Current(r)'
      BY <2>2 DEF Current, Relies
    <2> QED BY <1>1, <1>3, <2>3, <2>4, <2>5 DEF SeenKnown
  <1> QED BY <1>4, <1>5, <1>6 DEF Request

\* It spares what others have read or written and not committed.
LEMMA EndSparesMine ==
  ASSUME HInv, NEW r \in Requests, (Apply(r) /\ ~InTx(r)) \/ Finish(r) \/ Fail(r),
         NEW u \in Requests \ {r}, NEW k \in DOMAIN mine[u]
  PROVE  IF mine[u][k] # NoRow THEN db'[k] = db[k]
           ELSE owner = u /\ db[k] = NoRow => db'[k] = NoRow
  <1>1. k \in Records /\ IInv /\ RowsTyped
    BY DEF HInv, RowsTyped
  <1>2. CASE mine[u][k] # NoRow
    <2>1. Holds(u, k)
      BY <1>2 DEF Holds
    <2>2. Fail(r) => db' = db
      BY DEF Fail
    <2> QED BY <1>1, <1>2, <2>1, <2>2, ApplySpares, FinishSpares
  <1>3. CASE mine[u][k] = NoRow
    <2> SUFFICES ASSUME owner = u, db[k] = NoRow PROVE db'[k] = NoRow
      BY <1>3
    <2>1. ~Holds(r, k)
      BY <1>1 DEF IInv, Guarded
    <2>2. ASSUME Apply(r), ~InTx(r) PROVE db'[k] = NoRow
      <3>1. /\ db' = [db EXCEPT ![Now(r).on] = Result(r)] /\ DOMAIN db = Records
            /\ phase[r] = "selected"
        BY <1>1, <2>2 DEF Apply, Store, Doing, IInv, Shape
      <3>2. Now(r).on = k => Now(r).do = "delete"
        BY <2>1, <3>1 DEF Holds, Writing
      <3> QED BY <1>1, <3>1, <3>2 DEF Result
    <2>3. ASSUME Finish(r) PROVE db'[k] = NoRow
      BY <1>1, <2>1, <2>3 DEF Finish, Store, View, Holds
    <2>4. ASSUME Fail(r) PROVE db'[k] = NoRow
      BY <2>4 DEF Fail
    <2> QED BY <2>2, <2>3, <2>4
  <1> QED BY <1>2, <1>3

-----------------------------------------------------------------------------
(* Scopes                                                                    *)

\* A scope that is held to the commit keeps two requests apart, by its advisory lock
\* or by its Python lock.
LEMMA KeptApart ==
  ASSUME IInv, Scoped, NEW r \in Requests, NEW u \in Requests, Running(r), Running(u),
         NEW s, Within(r, s), Within(u, s)
  PROVE  r = u
  <1>1. s \in scopes[r] /\ s \in xact[r] /\ s \in scopes[u] /\ s \in xact[u]
    BY DEF Scoped, InScopes
  <1>2. CASE deploy.postgres
    BY <1>1, <1>2 DEF IInv, ScopesExclude
  <1>3. CASE ~deploy.postgres
    BY <1>1, <1>3, DeploymentAssumption DEF Scoped, Together
  <1> QED BY <1>2, <1>3

\* A step of r leaves the scopes of others alone, and it enters none that is taken.
LEMMA ScopesOfOthers ==
  ASSUME HInv, NEW r \in Requests, Arrive(r) \/ Step(r)
  PROVE  /\ deploy' = deploy /\ DOMAIN scopes' = Requests
         /\ \A u \in Requests \ {r} :
              /\ prog'[u] = prog[u] /\ ip'[u] = ip[u] /\ phase'[u] = phase[u]
              /\ scopes'[u] = scopes[u] /\ xact'[u] = xact[u]
         /\ \A u \in Requests \ {r} : \A s \in scopes'[r] :
              s \in scopes[r] \/ (Together(r, u) => s \notin scopes[u])
  <1>1. DOMAIN scopes = Requests /\ Shape
    BY DEF HInv, Scoped, IInv
  <1>2. ASSUME Arrive(r) \/ OpenScope(r) \/ Read(r) \/ EnsureFound(r) \/ TakeRecord(r)
               \/ LockOwner(r) \/ Select(r) \/ (Apply(r) /\ InTx(r))
        PROVE  /\ scopes' = scopes /\ deploy' = deploy
               /\ \A u \in Requests \ {r} :
                    /\ prog'[u] = prog[u] /\ ip'[u] = ip[u] /\ phase'[u] = phase[u]
                    /\ xact'[u] = xact[u]
    BY <1>1, <1>2
       DEF Shape, Arrive, OpenScope, Read, EnsureFound, TakeRecord, LockOwner, Select, Apply,
           Advance
  <1>3. ASSUME EnterScope(r) \/ LeaveScope(r)
        PROVE  /\ deploy' = deploy /\ prog' = prog /\ xact' = xact
               /\ DOMAIN scopes' = Requests
               /\ \A u \in Requests \ {r} :
                    scopes'[u] = scopes[u] /\ ip'[u] = ip[u] /\ phase'[u] = phase[u]
               /\ \A u \in Requests \ {r} : \A s \in scopes'[r] :
                    s \in scopes[r] \/ (Together(r, u) => s \notin scopes[u])
    BY <1>1, <1>3 DEF Shape, EnterScope, LeaveScope, Advance
  <1>4. ASSUME (Apply(r) /\ ~InTx(r)) \/ Finish(r) \/ Fail(r)
        PROVE  /\ deploy' = deploy /\ prog' = prog
               /\ scopes' = [scopes EXCEPT ![r] = {}]
               /\ \A u \in Requests \ {r} :
                    ip'[u] = ip[u] /\ phase'[u] = phase[u] /\ xact'[u] = xact[u]
    BY <1>1, <1>4 DEF Shape, Apply, Finish, Fail, EndTx, Advance
  <1>5. CASE Arrive(r) \/ OpenScope(r) \/ Read(r) \/ EnsureFound(r) \/ TakeRecord(r)
             \/ LockOwner(r) \/ Select(r) \/ (Apply(r) /\ InTx(r))
    BY <1>1, <1>2, <1>5
  <1>6. CASE EnterScope(r) \/ LeaveScope(r)
    BY <1>3, <1>6
  <1>7. CASE (Apply(r) /\ ~InTx(r)) \/ Finish(r) \/ Fail(r)
    BY <1>1, <1>4, <1>7
  <1> QED BY <1>5, <1>6, <1>7 DEF Step

\* Whoever has entered a scope, to keep it to the commit, has its locks.
LEMMA ScopesOfMine ==
  ASSUME HInv, NEW r \in Requests, Arrive(r) \/ Step(r)
  PROVE  InScopes(r)'
  <1>1. /\ Shape /\ DOMAIN scopes = Requests /\ InScopes(r) /\ Control(r)
        /\ ip[r] \in Nat \ {0}
    BY DEF HInv, Scoped, IInv, Request, Control
  <1>2. ASSUME Arrive(r) PROVE InScopes(r)'
    <2>1. ip'[r] = 1 /\ phase'[r] = "next"
      BY <1>1, <1>2 DEF Shape, Arrive, Control
    <2>2. \A j \in 1 .. ip'[r] - 1 : FALSE
      BY <2>1
    <2> QED BY <2>1, <2>2 DEF InScopes, Within
  <1>3. ASSUME Finish(r) \/ Fail(r) PROVE InScopes(r)'
    <2>1. phase'[r] \in {"done", "failed"}
      BY <1>1, <1>3 DEF Shape, Finish, Fail
    <2> QED BY <2>1 DEF InScopes, Running
  <1>4. ASSUME EnterScope(r) \/ TakeRecord(r) \/ LockOwner(r) \/ Select(r)
        PROVE  InScopes(r)'
    <2>1. /\ prog' = prog /\ ip' = ip /\ xact' = xact /\ Running(r)
          /\ phase'[r] \in {"locked", "owned", "selected"}
      BY <1>1, <1>4 DEF Shape, EnterScope, TakeRecord, LockOwner, Select, Doing, Running
    <2>2. /\ \A s \in scopes[r] : s \in scopes'[r]
          /\ EnterScope(r) => Now(r).on \in scopes'[r]
      BY <1>1, <1>4 DEF EnterScope, TakeRecord, LockOwner, Select
    <2>3. ~EnterScope(r) => Now(r).do \in Writes
      BY <1>4 DEF TakeRecord, LockOwner, Select, Doing
    <2>4. \A s : Within(r, s)' <=> Within(r, s)
      BY <2>1 DEF Within
    <2>5. Now(r)' = Now(r)
      BY <2>1 DEF Now
    <2>6. \A s : Within(r, s)' => s \in scopes'[r] /\ s \in xact'[r]
      BY <1>1, <2>1, <2>2, <2>4 DEF InScopes
    <2> QED BY <2>2, <2>3, <2>5, <2>6 DEF InScopes, Writes
  <1>5. ASSUME OpenScope(r) \/ LeaveScope(r) \/ Read(r) \/ EnsureFound(r) \/ Apply(r)
        PROVE  InScopes(r)'
    <2>1. /\ prog' = prog /\ ip'[r] = ip[r] + 1 /\ phase'[r] = "next"
          /\ Running(r) /\ ~Ended(r)
      BY <1>1, <1>5
         DEF Shape, OpenScope, LeaveScope, Read, EnsureFound, Apply, Advance, Doing, Running
    <2>2. /\ prog[r] \in Programs /\ ip[r] \in 1 .. Len(prog[r]) /\ ip[r] \in DOMAIN prog[r]
          /\ Now(r) = Op(Now(r).do, Now(r).on)
      <3>1. prog[r] \in Programs
        BY <1>1, <2>1 DEF Control
      <3>2. ip[r] \in 1 .. Len(prog[r]) /\ ip[r] \in DOMAIN prog[r]
        BY <1>1, <2>1, <3>1, ProgramAssumption DEF Ended
      <3> QED BY <3>1, <3>2, OpFacts DEF Now
    <2>3. \A s : Within(r, s)' => Within(r, s) \/ (Now(r).do = "enter" /\ Now(r).on = s)
      <3> SUFFICES ASSUME NEW s, Within(r, s)', ~ (Now(r).do = "enter" /\ Now(r).on = s)
                   PROVE  Within(r, s)
        OBVIOUS
      <3>1. PICK j \in 1 .. ip[r] : prog[r][j].do = "enter" /\ prog[r][j].on = s
        BY <1>1, <2>1 DEF Within
      <3>2. j # ip[r]
        BY <3>1 DEF Now
      <3>3. j \in 1 .. ip[r] - 1
        BY <1>1, <3>1, <3>2
      <3> QED BY <2>1, <3>1, <3>3 DEF Within
    <2>4. ASSUME NEW s, Within(r, s)' PROVE s \in scopes'[r] /\ s \in xact'[r]
      <3>1. CASE OpenScope(r)
        <4>1. /\ scopes' = scopes /\ xact'[r] = xact[r] \cup {Now(r).on}
              /\ phase[r] = "locked" /\ Now(r).do = "enter"
          BY <1>1, <3>1 DEF Shape, OpenScope, Doing
        <4>2. Now(r).on \in scopes[r]
          BY <1>1, <2>1, <4>1 DEF InScopes
        <4>3. Within(r, s) => s \in scopes[r] /\ s \in xact[r]
          BY <1>1, <2>1 DEF InScopes
        <4> QED BY <2>3, <2>4, <4>1, <4>2, <4>3
      <3>2. CASE LeaveScope(r)
        <4>1. scopes'[r] = scopes[r] \ {Now(r).on} /\ xact' = xact /\ Now(r).do = "leave"
          BY <1>1, <3>2 DEF LeaveScope, Doing
        <4>2. Within(r, s)
          BY <2>3, <2>4, <4>1
        <4>3. s \in scopes[r] /\ s \in xact[r]
          BY <1>1, <2>1, <4>2 DEF InScopes
        <4>4. s # Now(r).on
          BY <2>2, <4>1, <4>2 DEF Within, Now
        <4> QED BY <4>1, <4>3, <4>4
      <3>3. CASE Read(r) \/ EnsureFound(r) \/ (Apply(r) /\ InTx(r))
        <4>1. scopes' = scopes /\ xact' = xact /\ Now(r).do # "enter"
          BY <3>3 DEF Read, EnsureFound, Apply, Doing, Reads, Writes
        <4>2. Within(r, s)
          BY <2>3, <2>4, <4>1
        <4> QED BY <1>1, <2>1, <4>1, <4>2 DEF InScopes
      <3>4. CASE Apply(r) /\ ~InTx(r)
        <4>1. Now(r).do # "enter"
          BY <3>4 DEF Apply, Doing, Writes
        <4>2. Within(r, s)
          BY <2>3, <2>4, <4>1
        <4> QED BY <1>1, <2>1, <3>4, <4>2 DEF Control, Within
      <3> QED BY <1>5, <3>1, <3>2, <3>3, <3>4
    <2> QED BY <2>1, <2>4 DEF InScopes
  <1> QED BY <1>2, <1>3, <1>4, <1>5 DEF Step

LEMMA ScopedSteps ==
  ASSUME HInv, NEW r \in Requests, Arrive(r) \/ Step(r)
  PROVE  Scoped'
  <1>1. Scoped
    BY DEF HInv
  <1>2. /\ deploy' = deploy /\ DOMAIN scopes' = Requests
        /\ \A u \in Requests \ {r} :
             /\ prog'[u] = prog[u] /\ ip'[u] = ip[u] /\ phase'[u] = phase[u]
             /\ scopes'[u] = scopes[u] /\ xact'[u] = xact[u]
        /\ \A u \in Requests \ {r} : \A s \in scopes'[r] :
             s \in scopes[r] \/ (Together(r, u) => s \notin scopes[u])
    BY ScopesOfOthers
  <1>3. ASSUME NEW u \in Requests \ {r} PROVE InScopes(u)'
    <2>1. /\ Running(u)' <=> Running(u)
          /\ \A s : Within(u, s)' <=> Within(u, s)
          /\ Ended(u)' <=> Ended(u)
          /\ Now(u)' = Now(u)
      BY <1>2 DEF Running, Within, Ended, Now
    <2>2. InScopes(u)
      BY <1>1 DEF Scoped
    <2> QED BY <1>2, <2>1, <2>2 DEF InScopes
  <1>4. \A u, v \in Requests : Together(u, v)' <=> Together(u, v)
    BY <1>2 DEF Together
  <1>5. ASSUME NEW u \in Requests \ {r}, Together(r, u) PROVE scopes'[r] \cap scopes'[u] = {}
    <2>1. scopes[r] \cap scopes[u] = {}
      BY <1>1, <1>5 DEF Scoped
    <2> QED BY <1>2, <1>5, <2>1
  <1>6. ASSUME NEW u \in Requests, NEW v \in Requests, u # v, Together(u, v)
        PROVE  scopes'[u] \cap scopes'[v] = {}
    <2>1. Together(v, u)
      BY <1>6 DEF Together
    <2>2. scopes[u] \cap scopes[v] = {}
      BY <1>1, <1>6 DEF Scoped
    <2> QED BY <1>2, <1>5, <1>6, <2>1, <2>2
  <1> QED BY <1>1, <1>2, <1>3, <1>4, <1>6, ScopesOfMine DEF Scoped

\* While a request is in the scope of some operations, nobody else does them.
LEMMA OnlyOne ==
  ASSUME IInv, Scoped, NEW r \in Requests, NEW u \in Requests \ {r}, Running(r), Running(u),
         NEW s, NEW kinds, NEW k, OnlyIn(s, kinds, k), Within(u, s),
         ip[r] \in Nat, prog[r] \in Programs, NEW i \in 1 .. Len(prog[r]), i <= ip[r],
         prog[r][i].do \in kinds, prog[r][i].on = k
  PROVE  FALSE
  <1>1. i \in DOMAIN prog[r] /\ i \in Nat
    BY ProgramAssumption
  <1>2. InScope(prog[r], i, s)
    BY <1>1 DEF OnlyIn
  <1>3. Within(r, s)
    BY <1>1, <1>2, ScopeHeld
  <1> QED BY <1>3, KeptApart

\* Nobody deletes the row that another request relies on.
LEMMA EndClimbs ==
  ASSUME HInv, NEW r \in Requests, (Apply(r) /\ ~InTx(r)) \/ Finish(r) \/ Fail(r),
         NEW u \in Requests \ {r}, NEW k \in Records, NEW kinds, Relies(u, k, kinds)
  PROVE  Climbs(db[k], db'[k])
  <1>1. /\ IInv /\ Scoped /\ RowsTyped /\ Control(u) /\ Running(u)
        /\ Control(r) /\ Replays(r) /\ ip[r] \in Nat \ {0}
    BY DEF HInv, Request, Control, Relies
  <1>2. PICK s : OnlyIn(s, {"delete"}, k) /\ Within(u, s)
    BY DEF Relies
  <1>3. ASSUME Running(r), prog[r] \in Programs, NEW i \in 1 .. Len(prog[r]), i <= ip[r],
               prog[r][i].do = "delete", prog[r][i].on = k
        PROVE  FALSE
    BY <1>1, <1>2, <1>3, OnlyOne
  <1>4. ASSUME Apply(r), ~InTx(r) PROVE Climbs(db[k], db'[k])
    <2> DEFINE x == db[k]
               y == Result(r)
    <2>1. PICK on : on = Now(r).on
      OBVIOUS
    <2>2. db' = [db EXCEPT ![on] = y] /\ DOMAIN db = Records
      BY <1>1, <1>4, <2>1 DEF Apply, Store, RowsTyped
    <2>3. /\ RowStep(Now(r), r, on, past[on], View(r, on), y)
          /\ Running(r) /\ prog[r] \in Programs /\ ip[r] \in 1 .. Len(prog[r])
      BY <1>4, <2>1, ResultStep
    <2>4. x \in RowOrNone
      BY <1>1 DEF RowsTyped
    <2> HIDE DEF y
    <2>5. CASE k # on
      BY <2>2, <2>5 DEF Climbs
    <2>6. CASE k = on
      <3>1. View(r, on) = x /\ db'[k] = y
        BY <1>1, <1>4, <2>2, <2>6 DEF Control, View
      <3>2. ~ (Now(r).do = "delete" /\ Now(r).on = on)
        BY <1>1, <1>3, <2>3, <2>6 DEF Now
      <3> HIDE DEF x
      <3>3. x.version \in Nat /\ (x # NoRow <=> x.version > 0)
        BY <2>4, RowFacts
      <3>4. x # NoRow => y.version \in Nat /\ (y.version > x.version \/ y = x)
        BY <2>3, <3>1, <3>2, <3>3, StepClimbs
      <3>5. x # NoRow => y # NoRow
        BY <3>3, <3>4 DEF NoRow
      <3> QED BY <3>1, <3>4, <3>5 DEF Climbs, x
    <2> QED BY <2>5, <2>6
  <1>5. ASSUME Finish(r) PROVE Climbs(db[k], db'[k])
    <2>1. db'[k] = View(r, k) /\ Running(r)
      BY <1>5 DEF Finish, Store, Running
    <2>2. CASE k \notin DOMAIN mine[r]
      BY <2>1, <2>2 DEF View, Climbs
    <2>3. CASE k \in DOMAIN mine[r]
      <3>1. InTx(r) /\ prog[r] \in Programs /\ ip[r] <= Len(prog[r]) + 1
        BY <1>1, <2>1, <2>3 DEF Control
      <3>2. PICK f : Begins(r, f)
        BY <1>1, <3>1 DEF Control
      <3>3. f \in 1 .. ip[r] - 1 /\ Len(prog[r]) \in Nat
        BY <3>1, <3>2, ProgramAssumption DEF Begins
      <3> DEFINE last == ip[r] - 1
                 x == db[k]
                 y == mine[r][k]
      <3>4. \A i \in f .. last : ~ (prog[r][i].do = "delete" /\ prog[r][i].on = k)
        <4> SUFFICES ASSUME NEW i \in f .. last, prog[r][i].do = "delete", prog[r][i].on = k
                     PROVE  FALSE
          OBVIOUS
        <4>1. i \in 1 .. Len(prog[r]) /\ i <= ip[r]
          BY <1>1, <3>1, <3>3
        <4> QED BY <1>3, <2>1, <3>1, <4>1
      <3>5. Trace(prog[r], f, last, r, k, past[k], x, y)
        BY <1>1, <2>3, <3>1, <3>2, <3>4 DEF Replays, Deleted
      <3>6. last \in Nat /\ f \in Nat \ {0} /\ f <= last + 1
        BY <1>1, <3>3
      <3>7. x \in RowOrNone
        BY <1>1 DEF RowsTyped
      <3>8. db'[k] = y
        BY <2>1, <2>3 DEF View
      <3> HIDE DEF last, x, y
      <3>9. Climbs(x, y)
        BY <3>4, <3>5, <3>6, <3>7, TraceClimbs
      <3> QED BY <3>8, <3>9 DEF x
    <2> QED BY <2>2, <2>3
  <1>6. ASSUME Fail(r) PROVE Climbs(db[k], db'[k])
    BY <1>6 DEF Fail, Climbs
  <1> QED BY <1>4, <1>5, <1>6

\* The current step ends an operation of r that may have made the row of record k.
MadeBy(r, k) ==
  /\ Running(r) /\ prog[r] \in Programs
  /\ \E i \in 1 .. Len(prog[r]) :
       i <= ip[r] /\ i < ip'[r] /\ prog[r][i].do \in Makes /\ prog[r][i].on = k

\* A row that a commit adds is one that the request has made.
LEMMA EndMakes ==
  ASSUME HInv, NEW r \in Requests, (Apply(r) /\ ~InTx(r)) \/ Finish(r) \/ Fail(r),
         NEW k \in Records, db[k] = NoRow, ~MadeBy(r, k)
  PROVE  db'[k] = NoRow
  <1>1. /\ IInv /\ RowsTyped /\ Control(r) /\ Replays(r) /\ ip[r] \in Nat \ {0}
    BY DEF HInv, Request, Control
  <1>2. ASSUME Apply(r), ~InTx(r) PROVE db'[k] = NoRow
    <2> DEFINE y == Result(r)
    <2>1. PICK on : on = Now(r).on
      OBVIOUS
    <2>2. db' = [db EXCEPT ![on] = y] /\ DOMAIN db = Records /\ ip'[r] = ip[r] + 1
      BY <1>1, <1>2, <2>1 DEF Apply, Store, Advance, RowsTyped, IInv, Shape
    <2>3. /\ RowStep(Now(r), r, on, past[on], View(r, on), y) /\ Now(r).do \in Writes
          /\ Running(r) /\ prog[r] \in Programs /\ ip[r] \in 1 .. Len(prog[r])
      BY <1>2, <2>1, ResultStep
    <2> HIDE DEF y
    <2>4. CASE k # on
      BY <2>2, <2>4
    <2>5. CASE k = on
      <3>1. View(r, on) = NoRow /\ db'[k] = y
        BY <1>1, <1>2, <2>2, <2>5 DEF Control, View
      <3>2. Now(r).do \notin Makes
        <4>1. ip[r] <= ip[r] /\ ip[r] < ip'[r]
          BY <1>1, <2>2
        <4> QED BY <2>1, <2>3, <2>5, <4>1 DEF MadeBy, Now
      <3>3. ~ (NoRow.version > 0)
        BY DEF NoRow
      <3>4. y = NoRow
        BY <2>1, <2>3, <3>1, <3>2, <3>3 DEF RowStep, Makes, Writes
      <3> QED BY <3>1, <3>4
    <2> QED BY <2>4, <2>5
  <1>3. ASSUME Finish(r) PROVE db'[k] = NoRow
    <2>1. db'[k] = View(r, k) /\ Running(r) /\ ip' = ip
      BY <1>3 DEF Finish, Store, Running
    <2>2. CASE k \notin DOMAIN mine[r]
      BY <2>1, <2>2 DEF View
    <2>3. CASE k \in DOMAIN mine[r]
      <3>1. InTx(r) /\ prog[r] \in Programs /\ ip[r] <= Len(prog[r]) + 1
        BY <1>1, <2>1, <2>3 DEF Control
      <3>2. PICK f : Begins(r, f)
        BY <1>1, <3>1 DEF Control
      <3>3. f \in 1 .. ip[r] - 1 /\ Len(prog[r]) \in Nat
        BY <3>1, <3>2, ProgramAssumption DEF Begins
      <3> DEFINE last == ip[r] - 1
                 y == mine[r][k]
                 p == prog[r]
                 was == past[k]
      <3>4. \A i \in f .. last : ~ (p[i].do \in Makes /\ p[i].on = k)
        <4> SUFFICES ASSUME NEW i \in f .. last
                     PROVE  ~ (p[i].do \in Makes /\ p[i].on = k)
          OBVIOUS
        <4>1. i \in 1 .. Len(prog[r]) /\ i <= ip[r] /\ i < ip'[r]
          BY <1>1, <2>1, <3>1, <3>3
        <4> QED BY <2>1, <3>1, <4>1 DEF MadeBy
      <3>5. Trace(p, f, last, r, k, was, NoRow, y)
        BY <1>1, <2>3, <3>1, <3>2 DEF Replays
      <3>6. last \in Nat /\ f \in Nat \ {0} /\ f <= last + 1
        BY <1>1, <3>3
      <3>7. db'[k] = y
        BY <2>1, <2>3 DEF View
      <3> HIDE DEF last, y, p, was
      <3>8. y = NoRow
        BY <3>4, <3>5, <3>6, TraceMisses
      <3> QED BY <3>7, <3>8
    <2> QED BY <2>2, <2>3
  <1>4. ASSUME Fail(r) PROVE db'[k] = NoRow
    BY <1>4 DEF Fail
  <1> QED BY <1>2, <1>3, <1>4

\* Nobody makes the row of a record while another is in the scope for that.
LEMMA EndAbsent ==
  ASSUME HInv, NEW r \in Requests, (Apply(r) /\ ~InTx(r)) \/ Finish(r) \/ Fail(r),
         NEW u \in Requests \ {r}, NEW k \in Records, Unmade(u, k), Running(u), db[k] = NoRow
  PROVE  db'[k] = NoRow
  <1>1. IInv /\ Scoped /\ ip[r] \in Nat
    BY DEF HInv, Request, Control
  <1>2. PICK s : OnlyIn(s, Makes, k) /\ Within(u, s)
    BY DEF Unmade
  <1>3. ASSUME MadeBy(r, k) PROVE FALSE
    <2>1. PICK i \in 1 .. Len(prog[r]) : i <= ip[r] /\ prog[r][i].do \in Makes /\ prog[r][i].on = k
      BY <1>3 DEF MadeBy
    <2> QED BY <1>1, <1>2, <1>3, <2>1, OnlyOne DEF MadeBy
  <1> QED BY <1>3, EndMakes

-----------------------------------------------------------------------------
(* The invariant of the refinement                                           *)

\* Another request keeps what is known of it, as no row that it holds has changed.
LEMMA OthersStay ==
  ASSUME HInv, NEW r \in Requests, OthersWait(r),
         \A u \in Requests \ {r} : seen'[u] = seen[u] /\ (owner = u => owner' = u),
         \A k \in Records : past[k] \subseteq past'[k],
         \A k \in Records : db'[k] \in RowOrNone,
         \A u \in Requests \ {r}, k \in Records : Relies(u, k, Reads) => Climbs(db[k], db'[k]),
         \A u \in Requests \ {r}, k \in Records :
           Unmade(u, k) /\ Running(u) /\ db[k] = NoRow => db'[k] = NoRow,
         \A u \in Requests \ {r}, k \in Records : k \in DOMAIN mine[u] =>
           IF mine[u][k] # NoRow THEN db'[k] = db[k]
             ELSE owner = u /\ db[k] = NoRow => db'[k] = NoRow
  PROVE  \A u \in Requests \ {r} : Request(u)'
  <1> SUFFICES ASSUME NEW u \in Requests \ {r} PROVE Request(u)'
    OBVIOUS
  <1>1. /\ prog'[u] = prog[u] /\ ip'[u] = ip[u] /\ phase'[u] = phase[u]
        /\ mine'[u] = mine[u] /\ xact'[u] = xact[u] /\ seen'[u] = seen[u]
    BY DEF OthersWait
  <1>2. (Running(u)' <=> Running(u)) /\ (phase'[u] = "new" => phase[u] = "new")
    BY <1>1 DEF Running
  <1>3. RowsTyped /\ Request(u) /\ DOMAIN mine[u] \subseteq Records
    BY DEF HInv, RowsTyped
  <1>4. \A k \in DOMAIN mine[u] :
          IF mine[u][k] # NoRow THEN db'[k] = db[k]
            ELSE owner = u /\ db[k] = NoRow => db'[k] = NoRow
    BY <1>3
  <1> QED BY <1>1, <1>2, <1>3, <1>4, UnmovedKeeps

\* A step that leaves the rows alone.
QuietFor(r) ==
  /\ OthersWait(r) /\ UNCHANGED <<db, past>> /\ DOMAIN seen' = Requests
  /\ \A u \in Requests \ {r} : seen'[u] = seen[u] /\ (owner = u => owner' = u)

LEMMA QuietSteps ==
  ASSUME HInv, NEW r \in Requests,
         \/ Arrive(r) \/ EnterScope(r) \/ OpenScope(r) \/ LeaveScope(r) \/ Read(r)
         \/ EnsureFound(r) \/ TakeRecord(r) \/ LockOwner(r) \/ Select(r)
  PROVE  /\ QuietFor(r) /\ mine' = mine /\ (owner = r => owner' = r)
         /\ ~Select(r) => base' = base
         /\ ~Read(r) => seen' = seen
         /\ ~OpenScope(r) => xact' = xact
         /\ ~LockOwner(r) => owner' = owner
         /\ ~Arrive(r) => prog' = prog
  BY StoreAssumption
     DEF HInv, IInv, Shape, RowsTyped, QuietFor, OthersWait, Arrive, EnterScope, OpenScope,
         LeaveScope, Read, EnsureFound, TakeRecord, LockOwner, Select, Advance, OwnerFree

LEMMA QuietKeeps ==
  ASSUME HInv, NEW r \in Requests, QuietFor(r), mine' = mine, DOMAIN base' = Requests,
         base'[r] \in RowOrNone, DOMAIN seen'[r] \subseteq Records,
         base' = [u \in Requests |-> base'[u]],
         \A k \in DOMAIN seen'[r] : seen'[r][k] \in RowOrNone
  PROVE  RowsTyped' /\ \A u \in Requests \ {r} : Request(u)'
  <1>1. RowsTyped
    BY DEF HInv
  <1>2. RowsTyped'
    <2>1. \A u \in Requests : /\ base'[u] \in RowOrNone
                              /\ DOMAIN seen'[u] \subseteq Records
                              /\ \A k \in DOMAIN seen'[u] : seen'[u][k] \in RowOrNone
      BY <1>1 DEF RowsTyped, QuietFor, OthersWait
    <2>2. base' \in [Requests -> RowOrNone] /\ db' = db /\ past' = past /\ DOMAIN seen' = Requests
      BY <2>1 DEF QuietFor
    <2> QED BY <1>1, <2>1, <2>2 DEF RowsTyped
  <1>3. \A k \in Records :
          db'[k] \in RowOrNone /\ Climbs(db[k], db'[k]) /\ (db[k] = NoRow => db'[k] = NoRow)
    BY <1>1 DEF QuietFor, RowsTyped, Climbs
  <1>4. \A u \in Requests \ {r} : Request(u)'
    BY <1>3, OthersStay DEF QuietFor
  <1> QED BY <1>2, <1>4

\* A step inside an operation, from the arrival to the select.
LEMMA StillSteps ==
  ASSUME HInv, NEW r \in Requests,
         Arrive(r) \/ EnterScope(r) \/ TakeRecord(r) \/ LockOwner(r) \/ Select(r)
  PROVE  RowsTyped' /\ \A u \in Requests : Request(u)'
  <1>1. /\ QuietFor(r) /\ mine' = mine /\ seen' = seen /\ (owner = r => owner' = r)
        /\ xact' = xact /\ (~Select(r) => base' = base) /\ (~Arrive(r) => prog' = prog)
    BY QuietSteps DEF Arrive, EnterScope, TakeRecord, LockOwner, Select
  <1>2. RowsTyped /\ Request(r) /\ IInv
    BY DEF HInv
  <1>3. ASSUME Select(r)
        PROVE  base'[r] \in RowOrNone /\ base' = [u \in Requests |-> base'[u]]
    <2>1. base' = [base EXCEPT ![r] = View(r, Now(r).on)] /\ DOMAIN base = Requests
      BY <1>2, <1>3 DEF Select, IInv, Shape
    <2>2. Now(r).on \in Records
      <3>1. Running(r) /\ ~Ended(r) /\ Now(r).do \in Writes
        BY <1>3 DEF Select, Doing, Running
      <3>2. prog[r] \in Programs /\ ip[r] \in Nat \ {0}
        BY <1>2, <3>1 DEF Request, Control
      <3>3. ip[r] \in 1 .. Len(prog[r])
        BY <3>1, <3>2, ProgramAssumption DEF Ended
      <3> QED BY <3>1, <3>2, <3>3, OpFacts DEF Now
    <2>3. View(r, Now(r).on) \in RowOrNone
      BY <1>2, <2>2 DEF View, RowsTyped
    <2> QED BY <2>1, <2>3
  <1>4. base'[r] \in RowOrNone /\ base' = [u \in Requests |-> base'[u]] /\ DOMAIN base' = Requests
    BY <1>1, <1>2, <1>3 DEF RowsTyped
  <1>5. DOMAIN seen'[r] \subseteq Records /\ \A k \in DOMAIN seen'[r] : seen'[r][k] \in RowOrNone
    BY <1>1, <1>2 DEF RowsTyped
  <1>6. RowsTyped' /\ \A u \in Requests \ {r} : Request(u)'
    BY <1>1, <1>4, <1>5, QuietKeeps
  <1>7. ASSUME EnterScope(r) \/ TakeRecord(r) \/ LockOwner(r) \/ Select(r) PROVE Request(r)'
    <2>1. /\ ip' = ip /\ prog' = prog /\ phase[r] \in {"next", "locked", "owned"}
          /\ phase'[r] \in {"locked", "owned", "selected"}
      BY <1>2, <1>7 DEF EnterScope, TakeRecord, LockOwner, Select, Doing, IInv, Shape
    <2>2. Running(r) /\ Running(r)' /\ phase'[r] # "new"
      BY <2>1 DEF Running
    <2>3. /\ db' = db /\ past' = past
      BY <1>1 DEF QuietFor
    <2>4. \A k \in Records :
            db'[k] \in RowOrNone /\ Climbs(db[k], db'[k]) /\ (db[k] = NoRow => db'[k] = NoRow)
      BY <1>2, <2>3 DEF RowsTyped, Climbs
    <2> QED BY <1>1, <1>2, <2>1, <2>2, <2>3, <2>4, UnmovedKeeps
  <1>8. ASSUME Arrive(r) PROVE Request(r)'
    <2>1. /\ ip' = ip /\ phase[r] = "new" /\ phase'[r] = "next" /\ prog'[r] \in Programs
      BY <1>2, <1>8 DEF Arrive, IInv, Shape
    <2>2. ip[r] = 1 /\ ~InTx(r) /\ DOMAIN mine[r] = {}
      BY <1>2, <2>1 DEF Request, Control, Running
    <2>3. ~InTx(r)' /\ DOMAIN mine'[r] = {} /\ Running(r)' /\ phase'[r] # "new"
      BY <1>1, <2>1, <2>2 DEF InTx, Running
    <2>4. Len(prog'[r]) \in Nat
      BY <2>1, ProgramAssumption
    <2>5. \A i \in 1 .. ip'[r] - 1 : FALSE
      BY <2>1, <2>2
    <2>6. Control(r)'
      BY <2>1, <2>2, <2>3, <2>4, <2>5 DEF Control
    <2>7. Replays(r)' /\ Unwritten(r)'
      BY <2>3 DEF Replays, Unwritten
    <2>8. SeenKnown(r)'
      <3>1. \A k : ~Wrote(r, k)
        BY <2>2 DEF Wrote
      <3> QED BY <1>1, <1>2, <3>1 DEF Request, SeenKnown, QuietFor
    <2>9. Current(r)'
      BY <2>5 DEF Current, Relies
    <2> QED BY <2>6, <2>7, <2>8, <2>9 DEF Request
  <1> QED BY <1>6, <1>7, <1>8

\* An operation that writes nothing is over.
LEMMA MoveSteps ==
  ASSUME HInv, NEW r \in Requests, OpenScope(r) \/ LeaveScope(r) \/ Read(r) \/ EnsureFound(r)
  PROVE  RowsTyped' /\ \A u \in Requests : Request(u)'
  <1>1. /\ QuietFor(r) /\ mine' = mine /\ owner' = owner /\ base' = base /\ prog' = prog
        /\ (~Read(r) => seen' = seen) /\ (~OpenScope(r) => xact' = xact)
    BY QuietSteps DEF OpenScope, LeaveScope, Read, EnsureFound
  <1>2. RowsTyped /\ Request(r) /\ IInv
    BY DEF HInv
  <1>3. /\ phase[r] \in {"next", "locked"} /\ ~Ended(r) /\ phase'[r] = "next" /\ ip'[r] = ip[r] + 1
        /\ db' = db /\ past' = past
    BY <1>1, <1>2
       DEF OpenScope, LeaveScope, Read, EnsureFound, Doing, Advance, IInv, Shape, QuietFor
  <1>4. Moves(r)
    BY <1>1, <1>3 DEF Moves, Running
  <1>5. ASSUME Read(r)
        PROVE  /\ DOMAIN seen'[r] = DOMAIN seen[r] \cup {Now(r).on} /\ Now(r).on \in Records
               /\ \A k \in DOMAIN seen'[r] :
                    seen'[r][k] = IF k = Now(r).on THEN View(r, k) ELSE seen[r][k]
    <2>1. seen' = [seen EXCEPT ![r] = [k \in DOMAIN seen[r] \cup {Now(r).on} |->
                                         IF k = Now(r).on THEN View(r, k) ELSE seen[r][k]]]
      BY <1>5 DEF Read
    <2>2. Now(r).do \in Reads
      BY <1>5 DEF Read, Doing
    <2>3. Now(r).on \in Records
      <3>1. Running(r)
        BY <1>4 DEF Moves
      <3>2. prog[r] \in Programs /\ ip[r] \in Nat \ {0}
        BY <1>2, <3>1 DEF Request, Control
      <3>3. ip[r] \in 1 .. Len(prog[r])
        BY <1>3, <3>2, ProgramAssumption DEF Ended
      <3> QED BY <2>2, <3>2, <3>3, OpFacts DEF Now
    <2> QED BY <1>2, <2>1, <2>3 DEF RowsTyped
  <1>6. /\ \A k \in DOMAIN seen'[r] :
             \/ k \in Records /\ seen'[r][k] = View(r, k)
             \/ /\ k \in DOMAIN seen[r] /\ seen'[r][k] = seen[r][k]
                /\ ~ (Now(r).do \in Reads /\ Now(r).on = k)
        /\ DOMAIN seen[r] \subseteq DOMAIN seen'[r]
        /\ Now(r).do \in Reads => Now(r).on \in DOMAIN seen'[r]
        /\ \A k \in Records : View(r, k) \in RowOrNone
    <2>1. Now(r).do \in Reads => Read(r)
      BY DEF OpenScope, LeaveScope, EnsureFound, Doing, Reads
    <2>2. CASE Read(r)
      BY <1>2, <1>5, <2>2 DEF RowsTyped, View
    <2>3. CASE ~Read(r)
      BY <1>1, <1>2, <2>1, <2>3 DEF RowsTyped, View
    <2> QED BY <2>2, <2>3
  <1>7. RowsTyped' /\ \A u \in Requests \ {r} : Request(u)'
    <2>1. DOMAIN seen'[r] \subseteq Records /\ \A k \in DOMAIN seen'[r] : seen'[r][k] \in RowOrNone
      BY <1>2, <1>6 DEF RowsTyped
    <2>2. base'[r] \in RowOrNone /\ base' = [u \in Requests |-> base'[u]] /\ DOMAIN base' = Requests
      BY <1>1, <1>2 DEF RowsTyped
    <2> QED BY <1>1, <2>1, <2>2, QuietKeeps
  <1>8. ASSUME LeaveScope(r) \/ Read(r) \/ EnsureFound(r) PROVE Request(r)'
    <2>1. Skips(r) /\ (Now(r).do = "require" => View(r, Now(r).on) # NoRow)
      BY <1>8 DEF LeaveScope, Read, EnsureFound, Doing, Reads, Writes, Skips
    <2>2. Now(r).do # "enter"
      BY <1>8 DEF LeaveScope, Read, EnsureFound, Doing, Reads
    <2>3. xact' = xact
      BY <1>8 DEF LeaveScope, Read, EnsureFound
    <2>4. InTx(r)' <=> InTx(r)
      BY <2>3 DEF InTx
    <2> QED BY <1>1, <1>2, <1>3, <1>4, <1>6, <2>1, <2>2, <2>4, SkipKeeps
  <1>9. ASSUME OpenScope(r) PROVE Request(r)'
    <2>1. Now(r).do = "enter" /\ seen' = seen
      BY <1>9 DEF OpenScope, Doing
    <2>2. xact'[r] = xact[r] \cup {Now(r).on}
      BY <1>2, <1>9 DEF OpenScope, IInv, Shape
    <2>3. InTx(r)'
      BY <2>2 DEF InTx
    <2>4. CASE InTx(r)
      <3>1. Skips(r)
        BY <2>1 DEF Skips, Writes
      <3> QED BY <1>1, <1>2, <1>3, <1>4, <1>6, <2>1, <2>3, <2>4, <3>1, SkipKeeps
    <2>5. CASE ~InTx(r)
      BY <1>1, <1>2, <1>3, <1>4, <2>1, <2>3, <2>5, FirstScopeKeeps
    <2> QED BY <2>4, <2>5
  <1> QED BY <1>7, <1>8, <1>9

\* A statement inside a transaction.
LEMMA ApplyInTxStep ==
  ASSUME HInv, NEW r \in Requests, Apply(r), InTx(r), ~Misses(r)
  PROVE  RowsTyped' /\ \A u \in Requests : Request(u)'
  <1> DEFINE y == Result(r)
  <1>0. PICK on : on = Now(r).on
    OBVIOUS
  <1>1. y \in RowOrNone /\ on \in Records
    BY <1>0, ResultStep
  <1>2. RowsTyped /\ IInv
    BY DEF HInv
  <1>3. /\ mine' = [mine EXCEPT ![r] = [k \in DOMAIN mine[r] \cup {on} |->
                                          IF k = on THEN y ELSE mine[r][k]]]
        /\ UNCHANGED <<db, past, base, seen>>
        /\ OthersWait(r) /\ \A u \in Requests \ {r} : owner = u => owner' = u
    BY <1>0, <1>2, StoreAssumption DEF Apply, Advance, IInv, Shape, OthersWait, OwnerFree
  <1> HIDE DEF y
  <1>4. /\ DOMAIN mine'[r] = DOMAIN mine[r] \cup {on} /\ mine'[r][on] = y
        /\ \A k \in DOMAIN mine[r] \ {on} : mine'[r][k] = mine[r][k]
        /\ \A u \in Requests \ {r} : mine'[u] = mine[u]
    BY <1>2, <1>3 DEF IInv, Shape
  <1>5. RowsTyped'
    <2>1. \A u \in Requests : DOMAIN mine'[u] \subseteq Records
                              /\ \A k \in DOMAIN mine'[u] : mine'[u][k] \in RowOrNone
      BY <1>1, <1>2, <1>4 DEF RowsTyped
    <2> QED BY <1>2, <1>3, <2>1 DEF RowsTyped
  <1>6. \A k \in Records :
          db'[k] \in RowOrNone /\ Climbs(db[k], db'[k]) /\ (db[k] = NoRow => db'[k] = NoRow)
    BY <1>2, <1>3 DEF RowsTyped, Climbs
  <1>7. \A u \in Requests \ {r} : Request(u)'
    BY <1>3, <1>6, OthersStay
  <1> QED BY <1>5, <1>7, ApplyInTxKeeps

\* A delete in a transaction that finds no row.
LEMMA MissStep ==
  ASSUME HInv, NEW r \in Requests, Apply(r), InTx(r), Misses(r)
  PROVE  RowsTyped' /\ \A u \in Requests : Request(u)'
  <1>1. RowsTyped /\ IInv /\ Request(r) /\ Running(r) /\ ~Ended(r) /\ Now(r).do = "delete"
    BY ResultStep DEF HInv, Misses
  <1>2. /\ UNCHANGED <<mine, db, past, base, seen, prog, xact>> /\ (owner = r => owner' = r)
        /\ ip'[r] = ip[r] + 1 /\ phase'[r] = "next"
        /\ OthersWait(r) /\ \A u \in Requests \ {r} : owner = u => owner' = u
    BY <1>1, StoreAssumption DEF Apply, Advance, IInv, Shape, OthersWait, OwnerFree
  <1>3. Moves(r) /\ (InTx(r)' <=> InTx(r))
    BY <1>1, <1>2 DEF Moves, Running, InTx
  <1>4. RowsTyped' /\ \A u \in Requests \ {r} : Request(u)'
    <2>1. QuietFor(r)
      BY <1>1, <1>2 DEF QuietFor, RowsTyped
    <2>2. /\ DOMAIN base' = Requests /\ base'[r] \in RowOrNone
          /\ base' = [u \in Requests |-> base'[u]]
          /\ DOMAIN seen'[r] \subseteq Records
          /\ \A k \in DOMAIN seen'[r] : seen'[r][k] \in RowOrNone
      BY <1>1, <1>2 DEF RowsTyped
    <2> QED BY <1>2, <2>1, <2>2, QuietKeeps
  <1>5. Request(r)'
    <2>1. Now(r).do \notin Reads /\ Now(r).do # "enter" /\ Now(r).do # "require"
      BY <1>1 DEF Reads
    <2>2. Skips(r)
      BY MissFacts
    <2>3. /\ DOMAIN seen[r] \subseteq DOMAIN seen'[r]
          /\ \A k \in DOMAIN seen'[r] : k \in DOMAIN seen[r] /\ seen'[r][k] = seen[r][k]
      BY <1>2
    <2> QED BY <1>1, <1>2, <1>3, <2>1, <2>2, <2>3, SkipKeeps
  <1> QED BY <1>4, <1>5

\* What a commit does to the table.
LEMMA EndRows ==
  ASSUME HInv, NEW r \in Requests, (Apply(r) /\ ~InTx(r)) \/ Finish(r) \/ Fail(r)
  PROVE  /\ db' \in [Records -> RowOrNone]
         /\ past' = [k \in Records |-> past[k] \cup ({db'[k]} \ {NoRow})]
  <1>1. RowsTyped
    BY DEF HInv
  <1>2. ASSUME Apply(r), ~InTx(r)
        PROVE  /\ db' \in [Records -> RowOrNone]
               /\ past' = [k \in Records |-> past[k] \cup ({db'[k]} \ {NoRow})]
    <2> DEFINE y == Result(r)
    <2>1. y \in RowOrNone
      BY <1>2, ResultStep
    <2>2. /\ db' = [db EXCEPT ![Now(r).on] = y]
          /\ past' = [k \in Records |-> past[k] \cup ({db'[k]} \ {NoRow})]
      BY <1>2 DEF Apply, Store
    <2> HIDE DEF y
    <2> QED BY <1>1, <2>1, <2>2 DEF RowsTyped
  <1>3. ASSUME Finish(r)
        PROVE  /\ db' \in [Records -> RowOrNone]
               /\ past' = [k \in Records |-> past[k] \cup ({db'[k]} \ {NoRow})]
    BY <1>1, <1>3 DEF Finish, Store, View, RowsTyped
  <1>4. ASSUME Fail(r)
        PROVE  /\ db' \in [Records -> RowOrNone]
               /\ past' = [k \in Records |-> past[k] \cup ({db'[k]} \ {NoRow})]
    <2>1. db' = db /\ past' = past
      BY <1>4 DEF Fail
    <2>2. \A k \in Records : past[k] = past[k] \cup ({db[k]} \ {NoRow})
      BY <1>1 DEF RowsTyped
    <2>3. past' = [k \in Records |-> past[k] \cup ({db'[k]} \ {NoRow})]
      BY <1>1, <2>1, <2>2 DEF RowsTyped
    <2> QED BY <1>1, <2>1, <2>3 DEF RowsTyped
  <1> QED BY <1>2, <1>3, <1>4

\* A commit or a failure.
LEMMA EndStep ==
  ASSUME HInv, NEW r \in Requests, (Apply(r) /\ ~InTx(r)) \/ Finish(r) \/ Fail(r)
  PROVE  RowsTyped' /\ \A u \in Requests : Request(u)'
  <1>1. RowsTyped /\ IInv
    BY DEF HInv
  <1>2. /\ db' \in [Records -> RowOrNone]
        /\ past' = [k \in Records |-> past[k] \cup ({db'[k]} \ {NoRow})]
    BY EndRows
  <1>3. /\ mine' = [mine EXCEPT ![r] = << >>] /\ UNCHANGED <<base, seen, prog>>
        /\ owner' = IF owner = r THEN None ELSE owner
        /\ OthersWait(r) /\ DOMAIN mine = Requests
    BY <1>1 DEF Apply, Finish, Fail, EndTx, Advance, IInv, Shape, OthersWait
  <1>4. /\ DOMAIN mine'[r] = {} /\ \A u \in Requests \ {r} : mine'[u] = mine[u]
    BY <1>3
  <1>5. RowsTyped'
    <2>1. past' \in [Records -> SUBSET Rows]
      BY <1>1, <1>2 DEF RowsTyped, RowOrNone
    <2>2. \A k \in Records : db'[k] \in past'[k] \cup {NoRow}
      BY <1>2
    <2>3. \A u \in Requests : DOMAIN mine'[u] \subseteq Records
                              /\ \A k \in DOMAIN mine'[u] : mine'[u][k] \in RowOrNone
      BY <1>1, <1>4 DEF RowsTyped
    <2> QED BY <1>1, <1>2, <1>3, <2>1, <2>2, <2>3 DEF RowsTyped
  <1>6. \A u \in Requests \ {r}, k \in Records : k \in DOMAIN mine[u] =>
          IF mine[u][k] # NoRow THEN db'[k] = db[k]
            ELSE owner = u /\ db[k] = NoRow => db'[k] = NoRow
    BY EndSparesMine
  <1>7. \A u \in Requests \ {r}, k \in Records :
          /\ Relies(u, k, Reads) => Climbs(db[k], db'[k])
          /\ Unmade(u, k) /\ Running(u) /\ db[k] = NoRow => db'[k] = NoRow
    BY EndClimbs, EndAbsent
  <1>8. \A u \in Requests \ {r} : Request(u)'
    <2>1. \A k \in Records : past[k] \subseteq past'[k]
      BY <1>2
    <2>2. \A u \in Requests \ {r} : seen'[u] = seen[u] /\ (owner = u => owner' = u)
      BY <1>3
    <2>3. \A k \in Records : db'[k] \in RowOrNone
      BY <1>2
    <2> QED BY <1>3, <1>6, <1>7, <2>1, <2>2, <2>3, OthersStay
  <1> QED BY <1>5, <1>8, EndKeeps

LEMMA InitHInv == Init => HInv
  <1> SUFFICES ASSUME Init PROVE HInv
    OBVIOUS
  <1>1. /\ \A r \in Requests :
             /\ ip[r] = 1 /\ phase[r] = "new" /\ xact[r] = {} /\ base[r] = NoRow
             /\ mine[r] = << >> /\ seen[r] = << >>
        /\ DOMAIN seen = Requests /\ base \in [Requests -> {NoRow}]
    BY DEF Init
  <1>2. \A r \in Requests : DOMAIN mine[r] = {} /\ DOMAIN seen[r] = {}
    BY <1>1
  <1>3. /\ \A k \in Records : db[k] \in {NoRow, [version |-> 1, marks |-> {}]}
        /\ \A k \in Records : past[k] = {db[k]} \ {NoRow}
        /\ DOMAIN db = Records /\ DOMAIN past = Records
        /\ db = [k \in Records |-> db[k]] /\ past = [k \in Records |-> past[k]]
    BY DEF Init
  <1>4. RowsTyped
    <2>1. NoRow \in RowOrNone /\ [version |-> 1, marks |-> {}] \in RowOrNone
      BY DEF RowOrNone, Rows
    <2>2. db \in [Records -> RowOrNone]
      BY <1>3, <2>1
    <2>3. past \in [Records -> SUBSET Rows]
      <3>1. \A k \in Records : past[k] \subseteq Rows
        BY <1>3, <2>2 DEF RowOrNone
      <3> QED BY <1>3, <3>1
    <2>4. base \in [Requests -> RowOrNone]
      BY <1>1, <2>1
    <2> QED BY <1>1, <1>2, <1>3, <2>2, <2>3, <2>4 DEF RowsTyped
  <1>5. Scoped
    <2>1. /\ deploy \in Deployments /\ DOMAIN scopes = Requests
          /\ \A r \in Requests : scopes[r] = {} /\ phase[r] = "new"
      BY DEF Init
    <2> QED BY <2>1 DEF Scoped, InScopes, Running
  <1>6. ASSUME NEW r \in Requests PROVE Request(r)
    <2>1. ~InTx(r) /\ ~Running(r)
      BY <1>1 DEF InTx, Running
    <2> QED BY <1>1, <1>2, <2>1
            DEF Request, Control, Replays, Unwritten, SeenKnown, Current, Relies
  <1> QED BY <1>4, <1>5, <1>6, InitIInv DEF HInv

LEMMA NextHInv == HInv /\ [Next]_vars => HInv'
  <1> SUFFICES ASSUME HInv, [Next]_vars PROVE HInv'
    OBVIOUS
  <1>1. IInv'
    BY NextIInv DEF HInv
  <1>2. ASSUME NEW r \in Requests, Arrive(r) \/ Step(r)
        PROVE  RowsTyped' /\ \A u \in Requests : Request(u)'
    BY <1>2, StillSteps, MoveSteps, ApplyInTxStep, MissStep, EndStep DEF Step
  <1>3. ASSUME Fence \/ UNCHANGED vars
        PROVE  RowsTyped' /\ \A u \in Requests : Request(u)'
    <2>1. UNCHANGED <<db, past, prog, ip, phase, base, seen, mine, xact, owner>>
      BY <1>3 DEF Fence, vars, calls
    <2>2. RowsTyped'
      BY <2>1 DEF HInv, RowsTyped
    <2>3. ASSUME NEW u \in Requests PROVE Request(u)'
      <3>1. Running(u)' <=> Running(u)
        BY <2>1 DEF Running
      <3>2. Request(u) /\ RowsTyped
        BY DEF HInv
      <3>3. \A k \in Records :
              db'[k] \in RowOrNone /\ Climbs(db[k], db'[k]) /\ (db[k] = NoRow => db'[k] = NoRow)
        BY <2>1, <3>2 DEF RowsTyped, Climbs
      <3> QED BY <2>1, <3>1, <3>2, <3>3, UnmovedKeeps
    <2> QED BY <2>2, <2>3
  <1>4. ASSUME Fence \/ UNCHANGED vars PROVE Scoped'
    <2>1. UNCHANGED <<deploy, prog, ip, phase, scopes, xact>>
      BY <1>4 DEF Fence, vars, calls
    <2>2. Scoped
      BY DEF HInv
    <2> QED BY <2>1, <2>2 DEF Scoped, InScopes, Within, Running, Ended, Now, Together
  <1> QED BY <1>1, <1>2, <1>3, <1>4, ScopedSteps DEF Next, HInv

-----------------------------------------------------------------------------
(* The refinement                                                            *)

\* Before its first scope, each operation of a request is a transaction of its own.
LEMMA ApplyCommits ==
  ASSUME HInv, NEW r \in Requests, Apply(r), ~InTx(r)
  PROVE  Abstract!Next
  <1> DEFINE p == prog[r]
             i == ip[r]
             y == Result(r)
  <1>0. PICK on : on = Now(r).on
    OBVIOUS
  <1>1. /\ RowStep(Now(r), r, on, past[on], View(r, on), y)
        /\ on \in Records /\ Now(r).do \in Writes
        /\ Running(r) /\ p \in Programs /\ i \in 1 .. Len(p)
    BY <1>0, ResultStep
  <1>2. /\ RowsTyped /\ DOMAIN mine[r] = {} /\ i \in Nat \ {0} /\ Now(r) = p[i]
        /\ \A j \in 1 .. i - 1 : p[j].do # "enter"
    BY <1>1 DEF HInv, Request, Control, Now
  <1>3. /\ db' = [db EXCEPT ![on] = y]
        /\ past' = [k \in Records |-> past[k] \cup ({db'[k]} \ {NoRow})]
    BY <1>0 DEF Apply, Store
  <1>4. View(r, on) = db[on]
    BY <1>2 DEF View
  <1> HIDE DEF p, i, y
  <1>5. ASSUME NEW k \in Records PROVE Trace(p, i, i, r, k, past[k], db[k], db'[k])
    <2> DEFINE z == db'[k]
    <2>1. RowStep(p[i], r, k, past[k], db[k], z)
      <3>1. CASE k = on
        BY <1>1, <1>2, <1>3, <1>4, <3>1 DEF RowsTyped
      <3>2. CASE k # on
        <4>1. z = db[k]
          BY <1>2, <1>3, <3>2 DEF RowsTyped
        <4> QED BY <1>0, <1>2, <3>2, <4>1 DEF RowStep
      <3> QED BY <3>1, <3>2
    <2> HIDE DEF z
    <2> DEFINE last == i - 1
    <2>2. last \in Nat /\ last + 1 = i /\ i <= last + 1 /\ \A j \in i .. last : FALSE
      BY <1>2
    <2> HIDE DEF last
    <2>3. Trace(p, i, last, r, k, past[k], db[k], db[k])
      BY <1>2, <2>2, TraceIdles
    <2>4. RowStep(p[last + 1], r, k, past[k], db[k], z)
      BY <2>1, <2>2
    <2>5. Trace(p, i, last + 1, r, k, past[k], db[k], z)
      BY <1>2, <2>2, <2>3, <2>4, TraceExtends
    <2> QED BY <2>2, <2>5 DEF z
  <1>6. db' \in Abstract!Outcomes(p, i, i, r)
    <2> DEFINE t == db'
    <2>1. db = [k \in Records |-> db[k]] /\ t = [k \in Records |-> t[k]]
      BY <1>2, <1>3 DEF RowsTyped
    <2>2. \A k \in Records : Trace(p, i, i, r, k, past[k], db[k], t[k])
      BY <1>5
    <2>3. \A j \in i .. i : p[j].do \in Writes => p[j].on \in Records
      BY <1>0, <1>1, <1>2
    <2> HIDE DEF t
    <2>4. t \in Abstract!Outcomes(p, i, i, r)
      BY <1>2, <2>1, <2>2, <2>3, TracesMakeOutcome
    <2> QED BY <2>4 DEF t
  <1>7. Abstract!Commit(r, p, i, i)
    BY <1>3, <1>6 DEF Abstract!Commit, Abstract!NoRow, NoRow
  <1>8. <<i, i>> \in Abstract!Transactions(p)
    <2>1. i \in DOMAIN p
      BY <1>1, ProgramAssumption
    <2>2. i \in Abstract!Starts(p) /\ p[i].do # "enter"
      BY <1>1, <1>2, <2>1 DEF Abstract!Starts, Writes
    <2> QED BY <2>2 DEF Abstract!Transactions
  <1> QED BY <1>1, <1>7, <1>8 DEF Abstract!Next

\* The transaction of a request takes effect when it commits.
LEMMA FinishCommits ==
  ASSUME HInv, NEW r \in Requests, Finish(r), DOMAIN mine[r] # {}
  PROVE  Abstract!Next
  <1> DEFINE p == prog[r]
             last == Len(p)
  <1>1. /\ RowsTyped /\ Control(r) /\ Replays(r) /\ Unwritten(r) /\ InTx(r)
        /\ phase[r] = "next" /\ Ended(r)
    BY DEF HInv, Request, Control, Finish
  <1>2. p \in Programs /\ ip[r] \in Nat /\ last \in Nat /\ ip[r] - 1 = last
    <2>1. Running(r)
      BY <1>1 DEF Running
    <2>2. p \in Programs /\ ip[r] \in Nat /\ ip[r] <= last + 1
      BY <1>1, <2>1 DEF Control
    <2>3. last \in Nat
      BY <2>2, ProgramAssumption
    <2> QED BY <1>1, <2>2, <2>3 DEF Ended
  <1>3. PICK f : Begins(r, f)
    BY <1>1 DEF Control
  <1>4. /\ f \in 1 .. last /\ f \in Nat \ {0} /\ f <= last + 1 /\ p[f].do = "enter"
        /\ \A j \in 1 .. f - 1 : p[j].do # "enter"
    BY <1>2, <1>3 DEF Begins
  <1>5. /\ db' = [k \in Records |-> View(r, k)]
        /\ past' = [k \in Records |-> past[k] \cup ({db'[k]} \ {NoRow})]
    BY DEF Finish, Store
  <1> HIDE DEF p, last
  <1>6. ASSUME NEW k \in Records PROVE Trace(p, f, last, r, k, past[k], db[k], View(r, k))
    <2>1. CASE k \in DOMAIN mine[r]
      <3>1. \/ \A x : Trace(p, f, last, r, k, past[k], x, mine[r][k])
            \/ Trace(p, f, last, r, k, past[k], db[k], mine[r][k])
        BY <1>1, <1>2, <1>3, <2>1 DEF Replays, p
      <3> QED BY <2>1, <3>1 DEF View
    <2>2. CASE k \notin DOMAIN mine[r]
      <3>1. ASSUME NEW i \in f .. last, WriteAt(r, i, k)
            PROVE  p[i].do = "delete" /\ db[k] = NoRow
        <4>1. ASSUME i = ip[r] - 1, p[i].do = "ensure" PROVE FALSE
          <5>1. i \in 1 .. Len(p) /\ i = last
            BY <1>2, <1>4, <4>1 DEF last
          <5>2. f \in 1 .. i - 1
            BY <1>2, <1>4, <4>1, <5>1
          <5>3. i < Len(p)
            BY <1>2, <1>4, <4>1, <5>1, <5>2, EnsureMutates
          <5> QED BY <5>1, <5>3 DEF last
        <4>2. ~Alone(p, i)
          <5>1. PICK m \in DOMAIN mine[r] : TRUE
            OBVIOUS
          <5>2. PICK j \in 1 .. ip[r] - 1 : WriteAt(r, j, m)
            BY <1>1, <5>1 DEF Control, Wrote
          <5>3. j \in DOMAIN p
            BY <1>2, <5>2, ProgramAssumption DEF last
          <5>4. j # i /\ p[j].do \in Writes
            BY <2>2, <3>1, <5>1, <5>2 DEF WriteAt, p
          <5> QED BY <5>3, <5>4 DEF Alone
        <4>3. \/ i = ip[r] - 1 /\ p[i].do = "ensure"
              \/ p[i].do = "delete" /\ (Alone(p, i) \/ db[k] = NoRow)
          BY <1>1, <1>2, <1>3, <2>2, <3>1 DEF Unwritten, p
        <4> QED BY <4>1, <4>2, <4>3
      <3>2. \A i \in f .. last : RowStep(p[i], r, k, past[k], db[k], db[k])
        <4> SUFFICES ASSUME NEW i \in f .. last PROVE RowStep(p[i], r, k, past[k], db[k], db[k])
          OBVIOUS
        <4>1. CASE WriteAt(r, i, k)
          <5>1. p[i].do = "delete" /\ db[k] = NoRow
            BY <3>1, <4>1
          <5> QED BY <5>1 DEF RowStep
        <4>2. CASE ~WriteAt(r, i, k)
          BY <4>2 DEF RowStep, WriteAt, p
        <4> QED BY <4>1, <4>2
      <3>3. View(r, k) = db[k]
        BY <2>2 DEF View
      <3> QED BY <1>2, <1>4, <3>2, <3>3, TraceIdles
    <2> QED BY <2>1, <2>2
  <1>7. db' \in Abstract!Outcomes(p, f, last, r)
    <2> DEFINE t == db'
    <2>1. db = [k \in Records |-> db[k]] /\ t = [k \in Records |-> t[k]]
      BY <1>1, <1>5 DEF RowsTyped
    <2>2. \A k \in Records : Trace(p, f, last, r, k, past[k], db[k], t[k])
      BY <1>5, <1>6
    <2>3. \A j \in f .. last : p[j].do \in Writes => p[j].on \in Records
      <3> SUFFICES ASSUME NEW j \in f .. last PROVE p[j].do \in Writes => p[j].on \in Records
        OBVIOUS
      <3>1. j \in 1 .. Len(p)
        BY <1>2, <1>4 DEF last
      <3> QED BY <1>2, <3>1, OpFacts
    <2> HIDE DEF t
    <2>4. t \in Abstract!Outcomes(p, f, last, r)
      BY <1>2, <1>4, <2>1, <2>2, <2>3, TracesMakeOutcome
    <2> QED BY <2>4 DEF t
  <1>8. Abstract!Commit(r, p, f, last)
    BY <1>5, <1>7 DEF Abstract!Commit, Abstract!NoRow, NoRow
  <1>9. <<f, last>> \in Abstract!Transactions(p)
    <2>1. f \in DOMAIN p
      BY <1>2, <1>4, ProgramAssumption DEF last
    <2>2. f \in Abstract!Starts(p)
      BY <1>4, <2>1 DEF Abstract!Starts
    <2> QED BY <1>4, <2>2 DEF Abstract!Transactions, last
  <1> QED BY <1>2, <1>8, <1>9 DEF Abstract!Next

LEMMA StepRefines == HInv /\ [Next]_vars => [Abstract!Next]_<<db, past>>
  <1> SUFFICES ASSUME HInv, [Next]_vars PROVE Abstract!Next \/ (db' = db /\ past' = past)
    OBVIOUS
  <1>1. ASSUME NEW r \in Requests, Finish(r), DOMAIN mine[r] = {}
        PROVE  db' = db /\ past' = past
    <2>1. /\ RowsTyped /\ DOMAIN mine[r] = {}
      BY <1>1 DEF HInv
    <2>2. /\ db' = [k \in Records |-> View(r, k)]
          /\ past' = [k \in Records |-> past[k] \cup ({db'[k]} \ {NoRow})]
      BY <1>1 DEF Finish, Store
    <2>3. \A k \in Records : View(r, k) = db[k]
      BY <2>1 DEF View
    <2>4. db' = db
      BY <2>1, <2>2, <2>3 DEF RowsTyped
    <2>5. \A k \in Records : past[k] \cup ({db[k]} \ {NoRow}) = past[k]
      BY <2>1 DEF RowsTyped
    <2> QED BY <2>1, <2>2, <2>4, <2>5 DEF RowsTyped
  <1>2. ASSUME NEW r \in Requests, Apply(r), InTx(r) PROVE db' = db /\ past' = past
    BY <1>2 DEF Apply
  <1>3. ASSUME NEW r \in Requests, Fail(r) PROVE db' = db /\ past' = past
    BY <1>3 DEF Fail
  <1>4. ASSUME NEW r \in Requests,
               \/ Arrive(r) \/ EnterScope(r) \/ OpenScope(r) \/ LeaveScope(r) \/ Read(r)
               \/ EnsureFound(r) \/ TakeRecord(r) \/ LockOwner(r) \/ Select(r)
        PROVE  db' = db /\ past' = past
    BY <1>4, QuietSteps DEF QuietFor
  <1>5. ASSUME Fence \/ UNCHANGED vars PROVE db' = db /\ past' = past
    BY <1>5 DEF Fence, vars
  <1> QED BY <1>1, <1>2, <1>3, <1>4, <1>5, ApplyCommits, FinishCommits DEF Next, Step

LEMMA InitRefines == Init => Abstract!Init
  <1> SUFFICES ASSUME Init PROVE Abstract!Init
    OBVIOUS
  <1>1. /\ db = [k \in Records |-> IF k \in Stored THEN [version |-> 1, marks |-> {}] ELSE NoRow]
        /\ past = [k \in Records |-> {db[k]} \ {NoRow}]
    BY DEF Init
  <1> QED BY <1>1 DEF Abstract!Init, Abstract!NoRow, NoRow

\* A transaction of the store takes effect all at once, on the rows as they are when
\* it commits: no update is lost and nothing half done is seen or overwritten.
THEOREM TransactionsAreAtomic == Spec => Atomic
  <1>1. Spec => []HInv
    BY InitHInv, NextHInv, PTL DEF Spec
  <1>2. Spec => Abstract!Init /\ [][Abstract!Next]_<<db, past>>
    BY <1>1, InitRefines, StepRefines, PTL DEF Spec
  <1> QED BY <1>2 DEF Atomic, Abstract!Spec
-----------------------------------------------------------------------------
(* Quotas                                                                    *)

Listed == {k \in Counted : db[k] # NoRow /\ ~PutBackOnce(k)}

\* r has counted, to create one.
Counting(r, s) ==
  /\ Running(r)
  /\ \E i \in DOMAIN prog[r] : prog[r][i].do \in {"create", "ensure"} /\ prog[r][i].on \in Counted
  /\ \E j, m \in 1 .. ip[r] - 1 :
       j < m /\ prog[r][j] = Op("enter", s) /\ prog[r][m].do = "count"

\* The advisory locks of a transaction are those of the scopes it has entered.
Entered ==
  \A r \in Requests : Running(r) =>
    \A j \in 1 .. ip[r] - 1 : prog[r][j].do = "enter" => prog[r][j].on \in xact[r]

\* There is room for whoever has counted, until it commits.
Room(s) == \A r \in Requests : Counting(r, s) => Cardinality(Listed) < Quota

QInv(s) == HInv /\ Entered /\ WithinQuota /\ Room(s)

LEMMA EnteredStep ==
  ASSUME HInv, Entered, NEW r \in Requests, Arrive(r) \/ Step(r)
  PROVE  Entered'
  <1>1. Shape /\ Control(r) /\ ip[r] \in Nat \ {0}
    BY DEF HInv, IInv, Request, Control
  <1>2. \A u \in Requests \ {r} :
          prog'[u] = prog[u] /\ ip'[u] = ip[u] /\ phase'[u] = phase[u] /\ xact'[u] = xact[u]
    BY ScopesOfOthers
  <1> DEFINE Mine == Running(r)' => \A j \in 1 .. ip'[r] - 1 :
                       prog'[r][j].do = "enter" => prog'[r][j].on \in xact'[r]
  <1>3. ASSUME Arrive(r) PROVE Mine
    <2>1. ip'[r] = 1
      BY <1>1, <1>3 DEF Arrive, Control
    <2> QED BY <2>1
  <1>4. ASSUME Finish(r) \/ Fail(r) PROVE Mine
    BY <1>1, <1>4 DEF Shape, Finish, Fail, Running
  <1>5. ASSUME EnterScope(r) \/ TakeRecord(r) \/ LockOwner(r) \/ Select(r) PROVE Mine
    <2>1. prog' = prog /\ ip' = ip /\ xact' = xact /\ Running(r)
      BY <1>5 DEF EnterScope, TakeRecord, LockOwner, Select, Doing, Running
    <2> QED BY <2>1 DEF Entered
  <1>6. ASSUME OpenScope(r) \/ LeaveScope(r) \/ Read(r) \/ EnsureFound(r) \/ Apply(r) PROVE Mine
    <2>1. prog' = prog /\ ip'[r] = ip[r] + 1 /\ Running(r)
      BY <1>1, <1>6
         DEF Shape, OpenScope, LeaveScope, Read, EnsureFound, Apply, Advance, Doing, Running
    <2>2. ASSUME NEW j \in 1 .. ip'[r] - 1, prog[r][j].do = "enter" PROVE prog[r][j].on \in xact'[r]
      <3>1. j \in 1 .. ip[r] - 1 \/ j = ip[r]
        BY <1>1, <2>1, <2>2
      <3>2. CASE OpenScope(r)
        <4>1. xact'[r] = xact[r] \cup {Now(r).on}
          BY <1>1, <3>2 DEF Shape, OpenScope
        <4> QED BY <2>1, <2>2, <3>1, <4>1 DEF Entered, Now
      <3>3. CASE ~OpenScope(r)
        <4>1. Now(r).do # "enter"
          BY <1>6, <3>3 DEF LeaveScope, Read, EnsureFound, Apply, Doing, Reads, Writes
        <4>2. j \in 1 .. ip[r] - 1
          BY <2>2, <3>1, <4>1 DEF Now
        <4>3. InTx(r)
          BY <1>1, <2>1, <2>2, <4>2 DEF Control
        <4>4. xact' = xact
          BY <1>6, <3>3, <4>3 DEF LeaveScope, Read, EnsureFound, Apply
        <4> QED BY <2>1, <2>2, <4>2, <4>4 DEF Entered
      <3> QED BY <3>2, <3>3
    <2> QED BY <2>1, <2>2
  <1>7. Mine
    BY <1>3, <1>4, <1>5, <1>6 DEF Step
  <1>8. \A u \in Requests \ {r} : Running(u)' <=> Running(u)
    BY <1>2 DEF Running
  <1> QED BY <1>2, <1>7, <1>8 DEF Entered

\* One at a time counts and creates.
LEMMA OneCounting ==
  ASSUME HInv, Entered, NEW s, CountsFirst(s), NEW r \in Requests, NEW u \in Requests,
         Counting(r, s), Counting(u, s)
  PROVE  r = u
  <1>1. IInv /\ Scoped /\ Running(r) /\ Running(u) /\ deploy \in Deployments
    BY DEF HInv, Scoped, Counting
  <1>2. ASSUME NEW v \in Requests, Counting(v, s)
        PROVE  /\ s \in xact[v]
               /\ ~deploy.postgres => Within(v, s)
    <2>1. PICK j \in 1 .. ip[v] - 1 : prog[v][j] = Op("enter", s)
      BY <1>2 DEF Counting
    <2>2. prog[v][j].do = "enter" /\ prog[v][j].on = s /\ Running(v)
      BY <1>2, <2>1 DEF Op, Counting
    <2>3. s \in xact[v]
      BY <2>2 DEF Entered
    <2>4. prog[v] \in Programs
      BY <2>2 DEF HInv, Request, Control
    <2>5. \/ \A d \in Deployments : d.postgres
          \/ \A n \in DOMAIN prog[v] : prog[v][n] # Op("leave", s)
      BY <1>2, <2>4 DEF Counting, CountsFirst
    <2>6. ~deploy.postgres => Within(v, s)
      BY <1>1, <2>2, <2>5 DEF Within
    <2> QED BY <2>3, <2>6
  <1>3. CASE deploy.postgres
    BY <1>1, <1>2, <1>3 DEF IInv, ScopesExclude
  <1>4. CASE ~deploy.postgres
    BY <1>1, <1>2, <1>4, KeptApart
  <1> QED BY <1>3, <1>4

\* What is put back once stays so, and nobody else begins to count.
LEMMA QuotaSteps ==
  ASSUME HInv, NEW r \in Requests, Arrive(r) \/ Step(r), NEW s
  PROVE  /\ \A k : PutBackOnce(k) => PutBackOnce(k)'
         /\ \A u \in Requests \ {r} : Counting(u, s)' <=> Counting(u, s)
  <1>1. Shape /\ Control(r) /\ ip[r] \in Nat \ {0}
    BY DEF HInv, IInv, Request, Control
  <1>2. \A u \in Requests \ {r} : prog'[u] = prog[u] /\ ip'[u] = ip[u] /\ phase'[u] = phase[u]
    BY ScopesOfOthers
  <1>3. ASSUME Arrive(r) PROVE ip[r] = 1
    BY <1>1, <1>3 DEF Arrive, Control
  <1>4. ASSUME Step(r) PROVE prog' = prog /\ (ip'[r] = ip[r] \/ ip'[r] = ip[r] + 1)
    BY <1>1, <1>4
       DEF Step, EnterScope, OpenScope, LeaveScope, Read, EnsureFound, TakeRecord, LockOwner,
           Select, Apply, Finish, Fail, Advance, Shape
  <1>5. ASSUME NEW k, PutBackOnce(k) PROVE PutBackOnce(k)'
    <2>0. PICK u \in Requests :
            \E i \in 1 .. ip[u] - 1 : prog[u][i].do = "restore" /\ prog[u][i].on = k
      BY <1>5 DEF PutBackOnce
    <2>1. PICK i \in 1 .. ip[u] - 1 : prog[u][i].do = "restore" /\ prog[u][i].on = k
      BY <2>0
    <2>2. i \in 1 .. ip'[u] - 1 /\ prog'[u][i] = prog[u][i]
      <3>1. CASE u # r
        BY <1>2, <3>1
      <3>2. CASE u = r
        <4>1. Step(r)
          BY <1>3, <2>1, <3>2
        <4> QED BY <1>1, <1>4, <2>1, <3>2, <4>1
      <3> QED BY <3>1, <3>2
    <2> QED BY <2>1, <2>2 DEF PutBackOnce
  <1>6. ASSUME NEW u \in Requests \ {r} PROVE Counting(u, s)' <=> Counting(u, s)
    BY <1>2 DEF Counting, Running
  <1> QED BY <1>5, <1>6

LEMMA ListedShrinks ==
  ASSUME IsFiniteSet(Counted), Listed' \subseteq Listed
  PROVE  /\ Cardinality(Listed)' \in Nat /\ Cardinality(Listed) \in Nat
         /\ Cardinality(Listed)' <= Cardinality(Listed)
  <1> DEFINE A == Listed
             B == Listed'
  <1>1. A \subseteq Counted /\ B \subseteq A
    BY DEF Listed
  <1>2. IsFiniteSet(A)
    BY <1>1, FS_Subset
  <1> HIDE DEF A, B
  <1>3. IsFiniteSet(B) /\ Cardinality(B) <= Cardinality(A)
    BY <1>1, <1>2, FS_Subset
  <1>4. Cardinality(A) \in Nat /\ Cardinality(B) \in Nat
    BY <1>2, <1>3, FS_CardinalityType
  <1> QED BY <1>3, <1>4 DEF A, B

\* Before it commits, a request finds room by counting.
LEMMA QuotaBefore ==
  ASSUME NEW s, QInv(s), CountsFirst(s), IsFiniteSet(Counted), NEW r \in Requests,
         Arrive(r) \/ Step(r), ~ (Apply(r) /\ ~InTx(r)), ~Finish(r), ~Fail(r)
  PROVE  WithinQuota' /\ Room(s)'
  <1>1. /\ HInv /\ Shape /\ Control(r) /\ ip[r] \in Nat \ {0} /\ Quota \in Nat
        /\ DOMAIN prog = Requests
    BY StoreAssumption DEF QInv, HInv, IInv, Request, Control, Shape
  <1>2. /\ \A k : PutBackOnce(k) => PutBackOnce(k)'
        /\ \A u \in Requests \ {r} : Counting(u, s)' <=> Counting(u, s)
    BY <1>1, QuotaSteps
  <1>3. db' = db
    BY DEF Step, Arrive, EnterScope, OpenScope, LeaveScope, Read, EnsureFound, TakeRecord,
           LockOwner, Select, Apply
  <1>4. Listed' \subseteq Listed
    BY <1>2, <1>3 DEF Listed
  <1>5. /\ Cardinality(Listed)' \in Nat /\ Cardinality(Listed) \in Nat
        /\ Cardinality(Listed)' <= Cardinality(Listed)
    BY <1>4, ListedShrinks
  <1>6. WithinQuota'
    BY <1>1, <1>5 DEF QInv, WithinQuota, Listed
  <1>7. ASSUME Counting(r, s)', ~Counting(r, s) PROVE Cardinality(Listed) < Quota
    <2>1. PICK j \in 1 .. ip'[r] - 1, m \in 1 .. ip'[r] - 1 :
            j < m /\ prog'[r][j] = Op("enter", s) /\ prog'[r][m].do = "count"
      BY <1>7 DEF Counting
    <2>2. Step(r)
      <3>1. Arrive(r) => ip'[r] = 1
        BY <1>1 DEF Arrive, Control
      <3> QED BY <2>1, <3>1
    <2>3. /\ prog' = prog /\ Running(r) /\ (ip'[r] = ip[r] \/ ip'[r] = ip[r] + 1)
          /\ ip'[r] = ip[r] + 1 => ~Ended(r)
      BY <1>1, <2>2
         DEF Step, EnterScope, OpenScope, LeaveScope, Read, EnsureFound, TakeRecord, LockOwner,
             Select, Apply, Advance, Shape, Doing, Running
    <2>4. PICK i \in DOMAIN prog[r] :
            prog[r][i].do \in {"create", "ensure"} /\ prog[r][i].on \in Counted
      BY <1>7, <2>3 DEF Counting
    <2>5. ~ \E a, b \in 1 .. ip[r] - 1 :
              a < b /\ prog[r][a] = Op("enter", s) /\ prog[r][b].do = "count"
      BY <1>7, <2>3, <2>4 DEF Counting
    <2>6. m = ip[r] /\ ip'[r] = ip[r] + 1
      BY <1>1, <2>1, <2>3, <2>5
    <2>7. Now(r).do = "count"
      BY <2>1, <2>3, <2>6 DEF Now
    <2>8. Read(r)
      BY <2>2, <2>6, <2>7, <1>1
         DEF Step, EnterScope, OpenScope, LeaveScope, EnsureFound, TakeRecord, LockOwner, Select,
             Apply, Shape, Doing, Writes
    <2>9. ~Full(r)
      BY <2>7, <2>8 DEF Read
    <2>10. prog[r] \in Programs /\ Len(prog[r]) \in Nat /\ i \in Nat
      BY <1>1, <2>3, <2>4, ProgramAssumption DEF Control
    <2>11. ASSUME NEW k \in Counted, k \in DOMAIN mine[r] PROVE FALSE
      <3>1. PICK n \in 1 .. ip[r] - 1 : WriteAt(r, n, k)
        BY <1>1, <2>11 DEF Control, Wrote
      <3>2. n \in DOMAIN prog[r]
        BY <1>1, <2>3, <2>10, <3>1, ProgramAssumption DEF Control
      <3>3. n = i /\ \E a, b \in 1 .. i - 1 :
              a < b /\ prog[r][a] = Op("enter", s) /\ prog[r][b].do = "count"
        BY <2>4, <2>10, <3>1, <3>2 DEF CountsFirst, WriteAt
      <3> QED BY <1>1, <2>5, <2>10, <3>1, <3>3
    <2> DEFINE A == Listed
               B == {k \in Counted : View(r, k) # NoRow}
    <2>12. A \subseteq B /\ B \subseteq Counted
      BY <2>11 DEF Listed, View
    <2>13. ~ (Cardinality(B) >= Quota)
      BY <2>9 DEF Full
    <2> HIDE DEF A, B
    <2>14. IsFiniteSet(B) /\ IsFiniteSet(A) /\ Cardinality(A) <= Cardinality(B)
      <3>1. IsFiniteSet(B)
        BY <2>12, FS_Subset
      <3> QED BY <2>12, <3>1, FS_Subset
    <2>15. Cardinality(A) \in Nat /\ Cardinality(B) \in Nat
      BY <2>14, FS_CardinalityType
    <2>16. Cardinality(A) < Quota
      BY <1>1, <2>13, <2>14, <2>15
    <2> QED BY <2>16 DEF A
  <1>8. Room(s)'
    <2> SUFFICES ASSUME NEW v \in Requests, Counting(v, s)' PROVE Cardinality(Listed)' < Quota
      BY DEF Room
    <2>1. Cardinality(Listed) < Quota
      <3>1. Counting(v, s) => Cardinality(Listed) < Quota
        BY DEF QInv, Room
      <3>2. v # r => Counting(v, s)
        BY <1>2
      <3> QED BY <1>7, <3>1, <3>2
    <2> QED BY <1>1, <1>5, <2>1
  <1> QED BY <1>6, <1>8

\* A commit adds what it has counted for, or puts something back.
LEMMA QuotaAtEnd ==
  ASSUME NEW s, QInv(s), CountsFirst(s), IsFiniteSet(Counted), NEW r \in Requests,
         (Apply(r) /\ ~InTx(r)) \/ Finish(r) \/ Fail(r)
  PROVE  WithinQuota' /\ Room(s)'
  <1>1. /\ HInv /\ Entered /\ Shape /\ Control(r) /\ ip[r] \in Nat \ {0} /\ Quota \in Nat
        /\ Counted \subseteq Records
    BY StoreAssumption DEF QInv, HInv, IInv, Request, Control
  <1>2. /\ \A k : PutBackOnce(k) => PutBackOnce(k)'
        /\ \A u \in Requests \ {r} : Counting(u, s)' <=> Counting(u, s)
    BY <1>1, QuotaSteps DEF Step
  <1>3. prog' = prog
    BY DEF Apply, Finish, Fail
  <1>4. ASSUME Apply(r), NEW j \in 1 .. ip[r] - 1, prog[r][j] = Op("enter", s), ~InTx(r)
        PROVE  FALSE
    <2>1. prog[r][j].do = "enter" /\ Running(r)
      BY <1>4 DEF Op, Apply, Doing, Running
    <2> QED BY <1>1, <1>4, <2>1 DEF Control
  <1>5. ~Counting(r, s)'
    <2> SUFFICES ASSUME Counting(r, s)' PROVE FALSE
      OBVIOUS
    <2>1. Apply(r) /\ ~InTx(r)
      BY <1>1 DEF Counting, Running, Finish, Fail, Shape
    <2>2. ip'[r] = ip[r] + 1
      BY <1>1, <2>1 DEF Apply, Advance, Shape
    <2>3. PICK j \in 1 .. ip'[r] - 1, m \in 1 .. ip'[r] - 1 :
            j < m /\ prog'[r][j] = Op("enter", s)
      BY DEF Counting
    <2>4. j \in 1 .. ip[r] - 1 /\ prog[r][j] = Op("enter", s)
      BY <1>1, <1>3, <2>2, <2>3
    <2> QED BY <1>4, <2>1, <2>4
  <1> DEFINE New(k) == k \in Counted /\ db[k] = NoRow /\ db'[k] # NoRow /\ ~PutBackOnce(k)'
  <1>6. CASE \A k : ~New(k)
    <2>1. Listed' \subseteq Listed
      BY <1>2, <1>6 DEF Listed
    <2>2. /\ Cardinality(Listed)' \in Nat /\ Cardinality(Listed) \in Nat
          /\ Cardinality(Listed)' <= Cardinality(Listed)
      BY <2>1, ListedShrinks
    <2>3. WithinQuota'
      BY <1>1, <2>2 DEF QInv, WithinQuota, Listed
    <2>4. Room(s)'
      BY <1>1, <1>2, <1>5, <2>2 DEF QInv, Room
    <2> QED BY <2>3, <2>4
  <1>7. CASE \E k : New(k)
    <2>1. ASSUME NEW k, New(k)
          PROVE  \E i \in DOMAIN prog[r] :
                   /\ i \in 1 .. ip[r]
                   /\ prog[r][i].do \in {"create", "ensure"} /\ prog[r][i].on = k
      <3>1. MadeBy(r, k)
        BY <1>1, <2>1, EndMakes
      <3>2. PICK i \in 1 .. Len(prog[r]) :
              i <= ip[r] /\ i < ip'[r] /\ prog[r][i].do \in Makes /\ prog[r][i].on = k
        BY <3>1 DEF MadeBy
      <3>3. i \in DOMAIN prog[r] /\ ip'[r] \in Nat /\ i \in 1 .. ip[r]
        BY <1>1, <3>1, <3>2, ProgramAssumption DEF MadeBy, Apply, Finish, Fail, Advance, Shape
      <3>4. prog[r][i].do # "restore"
        BY <1>3, <2>1, <3>2, <3>3 DEF PutBackOnce
      <3> QED BY <3>2, <3>3, <3>4 DEF Makes
    <2>2. PICK k : New(k)
      BY <1>7
    <2>3. PICK i \in DOMAIN prog[r] :
            i \in 1 .. ip[r] /\ prog[r][i].do \in {"create", "ensure"} /\ prog[r][i].on = k
      BY <2>1, <2>2
    <2>4. MadeBy(r, k)
      BY <1>1, <2>2, EndMakes
    <2>5. prog[r] \in Programs /\ Running(r)
      BY <2>4 DEF MadeBy
    <2>6. /\ \E j, m \in 1 .. i - 1 :
               j < m /\ prog[r][j] = Op("enter", s) /\ prog[r][m].do = "count"
          /\ \A n \in DOMAIN prog[r] :
               prog[r][n].do \in Writes /\ prog[r][n].on \in Counted => n = i
      BY <2>2, <2>3, <2>5 DEF CountsFirst
    <2>7. Counting(r, s)
      BY <1>1, <2>2, <2>3, <2>5, <2>6 DEF Counting
    <2>8. \A n : New(n) => n = k
      BY <2>1, <2>3, <2>6 DEF Writes
    <2>9. Listed' \subseteq Listed \cup {k}
      BY <1>2, <2>8 DEF Listed
    <2>10. Cardinality(Listed) < Quota
      BY <2>7 DEF QInv, Room
    <2>11. Cardinality(Listed') <= Quota
      <3> DEFINE A == Listed
                 B == Listed'
      <3>1. IsFiniteSet(A)
        BY FS_Subset DEF Listed
      <3>2. B \subseteq A \cup {k} /\ Cardinality(A) < Quota
        BY <2>9, <2>10
      <3> HIDE DEF A, B
      <3>3. /\ IsFiniteSet(A \cup {k}) /\ Cardinality(A) \in Nat
            /\ Cardinality(A \cup {k}) <= Cardinality(A) + 1
        <4>1. Cardinality(A) \in Nat
          BY <3>1, FS_CardinalityType
        <4>2. /\ IsFiniteSet(A \cup {k})
              /\ Cardinality(A \cup {k}) =
                   IF k \in A THEN Cardinality(A) ELSE Cardinality(A) + 1
          BY <3>1, FS_AddElement
        <4> QED BY <4>1, <4>2
      <3>4. IsFiniteSet(B) /\ Cardinality(B) <= Cardinality(A \cup {k})
        BY <3>2, <3>3, FS_Subset
      <3>5. Cardinality(B) \in Nat /\ Cardinality(A \cup {k}) \in Nat
        BY <3>3, <3>4, FS_CardinalityType
      <3>6. Cardinality(B) <= Quota
        BY <1>1, <3>2, <3>3, <3>4, <3>5
      <3> QED BY <3>6 DEF B
    <2>12. Room(s)'
      <3>1. ASSUME NEW u \in Requests, Counting(u, s)' PROVE FALSE
        <4>1. u # r /\ Counting(u, s)
          BY <1>2, <1>5, <3>1
        <4> QED BY <1>1, <2>7, <4>1, OneCounting
      <3> QED BY <3>1 DEF Room
    <2> QED BY <2>11, <2>12 DEF WithinQuota, Listed
  <1> QED BY <1>6, <1>7

LEMMA InitQInv ==
  ASSUME NEW s, Init
  PROVE  QInv(s)
  <1>1. HInv
    BY InitHInv
  <1>2. \A r \in Requests : ip[r] = 1 /\ ~Running(r)
    BY DEF Init, Running
  <1>3. Entered /\ Room(s)
    BY <1>2 DEF Entered, Room, Counting
  <1>4. WithinQuota
    <2>1. \A k \in Counted : db[k] # NoRow <=> k \in Stored
      BY StoreAssumption DEF Init, NoRow
    <2>2. \A k : ~PutBackOnce(k)
      BY <1>2 DEF PutBackOnce
    <2>3. {k \in Counted : db[k] # NoRow /\ ~PutBackOnce(k)} = Stored \cap Counted
      BY <2>1, <2>2
    <2> QED BY <2>3, StoreAssumption DEF WithinQuota
  <1> QED BY <1>1, <1>3, <1>4 DEF QInv

LEMMA NextQInv ==
  ASSUME NEW s, QInv(s), CountsFirst(s), IsFiniteSet(Counted), [Next]_vars
  PROVE  QInv(s)'
  <1>1. HInv /\ Entered /\ HInv'
    BY NextHInv DEF QInv
  <1>2. ASSUME NEW r \in Requests, Arrive(r) \/ Step(r) PROVE Entered' /\ WithinQuota' /\ Room(s)'
    BY <1>1, <1>2, EnteredStep, QuotaBefore, QuotaAtEnd
  <1>3. ASSUME Fence \/ UNCHANGED vars PROVE Entered' /\ WithinQuota' /\ Room(s)'
    <2>1. UNCHANGED <<db, prog, ip, phase, xact>>
      BY <1>3 DEF Fence, vars, calls
    <2>2. /\ \A r : Running(r)' <=> Running(r)
          /\ \A r : Counting(r, s)' <=> Counting(r, s)
          /\ \A k : PutBackOnce(k)' <=> PutBackOnce(k)
      BY <2>1 DEF Running, Counting, PutBackOnce
    <2>3. Listed' = Listed
      BY <2>1, <2>2 DEF Listed
    <2>4. Entered'
      BY <1>1, <2>1, <2>2 DEF Entered
    <2> QED BY <2>2, <2>3, <2>4 DEF QInv, WithinQuota, Listed, Room
  <1> QED BY <1>1, <1>2, <1>3 DEF QInv, Next

(* Where programs count first (CountsFirst), the quota is kept by any number of       *)
(* requests, but for what a compensation puts back: to the others, the count and the  *)
(* create of a request are one step.                                                  *)
THEOREM QuotasAreKept ==
  ASSUME NEW s, CountsFirst(s), IsFiniteSet(Counted)
  PROVE  Spec => []WithinQuota
  <1>1. Init => QInv(s)
    BY InitQInv
  <1>2. QInv(s) /\ [Next]_vars => QInv(s)'
    BY NextQInv
  <1>3. QInv(s) => WithinQuota
    BY DEF QInv
  <1> QED BY <1>1, <1>2, <1>3, PTL DEF Spec
=============================================================================
