----------------------- MODULE MaterialLifecycle_proofs -----------------------
(***************************************************************************)
(* What holds of MaterialLifecycle for any number of materials, requests,  *)
(* instances, journals, crashes and errors.                                *)
(*                                                                         *)
(* IInv is inductive.  Its proof has three layers:                         *)
(*   ...Type   the actions of a group keep TypeOK;                         *)
(*   ...Owned  they keep the lease with the one handler or instance that   *)
(*             works over both stores (LeaseOwned, Running);               *)
(*   ...Frame  an action that leaves rows, objects, journals and the fence *)
(*             alone keeps the phases (Phase), and ...Core one that        *)
(*             changes them does, because only the holder may.             *)
(* InvStep puts the layers together.                                       *)
(*                                                                         *)
(* Tidy is inductive beside it, one lemma per part.  For two of the parts: *)
(*   ...Left       without a crash or an error, how the stores differ when *)
(*                 an action has run (Balanced);                           *)
(*   ...Unexposed  an action that leaves no journal behind keeps the one   *)
(*                 that is open ready for recovery (Unexposed).            *)
(***************************************************************************)
EXTENDS MaterialLifecycle, TLAPS

USE DEF store, people, locals, ghosts, bounds

\* The initial state is well typed.
LEMMA InitType == Init => TypeOK
<1> SUFFICES ASSUME Init PROVE TypeOK
  OBVIOUS
<1> USE DEF Init
<1>1. journals \in [Journals -> Journal]
  BY DEF Journal, NoJournal, NewJournal
<1>2. crashes \in 0 .. MaxCrashes /\ errors \in 0 .. MaxErrors
  BY ConstantsAssumption
<1>3. pc \in [Handlers -> Points] /\ server \in [Instances -> Stages]
  BY DEF Points, Stages
<1>4. \A h \in Handlers : pc[h] \notin Targeting \cup Deleting
  BY DEF Targeting, Deleting, Holding
<1> QED
  BY <1>1, <1>2, <1>3, <1>4 DEF TypeOK

\* Answering a request leaves every local well typed.
LEMMA ReturnType ==
  ASSUME TypeOK, NEW h \in Handlers, Return(h)
  PROVE  /\ pc' \in [Handlers -> Points]
         /\ sel' \in [Handlers -> SUBSET Materials] /\ todo' \in [Handlers -> SUBSET Materials]
         /\ done' \in [Handlers -> SUBSET Materials] /\ made' \in [Handlers -> SUBSET Materials]
         /\ jid' \in [Handlers -> Journals \cup {None}]
         /\ ws' \in [Handlers -> Workspaces \cup {None}]
         /\ \A k \in Handlers : /\ pc'[k] \in Targeting => ws'[k] # None
                                /\ pc'[k] \in Deleting => jid'[k] # None
BY DEF TypeOK, Return, Goto, Points, Targeting, Deleting, Holding

\* A failing call stays within its bound.
LEMMA ErrorType ==
  ASSUME TypeOK, Error
  PROVE  crashes' = crashes /\ errors' \in 0 .. MaxErrors
BY ConstantsAssumption DEF TypeOK, Error

\* A new request keeps every type.
LEMMA RequestType ==
  ASSUME TypeOK, NEW h \in Handlers,
         \/ Register(h) \/ CreateSpace(h) \/ UploadBegin(h) \/ LinkBegin(h) \/ Unlink(h)
         \/ DeleteBegin(h) \/ SpaceDeleteBegin(h) \/ AccountDeleteBegin(h)
         \/ \E m \in Materials : \/ AnalyzeBegin(h, m)
  PROVE  TypeOK'
<1> USE DEF TypeOK, Goto, At, Points, Holding, Targeting, Deleting, Unlock, Acquire, Release,
            SetJournal, Rewrite, Journal, NoJournal, NewJournal, Mine
<1>1. CASE Register(h)
  BY <1>1, ReturnType, ErrorType DEF Register
<1>2. CASE CreateSpace(h)
  BY <1>2, ReturnType, ErrorType DEF CreateSpace
<1>3. CASE UploadBegin(h)
  BY <1>3, ReturnType, ErrorType DEF UploadBegin
<1>4. CASE LinkBegin(h)
  BY <1>4, ReturnType, ErrorType, ConstantsAssumption DEF LinkBegin
<1>5. CASE Unlink(h)
  BY <1>5, ReturnType, ErrorType DEF Unlink
<1>6. CASE DeleteBegin(h)
  BY <1>6, ReturnType, ErrorType DEF DeleteBegin
<1>7. CASE SpaceDeleteBegin(h)
  BY <1>7, ReturnType, ErrorType, ConstantsAssumption DEF SpaceDeleteBegin
<1>8. CASE AccountDeleteBegin(h)
  BY <1>8, ReturnType, ErrorType DEF AccountDeleteBegin
<1>9. ASSUME NEW m \in Materials, AnalyzeBegin(h, m)
      PROVE  TypeOK'
  BY <1>9, ReturnType, ErrorType DEF AnalyzeBegin
<1> QED
  BY <1>1, <1>2, <1>3, <1>4, <1>5, <1>6, <1>7, <1>8, <1>9

\* The steps of an upload keep every type.
LEMMA UploadType ==
  ASSUME TypeOK, NEW h \in Handlers,
         \/ UploadLease(h) \/ UploadReject(h) \/ UploadCommit(h) \/ UploadFails(h)
         \/ UploadUndone(h)
         \/ \E m \in Materials : \/ UploadPut(h, m) \/ UploadUndo(h, m)
  PROVE  TypeOK'
<1> USE DEF TypeOK, Goto, At, Points, Holding, Targeting, Deleting, Unlock, Acquire, Release,
            SetJournal, Rewrite, Journal, NoJournal, NewJournal, Mine
<1>1. CASE UploadLease(h)
  BY <1>1, ReturnType, ErrorType DEF UploadLease
<1>2. CASE UploadReject(h)
  BY <1>2, ReturnType, ErrorType DEF UploadReject
<1>3. CASE UploadCommit(h)
  BY <1>3, ReturnType, ErrorType DEF UploadCommit
<1>4. CASE UploadFails(h)
  BY <1>4, ReturnType, ErrorType DEF UploadFails
<1>5. CASE UploadUndone(h)
  BY <1>5, ReturnType, ErrorType DEF UploadUndone
<1>6. ASSUME NEW m \in Materials, UploadPut(h, m)
      PROVE  TypeOK'
  BY <1>6, ReturnType, ErrorType DEF UploadPut
<1>7. ASSUME NEW m \in Materials, UploadUndo(h, m)
      PROVE  TypeOK'
  BY <1>7, ReturnType, ErrorType DEF UploadUndo
<1> QED
  BY <1>1, <1>2, <1>3, <1>4, <1>5, <1>6, <1>7

\* The steps of a link or an analysis keep every type.
LEMMA LinkType ==
  ASSUME TypeOK, NEW h \in Handlers,
         \/ LinkLease(h) \/ LinkReject(h) \/ LinkDone(h) \/ AnalyzeSave(h) \/ AnalyzeReject(h)
         \/ \E m \in Materials : \/ LinkRow(h, m)
  PROVE  TypeOK'
<1> USE DEF TypeOK, Goto, At, Points, Holding, Targeting, Deleting, Unlock, Acquire, Release,
            SetJournal, Rewrite, Journal, NoJournal, NewJournal, Mine
<1>1. CASE LinkLease(h)
  BY <1>1, ReturnType, ErrorType DEF LinkLease
<1>2. CASE LinkReject(h)
  BY <1>2, ReturnType, ErrorType DEF LinkReject
<1>3. CASE LinkDone(h)
  BY <1>3, ReturnType, ErrorType DEF LinkDone
<1>4. ASSUME NEW m \in Materials, LinkRow(h, m)
      PROVE  TypeOK'
  BY <1>4, ReturnType, ErrorType DEF LinkRow
<1>5. CASE AnalyzeSave(h)
  BY <1>5, ReturnType, ErrorType DEF AnalyzeSave
<1>6. CASE AnalyzeReject(h)
  BY <1>6, ReturnType, ErrorType DEF AnalyzeReject
<1> QED
  BY <1>1, <1>2, <1>3, <1>4, <1>5, <1>6

\* The steps of a bulk delete, of its rollback and its clean-up keep every type.
LEMMA DeleteType ==
  ASSUME TypeOK, NEW h \in Handlers,
         \/ DeletePrepare(h) \/ DeleteBusy(h) \/ DeleteAbort(h) \/ DeleteManifest(h)
         \/ DeleteRows(h) \/ DeleteFails(h) \/ Finish(h) \/ FinishLeaves(h)
         \/ \E m \in Materials : \/ DeleteBlob(h, m) \/ DeleteObject(h, m)
                                 \/ DeleteAnalysis(h, m) \/ RestoreEntry(h, m)
                                 \/ RestoreFails(h, m)
  PROVE  TypeOK'
<1> USE DEF TypeOK, Goto, At, Points, Holding, Targeting, Deleting, Unlock, Acquire, Release,
            SetJournal, Rewrite, Journal, NoJournal, NewJournal, Mine
<1>1. CASE DeletePrepare(h)
  BY <1>1, ReturnType, ErrorType, ConstantsAssumption DEF DeletePrepare
<1>2. CASE DeleteBusy(h)
  BY <1>2, ReturnType, ErrorType DEF DeleteBusy
<1>3. CASE DeleteAbort(h)
  BY <1>3, ReturnType, ErrorType DEF DeleteAbort
<1>4. CASE DeleteManifest(h)
  BY <1>4, ReturnType, ErrorType DEF DeleteManifest
<1>5. CASE DeleteRows(h)
  BY <1>5, ReturnType, ErrorType DEF DeleteRows
<1>6. CASE DeleteFails(h)
  BY <1>6, ReturnType, ErrorType DEF DeleteFails
<1>7. ASSUME NEW m \in Materials, DeleteBlob(h, m)
      PROVE  TypeOK'
  BY <1>7, ReturnType, ErrorType DEF DeleteBlob
<1>8. ASSUME NEW m \in Materials, DeleteObject(h, m)
      PROVE  TypeOK'
  BY <1>8, ReturnType, ErrorType DEF DeleteObject
<1>9. ASSUME NEW m \in Materials, DeleteAnalysis(h, m)
      PROVE  TypeOK'
  BY <1>9, ReturnType, ErrorType DEF DeleteAnalysis
<1>10. ASSUME NEW m \in Materials, RestoreEntry(h, m)
      PROVE  TypeOK'
  BY <1>10, ReturnType, ErrorType DEF RestoreEntry
<1>11. ASSUME NEW m \in Materials, RestoreFails(h, m)
      PROVE  TypeOK'
  BY <1>11, ReturnType, ErrorType DEF RestoreFails
<1>12. CASE Finish(h)
  BY <1>12, ReturnType, ErrorType DEF Finish
<1>13. CASE FinishLeaves(h)
  <2>1. errors' \in 0 .. MaxErrors /\ crashes' = crashes
    BY <1>13, ErrorType DEF FinishLeaves
  <2>2. acked' \subseteq Workspaces
    BY <1>13 DEF FinishLeaves
  <2>3. jid[h] \in Journals /\ Mine(h) \in Journal
    BY <1>13 DEF FinishLeaves, AtEnd
  <2>4. journals' \in [Journals -> Journal]
    <3>1. PICK kept \in SUBSET Mine(h).blobs, manifest \in {FALSE, Mine(h).manifest} :
            Rewrite(jid[h], manifest, Mine(h).entries, kept, Mine(h).notes)
      BY <1>13 DEF FinishLeaves
    <3>2. kept \in SUBSET Materials /\ manifest \in BOOLEAN
      BY <2>3
    <3> QED
      BY <2>3, <3>1, <3>2
  <2> QED
    BY <1>13, <2>1, <2>2, <2>4, ReturnType DEF FinishLeaves
<1> QED
  BY <1>1, <1>2, <1>3, <1>4, <1>5, <1>6, <1>7, <1>8, <1>9, <1>10, <1>11, <1>12, <1>13

\* The steps of a workspace delete keep every type.
LEMMA SpaceDeleteType ==
  ASSUME TypeOK, NEW h \in Handlers,
         \/ SpaceDeletePrepare(h) \/ SpaceDeleteBusy(h) \/ SpaceDeleteCommit(h)
         \/ SpaceDeleteUnlink(h) \/ SpaceDeleteFails(h) \/ SpaceDeleteRestore(h)
         \/ SpaceDeleteRestoreFails(h)
  PROVE  TypeOK'
<1> USE DEF TypeOK, Goto, At, Points, Holding, Targeting, Deleting, Unlock, Acquire, Release,
            SetJournal, Rewrite, Journal, NoJournal, NewJournal, Mine
<1>1. CASE SpaceDeletePrepare(h)
  BY <1>1, ReturnType, ErrorType, ConstantsAssumption DEF SpaceDeletePrepare
<1>2. CASE SpaceDeleteBusy(h)
  BY <1>2, ReturnType, ErrorType DEF SpaceDeleteBusy
<1>3. CASE SpaceDeleteCommit(h)
  BY <1>3, ReturnType, ErrorType DEF SpaceDeleteCommit
<1>4. CASE SpaceDeleteUnlink(h)
  BY <1>4, ReturnType, ErrorType DEF SpaceDeleteUnlink
<1>5. CASE SpaceDeleteFails(h)
  BY <1>5, ReturnType, ErrorType DEF SpaceDeleteFails
<1>6. CASE SpaceDeleteRestore(h)
  BY <1>6, ReturnType, ErrorType DEF SpaceDeleteRestore
<1>7. CASE SpaceDeleteRestoreFails(h)
  <2>1. crashes' = crashes /\ errors' \in 0 .. MaxErrors
    BY <1>7, ErrorType DEF SpaceDeleteRestoreFails
  <2>2. Host[h] \in Instances
    BY ConstantsAssumption
  <2>3. lease' \in Handlers \cup Instances \cup {None} /\ exposed' \in BOOLEAN
    <3>1. CASE At(h, "wd_restore_held")
      BY <1>7, <2>2, <3>1 DEF SpaceDeleteRestoreFails
    <3>2. CASE ~At(h, "wd_restore_held")
      BY <1>7, <3>2 DEF SpaceDeleteRestoreFails
    <3> QED
      BY <3>1, <3>2
  <2> QED
    BY <1>7, <2>1, <2>3, ReturnType DEF SpaceDeleteRestoreFails
<1> QED
  BY <1>1, <1>2, <1>3, <1>4, <1>5, <1>6, <1>7

\* The steps of an account delete keep every type.
LEMMA AccountType ==
  ASSUME TypeOK, NEW h \in Handlers,
         \/ AccountDeletePrepare(h) \/ AccountFence(h) \/ AccountRefused(h)
         \/ AccountBlobFails(h) \/ AccountStaged(h) \/ AccountDelete(h) \/ AccountFails(h)
         \/ AccountCancel(h) \/ AccountCancelFails(h)
         \/ \E m \in Materials : \/ AccountBlob(h, m) \/ AccountObject(h, m)
                                 \/ AccountRestore(h, m)
  PROVE  TypeOK'
<1> USE DEF TypeOK, Goto, At, Points, Holding, Targeting, Deleting, Unlock, Acquire, Release,
            SetJournal, Rewrite, Journal, NoJournal, NewJournal, Mine
<1>1. CASE AccountDeletePrepare(h)
  BY <1>1, ReturnType, ErrorType, ConstantsAssumption DEF AccountDeletePrepare
<1>2. CASE AccountFence(h)
  BY <1>2, ReturnType, ErrorType DEF AccountFence
<1>3. CASE AccountRefused(h)
  BY <1>3, ReturnType, ErrorType DEF AccountRefused
<1>4. CASE AccountBlobFails(h)
  BY <1>4, ReturnType, ErrorType DEF AccountBlobFails
<1>5. CASE AccountStaged(h)
  BY <1>5, ReturnType, ErrorType DEF AccountStaged
<1>6. CASE AccountDelete(h)
  BY <1>6, ReturnType, ErrorType DEF AccountDelete
<1>7. CASE AccountFails(h)
  BY <1>7, ReturnType, ErrorType DEF AccountFails
<1>8. CASE AccountCancel(h)
  BY <1>8, ReturnType, ErrorType DEF AccountCancel, Cancelling
<1>9. CASE AccountCancelFails(h)
  BY <1>9, ReturnType, ErrorType DEF AccountCancelFails
<1>10. ASSUME NEW m \in Materials, AccountBlob(h, m)
      PROVE  TypeOK'
  BY <1>10, ReturnType, ErrorType DEF AccountBlob
<1>11. ASSUME NEW m \in Materials, AccountObject(h, m)
      PROVE  TypeOK'
  BY <1>11, ReturnType, ErrorType DEF AccountObject
<1>12. ASSUME NEW m \in Materials, AccountRestore(h, m)
      PROVE  TypeOK'
  BY <1>12, ReturnType, ErrorType DEF AccountRestore
<1> QED
  BY <1>1, <1>2, <1>3, <1>4, <1>5, <1>6, <1>7, <1>8, <1>9, <1>10, <1>11, <1>12

\* Starting, recovering, stopping and crashing keep every type.
LEMMA InstanceType ==
  ASSUME TypeOK, NEW i \in Instances,
         \/ StartInstance(i) \/ AccountLease(i) \/ AccountRecovered(i) \/ MaterialLease(i)
         \/ MaterialRecovered(i) \/ RecoveryFails(i) \/ Crash(i) \/ StopInstance(i)
         \/ \E j \in Journals : \/ AccountLift(i, j) \/ AccountPurge(i, j)
                                \/ MaterialPurge(i, j) \/ MaterialRefuse(i, j)
         \/ \E j \in Journals, m \in Materials : \/ AccountUndo(i, j, m)
                                                 \/ MaterialUndo(i, j, m)
  PROVE  TypeOK'
<1> USE DEF TypeOK, Stage, Stages, Points, Targeting, Deleting, Holding, Acquire, Release,
            SetJournal, Rewrite, Journal, NoJournal, NewJournal, Mine
<1>1. CASE StartInstance(i)
  BY <1>1, ErrorType, ConstantsAssumption DEF StartInstance
<1>2. CASE AccountLease(i)
  BY <1>2, ErrorType, ConstantsAssumption DEF AccountLease
<1>3. CASE AccountRecovered(i)
  BY <1>3, ErrorType, ConstantsAssumption DEF AccountRecovered
<1>4. CASE MaterialLease(i)
  BY <1>4, ErrorType, ConstantsAssumption DEF MaterialLease
<1>5. CASE MaterialRecovered(i)
  BY <1>5, ErrorType, ConstantsAssumption DEF MaterialRecovered
<1>6. CASE RecoveryFails(i)
  BY <1>6, ErrorType, ConstantsAssumption DEF RecoveryFails
<1>7. ASSUME NEW j \in Journals, AccountLift(i, j)
      PROVE  TypeOK'
  BY <1>7, ErrorType, ConstantsAssumption DEF AccountLift
<1>8. ASSUME NEW j \in Journals, AccountPurge(i, j)
      PROVE  TypeOK'
  BY <1>8, ErrorType, ConstantsAssumption DEF AccountPurge
<1>9. ASSUME NEW j \in Journals, MaterialPurge(i, j)
      PROVE  TypeOK'
  BY <1>9, ErrorType, ConstantsAssumption DEF MaterialPurge
<1>10. ASSUME NEW j \in Journals, MaterialRefuse(i, j)
      PROVE  TypeOK'
  BY <1>10, ErrorType, ConstantsAssumption DEF MaterialRefuse
<1>11. ASSUME NEW j \in Journals, NEW m \in Materials, AccountUndo(i, j, m)
      PROVE  TypeOK'
  BY <1>11, ErrorType, ConstantsAssumption DEF AccountUndo
<1>12. ASSUME NEW j \in Journals, NEW m \in Materials, MaterialUndo(i, j, m)
      PROVE  TypeOK'
  BY <1>12, ErrorType, ConstantsAssumption DEF MaterialUndo
<1>13. CASE Crash(i)
  BY <1>13, ErrorType, ConstantsAssumption DEF Crash
<1>14. CASE StopInstance(i)
  BY <1>14, ErrorType, ConstantsAssumption DEF StopInstance
<1> QED
  BY <1>1, <1>2, <1>3, <1>4, <1>5, <1>6, <1>7, <1>8, <1>9, <1>10, <1>11, <1>12, <1>13, <1>14

\* A new request does not touch the lease.
LEMMA RequestOwned ==
  ASSUME TypeOK, LeaseOwned, Running, NEW h \in Handlers,
         \/ Register(h) \/ CreateSpace(h) \/ UploadBegin(h) \/ LinkBegin(h) \/ Unlink(h)
         \/ DeleteBegin(h) \/ SpaceDeleteBegin(h) \/ AccountDeleteBegin(h)
         \/ \E m \in Materials : \/ AnalyzeBegin(h, m)
  PROVE  LeaseOwned' /\ Running'
<1> USE DEF LeaseOwned, Running, Goto, At, Holding, Acquire, Release, Return, Serving, Enter
<1>0. /\ pc \in [Handlers -> Points] /\ Host \in [Handlers -> Instances]
      /\ server \in [Instances -> Stages]
    /\ done \in [Handlers -> SUBSET Materials] /\ made \in [Handlers -> SUBSET Materials]
    /\ Handlers \cap Instances = {} /\ None \notin Handlers \cup Instances
  BY ConstantsAssumption DEF TypeOK
<1>1. CASE Register(h)
  BY <1>0, <1>1 DEF Register
<1>2. CASE CreateSpace(h)
  BY <1>0, <1>2 DEF CreateSpace
<1>3. CASE UploadBegin(h)
  BY <1>0, <1>3 DEF UploadBegin
<1>4. CASE LinkBegin(h)
  BY <1>0, <1>4 DEF LinkBegin
<1>5. CASE Unlink(h)
  BY <1>0, <1>5 DEF Unlink
<1>6. CASE DeleteBegin(h)
  BY <1>0, <1>6 DEF DeleteBegin
<1>7. CASE SpaceDeleteBegin(h)
  BY <1>0, <1>7 DEF SpaceDeleteBegin
<1>8. CASE AccountDeleteBegin(h)
  BY <1>0, <1>8 DEF AccountDeleteBegin
<1>9. ASSUME NEW m \in Materials, AnalyzeBegin(h, m)
      PROVE  LeaseOwned' /\ Running'
  BY <1>0, <1>9 DEF AnalyzeBegin
<1> HIDE DEF LeaseOwned, Running
<1> QED
  BY <1>1, <1>2, <1>3, <1>4, <1>5, <1>6, <1>7, <1>8, <1>9

\* An upload holds the lease exactly from UploadLease to UploadUndone or UploadCommit.
LEMMA UploadOwned ==
  ASSUME TypeOK, LeaseOwned, Running, NEW h \in Handlers,
         \/ UploadLease(h) \/ UploadReject(h) \/ UploadCommit(h) \/ UploadFails(h)
         \/ UploadUndone(h)
         \/ \E m \in Materials : \/ UploadPut(h, m) \/ UploadUndo(h, m)
  PROVE  LeaseOwned' /\ Running'
<1> USE DEF LeaseOwned, Running, Goto, At, Holding, Acquire, Release, Return, Serving, Enter
<1>0. /\ pc \in [Handlers -> Points] /\ Host \in [Handlers -> Instances]
      /\ server \in [Instances -> Stages]
    /\ done \in [Handlers -> SUBSET Materials] /\ made \in [Handlers -> SUBSET Materials]
    /\ Handlers \cap Instances = {} /\ None \notin Handlers \cup Instances
  BY ConstantsAssumption DEF TypeOK
<1>1. CASE UploadLease(h)
  BY <1>0, <1>1 DEF UploadLease
<1>2. CASE UploadReject(h)
  BY <1>0, <1>2 DEF UploadReject
<1>3. CASE UploadCommit(h)
  BY <1>0, <1>3 DEF UploadCommit
<1>4. CASE UploadFails(h)
  BY <1>0, <1>4 DEF UploadFails
<1>5. CASE UploadUndone(h)
  BY <1>0, <1>5 DEF UploadUndone
<1>6. ASSUME NEW m \in Materials, UploadPut(h, m)
      PROVE  LeaseOwned' /\ Running'
  BY <1>0, <1>6 DEF UploadPut
<1>7. ASSUME NEW m \in Materials, UploadUndo(h, m)
      PROVE  LeaseOwned' /\ Running'
  BY <1>0, <1>7 DEF UploadUndo
<1> HIDE DEF LeaseOwned, Running
<1> QED
  BY <1>1, <1>2, <1>3, <1>4, <1>5, <1>6, <1>7

\* A link holds the lease exactly from LinkLease to LinkDone.
LEMMA LinkOwned ==
  ASSUME TypeOK, LeaseOwned, Running, NEW h \in Handlers,
         \/ LinkLease(h) \/ LinkReject(h) \/ LinkDone(h) \/ AnalyzeSave(h) \/ AnalyzeReject(h)
         \/ \E m \in Materials : \/ LinkRow(h, m)
  PROVE  LeaseOwned' /\ Running'
<1> USE DEF LeaseOwned, Running, Goto, At, Holding, Acquire, Release, Return, Serving, Enter
<1>0. /\ pc \in [Handlers -> Points] /\ Host \in [Handlers -> Instances]
      /\ server \in [Instances -> Stages]
    /\ done \in [Handlers -> SUBSET Materials] /\ made \in [Handlers -> SUBSET Materials]
    /\ Handlers \cap Instances = {} /\ None \notin Handlers \cup Instances
  BY ConstantsAssumption DEF TypeOK
<1>1. CASE LinkLease(h)
  BY <1>0, <1>1 DEF LinkLease
<1>2. CASE LinkReject(h)
  BY <1>0, <1>2 DEF LinkReject
<1>3. CASE LinkDone(h)
  BY <1>0, <1>3 DEF LinkDone
<1>4. ASSUME NEW m \in Materials, LinkRow(h, m)
      PROVE  LeaseOwned' /\ Running'
  BY <1>0, <1>4 DEF LinkRow
<1>5. CASE AnalyzeSave(h)
  BY <1>0, <1>5 DEF AnalyzeSave
<1>6. CASE AnalyzeReject(h)
  BY <1>0, <1>6 DEF AnalyzeReject
<1> HIDE DEF LeaseOwned, Running
<1> QED
  BY <1>1, <1>2, <1>3, <1>4, <1>5, <1>6

\* A bulk delete holds the lease exactly from DeletePrepare to its end.
LEMMA DeleteOwned ==
  ASSUME TypeOK, LeaseOwned, Running, NEW h \in Handlers,
         \/ DeletePrepare(h) \/ DeleteBusy(h) \/ DeleteAbort(h) \/ DeleteManifest(h)
         \/ DeleteRows(h) \/ DeleteFails(h) \/ Finish(h) \/ FinishLeaves(h)
         \/ \E m \in Materials : \/ DeleteBlob(h, m) \/ DeleteObject(h, m)
                                 \/ DeleteAnalysis(h, m) \/ RestoreEntry(h, m)
                                 \/ RestoreFails(h, m)
  PROVE  LeaseOwned' /\ Running'
<1> USE DEF LeaseOwned, Running, Goto, At, Holding, Acquire, Release, Return, Serving, Enter
<1>0. /\ pc \in [Handlers -> Points] /\ Host \in [Handlers -> Instances]
      /\ server \in [Instances -> Stages]
    /\ done \in [Handlers -> SUBSET Materials] /\ made \in [Handlers -> SUBSET Materials]
    /\ Handlers \cap Instances = {} /\ None \notin Handlers \cup Instances
  BY ConstantsAssumption DEF TypeOK
<1>1. CASE DeletePrepare(h)
  BY <1>0, <1>1 DEF DeletePrepare
<1>2. CASE DeleteBusy(h)
  BY <1>0, <1>2 DEF DeleteBusy
<1>3. CASE DeleteAbort(h)
  BY <1>0, <1>3 DEF DeleteAbort
<1>4. CASE DeleteManifest(h)
  BY <1>0, <1>4 DEF DeleteManifest
<1>5. CASE DeleteRows(h)
  BY <1>0, <1>5 DEF DeleteRows
<1>6. CASE DeleteFails(h)
  BY <1>0, <1>6 DEF DeleteFails
<1>7. ASSUME NEW m \in Materials, DeleteBlob(h, m)
      PROVE  LeaseOwned' /\ Running'
  BY <1>0, <1>7 DEF DeleteBlob
<1>8. ASSUME NEW m \in Materials, DeleteObject(h, m)
      PROVE  LeaseOwned' /\ Running'
  BY <1>0, <1>8 DEF DeleteObject
<1>9. ASSUME NEW m \in Materials, DeleteAnalysis(h, m)
      PROVE  LeaseOwned' /\ Running'
  BY <1>0, <1>9 DEF DeleteAnalysis
<1>10. ASSUME NEW m \in Materials, RestoreEntry(h, m)
      PROVE  LeaseOwned' /\ Running'
  BY <1>0, <1>10 DEF RestoreEntry
<1>11. ASSUME NEW m \in Materials, RestoreFails(h, m)
      PROVE  LeaseOwned' /\ Running'
  BY <1>0, <1>11 DEF RestoreFails
<1>12. CASE Finish(h)
  BY <1>0, <1>12 DEF Finish, AtEnd
<1>13. CASE FinishLeaves(h)
  BY <1>0, <1>13 DEF FinishLeaves, AtEnd
<1> HIDE DEF LeaseOwned, Running
<1> QED
  BY <1>1, <1>2, <1>3, <1>4, <1>5, <1>6, <1>7, <1>8, <1>9, <1>10, <1>11, <1>12, <1>13

\* A workspace delete holds the lease exactly from SpaceDeletePrepare to its end.
LEMMA SpaceDeleteOwned ==
  ASSUME TypeOK, LeaseOwned, Running, NEW h \in Handlers,
         \/ SpaceDeletePrepare(h) \/ SpaceDeleteBusy(h) \/ SpaceDeleteCommit(h)
         \/ SpaceDeleteUnlink(h) \/ SpaceDeleteFails(h) \/ SpaceDeleteRestore(h)
         \/ SpaceDeleteRestoreFails(h)
  PROVE  LeaseOwned' /\ Running'
<1> USE DEF LeaseOwned, Running, Goto, At, Holding, Acquire, Release, Return, Serving, Enter
<1>0. /\ pc \in [Handlers -> Points] /\ Host \in [Handlers -> Instances]
      /\ server \in [Instances -> Stages]
    /\ done \in [Handlers -> SUBSET Materials] /\ made \in [Handlers -> SUBSET Materials]
    /\ Handlers \cap Instances = {} /\ None \notin Handlers \cup Instances
  BY ConstantsAssumption DEF TypeOK
<1>1. CASE SpaceDeletePrepare(h)
  BY <1>0, <1>1 DEF SpaceDeletePrepare
<1>2. CASE SpaceDeleteBusy(h)
  BY <1>0, <1>2 DEF SpaceDeleteBusy
<1>3. CASE SpaceDeleteCommit(h)
  BY <1>0, <1>3 DEF SpaceDeleteCommit
<1>4. CASE SpaceDeleteUnlink(h)
  BY <1>0, <1>4 DEF SpaceDeleteUnlink
<1>5. CASE SpaceDeleteFails(h)
  BY <1>0, <1>5 DEF SpaceDeleteFails
<1>6. CASE SpaceDeleteRestore(h)
  BY <1>0, <1>6 DEF SpaceDeleteRestore
<1>7. CASE SpaceDeleteRestoreFails(h)
  BY <1>0, <1>7 DEF SpaceDeleteRestoreFails
<1> HIDE DEF LeaseOwned, Running
<1> QED
  BY <1>1, <1>2, <1>3, <1>4, <1>5, <1>6, <1>7

\* An account delete holds the lease exactly from AccountDeletePrepare to its end.
LEMMA AccountOwned ==
  ASSUME TypeOK, LeaseOwned, Running, NEW h \in Handlers,
         \/ AccountDeletePrepare(h) \/ AccountFence(h) \/ AccountRefused(h)
         \/ AccountBlobFails(h) \/ AccountStaged(h) \/ AccountDelete(h) \/ AccountFails(h)
         \/ AccountCancel(h) \/ AccountCancelFails(h)
         \/ \E m \in Materials : \/ AccountBlob(h, m) \/ AccountObject(h, m)
                                 \/ AccountRestore(h, m)
  PROVE  LeaseOwned' /\ Running'
<1> USE DEF LeaseOwned, Running, Goto, At, Holding, Acquire, Release, Return, Serving, Enter
<1>0. /\ pc \in [Handlers -> Points] /\ Host \in [Handlers -> Instances]
      /\ server \in [Instances -> Stages]
    /\ done \in [Handlers -> SUBSET Materials] /\ made \in [Handlers -> SUBSET Materials]
    /\ Handlers \cap Instances = {} /\ None \notin Handlers \cup Instances
  BY ConstantsAssumption DEF TypeOK
<1>1. CASE AccountDeletePrepare(h)
  BY <1>0, <1>1 DEF AccountDeletePrepare
<1>2. CASE AccountFence(h)
  BY <1>0, <1>2 DEF AccountFence
<1>3. CASE AccountRefused(h)
  BY <1>0, <1>3 DEF AccountRefused
<1>4. CASE AccountBlobFails(h)
  BY <1>0, <1>4 DEF AccountBlobFails
<1>5. CASE AccountStaged(h)
  BY <1>0, <1>5 DEF AccountStaged
<1>6. CASE AccountDelete(h)
  BY <1>0, <1>6 DEF AccountDelete
<1>7. CASE AccountFails(h)
  BY <1>0, <1>7 DEF AccountFails
<1>8. CASE AccountCancel(h)
  BY <1>0, <1>8 DEF AccountCancel, Cancelling
<1>9. CASE AccountCancelFails(h)
  BY <1>0, <1>9 DEF AccountCancelFails, Cancelling
<1>10. ASSUME NEW m \in Materials, AccountBlob(h, m)
      PROVE  LeaseOwned' /\ Running'
  BY <1>0, <1>10 DEF AccountBlob
<1>11. ASSUME NEW m \in Materials, AccountObject(h, m)
      PROVE  LeaseOwned' /\ Running'
  BY <1>0, <1>11 DEF AccountObject
<1>12. ASSUME NEW m \in Materials, AccountRestore(h, m)
      PROVE  LeaseOwned' /\ Running'
  BY <1>0, <1>12 DEF AccountRestore
<1> HIDE DEF LeaseOwned, Running
<1> QED
  BY <1>1, <1>2, <1>3, <1>4, <1>5, <1>6, <1>7, <1>8, <1>9, <1>10, <1>11, <1>12

\* A start holds the lease while it recovers; a crash takes it from the dead.
LEMMA InstanceOwned ==
  ASSUME TypeOK, LeaseOwned, Running, NEW i \in Instances,
         \/ StartInstance(i) \/ AccountLease(i) \/ AccountRecovered(i) \/ MaterialLease(i)
         \/ MaterialRecovered(i) \/ RecoveryFails(i) \/ Crash(i) \/ StopInstance(i)
         \/ \E j \in Journals : \/ AccountLift(i, j) \/ AccountPurge(i, j)
                                \/ MaterialPurge(i, j) \/ MaterialRefuse(i, j)
         \/ \E j \in Journals, m \in Materials : \/ AccountUndo(i, j, m)
                                                 \/ MaterialUndo(i, j, m)
  PROVE  LeaseOwned' /\ Running'
<1> USE DEF LeaseOwned, Running, Goto, At, Holding, Acquire, Release, Return, Serving, Enter, Stage,
            Stages, On
<1>0. /\ pc \in [Handlers -> Points] /\ Host \in [Handlers -> Instances]
      /\ server \in [Instances -> Stages]
    /\ done \in [Handlers -> SUBSET Materials] /\ made \in [Handlers -> SUBSET Materials]
    /\ Handlers \cap Instances = {} /\ None \notin Handlers \cup Instances
  BY ConstantsAssumption DEF TypeOK
<1>1. CASE StartInstance(i)
  BY <1>0, <1>1 DEF StartInstance
<1>2. CASE AccountLease(i)
  BY <1>0, <1>2 DEF AccountLease
<1>3. CASE AccountRecovered(i)
  BY <1>0, <1>3 DEF AccountRecovered
<1>4. CASE MaterialLease(i)
  BY <1>0, <1>4 DEF MaterialLease
<1>5. CASE MaterialRecovered(i)
  BY <1>0, <1>5 DEF MaterialRecovered
<1>6. CASE RecoveryFails(i)
  BY <1>0, <1>6 DEF RecoveryFails
<1>7. ASSUME NEW j \in Journals, AccountLift(i, j)
      PROVE  LeaseOwned' /\ Running'
  BY <1>0, <1>7 DEF AccountLift
<1>8. ASSUME NEW j \in Journals, AccountPurge(i, j)
      PROVE  LeaseOwned' /\ Running'
  BY <1>0, <1>8 DEF AccountPurge
<1>9. ASSUME NEW j \in Journals, MaterialPurge(i, j)
      PROVE  LeaseOwned' /\ Running'
  BY <1>0, <1>9 DEF MaterialPurge
<1>10. ASSUME NEW j \in Journals, MaterialRefuse(i, j)
      PROVE  LeaseOwned' /\ Running'
  BY <1>0, <1>10 DEF MaterialRefuse
<1>11. ASSUME NEW j \in Journals, NEW m \in Materials, AccountUndo(i, j, m)
      PROVE  LeaseOwned' /\ Running'
  BY <1>0, <1>11 DEF AccountUndo
<1>12. ASSUME NEW j \in Journals, NEW m \in Materials, MaterialUndo(i, j, m)
      PROVE  LeaseOwned' /\ Running'
  BY <1>0, <1>12 DEF MaterialUndo
<1>13. CASE Crash(i)
  BY <1>0, <1>13 DEF Crash
<1>14. CASE StopInstance(i)
  BY <1>0, <1>14 DEF StopInstance
<1> HIDE DEF LeaseOwned, Running
<1> QED
  BY <1>1, <1>2, <1>3, <1>4, <1>5, <1>6, <1>7, <1>8, <1>9, <1>10, <1>11, <1>12, <1>13, <1>14

\* No other handler moves.
Others(h) ==
  \A k \in Handlers \ {h} : /\ pc'[k] = pc[k] /\ sel'[k] = sel[k] /\ todo'[k] = todo[k]
                            /\ done'[k] = done[k] /\ made'[k] = made[k] /\ jid'[k] = jid[k]

\* A handler without the lease promises nothing about the stores.
LEMMA QuietPhase ==
  ASSUME NEW k \in Handlers, pc'[k] \notin Holding
  PROVE  Phase(k)'
BY DEF Phase, UploadPhase, DeletePhase, SpacePhase, AccountPhase, UnwindPhase, Holding, At

\* What a handler relies on does not change while the stores and its locals do not.
LEMMA SamePhase ==
  ASSUME NEW k \in Handlers, Phase(k), UNCHANGED <<rows, objs, journals, deletionId>>,
         pc'[k] = pc[k], sel'[k] = sel[k], todo'[k] = todo[k],
         done'[k] = done[k], made'[k] = made[k], jid'[k] = jid[k]
  PROVE  Phase(k)'
BY DEF Phase, UploadPhase, DeletePhase, SpacePhase, AccountPhase, UnwindPhase, At, Mine, Covers

\* The state facts only speak of rows, objects, journals and the fence.
LEMMA SameLibrary ==
  ASSUME IInv, UNCHANGED <<rows, objs, journals, deletionId>>, registered => registered'
  PROVE  Shape' /\ BytesRecoverable'
BY DEF IInv, Shape, BytesRecoverable, Covers

\* A new request leaves the stores alone.
LEMMA RequestFrame ==
  ASSUME IInv, NEW h \in Handlers,
         \/ Register(h) \/ CreateSpace(h) \/ UploadBegin(h) \/ LinkBegin(h) \/ Unlink(h)
         \/ DeleteBegin(h) \/ SpaceDeleteBegin(h) \/ AccountDeleteBegin(h)
         \/ \E m \in Materials : \/ AnalyzeBegin(h, m)
  PROVE  /\ UNCHANGED <<rows, objs, journals, deletionId>> /\ (registered => registered')
         /\ Others(h) /\ Phase(h)'
<1> USE DEF Others, Goto, Return, Phase, UploadPhase, DeletePhase, SpacePhase, AccountPhase,
            UnwindPhase, At, Mine, Covers, Enter, Running
<1>0. /\ pc \in [Handlers -> Points] /\ jid \in [Handlers -> Journals \cup {None}]
      /\ sel \in [Handlers -> SUBSET Materials] /\ todo \in [Handlers -> SUBSET Materials]
      /\ done \in [Handlers -> SUBSET Materials] /\ made \in [Handlers -> SUBSET Materials]
      /\ Phase(h) /\ Running
  BY DEF IInv, TypeOK
<1>1. CASE Register(h)
  BY <1>0, <1>1 DEF Register
<1>2. CASE CreateSpace(h)
  BY <1>0, <1>2 DEF CreateSpace
<1>3. CASE UploadBegin(h)
  BY <1>0, <1>3 DEF UploadBegin
<1>4. CASE LinkBegin(h)
  BY <1>0, <1>4 DEF LinkBegin
<1>5. CASE Unlink(h)
  BY <1>0, <1>5 DEF Unlink
<1>6. CASE DeleteBegin(h)
  BY <1>0, <1>6 DEF DeleteBegin
<1>7. CASE SpaceDeleteBegin(h)
  BY <1>0, <1>7 DEF SpaceDeleteBegin
<1>8. CASE AccountDeleteBegin(h)
  BY <1>0, <1>8 DEF AccountDeleteBegin
<1>9. ASSUME NEW m \in Materials, AnalyzeBegin(h, m)
      PROVE  /\ UNCHANGED <<rows, objs, journals, deletionId>> /\ (registered => registered')
             /\ Others(h) /\ Phase(h)'
  BY <1>0, <1>9 DEF AnalyzeBegin
<1> QED
  BY <1>1, <1>2, <1>3, <1>4, <1>5, <1>6, <1>7, <1>8, <1>9

\* Lease calls and failures of an upload leave the stores alone.
LEMMA UploadFrame ==
  ASSUME IInv, NEW h \in Handlers,
         \/ UploadLease(h) \/ UploadReject(h) \/ UploadFails(h) \/ UploadUndone(h)
  PROVE  /\ UNCHANGED <<rows, objs, journals, deletionId>> /\ (registered => registered')
         /\ Others(h) /\ Phase(h)'
<1> USE DEF Others, Goto, Return, Phase, UploadPhase, DeletePhase, SpacePhase, AccountPhase,
            UnwindPhase, At, Mine, Covers, Enter, Running
<1>0. /\ pc \in [Handlers -> Points] /\ jid \in [Handlers -> Journals \cup {None}]
      /\ sel \in [Handlers -> SUBSET Materials] /\ todo \in [Handlers -> SUBSET Materials]
      /\ done \in [Handlers -> SUBSET Materials] /\ made \in [Handlers -> SUBSET Materials]
      /\ Phase(h) /\ Running
  BY DEF IInv, TypeOK
<1>1. CASE UploadLease(h)
  BY <1>0, <1>1 DEF UploadLease
<1>2. CASE UploadReject(h)
  BY <1>0, <1>2 DEF UploadReject
<1>3. CASE UploadFails(h)
  BY <1>0, <1>3 DEF UploadFails
<1>4. CASE UploadUndone(h)
  BY <1>0, <1>4 DEF UploadUndone
<1> QED
  BY <1>1, <1>2, <1>3, <1>4

\* A link or an analysis changes neither rows, objects nor journals.
LEMMA LinkFrame ==
  ASSUME IInv, NEW h \in Handlers,
         \/ LinkLease(h) \/ LinkReject(h) \/ LinkDone(h) \/ AnalyzeSave(h) \/ AnalyzeReject(h)
         \/ \E m \in Materials : \/ LinkRow(h, m)
  PROVE  /\ UNCHANGED <<rows, objs, journals, deletionId>> /\ (registered => registered')
         /\ Others(h) /\ Phase(h)'
<1> USE DEF Others, Goto, Return, Phase, UploadPhase, DeletePhase, SpacePhase, AccountPhase,
            UnwindPhase, At, Mine, Covers, Enter, Running
<1>0. /\ pc \in [Handlers -> Points] /\ jid \in [Handlers -> Journals \cup {None}]
      /\ sel \in [Handlers -> SUBSET Materials] /\ todo \in [Handlers -> SUBSET Materials]
      /\ done \in [Handlers -> SUBSET Materials] /\ made \in [Handlers -> SUBSET Materials]
      /\ Phase(h) /\ Running
  BY DEF IInv, TypeOK
<1>1. CASE LinkLease(h)
  BY <1>0, <1>1 DEF LinkLease
<1>2. CASE LinkReject(h)
  BY <1>0, <1>2 DEF LinkReject
<1>3. CASE LinkDone(h)
  BY <1>0, <1>3 DEF LinkDone
<1>4. ASSUME NEW m \in Materials, LinkRow(h, m)
      PROVE  /\ UNCHANGED <<rows, objs, journals, deletionId>> /\ (registered => registered')
             /\ Others(h) /\ Phase(h)'
  BY <1>0, <1>4 DEF LinkRow
<1>5. CASE AnalyzeSave(h)
  BY <1>0, <1>5 DEF AnalyzeSave
<1>6. CASE AnalyzeReject(h)
  BY <1>0, <1>6 DEF AnalyzeReject
<1> QED
  BY <1>1, <1>2, <1>3, <1>4, <1>5, <1>6

\* Refusals and failures of a bulk delete change neither rows, objects nor journals.
LEMMA DeleteFrame ==
  ASSUME IInv, NEW h \in Handlers,
         \/ DeleteBusy(h) \/ DeleteAbort(h) \/ DeleteFails(h)
         \/ \E m \in Materials : \/ DeleteAnalysis(h, m)
  PROVE  /\ UNCHANGED <<rows, objs, journals, deletionId>> /\ (registered => registered')
         /\ Others(h) /\ Phase(h)'
<1> USE DEF Others, Goto, Return, Phase, UploadPhase, DeletePhase, SpacePhase, AccountPhase,
            UnwindPhase, At, Mine, Covers, Enter, Running
<1>0. /\ pc \in [Handlers -> Points] /\ jid \in [Handlers -> Journals \cup {None}]
      /\ sel \in [Handlers -> SUBSET Materials] /\ todo \in [Handlers -> SUBSET Materials]
      /\ done \in [Handlers -> SUBSET Materials] /\ made \in [Handlers -> SUBSET Materials]
      /\ Phase(h) /\ Running
  BY DEF IInv, TypeOK
<1>1. CASE DeleteBusy(h)
  BY <1>0, <1>1 DEF DeleteBusy
<1>2. CASE DeleteAbort(h)
  BY <1>0, <1>2 DEF DeleteAbort
<1>3. CASE DeleteFails(h)
  BY <1>0, <1>3 DEF DeleteFails
<1>4. ASSUME NEW m \in Materials, DeleteAnalysis(h, m)
      PROVE  /\ UNCHANGED <<rows, objs, journals, deletionId>> /\ (registered => registered')
             /\ Others(h) /\ Phase(h)'
  BY <1>0, <1>4 DEF DeleteAnalysis
<1> QED
  BY <1>1, <1>2, <1>3, <1>4

\* A workspace delete changes neither rows, objects nor (but for its own) journals.
LEMMA SpaceDeleteFrame ==
  ASSUME IInv, NEW h \in Handlers,
         \/ SpaceDeleteBusy(h) \/ SpaceDeleteCommit(h) \/ SpaceDeleteUnlink(h)
         \/ SpaceDeleteFails(h) \/ SpaceDeleteRestore(h) \/ SpaceDeleteRestoreFails(h)
  PROVE  /\ UNCHANGED <<rows, objs, journals, deletionId>> /\ (registered => registered')
         /\ Others(h) /\ Phase(h)'
<1> USE DEF Others, Goto, Return, Phase, UploadPhase, DeletePhase, SpacePhase, AccountPhase,
            UnwindPhase, At, Mine, Covers, Enter, Running
<1>0. /\ pc \in [Handlers -> Points] /\ jid \in [Handlers -> Journals \cup {None}]
      /\ sel \in [Handlers -> SUBSET Materials] /\ todo \in [Handlers -> SUBSET Materials]
      /\ done \in [Handlers -> SUBSET Materials] /\ made \in [Handlers -> SUBSET Materials]
      /\ Phase(h) /\ Running
  BY DEF IInv, TypeOK
<1>1. CASE SpaceDeleteBusy(h)
  BY <1>0, <1>1 DEF SpaceDeleteBusy
<1>2. CASE SpaceDeleteCommit(h)
  BY <1>0, <1>2 DEF SpaceDeleteCommit
<1>3. CASE SpaceDeleteUnlink(h)
  BY <1>0, <1>3 DEF SpaceDeleteUnlink
<1>4. CASE SpaceDeleteFails(h)
  BY <1>0, <1>4 DEF SpaceDeleteFails
<1>5. CASE SpaceDeleteRestore(h)
  <2>1. CASE At(h, "wd_restore")
    BY <1>0, <1>5, <2>1, QuietPhase DEF SpaceDeleteRestore, At, Holding
  <2>2. CASE At(h, "wd_restore_held")
    BY <1>0, <1>5, <2>2 DEF SpaceDeleteRestore, Phase, UploadPhase, DeletePhase, SpacePhase,
                            AccountPhase, UnwindPhase, At, Mine
  <2> QED
    BY <1>5, <2>1, <2>2 DEF SpaceDeleteRestore, At
<1>6. CASE SpaceDeleteRestoreFails(h)
  BY <1>0, <1>6 DEF SpaceDeleteRestoreFails
<1> QED
  BY <1>1, <1>2, <1>3, <1>4, <1>5, <1>6

\* Refusals and failures of an account delete leave the stores alone.
LEMMA AccountFrame ==
  ASSUME IInv, NEW h \in Handlers,
         \/ AccountRefused(h) \/ AccountBlobFails(h) \/ AccountStaged(h) \/ AccountFails(h)
         \/ AccountCancelFails(h)
  PROVE  /\ UNCHANGED <<rows, objs, journals, deletionId>> /\ (registered => registered')
         /\ Others(h) /\ Phase(h)'
<1> USE DEF Others, Goto, Return, Phase, UploadPhase, DeletePhase, SpacePhase, AccountPhase,
            UnwindPhase, At, Mine, Covers, Enter, Running
<1>0. /\ pc \in [Handlers -> Points] /\ jid \in [Handlers -> Journals \cup {None}]
      /\ sel \in [Handlers -> SUBSET Materials] /\ todo \in [Handlers -> SUBSET Materials]
      /\ done \in [Handlers -> SUBSET Materials] /\ made \in [Handlers -> SUBSET Materials]
      /\ Phase(h) /\ Running
  BY DEF IInv, TypeOK
<1>1. CASE AccountRefused(h)
  BY <1>0, <1>1 DEF AccountRefused, NewJournal
<1>2. CASE AccountBlobFails(h)
  BY <1>0, <1>2 DEF AccountBlobFails
<1>3. CASE AccountStaged(h)
  BY <1>0, <1>3 DEF AccountStaged
<1>4. CASE AccountFails(h)
  BY <1>0, <1>4 DEF AccountFails
<1>5. CASE AccountCancelFails(h)
  BY <1>0, <1>5 DEF AccountCancelFails, Cancelling
<1> QED
  BY <1>1, <1>2, <1>3, <1>4, <1>5

\* An upload only undoes objects that no row needs.
LEMMA UploadCore ==
  ASSUME IInv, NEW h \in Handlers,
         \/ UploadCommit(h)
         \/ \E m \in Materials : \/ UploadPut(h, m) \/ UploadUndo(h, m)
  PROVE  /\ Shape' /\ BytesRecoverable' /\ Phase(h)'
         /\ lease \in {None, h} /\ \A k \in Handlers \ {h} : pc'[k] = pc[k]
<1> USE DEF Goto, Return, SetJournal, Rewrite, NewJournal, NoJournal, Mine, At, Deleting,
            Holding, Acquire, Phase, UploadPhase, DeletePhase, SpacePhase, AccountPhase,
            UnwindPhase, Journal
<1>0. /\ pc \in [Handlers -> Points] /\ jid \in [Handlers -> Journals \cup {None}]
      /\ sel \in [Handlers -> SUBSET Materials] /\ todo \in [Handlers -> SUBSET Materials]
      /\ done \in [Handlers -> SUBSET Materials] /\ made \in [Handlers -> SUBSET Materials]
      /\ journals \in [Journals -> Journal] /\ deletionId \in Journals \cup {None}
      /\ rows \subseteq Materials /\ objs \subseteq Materials
      /\ Phase(h) /\ Shape /\ BytesRecoverable
      /\ (pc[h] \in Deleting => jid[h] \in Journals) /\ None \notin Journals
  BY ConstantsAssumption DEF IInv, TypeOK
<1>l. pc[h] \in Holding => lease = h
  BY DEF IInv, LeaseOwned
<1>1. ASSUME NEW m \in Materials, UploadPut(h, m)
      PROVE  /\ Shape' /\ BytesRecoverable' /\ Phase(h)'
             /\ lease \in {None, h} /\ \A k \in Handlers \ {h} : pc'[k] = pc[k]
  <2>1. lease \in {None, h} /\ \A k \in Handlers \ {h} : pc'[k] = pc[k]
    BY <1>0, <1>l, <1>1 DEF UploadPut
  <2>2. Shape'
    BY <1>0, <1>1 DEF UploadPut, Shape
  <2>3. BytesRecoverable'
    BY <1>0, <1>1 DEF UploadPut, BytesRecoverable, Covers, Shape
  <2>4. Phase(h)'
    BY <1>0, <1>1 DEF UploadPut, Covers, BytesRecoverable
  <2> QED
    BY <2>1, <2>2, <2>3, <2>4
<1>2. CASE UploadCommit(h)
  <2>1. lease \in {None, h} /\ \A k \in Handlers \ {h} : pc'[k] = pc[k]
    BY <1>0, <1>l, <1>2 DEF UploadCommit
  <2>2. Shape'
    BY <1>0, <1>2 DEF UploadCommit, Shape
  <2>3. BytesRecoverable'
    BY <1>0, <1>2 DEF UploadCommit, BytesRecoverable, Covers, Shape
  <2>4. Phase(h)'
    BY <1>0, <1>2 DEF UploadCommit, Covers, BytesRecoverable
  <2> QED
    BY <2>1, <2>2, <2>3, <2>4
<1>3. ASSUME NEW m \in Materials, UploadUndo(h, m)
      PROVE  /\ Shape' /\ BytesRecoverable' /\ Phase(h)'
             /\ lease \in {None, h} /\ \A k \in Handlers \ {h} : pc'[k] = pc[k]
  <2>1. lease \in {None, h} /\ \A k \in Handlers \ {h} : pc'[k] = pc[k]
    BY <1>0, <1>l, <1>3 DEF UploadUndo
  <2>2. Shape'
    BY <1>0, <1>3 DEF UploadUndo, Shape
  <2>3. BytesRecoverable'
    BY <1>0, <1>3 DEF UploadUndo, BytesRecoverable, Covers, Shape
  <2>4. Phase(h)'
    BY <1>0, <1>3 DEF UploadUndo, Covers, BytesRecoverable
  <2> QED
    BY <2>1, <2>2, <2>3, <2>4
<1> QED
  BY <1>1, <1>2, <1>3

\* A bulk delete takes no object away before its journal can give it back.
LEMMA DeleteCore ==
  ASSUME IInv, NEW h \in Handlers,
         \/ DeletePrepare(h) \/ DeleteManifest(h) \/ DeleteRows(h) \/ Finish(h)
         \/ FinishLeaves(h)
         \/ \E m \in Materials : \/ DeleteBlob(h, m) \/ DeleteObject(h, m)
                                 \/ RestoreEntry(h, m) \/ RestoreFails(h, m)
  PROVE  /\ Shape' /\ BytesRecoverable' /\ Phase(h)'
         /\ lease \in {None, h} /\ \A k \in Handlers \ {h} : pc'[k] = pc[k]
<1> USE DEF Goto, Return, SetJournal, Rewrite, NewJournal, NoJournal, Mine, At, Deleting,
            Holding, Acquire, Phase, UploadPhase, DeletePhase, SpacePhase, AccountPhase,
            UnwindPhase, Journal
<1>0. /\ pc \in [Handlers -> Points] /\ jid \in [Handlers -> Journals \cup {None}]
      /\ sel \in [Handlers -> SUBSET Materials] /\ todo \in [Handlers -> SUBSET Materials]
      /\ done \in [Handlers -> SUBSET Materials] /\ made \in [Handlers -> SUBSET Materials]
      /\ journals \in [Journals -> Journal] /\ deletionId \in Journals \cup {None}
      /\ rows \subseteq Materials /\ objs \subseteq Materials
      /\ Phase(h) /\ Shape /\ BytesRecoverable
      /\ (pc[h] \in Deleting => jid[h] \in Journals) /\ None \notin Journals
  BY ConstantsAssumption DEF IInv, TypeOK
<1>l. pc[h] \in Holding => lease = h
  BY DEF IInv, LeaseOwned
<1>1. CASE DeletePrepare(h)
  <2>1. lease \in {None, h} /\ \A k \in Handlers \ {h} : pc'[k] = pc[k]
    BY <1>0, <1>l, <1>1 DEF DeletePrepare, Fresh, Open
  <2>2. Shape'
    BY <1>0, <1>1 DEF DeletePrepare, Fresh, Open, Shape
  <2>3. BytesRecoverable'
    BY <1>0, <1>1 DEF DeletePrepare, Fresh, Open, BytesRecoverable, Covers, Shape
  <2>4. Phase(h)'
    BY <1>0, <1>1 DEF DeletePrepare, Fresh, Open, Covers, BytesRecoverable
  <2> QED
    BY <2>1, <2>2, <2>3, <2>4
<1>2. ASSUME NEW m \in Materials, DeleteBlob(h, m)
      PROVE  /\ Shape' /\ BytesRecoverable' /\ Phase(h)'
             /\ lease \in {None, h} /\ \A k \in Handlers \ {h} : pc'[k] = pc[k]
  <2>1. lease \in {None, h} /\ \A k \in Handlers \ {h} : pc'[k] = pc[k]
    BY <1>0, <1>l, <1>2 DEF DeleteBlob
  <2>2. Shape'
    BY <1>0, <1>2 DEF DeleteBlob, Shape
  <2>3. BytesRecoverable'
    BY <1>0, <1>2 DEF DeleteBlob, BytesRecoverable, Covers, Shape
  <2>4. Phase(h)'
    BY <1>0, <1>2 DEF DeleteBlob, Covers, BytesRecoverable
  <2> QED
    BY <2>1, <2>2, <2>3, <2>4
<1>3. CASE DeleteManifest(h)
  <2>1. lease \in {None, h} /\ \A k \in Handlers \ {h} : pc'[k] = pc[k]
    BY <1>0, <1>l, <1>3 DEF DeleteManifest
  <2>2. Shape'
    BY <1>0, <1>3 DEF DeleteManifest, Shape
  <2>3. BytesRecoverable'
    BY <1>0, <1>3 DEF DeleteManifest, BytesRecoverable, Covers, Shape
  <2>4. Phase(h)'
    BY <1>0, <1>3 DEF DeleteManifest, Covers, BytesRecoverable
  <2> QED
    BY <2>1, <2>2, <2>3, <2>4
<1>4. ASSUME NEW m \in Materials, DeleteObject(h, m)
      PROVE  /\ Shape' /\ BytesRecoverable' /\ Phase(h)'
             /\ lease \in {None, h} /\ \A k \in Handlers \ {h} : pc'[k] = pc[k]
  <2>1. lease \in {None, h} /\ \A k \in Handlers \ {h} : pc'[k] = pc[k]
    BY <1>0, <1>l, <1>4 DEF DeleteObject
  <2>2. Shape'
    BY <1>0, <1>4 DEF DeleteObject, Shape
  <2>3. BytesRecoverable'
    BY <1>0, <1>4 DEF DeleteObject, BytesRecoverable, Covers, Shape
  <2>4. Phase(h)'
    BY <1>0, <1>4 DEF DeleteObject, Covers, BytesRecoverable
  <2> QED
    BY <2>1, <2>2, <2>3, <2>4
<1>5. CASE DeleteRows(h)
  <2>1. lease \in {None, h} /\ \A k \in Handlers \ {h} : pc'[k] = pc[k]
    BY <1>0, <1>l, <1>5 DEF DeleteRows, AllRowsThere, Writable
  <2>2. Shape'
    BY <1>0, <1>5 DEF DeleteRows, AllRowsThere, Writable, Shape
  <2>3. BytesRecoverable'
    BY <1>0, <1>5 DEF DeleteRows, AllRowsThere, Writable, BytesRecoverable, Covers, Shape
  <2>4. Phase(h)'
    BY <1>0, <1>5 DEF DeleteRows, AllRowsThere, Writable, Covers, BytesRecoverable
  <2> QED
    BY <2>1, <2>2, <2>3, <2>4
<1>6. ASSUME NEW m \in Materials, RestoreEntry(h, m)
      PROVE  /\ Shape' /\ BytesRecoverable' /\ Phase(h)'
             /\ lease \in {None, h} /\ \A k \in Handlers \ {h} : pc'[k] = pc[k]
  <2>1. lease \in {None, h} /\ \A k \in Handlers \ {h} : pc'[k] = pc[k]
    BY <1>0, <1>l, <1>6 DEF RestoreEntry
  <2>2. Shape'
    BY <1>0, <1>6 DEF RestoreEntry, Shape
  <2>3. BytesRecoverable'
    BY <1>0, <1>6 DEF RestoreEntry, BytesRecoverable, Covers, Shape
  <2>4. Phase(h)'
    BY <1>0, <1>6 DEF RestoreEntry, Covers, BytesRecoverable
  <2> QED
    BY <2>1, <2>2, <2>3, <2>4
<1>7. ASSUME NEW m \in Materials, RestoreFails(h, m)
      PROVE  /\ Shape' /\ BytesRecoverable' /\ Phase(h)'
             /\ lease \in {None, h} /\ \A k \in Handlers \ {h} : pc'[k] = pc[k]
  <2>1. lease \in {None, h} /\ \A k \in Handlers \ {h} : pc'[k] = pc[k]
    BY <1>0, <1>l, <1>7 DEF RestoreFails
  <2>2. Shape'
    BY <1>0, <1>7 DEF RestoreFails, Shape
  <2>3. BytesRecoverable'
    BY <1>0, <1>7 DEF RestoreFails, BytesRecoverable, Covers, Shape
  <2>4. Phase(h)'
    BY <1>0, <1>7 DEF RestoreFails, Covers, BytesRecoverable
  <2> QED
    BY <2>1, <2>2, <2>3, <2>4
<1>8. CASE Finish(h)
  <2>1. lease \in {None, h} /\ \A k \in Handlers \ {h} : pc'[k] = pc[k]
    BY <1>0, <1>l, <1>8 DEF Finish, AtEnd
  <2>2. Shape'
    BY <1>0, <1>8 DEF Finish, AtEnd, Shape
  <2>3. BytesRecoverable'
    BY <1>0, <1>8 DEF Finish, AtEnd, BytesRecoverable, Covers, Shape
  <2>4. Phase(h)'
    BY <1>0, <1>8 DEF Finish, AtEnd, Covers, BytesRecoverable
  <2> QED
    BY <2>1, <2>2, <2>3, <2>4
<1>9. CASE FinishLeaves(h)
  <2>1. lease \in {None, h} /\ \A k \in Handlers \ {h} : pc'[k] = pc[k]
    BY <1>0, <1>l, <1>9 DEF FinishLeaves, AtEnd
  <2>2. Shape'
    <3>1. PICK kept \in SUBSET Mine(h).blobs, manifest \in {FALSE, Mine(h).manifest} :
            Rewrite(jid[h], manifest, Mine(h).entries, kept, Mine(h).notes)
      BY <1>9 DEF FinishLeaves
    <3>2. manifest => Mine(h).manifest
      OBVIOUS
    <3> QED
      BY <1>0, <1>9, <3>1, <3>2 DEF FinishLeaves, AtEnd, Shape, Journal
  <2>3. BytesRecoverable'
    BY <1>0, <1>9 DEF FinishLeaves, AtEnd, BytesRecoverable, Covers, Shape
  <2>4. Phase(h)'
    BY <1>0, <1>9 DEF FinishLeaves, AtEnd, Covers, BytesRecoverable
  <2> QED
    BY <2>1, <2>2, <2>3, <2>4
<1> QED
  BY <1>1, <1>2, <1>3, <1>4, <1>5, <1>6, <1>7, <1>8, <1>9

\* An account delete takes no object away before its journal can give it back.
LEMMA AccountCore ==
  ASSUME IInv, NEW h \in Handlers,
         \/ SpaceDeletePrepare(h) \/ AccountDeletePrepare(h) \/ AccountFence(h)
         \/ AccountDelete(h) \/ AccountCancel(h)
         \/ \E m \in Materials : \/ AccountBlob(h, m) \/ AccountObject(h, m)
                                 \/ AccountRestore(h, m)
  PROVE  /\ Shape' /\ BytesRecoverable' /\ Phase(h)'
         /\ lease \in {None, h} /\ \A k \in Handlers \ {h} : pc'[k] = pc[k]
<1> USE DEF Goto, Return, SetJournal, Rewrite, NewJournal, NoJournal, Mine, At, Deleting,
            Holding, Acquire, Phase, UploadPhase, DeletePhase, SpacePhase, AccountPhase,
            UnwindPhase, Journal
<1>0. /\ pc \in [Handlers -> Points] /\ jid \in [Handlers -> Journals \cup {None}]
      /\ sel \in [Handlers -> SUBSET Materials] /\ todo \in [Handlers -> SUBSET Materials]
      /\ done \in [Handlers -> SUBSET Materials] /\ made \in [Handlers -> SUBSET Materials]
      /\ journals \in [Journals -> Journal] /\ deletionId \in Journals \cup {None}
      /\ rows \subseteq Materials /\ objs \subseteq Materials
      /\ Phase(h) /\ Shape /\ BytesRecoverable
      /\ (pc[h] \in Deleting => jid[h] \in Journals) /\ None \notin Journals
  BY ConstantsAssumption DEF IInv, TypeOK
<1>l. pc[h] \in Holding => lease = h
  BY DEF IInv, LeaseOwned
<1>1. CASE SpaceDeletePrepare(h)
  <2>1. lease \in {None, h} /\ \A k \in Handlers \ {h} : pc'[k] = pc[k]
    BY <1>0, <1>l, <1>1 DEF SpaceDeletePrepare, Fresh, Open
  <2>2. Shape'
    BY <1>0, <1>1 DEF SpaceDeletePrepare, Fresh, Open, Shape
  <2>3. BytesRecoverable'
    BY <1>0, <1>1 DEF SpaceDeletePrepare, Fresh, Open, BytesRecoverable, Covers, Shape
  <2>4. Phase(h)'
    BY <1>0, <1>1 DEF SpaceDeletePrepare, Fresh, Open, Covers, BytesRecoverable
  <2> QED
    BY <2>1, <2>2, <2>3, <2>4
<1>2. CASE AccountDeletePrepare(h)
  <2>1. lease \in {None, h} /\ \A k \in Handlers \ {h} : pc'[k] = pc[k]
    BY <1>0, <1>l, <1>2 DEF AccountDeletePrepare, Fresh, Open
  <2>2. Shape'
    BY <1>0, <1>2 DEF AccountDeletePrepare, Fresh, Open, Shape
  <2>3. BytesRecoverable'
    BY <1>0, <1>2 DEF AccountDeletePrepare, Fresh, Open, BytesRecoverable, Covers, Shape
  <2>4. Phase(h)'
    BY <1>0, <1>2 DEF AccountDeletePrepare, Fresh, Open, Covers, BytesRecoverable
  <2> QED
    BY <2>1, <2>2, <2>3, <2>4
<1>3. CASE AccountFence(h)
  <2>1. lease \in {None, h} /\ \A k \in Handlers \ {h} : pc'[k] = pc[k]
    BY <1>0, <1>l, <1>3 DEF AccountFence, Writable
  <2>2. Shape'
    BY <1>0, <1>3 DEF AccountFence, Writable, Shape
  <2>3. BytesRecoverable'
    BY <1>0, <1>3 DEF AccountFence, Writable, BytesRecoverable, Covers, Shape
  <2>4. Phase(h)'
    BY <1>0, <1>3 DEF AccountFence, Writable, Covers, BytesRecoverable
  <2> QED
    BY <2>1, <2>2, <2>3, <2>4
<1>4. ASSUME NEW m \in Materials, AccountBlob(h, m)
      PROVE  /\ Shape' /\ BytesRecoverable' /\ Phase(h)'
             /\ lease \in {None, h} /\ \A k \in Handlers \ {h} : pc'[k] = pc[k]
  <2>1. lease \in {None, h} /\ \A k \in Handlers \ {h} : pc'[k] = pc[k]
    BY <1>0, <1>l, <1>4 DEF AccountBlob
  <2>2. Shape'
    BY <1>0, <1>4 DEF AccountBlob, Shape
  <2>3. BytesRecoverable'
    BY <1>0, <1>4 DEF AccountBlob, BytesRecoverable, Covers, Shape
  <2>4. Phase(h)'
    BY <1>0, <1>4 DEF AccountBlob, Covers, BytesRecoverable
  <2> QED
    BY <2>1, <2>2, <2>3, <2>4
<1>5. ASSUME NEW m \in Materials, AccountObject(h, m)
      PROVE  /\ Shape' /\ BytesRecoverable' /\ Phase(h)'
             /\ lease \in {None, h} /\ \A k \in Handlers \ {h} : pc'[k] = pc[k]
  <2>1. lease \in {None, h} /\ \A k \in Handlers \ {h} : pc'[k] = pc[k]
    BY <1>0, <1>l, <1>5 DEF AccountObject
  <2>2. Shape'
    BY <1>0, <1>5 DEF AccountObject, Shape
  <2>3. BytesRecoverable'
    BY <1>0, <1>5 DEF AccountObject, BytesRecoverable, Covers, Shape
  <2>4. Phase(h)'
    BY <1>0, <1>5 DEF AccountObject, Covers, BytesRecoverable
  <2> QED
    BY <2>1, <2>2, <2>3, <2>4
<1>6. CASE AccountDelete(h)
  <2>1. lease \in {None, h} /\ \A k \in Handlers \ {h} : pc'[k] = pc[k]
    BY <1>0, <1>l, <1>6 DEF AccountDelete
  <2>2. Shape'
    BY <1>0, <1>6 DEF AccountDelete, Shape
  <2>3. BytesRecoverable'
    BY <1>0, <1>6 DEF AccountDelete, BytesRecoverable, Covers, Shape
  <2>4. Phase(h)'
    BY <1>0, <1>6 DEF AccountDelete, Covers, BytesRecoverable
  <2> QED
    BY <2>1, <2>2, <2>3, <2>4
<1>7. ASSUME NEW m \in Materials, AccountRestore(h, m)
      PROVE  /\ Shape' /\ BytesRecoverable' /\ Phase(h)'
             /\ lease \in {None, h} /\ \A k \in Handlers \ {h} : pc'[k] = pc[k]
  <2>1. lease \in {None, h} /\ \A k \in Handlers \ {h} : pc'[k] = pc[k]
    BY <1>0, <1>l, <1>7 DEF AccountRestore
  <2>2. Shape'
    BY <1>0, <1>7 DEF AccountRestore, Shape
  <2>3. BytesRecoverable'
    BY <1>0, <1>7 DEF AccountRestore, BytesRecoverable, Covers, Shape
  <2>4. Phase(h)'
    BY <1>0, <1>7 DEF AccountRestore, Covers, BytesRecoverable
  <2> QED
    BY <2>1, <2>2, <2>3, <2>4
<1>8. CASE AccountCancel(h)
  <2>1. lease \in {None, h} /\ \A k \in Handlers \ {h} : pc'[k] = pc[k]
    BY <1>0, <1>l, <1>8 DEF AccountCancel, Cancelling
  <2>2. Shape'
    BY <1>0, <1>8 DEF AccountCancel, Cancelling, Shape
  <2>3. BytesRecoverable'
    BY <1>0, <1>8 DEF AccountCancel, Cancelling, BytesRecoverable, Covers, Shape
  <2>4. Phase(h)'
    BY <1>0, <1>8 DEF AccountCancel, Cancelling, Covers, BytesRecoverable
  <2> QED
    BY <2>1, <2>2, <2>3, <2>4
<1> QED
  BY <1>1, <1>2, <1>3, <1>4, <1>5, <1>6, <1>7, <1>8

\* Recovery drops a journal only when no row needs it.
LEMMA RecoveryCore ==
  ASSUME IInv, NEW i \in Instances, NEW j \in Journals,
         \/ AccountLift(i, j) \/ AccountPurge(i, j) \/ MaterialPurge(i, j)
         \/ \E m \in Materials : AccountUndo(i, j, m) \/ MaterialUndo(i, j, m)
  PROVE  Shape' /\ BytesRecoverable' /\ lease = i /\ pc' = pc
<1> USE DEF SetJournal, NewJournal, NoJournal, OfKind, Shape, BytesRecoverable, Covers
<1>0. /\ journals \in [Journals -> Journal] /\ deletionId \in Journals \cup {None}
      /\ rows \subseteq Materials /\ objs \subseteq Materials
      /\ Shape /\ BytesRecoverable /\ None \notin Journals
      /\ (server[i] \in {"account", "material"} => lease = i)
  BY ConstantsAssumption DEF IInv, TypeOK, LeaseOwned
<1>1. ASSUME NEW m \in Materials, AccountUndo(i, j, m)
      PROVE  Shape' /\ BytesRecoverable' /\ lease = i /\ pc' = pc
  BY <1>0, <1>1 DEF AccountUndo
<1>2. CASE AccountLift(i, j)
  BY <1>0, <1>2 DEF AccountLift, Interrupted
<1>3. CASE AccountPurge(i, j)
  BY <1>0, <1>3 DEF AccountPurge, Interrupted
<1>4. ASSUME NEW m \in Materials, MaterialUndo(i, j, m)
      PROVE  Shape' /\ BytesRecoverable' /\ lease = i /\ pc' = pc
  BY <1>0, <1>4 DEF MaterialUndo
<1>5. CASE MaterialPurge(i, j)
  BY <1>0, <1>5 DEF MaterialPurge, Purgeable, Uncommitted, Restored
<1> QED
  BY <1>1, <1>2, <1>3, <1>4, <1>5

\* Starting, stopping and crashing leave the stores alone and end the crashed requests.
LEMMA InstanceFrame ==
  ASSUME IInv, NEW i \in Instances,
         \/ StartInstance(i) \/ AccountLease(i) \/ AccountRecovered(i) \/ MaterialLease(i)
         \/ MaterialRecovered(i) \/ RecoveryFails(i) \/ Crash(i) \/ StopInstance(i)
         \/ \E j \in Journals : MaterialRefuse(i, j)
  PROVE  /\ UNCHANGED <<rows, objs, journals, deletionId, registered>>
         /\ \A k \in Handlers : \/ pc'[k] \notin Holding
                                \/ /\ pc'[k] = pc[k] /\ sel'[k] = sel[k] /\ todo'[k] = todo[k]
                                   /\ done'[k] = done[k] /\ made'[k] = made[k] /\ jid'[k] = jid[k]
<1>1. CASE Crash(i)
  BY <1>1 DEF Crash, Holding
<1>2. CASE ~Crash(i)
  BY <1>2 DEF StartInstance, AccountLease, AccountRecovered, MaterialLease, MaterialRecovered,
              MaterialRefuse, RecoveryFails, StopInstance
<1> QED
  BY <1>1, <1>2

\* Every step keeps the inductive invariant.
LEMMA InvStep == IInv /\ [Next]_vars => IInv'
<1> SUFFICES ASSUME IInv, [Next]_vars PROVE IInv'
  OBVIOUS
<1>0. TypeOK /\ LeaseOwned /\ Running /\ Shape /\ BytesRecoverable /\ \A h \in Handlers : Phase(h)
  BY DEF IInv
<1> SUFFICES /\ TypeOK' /\ LeaseOwned' /\ Running' /\ Shape' /\ BytesRecoverable'
             /\ \A k \in Handlers : Phase(k)'
  BY DEF IInv
<1>1. ASSUME NEW h \in Handlers, Request(h) \/ Step(h)
      PROVE  /\ TypeOK' /\ LeaseOwned' /\ Running' /\ Shape' /\ BytesRecoverable'
             /\ \A k \in Handlers : Phase(k)'
  <2>1. TypeOK' /\ LeaseOwned' /\ Running'
    <3>1. CASE Request(h)
      BY <1>0, <3>1, RequestType, RequestOwned DEF Request
    <3>2. CASE Step(h)
      BY <1>0, <3>2, UploadType, LinkType, DeleteType, SpaceDeleteType, AccountType,
         UploadOwned, LinkOwned, DeleteOwned, SpaceDeleteOwned, AccountOwned DEF Step
    <3> QED
      BY <1>1, <3>1, <3>2
  <2>2. CASE /\ UNCHANGED <<rows, objs, journals, deletionId>> /\ (registered => registered')
             /\ Others(h) /\ Phase(h)'
    <3>1. Shape' /\ BytesRecoverable'
      BY <2>2, SameLibrary
    <3>2. \A k \in Handlers : Phase(k)'
      BY <1>0, <2>2, SamePhase DEF Others
    <3> QED
      BY <2>1, <3>1, <3>2
  <2>3. CASE /\ Shape' /\ BytesRecoverable' /\ Phase(h)'
             /\ lease \in {None, h} /\ \A k \in Handlers \ {h} : pc'[k] = pc[k]
    <3>1. \A k \in Handlers \ {h} : pc'[k] \notin Holding
      BY <1>0, <2>3, ConstantsAssumption DEF LeaseOwned
    <3>2. \A k \in Handlers : Phase(k)'
      BY <2>3, <3>1, QuietPhase
    <3> QED
      BY <2>1, <2>3, <3>2
  <2>4. CASE Request(h)
    BY <2>2, <2>4, RequestFrame DEF Request
  <2>5. CASE Step(h)
    <3>1. CASE \/ UploadLease(h) \/ UploadReject(h) \/ UploadFails(h) \/ UploadUndone(h)
      BY <2>2, <3>1, UploadFrame
    <3>2. CASE \/ LinkLease(h) \/ LinkReject(h) \/ LinkDone(h) \/ AnalyzeSave(h) \/ AnalyzeReject(h)
               \/ \E m \in Materials : LinkRow(h, m)
      BY <2>2, <3>2, LinkFrame
    <3>3. CASE \/ DeleteBusy(h) \/ DeleteAbort(h) \/ DeleteFails(h)
               \/ \E m \in Materials : DeleteAnalysis(h, m)
      BY <2>2, <3>3, DeleteFrame
    <3>4. CASE \/ SpaceDeleteBusy(h) \/ SpaceDeleteCommit(h) \/ SpaceDeleteUnlink(h)
               \/ SpaceDeleteFails(h) \/ SpaceDeleteRestore(h) \/ SpaceDeleteRestoreFails(h)
      BY <2>2, <3>4, SpaceDeleteFrame
    <3>5. CASE \/ AccountRefused(h) \/ AccountBlobFails(h) \/ AccountStaged(h) \/ AccountFails(h)
               \/ AccountCancelFails(h)
      BY <2>2, <3>5, AccountFrame
    <3>6. CASE \/ UploadCommit(h) \/ \E m \in Materials : UploadPut(h, m) \/ UploadUndo(h, m)
      BY <2>3, <3>6, UploadCore
    <3>7. CASE \/ DeletePrepare(h) \/ DeleteManifest(h) \/ DeleteRows(h) \/ Finish(h)
               \/ FinishLeaves(h)
               \/ \E m \in Materials : \/ DeleteBlob(h, m)   \/ DeleteObject(h, m)
                                       \/ RestoreEntry(h, m) \/ RestoreFails(h, m)
      BY <2>3, <3>7, DeleteCore
    <3>8. CASE \/ SpaceDeletePrepare(h) \/ AccountDeletePrepare(h) \/ AccountFence(h)
               \/ AccountDelete(h) \/ AccountCancel(h)
               \/ \E m \in Materials : AccountBlob(h, m) \/ AccountObject(h, m) \/ AccountRestore(h, m)
      BY <2>3, <3>8, AccountCore
    <3> QED
      BY <2>5, <3>1, <3>2, <3>3, <3>4, <3>5, <3>6, <3>7, <3>8 DEF Step
  <2> QED
    BY <1>1, <2>4, <2>5
<1>2. ASSUME NEW i \in Instances, Recover(i) \/ Crash(i) \/ StopInstance(i)
      PROVE  /\ TypeOK' /\ LeaseOwned' /\ Running' /\ Shape' /\ BytesRecoverable'
             /\ \A k \in Handlers : Phase(k)'
  <2>1. TypeOK' /\ LeaseOwned' /\ Running'
    BY <1>0, <1>2, InstanceType, InstanceOwned DEF Recover
  <2>2. CASE \/ StartInstance(i) \/ AccountLease(i) \/ AccountRecovered(i) \/ MaterialLease(i)
             \/ MaterialRecovered(i) \/ RecoveryFails(i) \/ Crash(i) \/ StopInstance(i)
             \/ \E j \in Journals : MaterialRefuse(i, j)
    <3>1. /\ UNCHANGED <<rows, objs, journals, deletionId, registered>>
          /\ \A k \in Handlers : \/ pc'[k] \notin Holding
                                 \/ /\ pc'[k] = pc[k] /\ sel'[k] = sel[k] /\ todo'[k] = todo[k]
                                    /\ done'[k] = done[k] /\ made'[k] = made[k] /\ jid'[k] = jid[k]
      BY <2>2, InstanceFrame
    <3>2. Shape' /\ BytesRecoverable'
      BY <3>1, SameLibrary
    <3>3. \A k \in Handlers : Phase(k)'
      BY <1>0, <3>1, SamePhase, QuietPhase
    <3> QED
      BY <2>1, <3>2, <3>3
  <2>3. CASE \E j \in Journals : \/ AccountLift(i, j) \/ AccountPurge(i, j) \/ MaterialPurge(i, j)
                                 \/ \E m \in Materials : AccountUndo(i, j, m) \/ MaterialUndo(i, j, m)
    <3>1. Shape' /\ BytesRecoverable' /\ lease = i /\ pc' = pc
      BY <2>3, RecoveryCore
    <3>2. \A k \in Handlers : pc'[k] \notin Holding
      BY <1>0, <3>1, ConstantsAssumption DEF LeaseOwned
    <3> QED
      BY <2>1, <3>1, <3>2, QuietPhase
  <2> QED
    BY <1>2, <2>2, <2>3 DEF Recover
<1>3. CASE UNCHANGED vars
  <2>1. TypeOK'
    BY <1>0, <1>3 DEF vars, TypeOK
  <2>2. LeaseOwned' /\ Running'
    BY <1>0, <1>3 DEF vars, LeaseOwned, Running, Serving
  <2>3. Shape' /\ BytesRecoverable'
    BY <1>3, SameLibrary DEF vars
  <2>4. \A k \in Handlers : Phase(k)'
    BY <1>0, <1>3, SamePhase DEF vars
  <2> QED
    BY <2>1, <2>2, <2>3, <2>4
<1> QED
  BY <1>1, <1>2, <1>3 DEF Next

\* The inductive invariant holds initially.
LEMMA InvInit == Init => IInv
<1> SUFFICES ASSUME Init PROVE IInv
  OBVIOUS
<1>1. TypeOK
  BY InitType
<1>2. \A h \in Handlers : pc[h] = "idle" /\ Phase(h)
  BY DEF Init, Phase, UploadPhase, DeletePhase, SpacePhase, AccountPhase, UnwindPhase, At
<1>3. LeaseOwned /\ Running
  BY ConstantsAssumption DEF Init, LeaseOwned, Running, Holding
<1>4. Shape /\ BytesRecoverable
  BY DEF Init, Shape, BytesRecoverable, NoJournal, NewJournal
<1> QED
  BY <1>1, <1>2, <1>3, <1>4 DEF IInv

\* The inductive invariant always holds.
LEMMA Invariant == Spec => []IInv
BY InvInit, InvStep, PTL DEF Spec

-----------------------------------------------------------------------------
(* The second invariant                                                     *)

\* Only a request that has just been given a journal, and holds the lease, has one.
LEMMA OwningStep ==
  ASSUME IInv, Owning, Next
  PROVE  Owning'
<1> USE DEF Owning, Goto, Return, At, Acquire, Release, Holding, Deleting, Enter
<1>0. pc \in [Handlers -> Points] /\ jid \in [Handlers -> Journals \cup {None}]
  BY DEF IInv, TypeOK
<1>1. ASSUME NEW h \in Handlers, Request(h) PROVE Owning'
  BY <1>0, <1>1 DEF Request, Register, CreateSpace, UploadBegin, LinkBegin, Unlink, DeleteBegin,
              SpaceDeleteBegin, AccountDeleteBegin, AnalyzeBegin
<1>2. ASSUME NEW h \in Handlers, Step(h) PROVE Owning'
  <2>1. CASE \/ UploadLease(h) \/ UploadReject(h) \/ UploadCommit(h) \/ UploadFails(h)
             \/ UploadUndone(h) \/ LinkLease(h) \/ LinkReject(h) \/ LinkDone(h)
             \/ AnalyzeSave(h) \/ AnalyzeReject(h)
    BY <1>0, <2>1 DEF UploadLease, UploadReject, UploadCommit, UploadFails, UploadUndone,
                LinkLease, LinkReject, LinkDone, AnalyzeSave, AnalyzeReject
  <2>2. CASE \/ DeletePrepare(h) \/ DeleteBusy(h) \/ DeleteAbort(h) \/ DeleteManifest(h)
             \/ DeleteRows(h) \/ DeleteFails(h) \/ Finish(h) \/ FinishLeaves(h)
    BY <1>0, <2>2 DEF DeletePrepare, DeleteBusy, DeleteAbort, DeleteManifest, DeleteRows,
                DeleteFails, Finish, FinishLeaves
  <2>3. CASE \/ SpaceDeletePrepare(h) \/ SpaceDeleteBusy(h) \/ SpaceDeleteCommit(h)
             \/ SpaceDeleteUnlink(h) \/ SpaceDeleteFails(h) \/ SpaceDeleteRestore(h)
             \/ SpaceDeleteRestoreFails(h)
    BY <1>0, <2>3 DEF SpaceDeletePrepare, SpaceDeleteBusy, SpaceDeleteCommit, SpaceDeleteUnlink,
                SpaceDeleteFails, SpaceDeleteRestore, SpaceDeleteRestoreFails
  <2>4. CASE \/ AccountDeletePrepare(h) \/ AccountFence(h) \/ AccountRefused(h)
             \/ AccountBlobFails(h) \/ AccountStaged(h) \/ AccountDelete(h)
             \/ AccountFails(h) \/ AccountCancel(h) \/ AccountCancelFails(h)
    BY <1>0, <2>4 DEF AccountDeletePrepare, AccountFence, AccountRefused, AccountBlobFails,
                AccountStaged, AccountDelete, AccountFails, AccountCancel, AccountCancelFails
  <2>5. ASSUME NEW m \in Materials,
               \/ UploadPut(h, m) \/ UploadUndo(h, m) \/ LinkRow(h, m) \/ DeleteBlob(h, m)
               \/ DeleteObject(h, m) \/ DeleteAnalysis(h, m) \/ RestoreEntry(h, m)
               \/ RestoreFails(h, m) \/ AccountBlob(h, m) \/ AccountObject(h, m)
               \/ AccountRestore(h, m)
        PROVE  Owning'
    BY <1>0, <2>5 DEF UploadPut, UploadUndo, LinkRow, DeleteBlob, DeleteObject, DeleteAnalysis,
                RestoreEntry, RestoreFails, AccountBlob, AccountObject, AccountRestore
  <2> QED
    BY <1>2, <2>1, <2>2, <2>3, <2>4, <2>5 DEF Step
<1>3. ASSUME NEW i \in Instances, Recover(i) \/ Crash(i) \/ StopInstance(i) PROVE Owning'
  BY <1>0, <1>3 DEF Recover, StartInstance, AccountLease, AccountRecovered, MaterialLease,
     MaterialRecovered, RecoveryFails, AccountUndo, AccountLift, AccountPurge, MaterialUndo,
     MaterialPurge, MaterialRefuse, Crash, StopInstance
<1> QED
  BY <1>1, <1>2, <1>3 DEF Next

\* Rows only appear under a writable account, and go with it.
LEMMA LivingStep ==
  ASSUME Living, Next
  PROVE  Living'
<1> USE DEF Living, Writable, Enter
<1>0. Living
  OBVIOUS
<1>1. ASSUME NEW h \in Handlers, Request(h) PROVE Living'
  BY <1>0, <1>1 DEF Request, Register, CreateSpace, UploadBegin, LinkBegin, Unlink, DeleteBegin,
              SpaceDeleteBegin, AccountDeleteBegin, AnalyzeBegin
<1>2. ASSUME NEW h \in Handlers, Step(h) PROVE Living'
  <2>1. CASE \/ UploadLease(h) \/ UploadReject(h) \/ UploadCommit(h) \/ UploadFails(h)
             \/ UploadUndone(h) \/ LinkLease(h) \/ LinkReject(h) \/ LinkDone(h)
             \/ AnalyzeSave(h) \/ AnalyzeReject(h)
    BY <1>0, <2>1 DEF UploadLease, UploadReject, UploadCommit, UploadFails, UploadUndone,
                LinkLease, LinkReject, LinkDone, AnalyzeSave, AnalyzeReject
  <2>2. CASE \/ DeletePrepare(h) \/ DeleteBusy(h) \/ DeleteAbort(h) \/ DeleteManifest(h)
             \/ DeleteRows(h) \/ DeleteFails(h) \/ Finish(h) \/ FinishLeaves(h)
    BY <1>0, <2>2 DEF DeletePrepare, DeleteBusy, DeleteAbort, DeleteManifest, DeleteRows,
                DeleteFails, Finish, FinishLeaves
  <2>3. CASE \/ SpaceDeletePrepare(h) \/ SpaceDeleteBusy(h) \/ SpaceDeleteCommit(h)
             \/ SpaceDeleteUnlink(h) \/ SpaceDeleteFails(h) \/ SpaceDeleteRestore(h)
             \/ SpaceDeleteRestoreFails(h)
    BY <1>0, <2>3 DEF SpaceDeletePrepare, SpaceDeleteBusy, SpaceDeleteCommit, SpaceDeleteUnlink,
                SpaceDeleteFails, SpaceDeleteRestore, SpaceDeleteRestoreFails
  <2>4. CASE \/ AccountDeletePrepare(h) \/ AccountFence(h) \/ AccountRefused(h)
             \/ AccountBlobFails(h) \/ AccountStaged(h) \/ AccountDelete(h)
             \/ AccountFails(h) \/ AccountCancel(h) \/ AccountCancelFails(h)
    BY <1>0, <2>4 DEF AccountDeletePrepare, AccountFence, AccountRefused, AccountBlobFails,
                AccountStaged, AccountDelete, AccountFails, AccountCancel, AccountCancelFails
  <2>5. ASSUME NEW m \in Materials,
               \/ UploadPut(h, m) \/ UploadUndo(h, m) \/ LinkRow(h, m) \/ DeleteBlob(h, m)
               \/ DeleteObject(h, m) \/ DeleteAnalysis(h, m) \/ RestoreEntry(h, m)
               \/ RestoreFails(h, m) \/ AccountBlob(h, m) \/ AccountObject(h, m)
               \/ AccountRestore(h, m)
        PROVE  Living'
    BY <1>0, <2>5 DEF UploadPut, UploadUndo, LinkRow, DeleteBlob, DeleteObject, DeleteAnalysis,
                RestoreEntry, RestoreFails, AccountBlob, AccountObject, AccountRestore
  <2> QED
    BY <1>2, <2>1, <2>2, <2>3, <2>4, <2>5 DEF Step
<1>3. ASSUME NEW i \in Instances, Recover(i) \/ Crash(i) \/ StopInstance(i) PROVE Living'
  BY <1>0, <1>3 DEF Recover, StartInstance, AccountLease, AccountRecovered, MaterialLease,
     MaterialRecovered, RecoveryFails, AccountUndo, AccountLift, AccountPurge, MaterialUndo,
     MaterialPurge, MaterialRefuse, Crash, StopInstance
<1> QED
  BY <1>1, <1>2, <1>3 DEF Next

\* No workspace goes away while a link holds the lease.
LEMMA LinkTargetStep ==
  ASSUME IInv, LinkTarget, Next
  PROVE  LinkTarget'
<1> USE DEF Goto, Return, At, Acquire, Release, Enter
<1>0. /\ pc \in [Handlers -> Points] /\ ws \in [Handlers -> Workspaces \cup {None}]
      /\ LeaseOwned
  BY DEF IInv, TypeOK
<1> DEFINE Kept == \A k \in Handlers : pc'[k] = "ln_link" => pc[k] = "ln_link" /\ ws'[k] = ws[k]
<1>k. ASSUME Kept, spaces \subseteq spaces' PROVE LinkTarget'
  BY <1>k DEF LinkTarget
<1>1. ASSUME NEW h \in Handlers, Request(h) PROVE Kept /\ spaces \subseteq spaces'
  BY <1>0, <1>1 DEF Request, Register, CreateSpace, UploadBegin, LinkBegin, Unlink, DeleteBegin,
              SpaceDeleteBegin, AccountDeleteBegin, AnalyzeBegin
<1>2. ASSUME NEW h \in Handlers, Step(h) PROVE LinkTarget'
  <2>1. CASE \/ UploadLease(h) \/ UploadReject(h) \/ UploadCommit(h) \/ UploadFails(h)
             \/ UploadUndone(h) \/ LinkReject(h) \/ LinkDone(h)
             \/ AnalyzeSave(h) \/ AnalyzeReject(h)
    <3> Kept /\ spaces \subseteq spaces'
      BY <1>0, <2>1 DEF UploadLease, UploadReject, UploadCommit, UploadFails, UploadUndone,
                LinkReject, LinkDone, AnalyzeSave, AnalyzeReject
    <3> QED
      BY <1>k
  <2>2. CASE \/ DeletePrepare(h) \/ DeleteBusy(h) \/ DeleteAbort(h) \/ DeleteManifest(h)
             \/ DeleteRows(h) \/ DeleteFails(h) \/ Finish(h) \/ FinishLeaves(h)
    <3> Kept /\ spaces \subseteq spaces'
      BY <1>0, <2>2 DEF DeletePrepare, DeleteBusy, DeleteAbort, DeleteManifest, DeleteRows,
                DeleteFails, Finish, FinishLeaves
    <3> QED
      BY <1>k
  <2>3. CASE \/ SpaceDeletePrepare(h) \/ SpaceDeleteBusy(h)
             \/ SpaceDeleteUnlink(h) \/ SpaceDeleteFails(h) \/ SpaceDeleteRestore(h)
             \/ SpaceDeleteRestoreFails(h)
    <3> Kept /\ spaces \subseteq spaces'
      BY <1>0, <2>3 DEF SpaceDeletePrepare, SpaceDeleteBusy, SpaceDeleteUnlink,
                SpaceDeleteFails, SpaceDeleteRestore, SpaceDeleteRestoreFails
    <3> QED
      BY <1>k
  <2>4. CASE \/ AccountDeletePrepare(h) \/ AccountFence(h) \/ AccountRefused(h)
             \/ AccountBlobFails(h) \/ AccountStaged(h)
             \/ AccountFails(h) \/ AccountCancel(h) \/ AccountCancelFails(h)
    <3> Kept /\ spaces \subseteq spaces'
      BY <1>0, <2>4 DEF AccountDeletePrepare, AccountFence, AccountRefused, AccountBlobFails,
                AccountStaged, AccountFails, AccountCancel, AccountCancelFails
    <3> QED
      BY <1>k
  <2>5. ASSUME NEW m \in Materials,
               \/ UploadPut(h, m) \/ UploadUndo(h, m) \/ LinkRow(h, m) \/ DeleteBlob(h, m)
               \/ DeleteObject(h, m) \/ DeleteAnalysis(h, m) \/ RestoreEntry(h, m)
               \/ RestoreFails(h, m) \/ AccountBlob(h, m) \/ AccountObject(h, m)
               \/ AccountRestore(h, m)
        PROVE  LinkTarget'
    <3> Kept /\ spaces \subseteq spaces'
      BY <1>0, <2>5 DEF UploadPut, UploadUndo, LinkRow, DeleteBlob, DeleteObject, DeleteAnalysis,
                RestoreEntry, RestoreFails, AccountBlob, AccountObject, AccountRestore
    <3> QED
      BY <1>k
  <2>6. CASE LinkLease(h)
    BY <1>0, <2>6 DEF LinkLease, LinkTarget
  <2>7. CASE SpaceDeleteCommit(h) \/ AccountDelete(h)
    <3>1. \A k \in Handlers : pc'[k] # "ln_link"
      BY <1>0, <2>7 DEF SpaceDeleteCommit, AccountDelete, LeaseOwned, Holding
    <3> QED
      BY <3>1 DEF LinkTarget
  <2> QED
    BY <1>2, <2>1, <2>2, <2>3, <2>4, <2>5, <2>6, <2>7 DEF Step
<1>3. ASSUME NEW i \in Instances, Recover(i) \/ Crash(i) \/ StopInstance(i)
      PROVE  Kept /\ spaces \subseteq spaces'
  BY <1>0, <1>3 DEF Recover, StartInstance, AccountLease, AccountRecovered, MaterialLease,
     MaterialRecovered, RecoveryFails, AccountUndo, AccountLift, AccountPurge, MaterialUndo,
     MaterialPurge, MaterialRefuse, Crash, StopInstance
<1> QED
  BY <1>k, <1>1, <1>2, <1>3 DEF Next

\* An analysis is only stored for a material that is listed, and removed before its material.
LEMMA AnalysedStep ==
  ASSUME IInv, Analysed, Next
  PROVE  Analysed'
<1> USE DEF Goto, Return, At, Acquire, Release, Enter
<1>0. /\ pc \in [Handlers -> Points] /\ done \in [Handlers -> SUBSET Materials]
      /\ sel \in [Handlers -> SUBSET Materials] /\ todo \in [Handlers -> SUBSET Materials]
      /\ LeaseOwned /\ Running /\ (\A h \in Handlers : Phase(h)) /\ None \notin Handlers
  BY ConstantsAssumption DEF IInv, TypeOK
<1> DEFINE Kept == /\ rows \subseteq rows' /\ analyses' \subseteq analyses
                   /\ \A k \in Handlers :
                        /\ pc'[k] \in {"del_lease", "del_blob"} => done'[k] = {}
                        /\ pc'[k] = "del_objs" => done'[k] \cap analyses = {}
<1>k. ASSUME Kept PROVE Analysed'
  BY <1>k DEF Analysed
<1>a. \A k \in Handlers : /\ pc[k] \in {"del_lease", "del_blob"} => done[k] = {}
                          /\ pc[k] = "del_objs" => done[k] \cap analyses = {}
  BY DEF Analysed
<1>1. ASSUME NEW h \in Handlers, Request(h) PROVE Kept
  BY <1>0, <1>a, <1>1 DEF Request, Register, CreateSpace, UploadBegin, LinkBegin, Unlink,
       DeleteBegin,
              SpaceDeleteBegin, AccountDeleteBegin, AnalyzeBegin, Running
<1>2. ASSUME NEW h \in Handlers, Step(h) PROVE Analysed'
  <2>1. CASE \/ UploadLease(h) \/ UploadReject(h) \/ UploadCommit(h) \/ UploadFails(h)
             \/ UploadUndone(h) \/ LinkLease(h) \/ LinkReject(h) \/ LinkDone(h)
             \/ AnalyzeReject(h)
    <3> Kept
      BY <1>0, <1>a, <2>1 DEF UploadLease, UploadReject, UploadCommit, UploadFails, UploadUndone,
                LinkLease, LinkReject, LinkDone, AnalyzeReject
    <3> QED
      BY <1>k
  <2>2. CASE \/ DeletePrepare(h) \/ DeleteBusy(h) \/ DeleteAbort(h) \/ DeleteManifest(h)
             \/ DeleteFails(h) \/ Finish(h) \/ FinishLeaves(h)
    <3> Kept
      BY <1>0, <1>a, <2>2 DEF DeletePrepare, DeleteBusy, DeleteAbort, DeleteManifest,
                DeleteFails, Finish, FinishLeaves, Analysed
    <3> QED
      BY <1>k
  <2>3. CASE \/ SpaceDeletePrepare(h) \/ SpaceDeleteBusy(h) \/ SpaceDeleteCommit(h)
             \/ SpaceDeleteUnlink(h) \/ SpaceDeleteFails(h) \/ SpaceDeleteRestore(h)
             \/ SpaceDeleteRestoreFails(h)
    <3> Kept
      BY <1>0, <1>a, <2>3 DEF SpaceDeletePrepare, SpaceDeleteBusy, SpaceDeleteCommit,
         SpaceDeleteUnlink,
                SpaceDeleteFails, SpaceDeleteRestore, SpaceDeleteRestoreFails
    <3> QED
      BY <1>k
  <2>4. CASE \/ AccountDeletePrepare(h) \/ AccountFence(h) \/ AccountRefused(h)
             \/ AccountBlobFails(h) \/ AccountStaged(h)
             \/ AccountFails(h) \/ AccountCancel(h) \/ AccountCancelFails(h)
    <3> Kept
      BY <1>0, <1>a, <2>4 DEF AccountDeletePrepare, AccountFence, AccountRefused, AccountBlobFails,
                AccountStaged, AccountFails, AccountCancel, AccountCancelFails
    <3> QED
      BY <1>k
  <2>5. ASSUME NEW m \in Materials,
               \/ UploadPut(h, m) \/ UploadUndo(h, m) \/ LinkRow(h, m) \/ DeleteBlob(h, m)
               \/ DeleteObject(h, m) \/ RestoreFails(h, m)
               \/ AccountBlob(h, m) \/ AccountObject(h, m) \/ AccountRestore(h, m)
        PROVE  Analysed'
    <3> Kept
      BY <1>0, <1>a, <2>5 DEF UploadPut, UploadUndo, LinkRow, DeleteBlob, DeleteObject,
                RestoreFails, AccountBlob, AccountObject, AccountRestore
    <3> QED
      BY <1>k
  <2>6. CASE AnalyzeSave(h)
    <3>1. \A k \in Handlers : pc'[k] # "del_objs"
      BY <1>0, <1>a, <2>6 DEF AnalyzeSave, LeaseOwned, Holding
    <3> QED
      BY <1>0, <1>a, <2>6, <3>1 DEF AnalyzeSave, Analysed
  <2>7. CASE \E m \in Materials : DeleteAnalysis(h, m)
    BY <1>0, <1>a, <2>7 DEF DeleteAnalysis, Analysed
  <2>8. CASE DeleteRows(h)
    BY <1>0, <1>a, <2>8 DEF DeleteRows, Analysed
  <2>9. CASE \E m \in Materials : RestoreEntry(h, m)
    <3>1. \A k \in Handlers : pc'[k] # "del_objs"
      BY <1>0, <1>a, <2>9 DEF RestoreEntry, LeaseOwned, Holding
    <3>2. todo[h] \subseteq rows
      BY <1>0, <1>a, <2>9 DEF RestoreEntry, Phase, DeletePhase
    <3> QED
      BY <1>0, <1>a, <2>9, <3>1, <3>2 DEF RestoreEntry, Analysed
  <2>10. CASE AccountDelete(h)
    BY <1>0, <1>a, <2>10 DEF AccountDelete, Analysed
  <2> QED
    BY <1>2, <2>1, <2>2, <2>3, <2>4, <2>5, <2>6, <2>7, <2>8, <2>9, <2>10 DEF Step
<1>3. ASSUME NEW i \in Instances, Recover(i) \/ Crash(i) \/ StopInstance(i)
      PROVE  Analysed'
  <2>1. ASSUME NEW j \in Journals, NEW m \in Materials, MaterialUndo(i, j, m) PROVE Analysed'
    <3>1. \A k \in Handlers : pc'[k] # "del_objs"
      BY <1>0, <1>a, <2>1, ConstantsAssumption DEF MaterialUndo, LeaseOwned, Holding
    <3> QED
      BY <1>0, <1>a, <2>1, <3>1 DEF MaterialUndo, Uncommitted, Analysed
  <2>2. CASE ~ \E j \in Journals, m \in Materials : MaterialUndo(i, j, m)
    <3> Kept
      BY <1>0, <1>a, <1>3, <2>2 DEF Recover, StartInstance, AccountLease, AccountRecovered,
         MaterialLease,
       MaterialRecovered, RecoveryFails, AccountUndo, AccountLift, AccountPurge, MaterialPurge,
       MaterialRefuse, Crash, StopInstance
    <3> QED
      BY <1>k
  <2> QED
    BY <2>1, <2>2
<1> QED
  BY <1>k, <1>1, <1>2, <1>3 DEF Next

\* Without a crash or an error so far, and after this step.
Clean == crashes = 0 /\ errors = 0

\* Crashes and errors are never taken back, and a step that stays clean meets no error.
LEMMA CleanBefore ==
  ASSUME IInv, Next, Clean'
  PROVE  Clean /\ ~Error
<1>0. crashes \in Nat /\ errors \in Nat
  BY ConstantsAssumption DEF IInv, TypeOK
<1>1. ~Error
  BY <1>0 DEF Error, Clean
<1>2. crashes' = 0 /\ errors' = 0 /\ (UNCHANGED bounds => Clean)
  BY DEF Clean
<1>3. ASSUME NEW h \in Handlers, Request(h) PROVE UNCHANGED bounds
  BY <1>3 DEF Request, Register, CreateSpace, UploadBegin, LinkBegin, Unlink, DeleteBegin,
              SpaceDeleteBegin, AccountDeleteBegin, AnalyzeBegin
<1>4. ASSUME NEW h \in Handlers, Step(h) PROVE UNCHANGED bounds
  BY <1>1, <1>4 DEF Step, UploadLease, UploadReject, UploadCommit, UploadFails, UploadUndone,
     LinkLease, LinkReject, LinkDone, AnalyzeSave, AnalyzeReject, DeletePrepare, DeleteBusy,
     DeleteAbort, DeleteManifest, DeleteRows, DeleteFails, Finish, FinishLeaves,
     SpaceDeletePrepare, SpaceDeleteBusy, SpaceDeleteCommit, SpaceDeleteUnlink,
     SpaceDeleteFails, SpaceDeleteRestore, SpaceDeleteRestoreFails, AccountDeletePrepare,
     AccountFence, AccountRefused, AccountBlobFails, AccountStaged, AccountDelete,
     AccountFails, AccountCancel, AccountCancelFails, UploadPut, UploadUndo, LinkRow, DeleteBlob,
     DeleteObject, DeleteAnalysis, RestoreEntry, RestoreFails, AccountBlob, AccountObject,
     AccountRestore
<1>5. ASSUME NEW i \in Instances, Recover(i) \/ StopInstance(i) PROVE UNCHANGED bounds
  BY <1>1, <1>5 DEF Recover, StartInstance, AccountLease, AccountRecovered, MaterialLease,
     MaterialRecovered, RecoveryFails, AccountUndo, AccountLift, AccountPurge, MaterialUndo,
     MaterialPurge, MaterialRefuse, StopInstance
<1>6. ASSUME NEW i \in Instances, Crash(i) PROVE FALSE
  BY <1>0, <1>2, <1>6 DEF Crash
<1> QED
  BY <1>1, <1>2, <1>3, <1>4, <1>5, <1>6 DEF Next

\* What the holder of the lease, or nobody, leaves to the others is in balance.
Left(h) == Levels(h)' /\ (lease' \notin Handlers => objs' = rows' /\ deletionId' = None)

\* An upload that fails takes back exactly what it put.
LEMMA UploadLeft ==
  ASSUME IInv, Balanced, Living, Clean, ~Error, NEW h \in Handlers,
         \/ UploadLease(h) \/ UploadReject(h) \/ UploadCommit(h) \/ UploadFails(h)
         \/ UploadUndone(h)
         \/ \E m \in Materials : UploadPut(h, m) \/ UploadUndo(h, m)
  PROVE  Left(h)
<1> USE DEF Goto, Return, SetJournal, Rewrite, NewJournal, NoJournal, Mine, At, Deleting,
            Holding, Fencing, Acquire, Release, Levels, Left, Open, Fresh
<1>0. /\ pc \in [Handlers -> Points] /\ jid \in [Handlers -> Journals \cup {None}]
      /\ sel \in [Handlers -> SUBSET Materials] /\ todo \in [Handlers -> SUBSET Materials]
      /\ done \in [Handlers -> SUBSET Materials] /\ made \in [Handlers -> SUBSET Materials]
      /\ journals \in [Journals -> Journal] /\ deletionId \in Journals \cup {None}
      /\ rows \subseteq Materials /\ objs \subseteq Materials
      /\ (pc[h] \in Deleting => jid[h] \in Journals)
      /\ None \notin Journals /\ None \notin Handlers /\ Host[h] \in Instances \ Handlers
  BY ConstantsAssumption DEF IInv, TypeOK
<1>l. pc[h] \in Holding <=> lease = h
  BY DEF IInv, LeaseOwned
<1>b. Levels(h) /\ (lease \notin Handlers => objs = rows /\ deletionId = None)
  BY DEF Balanced, Clean
<1>p. Phase(h) /\ Running
  BY DEF IInv
<1>1. CASE UploadLease(h)
  BY <1>0, <1>l, <1>b, <1>p, <1>1 DEF UploadLease, Running
<1>2. CASE UploadReject(h)
  BY <1>0, <1>l, <1>b, <1>p, <1>2 DEF UploadReject
<1>3. CASE UploadCommit(h)
  BY <1>0, <1>l, <1>b, <1>p, <1>3 DEF UploadCommit, Phase, UploadPhase
<1>4. CASE UploadFails(h)
  BY <1>0, <1>l, <1>b, <1>p, <1>4 DEF UploadFails
<1>5. CASE UploadUndone(h)
  BY <1>0, <1>l, <1>b, <1>p, <1>5 DEF UploadUndone
<1>6. ASSUME NEW m \in Materials, UploadPut(h, m) PROVE Left(h)
  BY <1>0, <1>l, <1>b, <1>p, <1>6 DEF UploadPut
<1>7. ASSUME NEW m \in Materials, UploadUndo(h, m) PROVE Left(h)
  BY <1>0, <1>l, <1>b, <1>p, <1>7 DEF UploadUndo
<1> QED
  BY <1>1, <1>2, <1>3, <1>4, <1>5, <1>6, <1>7

\* A link or an analysis leaves rows and objects alone.
LEMMA LinkLeft ==
  ASSUME IInv, Balanced, Living, Clean, ~Error, NEW h \in Handlers,
         \/ LinkLease(h) \/ LinkReject(h) \/ LinkDone(h) \/ AnalyzeSave(h) \/ AnalyzeReject(h)
         \/ \E m \in Materials : LinkRow(h, m)
  PROVE  Left(h)
<1> USE DEF Goto, Return, SetJournal, Rewrite, NewJournal, NoJournal, Mine, At, Deleting,
            Holding, Fencing, Acquire, Release, Levels, Left, Open, Fresh
<1>0. /\ pc \in [Handlers -> Points] /\ jid \in [Handlers -> Journals \cup {None}]
      /\ sel \in [Handlers -> SUBSET Materials] /\ todo \in [Handlers -> SUBSET Materials]
      /\ done \in [Handlers -> SUBSET Materials] /\ made \in [Handlers -> SUBSET Materials]
      /\ journals \in [Journals -> Journal] /\ deletionId \in Journals \cup {None}
      /\ rows \subseteq Materials /\ objs \subseteq Materials
      /\ (pc[h] \in Deleting => jid[h] \in Journals)
      /\ None \notin Journals /\ None \notin Handlers /\ Host[h] \in Instances \ Handlers
  BY ConstantsAssumption DEF IInv, TypeOK
<1>l. pc[h] \in Holding <=> lease = h
  BY DEF IInv, LeaseOwned
<1>b. Levels(h) /\ (lease \notin Handlers => objs = rows /\ deletionId = None)
  BY DEF Balanced, Clean
<1>p. Phase(h) /\ Running
  BY DEF IInv
<1>1. CASE LinkLease(h)
  BY <1>0, <1>l, <1>b, <1>p, <1>1 DEF LinkLease
<1>2. CASE LinkReject(h)
  BY <1>0, <1>l, <1>b, <1>p, <1>2 DEF LinkReject
<1>3. CASE LinkDone(h)
  BY <1>0, <1>l, <1>b, <1>p, <1>3 DEF LinkDone
<1>4. CASE AnalyzeSave(h)
  BY <1>0, <1>l, <1>b, <1>p, <1>4 DEF AnalyzeSave
<1>5. CASE AnalyzeReject(h)
  BY <1>0, <1>l, <1>b, <1>p, <1>5 DEF AnalyzeReject
<1>6. ASSUME NEW m \in Materials, LinkRow(h, m) PROVE Left(h)
  BY <1>0, <1>l, <1>b, <1>p, <1>6 DEF LinkRow
<1> QED
  BY <1>1, <1>2, <1>3, <1>4, <1>5, <1>6

\* A bulk delete ends with as many objects as rows.
LEMMA DeleteLeft ==
  ASSUME IInv, Balanced, Living, Clean, ~Error, NEW h \in Handlers,
         \/ DeletePrepare(h) \/ DeleteBusy(h) \/ DeleteAbort(h) \/ DeleteManifest(h)
         \/ DeleteRows(h) \/ DeleteFails(h) \/ Finish(h) \/ FinishLeaves(h)
         \/ \E m \in Materials : \/ DeleteBlob(h, m) \/ DeleteObject(h, m) \/ DeleteAnalysis(h, m)
                                 \/ RestoreEntry(h, m) \/ RestoreFails(h, m)
  PROVE  Left(h)
<1> USE DEF Goto, Return, SetJournal, Rewrite, NewJournal, NoJournal, Mine, At, Deleting,
            Holding, Fencing, Acquire, Release, Levels, Left, Open, Fresh
<1>0. /\ pc \in [Handlers -> Points] /\ jid \in [Handlers -> Journals \cup {None}]
      /\ sel \in [Handlers -> SUBSET Materials] /\ todo \in [Handlers -> SUBSET Materials]
      /\ done \in [Handlers -> SUBSET Materials] /\ made \in [Handlers -> SUBSET Materials]
      /\ journals \in [Journals -> Journal] /\ deletionId \in Journals \cup {None}
      /\ rows \subseteq Materials /\ objs \subseteq Materials
      /\ (pc[h] \in Deleting => jid[h] \in Journals)
      /\ None \notin Journals /\ None \notin Handlers /\ Host[h] \in Instances \ Handlers
  BY ConstantsAssumption DEF IInv, TypeOK
<1>l. pc[h] \in Holding <=> lease = h
  BY DEF IInv, LeaseOwned
<1>b. Levels(h) /\ (lease \notin Handlers => objs = rows /\ deletionId = None)
  BY DEF Balanced, Clean
<1>p. Phase(h) /\ Running
  BY DEF IInv
<1>1. CASE DeletePrepare(h)
  BY <1>0, <1>l, <1>b, <1>p, <1>1 DEF DeletePrepare
<1>2. CASE DeleteBusy(h)
  BY <1>0, <1>l, <1>b, <1>p, <1>2 DEF DeleteBusy
<1>3. CASE DeleteAbort(h)
  BY <1>0, <1>l, <1>b, <1>p, <1>3 DEF DeleteAbort
<1>4. CASE DeleteManifest(h)
  BY <1>0, <1>l, <1>b, <1>p, <1>4 DEF DeleteManifest
<1>5. CASE DeleteRows(h)
  BY <1>0, <1>l, <1>b, <1>p, <1>5 DEF DeleteRows, Phase, DeletePhase
<1>6. CASE DeleteFails(h)
  BY <1>0, <1>l, <1>b, <1>p, <1>6 DEF DeleteFails, Phase, DeletePhase
<1>7. CASE Finish(h)
  BY <1>0, <1>l, <1>b, <1>p, <1>7 DEF Finish, AtEnd
<1>8. CASE FinishLeaves(h)
  BY <1>0, <1>l, <1>b, <1>p, <1>8 DEF FinishLeaves
<1>9. ASSUME NEW m \in Materials, DeleteBlob(h, m) PROVE Left(h)
  BY <1>0, <1>l, <1>b, <1>p, <1>9 DEF DeleteBlob
<1>10. ASSUME NEW m \in Materials, DeleteObject(h, m) PROVE Left(h)
  BY <1>0, <1>l, <1>b, <1>p, <1>10 DEF DeleteObject, Phase, DeletePhase
<1>11. ASSUME NEW m \in Materials, DeleteAnalysis(h, m) PROVE Left(h)
  BY <1>0, <1>l, <1>b, <1>p, <1>11 DEF DeleteAnalysis
<1>12. ASSUME NEW m \in Materials, RestoreEntry(h, m) PROVE Left(h)
  BY <1>0, <1>l, <1>b, <1>p, <1>12 DEF RestoreEntry, Phase, DeletePhase
<1>13. ASSUME NEW m \in Materials, RestoreFails(h, m) PROVE Left(h)
  BY <1>0, <1>l, <1>b, <1>p, <1>13 DEF RestoreFails, Phase, DeletePhase, Living, Writable
<1> QED
  BY <1>1, <1>2, <1>3, <1>4, <1>5, <1>6, <1>7, <1>8, <1>9, <1>10, <1>11, <1>12, <1>13

\* A workspace delete leaves rows and objects alone.
LEMMA SpaceDeleteLeft ==
  ASSUME IInv, Balanced, Living, Clean, ~Error, NEW h \in Handlers,
         \/ SpaceDeletePrepare(h) \/ SpaceDeleteBusy(h) \/ SpaceDeleteCommit(h)
         \/ SpaceDeleteUnlink(h) \/ SpaceDeleteFails(h) \/ SpaceDeleteRestore(h)
         \/ SpaceDeleteRestoreFails(h)
  PROVE  Left(h)
<1> USE DEF Goto, Return, SetJournal, Rewrite, NewJournal, NoJournal, Mine, At, Deleting,
            Holding, Fencing, Acquire, Release, Levels, Left, Open, Fresh
<1>0. /\ pc \in [Handlers -> Points] /\ jid \in [Handlers -> Journals \cup {None}]
      /\ sel \in [Handlers -> SUBSET Materials] /\ todo \in [Handlers -> SUBSET Materials]
      /\ done \in [Handlers -> SUBSET Materials] /\ made \in [Handlers -> SUBSET Materials]
      /\ journals \in [Journals -> Journal] /\ deletionId \in Journals \cup {None}
      /\ rows \subseteq Materials /\ objs \subseteq Materials
      /\ (pc[h] \in Deleting => jid[h] \in Journals)
      /\ None \notin Journals /\ None \notin Handlers /\ Host[h] \in Instances \ Handlers
  BY ConstantsAssumption DEF IInv, TypeOK
<1>l. pc[h] \in Holding <=> lease = h
  BY DEF IInv, LeaseOwned
<1>b. Levels(h) /\ (lease \notin Handlers => objs = rows /\ deletionId = None)
  BY DEF Balanced, Clean
<1>p. Phase(h) /\ Running
  BY DEF IInv
<1>1. CASE SpaceDeletePrepare(h)
  BY <1>0, <1>l, <1>b, <1>p, <1>1 DEF SpaceDeletePrepare
<1>2. CASE SpaceDeleteBusy(h)
  BY <1>0, <1>l, <1>b, <1>p, <1>2 DEF SpaceDeleteBusy
<1>3. CASE SpaceDeleteCommit(h)
  BY <1>0, <1>l, <1>b, <1>p, <1>3 DEF SpaceDeleteCommit
<1>4. CASE SpaceDeleteUnlink(h)
  BY <1>0, <1>l, <1>b, <1>p, <1>4 DEF SpaceDeleteUnlink
<1>5. CASE SpaceDeleteFails(h)
  BY <1>0, <1>l, <1>b, <1>p, <1>5 DEF SpaceDeleteFails
<1>6. CASE SpaceDeleteRestore(h)
  BY <1>0, <1>l, <1>b, <1>p, <1>6 DEF SpaceDeleteRestore
<1>7. CASE SpaceDeleteRestoreFails(h)
  BY <1>0, <1>l, <1>b, <1>p, <1>7 DEF SpaceDeleteRestoreFails
<1> QED
  BY <1>1, <1>2, <1>3, <1>4, <1>5, <1>6, <1>7

\* An account delete ends without rows and without objects.
LEMMA AccountLeft ==
  ASSUME IInv, Balanced, Living, Clean, ~Error, NEW h \in Handlers,
         \/ AccountDeletePrepare(h) \/ AccountFence(h) \/ AccountRefused(h) \/ AccountBlobFails(h)
         \/ AccountStaged(h) \/ AccountDelete(h) \/ AccountFails(h) \/ AccountCancel(h)
         \/ AccountCancelFails(h)
         \/ \E m \in Materials : AccountBlob(h, m) \/ AccountObject(h, m) \/ AccountRestore(h, m)
  PROVE  Left(h)
<1> USE DEF Goto, Return, SetJournal, Rewrite, NewJournal, NoJournal, Mine, At, Deleting,
            Holding, Fencing, Acquire, Release, Levels, Left, Open, Fresh
<1>0. /\ pc \in [Handlers -> Points] /\ jid \in [Handlers -> Journals \cup {None}]
      /\ sel \in [Handlers -> SUBSET Materials] /\ todo \in [Handlers -> SUBSET Materials]
      /\ done \in [Handlers -> SUBSET Materials] /\ made \in [Handlers -> SUBSET Materials]
      /\ journals \in [Journals -> Journal] /\ deletionId \in Journals \cup {None}
      /\ rows \subseteq Materials /\ objs \subseteq Materials
      /\ (pc[h] \in Deleting => jid[h] \in Journals)
      /\ None \notin Journals /\ None \notin Handlers /\ Host[h] \in Instances \ Handlers
  BY ConstantsAssumption DEF IInv, TypeOK
<1>l. pc[h] \in Holding <=> lease = h
  BY DEF IInv, LeaseOwned
<1>b. Levels(h) /\ (lease \notin Handlers => objs = rows /\ deletionId = None)
  BY DEF Balanced, Clean
<1>p. Phase(h) /\ Running
  BY DEF IInv
<1>1. CASE AccountDeletePrepare(h)
  BY <1>0, <1>l, <1>b, <1>p, <1>1 DEF AccountDeletePrepare
<1>2. CASE AccountFence(h)
  BY <1>0, <1>l, <1>b, <1>p, <1>2 DEF AccountFence, Phase, AccountPhase
<1>3. CASE AccountRefused(h)
  BY <1>0, <1>l, <1>b, <1>p, <1>3 DEF AccountRefused
<1>4. CASE AccountBlobFails(h)
  BY <1>0, <1>l, <1>b, <1>p, <1>4 DEF AccountBlobFails
<1>5. CASE AccountStaged(h)
  BY <1>0, <1>l, <1>b, <1>p, <1>5 DEF AccountStaged
<1>6. CASE AccountDelete(h)
  BY <1>0, <1>l, <1>b, <1>p, <1>6 DEF AccountDelete
<1>7. CASE AccountFails(h)
  BY <1>0, <1>l, <1>b, <1>p, <1>7 DEF AccountFails
<1>8. CASE AccountCancel(h)
  BY <1>0, <1>l, <1>b, <1>p, <1>8 DEF AccountCancel, Cancelling, Phase, AccountPhase
<1>9. CASE AccountCancelFails(h)
  BY <1>0, <1>l, <1>b, <1>p, <1>9 DEF AccountCancelFails
<1>10. ASSUME NEW m \in Materials, AccountBlob(h, m) PROVE Left(h)
  BY <1>0, <1>l, <1>b, <1>p, <1>10 DEF AccountBlob
<1>11. ASSUME NEW m \in Materials, AccountObject(h, m) PROVE Left(h)
  BY <1>0, <1>l, <1>b, <1>p, <1>11 DEF AccountObject
<1>12. ASSUME NEW m \in Materials, AccountRestore(h, m) PROVE Left(h)
  BY <1>0, <1>l, <1>b, <1>p, <1>12 DEF AccountRestore
<1> QED
  BY <1>1, <1>2, <1>3, <1>4, <1>5, <1>6, <1>7, <1>8, <1>9, <1>10, <1>11, <1>12

\* A new request leaves the balance alone.
LEMMA RequestLeft ==
  ASSUME IInv, Balanced, Clean, NEW h \in Handlers, Request(h)
  PROVE  Left(h)
<1> USE DEF Goto, At, Enter, Levels, Left, Holding
<1>0. /\ pc \in [Handlers -> Points]
      /\ pc[h] \in Holding <=> lease = h
      /\ lease \notin Handlers => objs = rows /\ deletionId = None
  BY DEF IInv, TypeOK, LeaseOwned, Balanced, Clean
<1>1. lease' = lease /\ objs' = objs /\ rows' = rows /\ deletionId' = deletionId
  BY DEF Request, Register, CreateSpace, UploadBegin, LinkBegin, Unlink, DeleteBegin,
         SpaceDeleteBegin, AccountDeleteBegin, AnalyzeBegin
<1>2. pc'[h] \notin Holding
  BY <1>0 DEF Request, Register, CreateSpace, UploadBegin, LinkBegin, Unlink, DeleteBegin,
         SpaceDeleteBegin, AccountDeleteBegin, AnalyzeBegin
<1> QED
  BY <1>0, <1>1, <1>2

\* Start-up recovery finds nothing to put back where nothing ever failed.
LEMMA InstanceBalanced ==
  ASSUME IInv, Balanced, Clean, ~Error, Clean', NEW i \in Instances,
         Recover(i) \/ Crash(i) \/ StopInstance(i)
  PROVE  Balanced'
<1>0. /\ crashes \in Nat /\ None \notin Journals /\ None \notin Handlers
      /\ i \notin Handlers
      /\ LeaseOwned /\ rows \subseteq Materials /\ objs \subseteq Materials
      /\ \A k \in Handlers : Levels(k)
      /\ lease \notin Handlers => objs = rows /\ deletionId = None
  BY ConstantsAssumption DEF IInv, TypeOK, Balanced, Clean
<1>1. ~Crash(i)
  BY <1>0 DEF Crash, Clean
<1>2. CASE \/ StartInstance(i) \/ AccountLease(i) \/ AccountRecovered(i) \/ MaterialLease(i)
           \/ MaterialRecovered(i) \/ RecoveryFails(i) \/ StopInstance(i)
           \/ \E j \in Journals : MaterialRefuse(i, j)
  <2>1. /\ UNCHANGED <<rows, objs, deletionId, journals, pc, sel, todo, done, made, jid>>
    BY <1>2 DEF StartInstance, AccountLease, AccountRecovered, MaterialLease,
       MaterialRecovered, RecoveryFails, MaterialRefuse, StopInstance
  <2>2. \A k \in Handlers : Levels(k)'
    BY <1>0, <2>1 DEF Levels, At, Mine
  <2>3. lease' = lease \/ lease \notin Handlers
    BY <1>0, <1>2 DEF StartInstance, AccountLease, AccountRecovered, MaterialLease,
       MaterialRecovered, RecoveryFails, MaterialRefuse, StopInstance, LeaseOwned
  <2> QED
    BY <1>0, <2>1, <2>2, <2>3 DEF Balanced
<1>3. CASE \E j \in Journals : \/ AccountLift(i, j) \/ AccountPurge(i, j) \/ MaterialPurge(i, j)
                               \/ \E m \in Materials : AccountUndo(i, j, m) \/ MaterialUndo(i, j, m)
  <2>1. lease = i /\ pc' = pc
    BY <1>3, RecoveryCore
  <2>2. \A k \in Handlers : pc'[k] \notin Holding
    BY <1>0, <2>1 DEF LeaseOwned
  <2>3. objs = rows /\ deletionId = None
    BY <1>0, <2>1
  <2>4. objs' = rows' /\ deletionId' = None
    BY <1>0, <1>3, <2>3 DEF AccountLift, AccountPurge, MaterialPurge, AccountUndo, MaterialUndo,
       Interrupted, Uncommitted
  <2>5. \A k \in Handlers : Levels(k)'
    BY <2>2 DEF Levels, At, Holding
  <2> QED
    BY <2>4, <2>5 DEF Balanced
<1> QED
  BY <1>1, <1>2, <1>3 DEF Recover

\* Every step keeps rows and objects in balance while nothing has failed.
LEMMA BalancedStep ==
  ASSUME IInv, Balanced, Living, Next
  PROVE  Balanced'
<1> SUFFICES ASSUME Clean' PROVE Balanced'
  BY DEF Balanced, Clean
<1>0. Clean /\ ~Error
  BY CleanBefore
<1>1. ASSUME NEW h \in Handlers, Request(h) \/ Step(h) PROVE Balanced'
  <2>1. Left(h)
    <3>1. CASE Request(h)
      BY <1>0, <3>1, RequestLeft
    <3>2. CASE Step(h)
      BY <1>0, <3>2, UploadLeft, LinkLeft, DeleteLeft, SpaceDeleteLeft, AccountLeft DEF Step
    <3> QED
      BY <1>1, <3>1, <3>2
  <2>2. CASE UNCHANGED <<rows, objs, journals, deletionId>> /\ Others(h)
    <3>1. \A k \in Handlers \ {h} : Levels(k)'
      BY <1>0, <2>2 DEF Others, Levels, At, Mine, Balanced, Clean
    <3> QED
      BY <2>1, <3>1 DEF Left, Balanced
  <2>3. CASE lease \in {None, h} /\ \A k \in Handlers \ {h} : pc'[k] = pc[k]
    <3>1. \A k \in Handlers \ {h} : pc'[k] \notin Holding
      BY <2>3, ConstantsAssumption DEF IInv, LeaseOwned
    <3>2. \A k \in Handlers \ {h} : Levels(k)'
      BY <3>1 DEF Levels, At, Holding
    <3> QED
      BY <2>1, <3>2 DEF Left, Balanced
  <2>4. CASE Request(h)
    BY <2>2, <2>4, RequestFrame DEF Request
  <2>5. CASE Step(h)
    <3>1. \/ UNCHANGED <<rows, objs, journals, deletionId>> /\ Others(h)
          \/ lease \in {None, h} /\ \A k \in Handlers \ {h} : pc'[k] = pc[k]
      BY <2>5, UploadFrame, LinkFrame, DeleteFrame, SpaceDeleteFrame, AccountFrame,
         UploadCore, DeleteCore, AccountCore DEF Step
    <3> QED
      BY <2>2, <2>3, <3>1
  <2> QED
    BY <1>1, <2>4, <2>5
<1>2. ASSUME NEW i \in Instances, Recover(i) \/ Crash(i) \/ StopInstance(i) PROVE Balanced'
  BY <1>0, <1>2, InstanceBalanced
<1> QED
  BY <1>1, <1>2 DEF Next

\* What Unexposed says only depends on these.
LEMMA SameUnexposed ==
  ASSUME IInv, Unexposed, UNCHANGED <<rows, journals, deletionId>>,
         \A j \in Instances : server'[j] # "refused",
         (\E j \in Instances : Serving(j)') => \E j \in Instances : Serving(j),
         \A k \in Handlers : /\ jid'[k] = jid[k]
                             /\ pc'[k] \in Deleting \ Fencing => pc[k] \in Deleting \ Fencing
                             /\ pc'[k] = "del_blob" => /\ pc[k] = "del_blob"
                                                       /\ sel'[k] = sel[k] /\ todo'[k] = todo[k]
  PROVE  Unexposed'
BY DEF Unexposed, Complete, Abandoned, Open, At, Mine

\* While nothing is exposed, the handler at work is the only one with a journal.
LEMMA AloneWithJournal ==
  ASSUME IInv, Owning, Unexposed, NEW h \in Handlers, pc[h] # "idle", lease \in {None, h}
  PROVE  /\ \A j \in Journals : Open(j) => jid[h] = j
         /\ \A k \in Handlers \ {h} : pc[k] \notin Deleting /\ jid[k] = None
<1>1. \A k \in Handlers \ {h} : pc[k] \notin Deleting /\ jid[k] = None
  BY ConstantsAssumption DEF IInv, LeaseOwned, Owning, Deleting
<1>2. Host[h] \in Instances /\ Serving(Host[h])
  BY ConstantsAssumption DEF IInv, Running
<1>3. ~Abandoned
  BY <1>2 DEF Unexposed
<1>4. \A j \in Journals : Open(j) => jid[h] = j
  BY <1>1, <1>3, ConstantsAssumption DEF Abandoned
<1> QED
  BY <1>1, <1>4

\* It is enough to look at that one journal after the step.
LEMMA SoloUnexposed ==
  ASSUME Unexposed, NEW h \in Handlers, server' = server,
         \A j \in Journals : journals'[j].kind # "none" => jid'[h] = j /\ Complete(j)',
         deletionId' # None => /\ journals'[deletionId'].kind = "account"
                               /\ journals'[deletionId'].manifest,
         \A k \in Handlers \ {h} : pc'[k] \notin Deleting,
         pc'[h] \in Deleting \ Fencing => deletionId' # jid'[h],
         pc'[h] = "del_blob" => Mine(h)'.notes \subseteq sel'[h] \ todo'[h]
  PROVE  Unexposed'
<1>1. (\A i \in Instances : server[i] # "refused")'
  BY DEF Unexposed
<1>2. ~Abandoned'
  BY DEF Abandoned, Open
<1>3. (\A j, k \in Journals : Open(j) /\ Open(k) => j = k)'
  BY DEF Open
<1>4. (\A j \in Journals : Complete(j))'
  BY DEF Complete
<1>5. \A k \in Handlers : /\ pc'[k] \in Deleting \ Fencing => deletionId' # jid'[k]
                          /\ pc'[k] = "del_blob" => Mine(k)'.notes \subseteq sel'[k] \ todo'[k]
  BY DEF Deleting, Holding
<1> QED
  BY <1>1, <1>2, <1>3, <1>4, <1>5 DEF Unexposed, At

\* Steps without a journal of their own.
LEMMA RequestUnexposed ==
  ASSUME IInv, Unexposed, NEW h \in Handlers, Request(h)
  PROVE  Unexposed'
<1>0. /\ pc \in [Handlers -> Points] /\ jid \in [Handlers -> Journals \cup {None}]
      /\ sel \in [Handlers -> SUBSET Materials] /\ todo \in [Handlers -> SUBSET Materials]
  BY DEF IInv, TypeOK
<1>1. UNCHANGED <<rows, journals, deletionId, server, jid>>
  BY DEF Request, Register, CreateSpace, UploadBegin, LinkBegin, Unlink, DeleteBegin,
         SpaceDeleteBegin, AccountDeleteBegin, AnalyzeBegin
<1>2. \A k \in Handlers : \/ pc'[k] \notin Deleting
                          \/ pc'[k] = pc[k] /\ sel'[k] = sel[k] /\ todo'[k] = todo[k]
  BY <1>0 DEF Request, Register, CreateSpace, UploadBegin, LinkBegin, Unlink, DeleteBegin,
         SpaceDeleteBegin, AccountDeleteBegin, AnalyzeBegin, Goto, Deleting, Holding, Enter, At
<1> QED
  BY <1>1, <1>2, SameUnexposed DEF Unexposed, Serving, Deleting, Holding

\* An upload works without a journal.
LEMMA UploadUnexposed ==
  ASSUME IInv, Owning, Unexposed, NEW h \in Handlers,
         \/ UploadLease(h) \/ UploadReject(h) \/ UploadFails(h) \/ UploadUndone(h)
         \/ \E m \in Materials : UploadPut(h, m) \/ UploadUndo(h, m)
  PROVE  Unexposed'
<1>0. /\ pc \in [Handlers -> Points] /\ jid \in [Handlers -> Journals \cup {None}]
      /\ sel \in [Handlers -> SUBSET Materials] /\ todo \in [Handlers -> SUBSET Materials]
      /\ \A k \in Handlers : jid[k] # None => pc[k] \in Deleting
  BY DEF IInv, TypeOK, Owning
<1>1. UNCHANGED <<rows, journals, deletionId, server>>
  BY DEF UploadLease, UploadReject, UploadFails, UploadUndone, UploadPut, UploadUndo
<1>2. \A k \in Handlers : /\ jid'[k] = jid[k]
                          /\ pc'[k] \in Deleting \ Fencing => pc[k] \in Deleting \ Fencing
                          /\ pc'[k] = "del_blob" => /\ pc[k] = "del_blob"
                                                    /\ sel'[k] = sel[k] /\ todo'[k] = todo[k]
  BY <1>0 DEF UploadLease, UploadReject, UploadFails, UploadUndone, UploadPut, UploadUndo, Goto,
         Return, Deleting, Holding, Fencing, At
<1> QED
  BY <1>1, <1>2, SameUnexposed DEF Unexposed, Serving

\* So do a link and an analysis.
LEMMA LinkUnexposed ==
  ASSUME IInv, Owning, Unexposed, NEW h \in Handlers,
         \/ LinkLease(h) \/ LinkReject(h) \/ LinkDone(h) \/ AnalyzeSave(h) \/ AnalyzeReject(h)
         \/ \E m \in Materials : LinkRow(h, m)
  PROVE  Unexposed'
<1>0. /\ pc \in [Handlers -> Points] /\ jid \in [Handlers -> Journals \cup {None}]
      /\ sel \in [Handlers -> SUBSET Materials] /\ todo \in [Handlers -> SUBSET Materials]
      /\ \A k \in Handlers : jid[k] # None => pc[k] \in Deleting
  BY DEF IInv, TypeOK, Owning
<1>1. UNCHANGED <<rows, journals, deletionId, server>>
  BY DEF LinkLease, LinkReject, LinkDone, AnalyzeSave, AnalyzeReject, LinkRow
<1>2. \A k \in Handlers : /\ jid'[k] = jid[k]
                          /\ pc'[k] \in Deleting \ Fencing => pc[k] \in Deleting \ Fencing
                          /\ pc'[k] = "del_blob" => /\ pc[k] = "del_blob"
                                                    /\ sel'[k] = sel[k] /\ todo'[k] = todo[k]
  BY <1>0 DEF LinkLease, LinkReject, LinkDone, AnalyzeSave, AnalyzeReject, LinkRow, Goto, Return,
         Deleting, Holding, Fencing, At
<1> QED
  BY <1>1, <1>2, SameUnexposed DEF Unexposed, Serving

\* Object and analysis calls of a bulk delete leave its journal alone.
LEMMA DeleteUnexposed ==
  ASSUME IInv, Owning, Unexposed, NEW h \in Handlers,
         \/ DeleteBusy(h) \/ DeleteAbort(h) \/ DeleteFails(h)
         \/ \E m \in Materials : DeleteObject(h, m) \/ DeleteAnalysis(h, m) \/ RestoreEntry(h, m)
  PROVE  Unexposed'
<1>0. /\ pc \in [Handlers -> Points] /\ jid \in [Handlers -> Journals \cup {None}]
      /\ sel \in [Handlers -> SUBSET Materials] /\ todo \in [Handlers -> SUBSET Materials]
      /\ \A k \in Handlers : jid[k] # None => pc[k] \in Deleting
  BY DEF IInv, TypeOK, Owning
<1>1. UNCHANGED <<rows, journals, deletionId, server>>
  BY DEF DeleteBusy, DeleteAbort, DeleteFails, DeleteObject, DeleteAnalysis, RestoreEntry
<1>2. \A k \in Handlers : /\ jid'[k] = jid[k]
                          /\ pc'[k] \in Deleting \ Fencing => pc[k] \in Deleting \ Fencing
                          /\ pc'[k] = "del_blob" => /\ pc[k] = "del_blob"
                                                    /\ sel'[k] = sel[k] /\ todo'[k] = todo[k]
  BY <1>0 DEF DeleteBusy, DeleteAbort, DeleteFails, DeleteObject, DeleteAnalysis, RestoreEntry,
         Goto, Return, Deleting, Holding, Fencing, At
<1> QED
  BY <1>1, <1>2, SameUnexposed DEF Unexposed, Serving

\* So do those of a workspace delete.
LEMMA SpaceDeleteUnexposed ==
  ASSUME IInv, Owning, Unexposed, NEW h \in Handlers,
         \/ SpaceDeleteBusy(h) \/ SpaceDeleteCommit(h) \/ SpaceDeleteUnlink(h)
         \/ SpaceDeleteFails(h) \/ SpaceDeleteRestore(h)
  PROVE  Unexposed'
<1>0. /\ pc \in [Handlers -> Points] /\ jid \in [Handlers -> Journals \cup {None}]
      /\ sel \in [Handlers -> SUBSET Materials] /\ todo \in [Handlers -> SUBSET Materials]
      /\ \A k \in Handlers : jid[k] # None => pc[k] \in Deleting
  BY DEF IInv, TypeOK, Owning
<1>1. UNCHANGED <<rows, journals, deletionId, server>>
  BY DEF SpaceDeleteBusy, SpaceDeleteCommit, SpaceDeleteUnlink, SpaceDeleteFails,
         SpaceDeleteRestore
<1>2. \A k \in Handlers : /\ jid'[k] = jid[k]
                          /\ pc'[k] \in Deleting \ Fencing => pc[k] \in Deleting \ Fencing
                          /\ pc'[k] = "del_blob" => /\ pc[k] = "del_blob"
                                                    /\ sel'[k] = sel[k] /\ todo'[k] = todo[k]
  BY <1>0 DEF SpaceDeleteBusy, SpaceDeleteCommit, SpaceDeleteUnlink, SpaceDeleteFails,
         SpaceDeleteRestore, Goto, Return, Deleting, Holding, Fencing, At
<1> QED
  BY <1>1, <1>2, SameUnexposed DEF Unexposed, Serving

\* And those of an account delete.
LEMMA AccountUnexposed ==
  ASSUME IInv, Owning, Unexposed, NEW h \in Handlers,
         \/ AccountRefused(h) \/ AccountBlobFails(h) \/ AccountStaged(h) \/ AccountFails(h)
         \/ \E m \in Materials : AccountObject(h, m) \/ AccountRestore(h, m)
  PROVE  Unexposed'
<1>0. /\ pc \in [Handlers -> Points] /\ jid \in [Handlers -> Journals \cup {None}]
      /\ sel \in [Handlers -> SUBSET Materials] /\ todo \in [Handlers -> SUBSET Materials]
      /\ \A k \in Handlers : jid[k] # None => pc[k] \in Deleting
  BY DEF IInv, TypeOK, Owning
<1>1. UNCHANGED <<rows, journals, deletionId, server>>
  BY DEF AccountRefused, AccountBlobFails, AccountStaged, AccountFails, AccountObject,
         AccountRestore
<1>2. \A k \in Handlers : /\ jid'[k] = jid[k]
                          /\ pc'[k] \in Deleting \ Fencing => pc[k] \in Deleting \ Fencing
                          /\ pc'[k] = "del_blob" => /\ pc[k] = "del_blob"
                                                    /\ sel'[k] = sel[k] /\ todo'[k] = todo[k]
  BY <1>0 DEF AccountRefused, AccountBlobFails, AccountStaged, AccountFails, AccountObject,
         AccountRestore, Goto, Return, Deleting, Holding, Fencing, At
<1> QED
  BY <1>1, <1>2, SameUnexposed DEF Unexposed, Serving

\* The steps that write, complete or drop a journal, or change the rows behind it.
LEMMA CoreUnexposed ==
  ASSUME IInv, Owning, Unexposed, NEW h \in Handlers,
         \/ UploadCommit(h) \/ DeletePrepare(h) \/ DeleteManifest(h) \/ DeleteRows(h) \/ Finish(h)
         \/ SpaceDeletePrepare(h) \/ AccountDeletePrepare(h) \/ AccountFence(h)
         \/ AccountDelete(h) \/ AccountCancel(h)
         \/ \E m \in Materials : DeleteBlob(h, m) \/ AccountBlob(h, m)
  PROVE  Unexposed'
<1> USE DEF Goto, Return, SetJournal, Rewrite, NewJournal, NoJournal, Mine, At, Deleting,
            Holding, Fencing, Acquire, Release, Open, Fresh
<1>0. /\ pc \in [Handlers -> Points] /\ jid \in [Handlers -> Journals \cup {None}]
      /\ sel \in [Handlers -> SUBSET Materials] /\ todo \in [Handlers -> SUBSET Materials]
      /\ journals \in [Journals -> Journal] /\ deletionId \in Journals \cup {None}
      /\ (pc[h] \in Deleting => jid[h] \in Journals)
      /\ (pc[h] \notin Deleting => jid[h] = None)
      /\ None \notin Journals /\ None \notin Handlers
  BY ConstantsAssumption DEF IInv, TypeOK, Owning
<1>l. /\ pc[h] # "idle" /\ lease \in {None, h}
      /\ \A k \in Handlers \ {h} : pc'[k] = pc[k]
      /\ server' = server
  <2>1. pc[h] \in Holding => lease = h
    BY DEF IInv, LeaseOwned
  <2> QED
    BY <1>0, <2>1 DEF UploadCommit, DeletePrepare, DeleteManifest, DeleteRows, Finish, AtEnd,
       SpaceDeletePrepare, AccountDeletePrepare, AccountFence, AccountDelete, AccountCancel,
       Cancelling, DeleteBlob, AccountBlob
<1>j. /\ \A j \in Journals : Open(j) => jid[h] = j
      /\ \A k \in Handlers \ {h} : pc[k] \notin Deleting /\ jid[k] = None
  <2> HIDE DEF Open, Deleting
  <2> QED
    BY <1>l, AloneWithJournal
<1>u. /\ \A j \in Journals : Complete(j)
      /\ deletionId # None => journals[deletionId].kind = "account" /\ journals[deletionId].manifest
      /\ pc[h] \in Deleting \ Fencing => deletionId # jid[h]
      /\ pc[h] = "del_blob" => Mine(h).notes \subseteq sel[h] \ todo[h]
  BY DEF Unexposed
<1>p. Phase(h)
  BY DEF IInv
<1> DEFINE Solo ==
      /\ \A j \in Journals : journals'[j].kind # "none" => jid'[h] = j /\ Complete(j)'
      /\ deletionId' # None => /\ journals'[deletionId'].kind = "account"
                               /\ journals'[deletionId'].manifest
      /\ pc'[h] \in Deleting \ Fencing => deletionId' # jid'[h]
      /\ pc'[h] = "del_blob" => Mine(h)'.notes \subseteq sel'[h] \ todo'[h]
<1>s. ASSUME Solo PROVE Unexposed'
  <2>1. \A k \in Handlers \ {h} : pc'[k] \notin Deleting
    BY <1>l, <1>j
  <2> QED
    BY <1>s, <1>l, <2>1, SoloUnexposed
<1>1. ASSUME UploadCommit(h) PROVE Solo
  BY <1>0, <1>j, <1>u, <1>p, <1>1 DEF UploadCommit, Complete, Journal
<1>2. ASSUME DeletePrepare(h) PROVE Solo
  BY <1>0, <1>j, <1>u, <1>p, <1>2 DEF DeletePrepare, Complete, Journal
<1>3. ASSUME DeleteManifest(h) PROVE Solo
  BY <1>0, <1>j, <1>u, <1>p, <1>3 DEF DeleteManifest, Phase, DeletePhase, Complete, Journal
<1>4. ASSUME DeleteRows(h) PROVE Solo
  BY <1>0, <1>j, <1>u, <1>p, <1>4 DEF DeleteRows, Phase, DeletePhase, Complete, Journal
<1>5. ASSUME Finish(h) PROVE Solo
  BY <1>0, <1>j, <1>u, <1>p, <1>5 DEF Finish, AtEnd, Phase, Complete, Journal
<1>6. ASSUME SpaceDeletePrepare(h) PROVE Solo
  BY <1>0, <1>j, <1>u, <1>p, <1>6 DEF SpaceDeletePrepare, Complete, Journal
<1>7. ASSUME AccountDeletePrepare(h) PROVE Solo
  BY <1>0, <1>j, <1>u, <1>p, <1>7 DEF AccountDeletePrepare, Complete, Journal
<1>8. ASSUME AccountFence(h) PROVE Solo
  BY <1>0, <1>j, <1>u, <1>p, <1>8 DEF AccountFence, Phase, AccountPhase, Complete, Journal
<1>9. ASSUME AccountDelete(h) PROVE Solo
  BY <1>0, <1>j, <1>u, <1>p, <1>9 DEF AccountDelete, Phase, AccountPhase, Complete, Journal
<1>10. ASSUME AccountCancel(h) PROVE Solo
  BY <1>0, <1>j, <1>u, <1>p, <1>10 DEF AccountCancel, Cancelling, Phase, AccountPhase, Complete,
     Journal
<1>11. ASSUME NEW m \in Materials, DeleteBlob(h, m) PROVE Solo
  BY <1>0, <1>j, <1>u, <1>p, <1>11 DEF DeleteBlob, Phase, DeletePhase, Complete, Journal
<1>12. ASSUME NEW m \in Materials, AccountBlob(h, m) PROVE Solo
  BY <1>0, <1>j, <1>u, <1>p, <1>12 DEF AccountBlob, Phase, AccountPhase, Complete, Journal
<1> QED
  BY <1>s, <1>1, <1>2, <1>3, <1>4, <1>5, <1>6, <1>7, <1>8, <1>9, <1>10, <1>11, <1>12

\* A compensation that fails is what exposes a journal.
LEMMA ExposingStep ==
  ASSUME IInv, Owning, Unexposed, NEW h \in Handlers, ~exposed',
         \/ FinishLeaves(h) \/ SpaceDeleteRestoreFails(h) \/ AccountCancelFails(h)
         \/ \E m \in Materials : RestoreFails(h, m)
  PROVE  Unexposed'
<1>0. /\ pc \in [Handlers -> Points] /\ jid \in [Handlers -> Journals \cup {None}]
      /\ sel \in [Handlers -> SUBSET Materials] /\ todo \in [Handlers -> SUBSET Materials]
      /\ \A k \in Handlers : jid[k] # None => pc[k] \in Deleting
  BY DEF IInv, TypeOK, Owning
<1>1. SpaceDeleteRestoreFails(h) /\ At(h, "wd_restore")
  BY DEF FinishLeaves, SpaceDeleteRestoreFails, AccountCancelFails, RestoreFails, At
<1>2. UNCHANGED <<rows, journals, deletionId, server>>
  BY <1>1 DEF SpaceDeleteRestoreFails
<1>3. \A k \in Handlers : /\ jid'[k] = jid[k]
                          /\ pc'[k] \in Deleting \ Fencing => pc[k] \in Deleting \ Fencing
                          /\ pc'[k] = "del_blob" => /\ pc[k] = "del_blob"
                                                    /\ sel'[k] = sel[k] /\ todo'[k] = todo[k]
  BY <1>0, <1>1 DEF SpaceDeleteRestoreFails, Return, Goto, At, Deleting, Holding, Fencing
<1> QED
  BY <1>2, <1>3, SameUnexposed DEF Unexposed, Serving

\* A start that is not exposed resolves the one journal there may be, and never refuses.
LEMMA InstanceUnexposed ==
  ASSUME IInv, Owning, Living, Unexposed, NEW i \in Instances, ~exposed',
         Recover(i) \/ Crash(i) \/ StopInstance(i)
  PROVE  Unexposed'
<1> USE DEF Stage, SetJournal, Serving
<1>0. /\ pc \in [Handlers -> Points] /\ jid \in [Handlers -> Journals \cup {None}]
      /\ sel \in [Handlers -> SUBSET Materials] /\ todo \in [Handlers -> SUBSET Materials]
      /\ journals \in [Journals -> Journal] /\ deletionId \in Journals \cup {None}
      /\ server \in [Instances -> Stages] /\ registered \in BOOLEAN
      /\ None \notin Journals /\ None \notin Handlers /\ i \notin Handlers
  BY ConstantsAssumption DEF IInv, TypeOK
<1>q. server[i] \in {"account", "material"}
        => \A k \in Handlers : pc[k] \notin Holding
  BY <1>0, ConstantsAssumption DEF IInv, LeaseOwned
<1>u. /\ \A k \in Instances : server[k] # "refused"
      /\ \A j \in Journals : Complete(j)
      /\ \A j, k \in Journals : Open(j) /\ Open(k) => j = k
      /\ deletionId # None => journals[deletionId].kind = "account" /\ journals[deletionId].manifest
  BY DEF Unexposed
<1>1. CASE \/ StartInstance(i) \/ AccountLease(i) \/ AccountRecovered(i) \/ RecoveryFails(i)
           \/ StopInstance(i)
           \/ \E j \in Journals, m \in Materials : AccountUndo(i, j, m) \/ MaterialUndo(i, j, m)
  <2>1. UNCHANGED <<rows, journals, deletionId, pc, sel, todo, jid>>
    BY <1>1 DEF StartInstance, AccountLease, AccountRecovered, RecoveryFails, StopInstance,
       AccountUndo, MaterialUndo
  <2>2. \A k \in Instances : server'[k] # "refused" /\ (server'[k] = "up" => server[k] = "up")
    BY <1>0, <1>1, <1>u DEF StartInstance, AccountLease, AccountRecovered, RecoveryFails,
       StopInstance, AccountUndo, MaterialUndo
  <2> QED
    BY <2>1, <2>2, SameUnexposed
<1>2. CASE MaterialLease(i) \/ MaterialRecovered(i)
  <2>1. UNCHANGED <<rows, journals, deletionId, pc, sel, todo, jid>>
    BY <1>2 DEF MaterialLease, MaterialRecovered
  <2>2. \A k \in Instances : server'[k] # "refused"
    BY <1>0, <1>2, <1>u DEF MaterialLease, MaterialRecovered
  <2>3. (\E k \in Instances : server'[k] = "up") => ~Abandoned
    BY <1>0, <1>2 DEF MaterialLease, MaterialRecovered, Unexposed
  <2> QED
    BY <2>1, <2>2, <2>3 DEF Unexposed, Complete, Abandoned, Open, At, Mine
<1>3. CASE Crash(i)
  <2>1. UNCHANGED <<rows, journals, deletionId>>
    BY <1>3 DEF Crash
  <2>2. \A k \in Instances : /\ server'[k] # "refused"
                             /\ server'[k] = "up" => k # i /\ server[k] = "up"
    BY <1>0, <1>3, <1>u DEF Crash
  <2>3. (\E k \in Instances : server'[k] = "up") => ~Abandoned'
    BY <1>3, <2>2 DEF Crash
  <2>4. \A k \in Handlers : \/ pc'[k] = "idle"
                            \/ /\ pc'[k] = pc[k] /\ jid'[k] = jid[k]
                               /\ sel'[k] = sel[k] /\ todo'[k] = todo[k]
    BY <1>3 DEF Crash
  <2> QED
    BY <2>1, <2>2, <2>3, <2>4 DEF Unexposed, Complete, Open, At, Mine, Deleting, Holding
<1>4. ASSUME NEW j \in Journals, AccountLift(i, j) PROVE Unexposed'
  <2>1. UNCHANGED <<rows, journals, server, pc, jid, sel, todo>> /\ deletionId' = None
    BY <1>4 DEF AccountLift
  <2>2. \A k \in Handlers : pc[k] \notin Holding
    BY <1>4, <1>q DEF AccountLift
  <2> QED
    BY <2>1, <2>2 DEF Unexposed, Complete, Abandoned, Open, At, Mine, Deleting, Holding
<1>5. ASSUME NEW j \in Journals, AccountPurge(i, j) \/ MaterialPurge(i, j) PROVE Unexposed'
  <2>1. /\ UNCHANGED <<rows, deletionId, server, pc, jid, sel, todo>>
        /\ journals' = [journals EXCEPT ![j] = NoJournal]
        /\ \A k \in Handlers : pc[k] \notin Holding
    BY <1>5, <1>q DEF AccountPurge, MaterialPurge
  <2>2. deletionId # j
    <3>1. CASE AccountPurge(i, j)
      BY <1>0, <1>u, <3>1 DEF AccountPurge, Interrupted, IInv, Shape
    <3>2. CASE MaterialPurge(i, j)
      BY <1>0, <1>u, <3>2 DEF MaterialPurge, OfKind
    <3> QED
      BY <1>5, <3>1, <3>2
  <2>3. \A k \in Journals : journals'[k].kind # "none" => k # j /\ journals'[k] = journals[k]
    BY <1>0, <2>1 DEF NoJournal, NewJournal
  <2>4. deletionId # None => journals'[deletionId] = journals[deletionId]
    BY <1>0, <2>1, <2>2
  <2>5. Abandoned' => Abandoned
    BY <2>1, <2>3 DEF Abandoned, Open
  <2>6. \A k \in Journals : Complete(k)'
    BY <1>u, <2>1, <2>3 DEF Complete
  <2>7. \A k, l \in Journals : Open(k)' /\ Open(l)' => k = l
    BY <1>u, <2>3 DEF Open
  <2>8. \A k \in Handlers : pc'[k] \notin Deleting /\ pc'[k] # "del_blob"
    BY <2>1 DEF Deleting, Holding
  <2> QED
    BY <1>u, <2>1, <2>4, <2>5, <2>6, <2>7, <2>8 DEF Unexposed, At
<1>6. ASSUME NEW j \in Journals, MaterialRefuse(i, j) PROVE FALSE
  <2>1. journals[j].kind = "material" /\ ~Purgeable(j) /\ ~(Uncommitted(j) /\ Restorable(j))
    BY <1>6 DEF MaterialRefuse, OfKind
  <2>2. journals[j].manifest /\ Complete(j)
    BY <1>u, <2>1 DEF Purgeable
  <2>3. Uncommitted(j)
    BY <2>1, <2>2 DEF Purgeable, Complete, Uncommitted
  <2>4. deletionId = None
    BY <1>0, <1>u, <2>1 DEF Open
  <2>5. journals[j].notes # {} => registered
    BY <2>1, <2>2, <2>3 DEF Complete, Uncommitted, Living
  <2> QED
    BY <2>1, <2>2, <2>3, <2>4, <2>5 DEF Complete, Restorable, Writable
<1> QED
  BY <1>1, <1>2, <1>3, <1>4, <1>5, <1>6 DEF Recover

\* Every step that exposes nothing keeps it so.
LEMMA UnexposedStep ==
  ASSUME IInv, Owning, Living, ~exposed => Unexposed, Next
  PROVE  ~exposed' => Unexposed'
<1> SUFFICES ASSUME ~exposed' PROVE Unexposed'
  OBVIOUS
<1>1. ASSUME NEW h \in Handlers, Request(h) PROVE Unexposed'
  <2>1. exposed' = exposed
    BY <1>1 DEF Request, Register, CreateSpace, UploadBegin, LinkBegin, Unlink, DeleteBegin,
         SpaceDeleteBegin, AccountDeleteBegin, AnalyzeBegin
  <2> QED
    BY <1>1, <2>1, RequestUnexposed
<1>2. ASSUME NEW h \in Handlers, Step(h) PROVE Unexposed'
  <2>1. ~exposed
    BY <1>2 DEF Step, UploadLease, UploadReject, UploadCommit, UploadFails, UploadUndone,
     LinkLease, LinkReject, LinkDone, AnalyzeSave, AnalyzeReject, DeletePrepare, DeleteBusy,
     DeleteAbort, DeleteManifest, DeleteRows, DeleteFails, Finish, FinishLeaves,
     SpaceDeletePrepare, SpaceDeleteBusy, SpaceDeleteCommit, SpaceDeleteUnlink,
     SpaceDeleteFails, SpaceDeleteRestore, SpaceDeleteRestoreFails, AccountDeletePrepare,
     AccountFence, AccountRefused, AccountBlobFails, AccountStaged, AccountDelete,
     AccountFails, AccountCancel, AccountCancelFails, UploadPut, UploadUndo, LinkRow, DeleteBlob,
     DeleteObject, DeleteAnalysis, RestoreEntry, RestoreFails, AccountBlob, AccountObject,
     AccountRestore
  <2> QED
    BY <1>2, <2>1, UploadUnexposed, LinkUnexposed, DeleteUnexposed, SpaceDeleteUnexposed,
       AccountUnexposed, CoreUnexposed, ExposingStep DEF Step
<1>3. ASSUME NEW i \in Instances, Recover(i) \/ Crash(i) \/ StopInstance(i) PROVE Unexposed'
  <2>1. ~exposed
    BY <1>3 DEF Recover, StartInstance, AccountLease, AccountRecovered, MaterialLease,
     MaterialRecovered, RecoveryFails, AccountUndo, AccountLift, AccountPurge, MaterialUndo,
     MaterialPurge, MaterialRefuse, Crash, StopInstance
  <2> QED
    BY <1>3, <2>1, InstanceUnexposed
<1> QED
  BY <1>1, <1>2, <1>3 DEF Next

\* The second invariant holds initially.
LEMMA InitTidy == Init => Tidy
<1> SUFFICES ASSUME Init PROVE Tidy
  OBVIOUS
<1>1. \A h \in Handlers : pc[h] = "idle" /\ jid[h] = None
  BY DEF Init
<1>2. Owning /\ Living /\ LinkTarget /\ Analysed
  BY <1>1 DEF Init, Owning, Living, LinkTarget, Analysed, At
<1>3. Unexposed
  BY <1>1 DEF Init, Unexposed, Complete, Open, Abandoned, Serving, NoJournal, NewJournal, At,
              Deleting, Holding
<1>4. Balanced
  BY <1>1 DEF Init, Balanced, Levels, At, Holding
<1> QED
  BY <1>2, <1>3, <1>4 DEF Tidy

\* It speaks of the variables only.
LEMMA SameTidy ==
  ASSUME Tidy, UNCHANGED vars
  PROVE  Tidy'
<1>1. (Owning /\ Living /\ LinkTarget /\ Analysed)'
  BY DEF Tidy, vars, Owning, Living, LinkTarget, Analysed, At
<1>2. (~exposed => Unexposed)'
  BY DEF Tidy, vars, Unexposed, Complete, Open, Abandoned, Serving, Mine, At
<1>3. Balanced'
  BY DEF Tidy, vars, Balanced, Levels, At, Mine
<1> QED
  BY <1>1, <1>2, <1>3 DEF Tidy

\* Every step keeps it.
LEMMA TidyStep == IInv /\ Tidy /\ [Next]_vars => Tidy'
<1> SUFFICES ASSUME IInv, Tidy, [Next]_vars PROVE Tidy'
  OBVIOUS
<1>1. CASE Next
  BY <1>1, OwningStep, LivingStep, LinkTargetStep, AnalysedStep, UnexposedStep, BalancedStep
     DEF Tidy
<1>2. CASE UNCHANGED vars
  BY <1>2, SameTidy
<1> QED
  BY <1>1, <1>2

\* The second invariant always holds.
LEMMA TidyInvariant == Spec => []Tidy
BY InitTidy, TidyStep, Invariant, PTL DEF Spec

-----------------------------------------------------------------------------

\* Every variable keeps its type, whatever the numbers of requests, instances, crashes and errors.
THEOREM TypeCorrect == Spec => []TypeOK
<1>1. IInv => TypeOK
  BY DEF IInv
<1> QED
  BY <1>1, Invariant, PTL

\* The recovery lease is exclusive: a handler is inside a sequence over both stores exactly when
\* it holds the lease, and recovery only works while the starting instance does.
THEOREM LeaseExcludes == Spec => []LeaseOwned
<1>1. IInv => LeaseOwned
  BY DEF IInv
<1> QED
  BY <1>1, Invariant, PTL

\* No file of the library is ever lost: at every point of every interleaving, with any number of
\* crashes and failing calls, the bytes of a listed material are in the object store or in a
\* complete journal that recovery replays.
THEOREM NoBytesLost == Spec => []BytesRecoverable
<1>1. IInv => BytesRecoverable
  BY DEF IInv
<1> QED
  BY <1>1, Invariant, PTL

\* Recovery and rollback only put objects behind rows that are still there.
THEOREM DeletedStaysDeleted == Spec => NoResurrection
<1>1. IInv /\ [Next]_vars => [NothingResurrected]_vars
  <2> SUFFICES ASSUME IInv, [Next]_vars PROVE NothingResurrected \/ UNCHANGED vars
    OBVIOUS
  <2> USE DEF NothingResurrected
  <2>0. TypeOK /\ LeaseOwned /\ Shape /\ \A h \in Handlers : Phase(h)
    BY DEF IInv
  <2>1. ASSUME NEW h \in Handlers, Request(h) PROVE objs' \subseteq objs
    BY <2>1 DEF Request, Register, CreateSpace, UploadBegin, LinkBegin, Unlink, DeleteBegin,
                SpaceDeleteBegin, AccountDeleteBegin, AnalyzeBegin
  <2>2. ASSUME NEW h \in Handlers, Step(h) PROVE NothingResurrected
    <3>1. ASSUME NEW m \in Materials, UploadPut(h, m) PROVE NothingResurrected
      BY <2>0, <3>1 DEF UploadPut, LeaseOwned, At, Holding
    <3>2. ASSUME NEW m \in Materials, RestoreEntry(h, m) PROVE NothingResurrected
      BY <2>0, <3>2 DEF RestoreEntry, Phase, DeletePhase, At
    <3>3. ASSUME NEW m \in Materials, RestoreFails(h, m) \/ AccountRestore(h, m)
          PROVE  NothingResurrected
      <4>1. pc[h] \in Deleting => jid[h] \in Journals
        BY <2>0 DEF TypeOK
      <4>2. m \in todo[h] /\ (At(h, "rb") \/ At(h, "ad_rb")) /\ objs' \in {objs, objs \cup {m}}
        BY <3>3 DEF RestoreFails, AccountRestore
      <4>3. CASE At(h, "rb")
        BY <2>0, <4>2, <4>3 DEF Phase, DeletePhase, At
      <4>4. CASE At(h, "ad_rb")
        <5>1. Mine(h).kind = "account" /\ deletionId = jid[h] /\ m \in Mine(h).entries
          BY <2>0, <4>2, <4>4 DEF Phase, AccountPhase, At
        <5> QED
          BY <2>0, <4>1, <4>2, <4>4, <5>1 DEF Shape, Mine, At, Deleting, Holding
      <4> QED
        BY <4>2, <4>3, <4>4
    <3>4. \/ objs' \subseteq objs
          \/ \E m \in Materials : \/ UploadPut(h, m) \/ RestoreEntry(h, m) \/ RestoreFails(h, m)
                                  \/ AccountRestore(h, m)
      BY <2>2 DEF Step, UploadLease, UploadReject, UploadCommit, UploadFails, UploadUndone,
         UploadUndo, LinkLease, LinkReject, LinkDone, LinkRow, AnalyzeSave, AnalyzeReject,
         DeletePrepare, DeleteBusy, DeleteAbort, DeleteManifest, DeleteRows, DeleteFails,
         DeleteBlob, DeleteObject, DeleteAnalysis, Finish, FinishLeaves,
         SpaceDeletePrepare, SpaceDeleteBusy, SpaceDeleteCommit, SpaceDeleteUnlink,
         SpaceDeleteFails, SpaceDeleteRestore, SpaceDeleteRestoreFails,
         AccountDeletePrepare, AccountFence, AccountRefused, AccountBlobFails, AccountStaged,
         AccountDelete, AccountFails, AccountCancel, AccountCancelFails, AccountBlob, AccountObject
    <3> QED
      BY <3>1, <3>2, <3>3, <3>4
  <2>3. ASSUME NEW i \in Instances, Recover(i) PROVE NothingResurrected
    <3>1. ASSUME NEW j \in Journals, NEW m \in Materials, AccountUndo(i, j, m)
          PROVE  NothingResurrected
      BY <2>0, <3>1 DEF AccountUndo, Interrupted, OfKind, Shape
    <3>2. ASSUME NEW j \in Journals, NEW m \in Materials, MaterialUndo(i, j, m)
          PROVE  NothingResurrected
      BY <3>2 DEF MaterialUndo, Uncommitted
    <3>3. \/ objs' \subseteq objs
          \/ \E j \in Journals, m \in Materials : AccountUndo(i, j, m) \/ MaterialUndo(i, j, m)
      BY <2>3 DEF Recover, StartInstance, AccountLease, AccountRecovered, MaterialLease,
         MaterialRecovered, RecoveryFails, AccountLift, AccountPurge, MaterialPurge, MaterialRefuse
    <3> QED
      BY <3>1, <3>2, <3>3
  <2>4. ASSUME NEW i \in Instances, Crash(i) \/ StopInstance(i) PROVE objs' \subseteq objs
    BY <2>4 DEF Crash, StopInstance
  <2> QED
    BY <2>1, <2>2, <2>3, <2>4 DEF Next
<1> QED
  BY <1>1, Invariant, PTL DEF Spec, NoResurrection

\* The fence of an account deletion holds against every request that passed before it.
THEOREM FenceHolds == Spec => FencedAccountFrozen
<1>1. [Next]_vars => [NothingGrows]_vars
  <2> SUFFICES ASSUME [Next]_vars PROVE NothingGrows \/ UNCHANGED vars
    OBVIOUS
  <2> USE DEF NothingGrows, Writable
  <2>1. ASSUME NEW h \in Handlers, Request(h) PROVE NothingGrows
    BY <2>1 DEF Request, Register, CreateSpace, UploadBegin, LinkBegin, Unlink, DeleteBegin,
                SpaceDeleteBegin, AccountDeleteBegin, AnalyzeBegin, Enter
  <2>2. ASSUME NEW h \in Handlers, Step(h) PROVE NothingGrows
    <3>1. ASSUME NEW m \in Materials,
                 \/ UploadPut(h, m) \/ UploadUndo(h, m) \/ LinkRow(h, m) \/ DeleteBlob(h, m)
                 \/ DeleteObject(h, m) \/ DeleteAnalysis(h, m) \/ RestoreEntry(h, m)
                 \/ RestoreFails(h, m) \/ AccountBlob(h, m) \/ AccountObject(h, m)
                 \/ AccountRestore(h, m)
          PROVE  NothingGrows
      BY <3>1 DEF UploadPut, UploadUndo, LinkRow, DeleteBlob, DeleteObject, DeleteAnalysis,
                  RestoreEntry, RestoreFails, AccountBlob, AccountObject, AccountRestore
    <3>2. CASE \/ UploadLease(h) \/ UploadReject(h) \/ UploadCommit(h) \/ UploadFails(h)
               \/ UploadUndone(h) \/ LinkLease(h) \/ LinkReject(h) \/ LinkDone(h)
               \/ AnalyzeSave(h) \/ AnalyzeReject(h)
      BY <3>2 DEF UploadLease, UploadReject, UploadCommit, UploadFails, UploadUndone,
                  LinkLease, LinkReject, LinkDone, AnalyzeSave, AnalyzeReject
    <3>3. CASE \/ DeletePrepare(h) \/ DeleteBusy(h) \/ DeleteAbort(h) \/ DeleteManifest(h)
               \/ DeleteRows(h) \/ DeleteFails(h) \/ Finish(h) \/ FinishLeaves(h)
      BY <3>3 DEF DeletePrepare, DeleteBusy, DeleteAbort, DeleteManifest, DeleteRows,
                  DeleteFails, Finish, FinishLeaves
    <3>4. CASE \/ SpaceDeletePrepare(h) \/ SpaceDeleteBusy(h) \/ SpaceDeleteCommit(h)
               \/ SpaceDeleteUnlink(h) \/ SpaceDeleteFails(h) \/ SpaceDeleteRestore(h)
               \/ SpaceDeleteRestoreFails(h)
      BY <3>4 DEF SpaceDeletePrepare, SpaceDeleteBusy, SpaceDeleteCommit, SpaceDeleteUnlink,
                  SpaceDeleteFails, SpaceDeleteRestore, SpaceDeleteRestoreFails
    <3>5. CASE \/ AccountDeletePrepare(h) \/ AccountFence(h) \/ AccountRefused(h)
               \/ AccountBlobFails(h) \/ AccountStaged(h) \/ AccountDelete(h)
               \/ AccountFails(h) \/ AccountCancel(h) \/ AccountCancelFails(h)
      BY <3>5 DEF AccountDeletePrepare, AccountFence, AccountRefused, AccountBlobFails,
                  AccountStaged, AccountDelete, AccountFails, AccountCancel, AccountCancelFails
    <3> QED
      BY <2>2, <3>1, <3>2, <3>3, <3>4, <3>5 DEF Step
  <2>3. ASSUME NEW i \in Instances, Recover(i) \/ Crash(i) \/ StopInstance(i) PROVE NothingGrows
    <3>1. ASSUME NEW j \in Journals, NEW m \in Materials, MaterialUndo(i, j, m)
          PROVE  NothingGrows
      BY <3>1 DEF MaterialUndo, Restorable
    <3>2. CASE ~ \E j \in Journals, m \in Materials : MaterialUndo(i, j, m)
      BY <2>3, <3>2 DEF Recover, StartInstance, AccountLease, AccountRecovered, MaterialLease,
         MaterialRecovered, RecoveryFails, AccountUndo, AccountLift, AccountPurge, MaterialPurge,
         MaterialRefuse, Crash, StopInstance
    <3> QED
      BY <3>1, <3>2
  <2> QED
    BY <2>1, <2>2, <2>3 DEF Next
<1> QED
  BY <1>1, PTL DEF Spec, FencedAccountFrozen

\* While compensations and clean-ups succeed, recovery never refuses a journal that this code
\* wrote, and an instance that serves while no sequence is under way has put every listed file
\* back and left no journal over.
THEOREM RecoveryCompletes == Spec => []RecoveredLibrary
<1>1. IInv /\ Tidy => RecoveredLibrary
  <2> SUFFICES ASSUME IInv, Tidy, ~exposed
               PROVE  /\ \A i \in Instances : server[i] # "refused"
                      /\ lease = None /\ (\E i \in Instances : Serving(i))
                           => /\ rows \subseteq objs
                              /\ \A j \in Journals : Open(j) => \E h \in Handlers : jid[h] = j
    BY DEF RecoveredLibrary
  <2>0. Unexposed /\ Owning /\ LeaseOwned /\ Shape /\ BytesRecoverable
    BY DEF IInv, Tidy
  <2>1. \A i \in Instances : server[i] # "refused"
    BY <2>0 DEF Unexposed
  <2>2. ASSUME lease = None, NEW i \in Instances, Serving(i)
        PROVE  /\ rows \subseteq objs
               /\ \A j \in Journals : Open(j) => \E h \in Handlers : jid[h] = j
    <3>1. \A j \in Journals : Open(j) => \E h \in Handlers : jid[h] = j
      BY <2>0, <2>2 DEF Unexposed, Abandoned
    <3>2. \A h \in Handlers : jid[h] = None
      BY <2>0, <2>2, ConstantsAssumption DEF Owning, LeaseOwned, Deleting
    <3>3. \A j \in Journals : ~Open(j)
      BY <3>1, <3>2, ConstantsAssumption
    <3>4. \A j \in Journals, m \in Materials : ~Covers(j, m)
      BY <2>0, <3>3 DEF Covers, Shape, Open
    <3> QED
      BY <2>0, <3>1, <3>4 DEF BytesRecoverable, IInv, TypeOK
  <2> QED
    BY <2>1, <2>2
<1> QED
  BY <1>1, Invariant, TidyInvariant, PTL

\* An analysis never outlives its material, and without crashes and failing calls rows and objects
\* agree whenever nobody holds the lease, however requests were interleaved or rejected.
THEOREM StoresAgree == Spec => []QuietStoresAgree
<1>1. Tidy => QuietStoresAgree
  BY ConstantsAssumption DEF Tidy, Analysed, Balanced, QuietStoresAgree
<1> QED
  BY <1>1, TidyInvariant, PTL

\* Nothing but a link request creates a link, and it does so under the lease, to a material that it
\* finds in the library and a workspace that no deletion can take away meanwhile.
THEOREM LinksAreLive == Spec => LinksJoinLiveEnds
<1>1. Tidy /\ [Next]_vars
        => [\A l \in links' \ links : l[1] \in spaces' /\ l[2] \in rows']_vars
  <2> SUFFICES ASSUME Tidy, Next PROVE \A l \in links' \ links : l[1] \in spaces' /\ l[2] \in rows'
    OBVIOUS
  <2>1. ASSUME NEW h \in Handlers, Request(h) PROVE links' \subseteq links
    BY <2>1 DEF Request, Register, CreateSpace, UploadBegin, LinkBegin, Unlink, DeleteBegin,
                SpaceDeleteBegin, AccountDeleteBegin, AnalyzeBegin
  <2>2. ASSUME NEW h \in Handlers, NEW m \in Materials, LinkRow(h, m)
        PROVE  \A l \in links' \ links : l[1] \in spaces' /\ l[2] \in rows'
    <3>1. ws[h] \in spaces' /\ m \in rows'
      BY <2>2 DEF LinkRow, Tidy, LinkTarget
    <3>2. links' = links \cup {<<ws[h], m>>}
      BY <2>2 DEF LinkRow
    <3> QED
      BY <3>1, <3>2
  <2>3. ASSUME NEW h \in Handlers, Step(h)
        PROVE  links' \subseteq links \/ \E m \in Materials : LinkRow(h, m)
    BY <2>3 DEF Step, UploadLease, UploadReject, UploadCommit, UploadFails, UploadUndone,
       UploadPut, UploadUndo, LinkLease, LinkReject, LinkDone, AnalyzeSave, AnalyzeReject,
       DeletePrepare, DeleteBusy, DeleteAbort, DeleteManifest, DeleteRows, DeleteFails,
       DeleteBlob, DeleteObject, DeleteAnalysis, RestoreEntry, RestoreFails, Finish, FinishLeaves,
       SpaceDeletePrepare, SpaceDeleteBusy, SpaceDeleteCommit, SpaceDeleteUnlink,
       SpaceDeleteFails, SpaceDeleteRestore, SpaceDeleteRestoreFails, AccountDeletePrepare,
       AccountFence, AccountRefused, AccountBlobFails, AccountStaged, AccountDelete,
       AccountFails, AccountCancel, AccountCancelFails, AccountBlob, AccountObject,
       AccountRestore
  <2>4. ASSUME NEW i \in Instances, Recover(i) \/ Crash(i) \/ StopInstance(i)
        PROVE  links' \subseteq links
    BY <2>4 DEF Recover, StartInstance, AccountLease, AccountRecovered, MaterialLease,
       MaterialRecovered, RecoveryFails, AccountUndo, AccountLift, AccountPurge, MaterialUndo,
       MaterialPurge, MaterialRefuse, Crash, StopInstance
  <2> QED
    BY <2>1, <2>2, <2>3, <2>4 DEF Next
<1> QED
  BY <1>1, TidyInvariant, PTL DEF Spec, LinksJoinLiveEnds
=============================================================================
