---------------------------- MODULE MCRecordStore ----------------------------
(* One owner with a learning space and the programs its callers run.        *)
EXTENDS RecordStore

CONSTANTS r1, r2, w1, w2, w3, l1, l2, l3, events, talk, analysis,
          plan1, plan2, talkScope, spaceQuota, sessionQuota, analysisScope

\* PostgreSQL behind several processes; SQLite in one; PostgreSQL in one.
PgFleet  == [postgres |-> TRUE,  process |-> [r \in Requests |-> r]]
SqliteApp == [postgres |-> FALSE, process |-> [r \in Requests |-> None]]
PgApp    == [postgres |-> TRUE,  process |-> [r \in Requests |-> None]]

BothStores == {PgFleet, SqliteApp}
OnePgApp   == {PgApp}
OneSqlite  == {SqliteApp}

\* Every kind of program on one learning space; the quota has room for one more.
AllPrograms ==
  { Rename(w1), PracticeWrite(w1, l1), ChangePlan(plan1, w1, l1),
    AcceptTopic(plan1, w1, l1), RecordEvent(plan1, w1, events),
    DeleteSpace(plan1, w1, l1, events), PutBack(plan1, w1, l1, events),
    Answer(plan1, talkScope, w1, talk), NewSpace(spaceQuota, w2, l2),
    NewSpace(spaceQuota, w3, l3),
    SaveRecord(analysisScope, analysis), AddRecord(analysisScope, analysis),
    DropRecord(analysisScope, analysis), RestoreRecord(analysis) }

\* The programs of the run make learning spaces under their quota.
ASSUME QuotaAssumption == CountsFirst(spaceQuota)

\* A plan change meets a rename: with OnePgApp, they wait for each other for ever.
PlanAndTitle == {Rename(w1), ChangePlan(plan1, w1, l1)}

\* First answers of the agent in two learning spaces: with OneSqlite, a quota of
\* one session is exceeded.
TwoFirstAnswers ==
  {OpenSession(plan1, sessionQuota, w1, talk), OpenSession(plan2, sessionQuota, w2, analysis)}
=============================================================================
