SPECIFICATION FairSpec
CONSTANTS
  w1 = w1  w2 = w2  w3 = w3  l1 = l1  l2 = l2  l3 = l3
  events = events  talk = talk  analysis = analysis  plan1 = plan1  plan2 = plan2  talkScope = talkScope
  spaceQuota = spaceQuota  sessionQuota = sessionQuota  analysisScope = analysisScope  r1 = r1  r2 = r2
  None = None
  Requests = {r1, r2}
  Records = {w1, w2, w3, l1, l2, l3, events, talk, analysis}
  Scopes = {plan1, plan2, talkScope, spaceQuota, sessionQuota, analysisScope}
  Stored = {w1, l1, talk, analysis}
  Counted = {w1, w2, w3}
  Quota = 2
  Programs <- AllPrograms
  Deployments <- BothStores
INVARIANT WithinQuota
PROPERTIES Atomic EveryCallEnds
CHECK_DEADLOCK FALSE
