----------------------------- MODULE MCRequestGate -----------------------------
EXTENDS RequestGate

CONSTANTS u1, u2, c1, owner, auth, mutationClient, mutation, principal, client

\* The user whose token it is; a limit of two for logins, of one elsewhere.
OneUser == [c \in Credentials |-> owner]
Limits == [k \in WebKeys \cup EvaluationKeys |-> IF k = auth THEN 2 ELSE 1]
WebRequestKeys == {<<auth>>, <<mutationClient, mutation>>}
UploadRequestKeys == {<<mutationClient, mutation>>}
EvaluationRequestKeys == {<<principal, client>>}
=============================================================================
