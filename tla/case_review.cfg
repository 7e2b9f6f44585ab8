SPECIFICATION Spec
CONSTANTS
    Revision = {v1, v2}
    Submission = {s1, s2}
    Approval = {a1, a2}
    Rejection = {j1}
INVARIANTS OneCase PublicIsApproved
PROPERTY DecisionStands
CHECK_DEADLOCK FALSE
