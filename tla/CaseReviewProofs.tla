-------------------------- MODULE CaseReviewProofs --------------------------
(***************************************************************************)
(* Proofs about CaseReview, for any revisions, submissions, approvals and  *)
(* rejections.                                                             *)
(***************************************************************************)
EXTENDS CaseReview, TLAPS

(* A request that decides has found a candidate, an approval that copies   *)
(* is the only one of its candidate to get that far, and a row or a        *)
(* decision belongs to a request that is through.                          *)
Inserted(a) == pc[a] \in {"copy", "decide"}
ReviewInv ==
    /\ TypeOK
    /\ OneCandidate
    /\ \A h \in Approval \cup Rejection :
          /\ pc[h] \in {"case", "copy", "decide"} => candidate[on[h]] # "none"
          /\ h \in reviews \cup cases => pc[h] = "done"
    /\ \A a \in Approval :
          /\ pc[a] = "decide" => copies[a] = "all"
          /\ a \in cases => candidate[on[a]] # "none"
    /\ \A a, b \in Approval :
          /\ Inserted(a) /\ (Inserted(b) \/ b \in cases) => ~SameCase(a, b)
          /\ a \in cases /\ b \in cases => ~SameCase(a, b)
    /\ PublicIsApproved

LEMMA ReviewInit == Init => ReviewInv
BY HandlersAreApart
   DEF Init, ReviewInv, TypeOK, OneCandidate, PublicIsApproved, Published, Readable,
       Inserted, SameCase, Handler

LEMMA ReviewNext == ReviewInv /\ [Next]_vars => ReviewInv'
<1> SUFFICES ASSUME ReviewInv, [Next]_vars PROVE ReviewInv'
  OBVIOUS
<1> USE HandlersAreApart DEF ReviewInv, TypeOK, OneCandidate, PublicIsApproved, Published,
        Readable, Inserted, SameCase, Handler, Goto, rows
<1>1. ASSUME NEW s \in Submission, SubmitCheck(s) PROVE ReviewInv'
  BY <1>1 DEF SubmitCheck
<1>2. ASSUME NEW s \in Submission, SubmitCreate(s) PROVE ReviewInv'
  BY <1>2 DEF SubmitCreate, ConsentFree
<1>3. ASSUME NEW a \in Approval, ApproveRead(a) PROVE ReviewInv'
  BY <1>3 DEF ApproveRead, IsCandidate
<1>4. ASSUME NEW a \in Approval, ApproveCase(a) PROVE ReviewInv'
  BY <1>4 DEF ApproveCase, CaseTaken, SameCase
<1>5. ASSUME NEW a \in Approval, ApproveCopy(a) PROVE ReviewInv'
  BY <1>5 DEF ApproveCopy
<1>6. ASSUME NEW a \in Approval, ApproveCommit(a) PROVE ReviewInv'
  BY <1>6 DEF ApproveCommit
<1>7. ASSUME NEW a \in Approval, ApproveFails(a) PROVE ReviewInv'
  BY <1>7 DEF ApproveFails
<1>8. ASSUME NEW j \in Rejection, RejectRead(j) PROVE ReviewInv'
  BY <1>8 DEF RejectRead, IsCandidate
<1>9. ASSUME NEW j \in Rejection, RejectCommit(j) PROVE ReviewInv'
  BY <1>9 DEF RejectCommit
<1>10. ASSUME NEW r \in Revision, DeleteConversation(r) PROVE ReviewInv'
  BY <1>10 DEF DeleteConversation
<1>11. CASE UNCHANGED vars
  BY <1>11 DEF vars
<1> QED
  BY <1>1, <1>2, <1>3, <1>4, <1>5, <1>6, <1>7, <1>8, <1>9, <1>10, <1>11 DEF Next

(* Variables keep their types: each request is at a step of its route.     *)
THEOREM TypeCorrect == Spec => []TypeOK
<1>1. ReviewInv => TypeOK
  BY DEF ReviewInv
<1> QED BY ReviewInit, ReviewNext, <1>1, PTL DEF Spec

(* Submitting a revision again leaves one candidate under one consent.     *)
THEOREM CandidateIsUnique == Spec => []OneCandidate
<1>1. ReviewInv => OneCandidate
  BY DEF ReviewInv
<1> QED BY ReviewInit, ReviewNext, <1>1, PTL DEF Spec

(* A candidate is published as one case. *)
THEOREM CaseIsUnique == Spec => []OneCase
<1>1. ReviewInv => OneCase
  BY DEF ReviewInv, TypeOK, OneCase, SameCase
<1> QED BY ReviewInit, ReviewNext, <1>1, PTL DEF Spec

(* What is public is complete, reviewed and consented to.                  *)
THEOREM CaseIsApproved == Spec => []PublicIsApproved
<1>1. ReviewInv => PublicIsApproved
  BY DEF ReviewInv
<1> QED BY ReviewInit, ReviewNext, <1>1, PTL DEF Spec

-----------------------------------------------------------------------------
(* A request that comes too late is at its beginning or through, and has   *)
(* left nothing.                                                           *)
TooLate(h) ==
    /\ Decided(on[h])
    /\ pc[h] \in {"new", "create", "done"}
    /\ h \notin reviews \cup cases
    /\ h \in Approval \cup Rejection => pc[h] # "create"

LEMMA TooLateNext ==
    ASSUME NEW h \in Handler
    PROVE  ReviewInv /\ TooLate(h) /\ [Next]_vars => TooLate(h)'
<1> SUFFICES ASSUME ReviewInv, TooLate(h), [Next]_vars PROVE TooLate(h)'
  OBVIOUS
<1> USE HandlersAreApart DEF ReviewInv, TypeOK, OneCandidate, TooLate, Decided,
        Handler, Goto, rows
<1>1. ASSUME NEW s \in Submission, SubmitCheck(s) PROVE TooLate(h)'
  BY <1>1 DEF SubmitCheck
<1>2. ASSUME NEW s \in Submission, SubmitCreate(s) PROVE TooLate(h)'
  BY <1>2 DEF SubmitCreate, ConsentFree
<1>3. ASSUME NEW a \in Approval, ApproveRead(a) PROVE TooLate(h)'
  BY <1>3 DEF ApproveRead, IsCandidate
<1>4. ASSUME NEW a \in Approval, ApproveCase(a) PROVE TooLate(h)'
  BY <1>4 DEF ApproveCase, CaseTaken, SameCase
<1>5. ASSUME NEW a \in Approval, ApproveCopy(a) PROVE TooLate(h)'
  BY <1>5 DEF ApproveCopy
<1>6. ASSUME NEW a \in Approval, ApproveCommit(a) PROVE TooLate(h)'
  BY <1>6 DEF ApproveCommit
<1>7. ASSUME NEW a \in Approval, ApproveFails(a) PROVE TooLate(h)'
  BY <1>7 DEF ApproveFails
<1>8. ASSUME NEW j \in Rejection, RejectRead(j) PROVE TooLate(h)'
  BY <1>8 DEF RejectRead, IsCandidate
<1>9. ASSUME NEW j \in Rejection, RejectCommit(j) PROVE TooLate(h)'
  BY <1>9 DEF RejectCommit
<1>10. ASSUME NEW r \in Revision, DeleteConversation(r) PROVE TooLate(h)'
  BY <1>10 DEF DeleteConversation
<1>11. CASE UNCHANGED vars
  BY <1>11 DEF vars
<1> QED
  BY <1>1, <1>2, <1>3, <1>4, <1>5, <1>6, <1>7, <1>8, <1>9, <1>10, <1>11 DEF Next

(* A decision stands: a request that begins after it is never recorded and *)
(* publishes nothing.                                                      *)
THEOREM DecisionsStand == Spec => DecisionStands
<1> SUFFICES ASSUME NEW h \in Handler
             PROVE  Spec => [](pc[h] = "new" /\ Decided(on[h])
                                  => [](h \notin reviews \cup cases))
  BY DEF DecisionStands
<1>1. ReviewInv /\ pc[h] = "new" /\ Decided(on[h]) => TooLate(h)
  BY HandlersAreApart DEF ReviewInv, TypeOK, TooLate, Handler
<1>2. TooLate(h) => h \notin reviews \cup cases
  BY DEF TooLate
<1>3. ReviewInv /\ TooLate(h) /\ [Next]_vars => TooLate(h)'
  BY TooLateNext
<1> QED BY ReviewInit, ReviewNext, <1>1, <1>2, <1>3, PTL DEF Spec
=============================================================================
