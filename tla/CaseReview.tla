------------------------------ MODULE CaseReview ------------------------------
(***************************************************************************)
(* From a revision to a public Case: the owner submits it as a candidate   *)
(* with consent, reviewers approve or reject it, and an approval copies    *)
(* the artifacts into the public prefix inside its database transaction.   *)
(* Requests of several people overlap; the conversation the revision comes *)
(* from may be deleted meanwhile.                                          *)
(***************************************************************************)
EXTENDS Naturals

CONSTANTS
    Revision,    \* succeeded and validated revisions
    Submission,  \* POST /revisions/:id/case-candidates
    Approval,    \* POST .../approve; it mints the familyId of its case
    Rejection    \* POST .../reject

ASSUME HandlersAreApart ==
    /\ Submission \cap (Approval \cup Rejection) = {}
    /\ Approval \cap Rejection = {}

Handler == Submission \cup Approval \cup Rejection

VARIABLES
    on,         \* the revision each request is about
    pc,         \* each request's next step
    live,       \* revisions whose conversation is not deleted
    stored,     \* revisions whose artifacts are in the object store
    candidate,  \* status of the revision's candidate, "none" without one
    consents,   \* consent records of the revision
    cases,      \* approvals whose ModelCase row is committed
    copies,     \* per approval: the artifacts under public-cases/<familyId>/
    reviews     \* decisions whose ModelCaseReview row is committed

rows == <<candidate, consents, cases, reviews>>
vars == <<on, pc, live, stored, rows, copies>>

Init ==
    /\ on \in [Handler -> Revision]
    /\ pc = [h \in Handler |-> "new"]
    /\ live = Revision /\ stored = Revision
    /\ candidate = [r \in Revision |-> "none"]
    /\ consents = [r \in Revision |-> 0]
    /\ cases = {} /\ reviews = {}
    /\ copies = [a \in Approval |-> "none"]

Goto(h, step) == pc' = [pc EXCEPT ![h] = step]

-----------------------------------------------------------------------------
(* The owner's revision, and a candidate it already has. *)
SubmitCheck(s) ==
    /\ pc[s] = "new"
    /\ Goto(s, IF on[s] \in live /\ candidate[on[s]] = "none" THEN "create" ELSE "done")
    /\ UNCHANGED <<on, live, stored, rows, copies>>

(* consent_records.revision_id is unique. *)
ConsentFree(r) == consents[r] = 0

SubmitCreate(s) ==
    LET r == on[s] IN
    /\ pc[s] = "create"
    /\ IF ConsentFree(r)
         THEN /\ consents' = [consents EXCEPT ![r] = @ + 1]
              /\ candidate' = [candidate EXCEPT ![r] = "CANDIDATE"]
         ELSE UNCHANGED <<consents, candidate>>
    /\ Goto(s, "done")
    /\ UNCHANGED <<on, live, stored, cases, reviews, copies>>

-----------------------------------------------------------------------------
(* The candidate is read before the transaction, and not again in it. *)
AnyCandidate(r) == candidate[r] # "none"
IsCandidate(r) == candidate[r] = "CANDIDATE"

ApproveRead(a) ==
    /\ pc[a] = "new"
    /\ Goto(a, IF IsCandidate(on[a]) THEN "case" ELSE "done")
    /\ UNCHANGED <<on, live, stored, rows, copies>>

(* model_cases.candidate_id is unique: the insert waits for an uncommitted *)
(* row of the same candidate, and fails on a committed one.                *)
SameCase(a, b) == a # b /\ on[a] = on[b]
CaseUnchecked(a, S) == FALSE
CaseTaken(a, S) == \E b \in S : SameCase(a, b)

ApproveCase(a) ==
    /\ pc[a] = "case"
    /\ ~CaseTaken(a, {b \in Approval : pc[b] \in {"copy", "decide"}})
    /\ Goto(a, IF CaseTaken(a, cases) THEN "done" ELSE "copy")
    /\ UNCHANGED <<on, live, stored, rows, copies>>

(* Artifact after artifact, each copied and then given its row. *)
CopyFirstOnly(a) ==
    /\ pc[a] = "copy" /\ on[a] \in stored
    /\ copies' = [copies EXCEPT ![a] = "some"]
    /\ Goto(a, "decide")
    /\ UNCHANGED <<on, live, stored, rows>>
ApproveCopy(a) ==
    /\ pc[a] = "copy" /\ on[a] \in stored
    /\ \/ copies[a] = "none" /\ copies' = [copies EXCEPT ![a] = "some"] /\ UNCHANGED pc
       \/ copies[a] = "some" /\ copies' = [copies EXCEPT ![a] = "all"] /\ Goto(a, "decide")
    /\ UNCHANGED <<on, live, stored, rows>>

(* The review, the candidate's status by id, and the commit. *)
ApproveCommit(a) ==
    /\ pc[a] = "decide"
    /\ cases' = cases \cup {a}
    /\ reviews' = reviews \cup {a}
    /\ candidate' = [candidate EXCEPT ![on[a]] = "APPROVED"]
    /\ Goto(a, "done")
    /\ UNCHANGED <<on, live, stored, consents, copies>>

(* A copy fails, or the transaction's time is up: the rows are rolled back *)
(* and the copies stay.                                                    *)
ApproveFails(a) ==
    /\ pc[a] \in {"case", "copy", "decide"}
    /\ Goto(a, "done")
    /\ UNCHANGED <<on, live, stored, rows, copies>>

RejectRead(j) ==
    /\ pc[j] = "new"
    /\ Goto(j, IF IsCandidate(on[j]) THEN "decide" ELSE "done")
    /\ UNCHANGED <<on, live, stored, rows, copies>>

RejectCommit(j) ==
    /\ pc[j] = "decide"
    /\ reviews' = reviews \cup {j}
    /\ candidate' = [candidate EXCEPT ![on[j]] = "REJECTED"]
    /\ Goto(j, "done")
    /\ UNCHANGED <<on, live, stored, consents, cases, copies>>

-----------------------------------------------------------------------------
(* DELETE /conversations/:id keeps the rows and then removes the objects. *)
DeleteConversation(r) ==
    \/ /\ r \in live
       /\ live' = live \ {r}
       /\ UNCHANGED <<on, pc, stored, rows, copies>>
    \/ /\ r \in stored \ live
       /\ stored' = stored \ {r}
       /\ UNCHANGED <<on, pc, live, rows, copies>>

Next ==
    \/ \E s \in Submission : SubmitCheck(s) \/ SubmitCreate(s)
    \/ \E a \in Approval :
          ApproveRead(a) \/ ApproveCase(a) \/ ApproveCopy(a) \/ ApproveCommit(a)
          \/ ApproveFails(a)
    \/ \E j \in Rejection : RejectRead(j) \/ RejectCommit(j)
    \/ \E r \in Revision : DeleteConversation(r)

Spec == Init /\ [][Next]_vars

-----------------------------------------------------------------------------
TypeOK ==
    /\ on \in [Handler -> Revision]
    /\ pc \in [Handler -> {"new", "create", "case", "copy", "decide", "done"}]
    /\ live \subseteq Revision /\ stored \subseteq Revision
    /\ candidate \in [Revision -> {"none", "CANDIDATE", "APPROVED", "REJECTED"}]
    /\ consents \in [Revision -> {0, 1}]
    /\ cases \subseteq Approval
    /\ copies \in [Approval -> {"none", "some", "all"}]
    /\ reviews \subseteq Approval \cup Rejection

(* Submitting a revision again, even at the same moment, leaves one        *)
(* candidate under one consent.                                            *)
OneCandidate ==
    \A r \in Revision : consents[r] = IF candidate[r] = "none" THEN 0 ELSE 1

(* A candidate is published as one case, however many reviewers approve it *)
(* at once.                                                                *)
OneCase == \A a, b \in cases : on[a] = on[b] => a = b

(* What the library finds and shows, and which of it can be downloaded in  *)
(* full.                                                                   *)
Published == cases
Readable(a) == copies[a] = "all"

(* What is public can be downloaded in full and was consented to and       *)
(* approved, also when its source conversation is deleted in between.      *)
PublicIsApproved ==
    \A a \in Published :
        /\ Readable(a)
        /\ a \in reviews
        /\ consents[on[a]] = 1

(* A decision stands against every later request: one that arrives when    *)
(* the candidate is decided is never recorded and publishes nothing; only  *)
(* a request that had found it undecided may still overwrite the status.   *)
Decided(r) == candidate[r] \in {"APPROVED", "REJECTED"}
DecisionStands ==
    \A h \in Handler :
        [](pc[h] = "new" /\ Decided(on[h]) => [](h \notin reviews \cup cases))
=============================================================================
