-------------------------- MODULE ModelBuildProofs --------------------------
(***************************************************************************)
(* Proofs about ModelBuild, for any sources, number of attempts, resumes   *)
(* and cuts.                                                               *)
(***************************************************************************)
EXTENDS ModelBuild, TLAPS

LEMMA TypeInit == Init => TypeOK
<1> SUFFICES ASSUME Init PROVE TypeOK
  OBVIOUS
<1>1. parent \in [File -> Origin]
  BY DEF Init, Empty, Complete, Origin
<1>2. parent = file /\ fits \subseteq Source /\ attempt \in 1..MaxAutoIterations /\ pc \in Step
  BY BuildConstants DEF Init, Step
<1> QED
  BY <1>1, <1>2 DEF Init, TypeOK, Origin

LEMMA TypeNext == TypeOK /\ [Next]_vars => TypeOK'
<1> SUFFICES ASSUME TypeOK, [Next]_vars PROVE TypeOK'
  OBVIOUS
<1> USE BuildConstants DEF TypeOK, Origin, Step, Settled, File, Artifact, Caller,
        tree, agent, notes, bounds
<1>1. CASE CallWrite
  BY <1>1 DEF CallWrite, AgentIdle
<1>2. CASE WriteModel
  BY <1>2 DEF WriteModel
<1>3. CASE CallExecute
  BY <1>3 DEF CallExecute, StartRun
<1>4. CASE AgentRunEnds
  BY <1>4 DEF AgentRunEnds, RunEnds
<1>5. ASSUME NEW c \in Caller, NEW f \in Artifact, RunWrites(c, f) PROVE TypeOK'
  BY <1>5 DEF RunWrites
<1>6. CASE Abort
  BY <1>6 DEF Abort
<1>7. CASE CheckActive
  BY <1>7 DEF CheckActive
<1>8. CASE EndPrompt
  BY <1>8 DEF EndPrompt, PromptLeft
<1>9. CASE Execute
  BY <1>9 DEF Execute, StartRun
<1>10. CASE ExecuteEnds
  BY <1>10 DEF ExecuteEnds, RunEnds
<1>11. CASE Inspect
  BY <1>11 DEF Inspect
<1>12. CASE WriteValidation
  BY <1>12 DEF WriteValidation, Report
<1>13. CASE Derive
  BY <1>13 DEF Derive
<1>14. CASE DeriveEnds
  BY <1>14 DEF DeriveEnds
<1>15. CASE Pass
  BY <1>15 DEF Pass, Record
<1>16. CASE Repair
  BY <1>16 DEF Repair, Record, Again
<1>17. CASE Throw
  BY <1>17 DEF Throw, Record
<1>18. CASE Resume
  BY <1>18 DEF Resume, Seeded, Empty, Complete
<1>19. CASE Confirm
  BY <1>19 DEF Confirm
<1>20. CASE Publish
  <2>1. ASSUME \A f \in File : file[f] # None PROVE file \in [File -> Source]
    BY <2>1
  <2> QED BY <1>20, <2>1 DEF Publish
<1>21. CASE Freeze
  BY <1>21 DEF Freeze
<1>22. CASE UNCHANGED vars
  BY <1>22 DEF vars
<1> QED
  BY <1>1, <1>2, <1>3, <1>4, <1>5, <1>6, <1>7, <1>8, <1>9, <1>10, <1>11, <1>12, <1>13,
     <1>14, <1>15, <1>16, <1>17, <1>18, <1>19, <1>20, <1>21, <1>22 DEF Next

(* Variables keep their types: every attempt number is within the limit of *)
(* automatic attempts, and a revision has all its files.                   *)
THEOREM TypeCorrect == Spec => []TypeOK
BY TypeInit, TypeNext, PTL DEF Spec

-----------------------------------------------------------------------------
(* The worker's steps behind its own execution. *)
Executed == {"inspect", "validate", "derive", "deriving", "passed", "confirm"}
Publishing == {"publish", "freeze", "published"}

(* The directory is the worker's alone: unless an abort has reached a      *)
(* prompt, the agent's tools act during the prompt only.                   *)
Alone ==
    /\ running["worker"] # None => pc = "executing"
    /\ AgentIdle \/ pc = "prompt" \/ aborted
    /\ pc \in Publishing => AgentIdle

(* What the worker has established about the files when it is at a step. *)
Validated == file["validation"] = file["json"] /\ file["json"] \in fits
Derived == Validated /\ file["derived"] = file["json"]
Recorded == recorded = file["py"]
Ran == ran = file["py"]

Established ==
    /\ pc = "execute" => file["py"] # None
    /\ pc = "executing" => Ran
    /\ pc \in Executed => Ran
    /\ pc = "validate" => held = file["json"] /\ held \in fits
    /\ pc \in {"derive", "deriving"} => Validated
    /\ pc = "deriving" => held = file["json"]
    /\ pc \in {"passed", "confirm"} => Derived
    /\ pc = "confirm" => Recorded

(* An abort that comes too late to stop the publication disturbs nothing. *)
Published ==
    /\ pc \in Publishing => Derived /\ Recorded /\ Ran
    /\ pc = "freeze" => revision = file
    /\ revision # None => pc \in {"freeze", "published"} /\ revision = file
    /\ frozen # None => pc = "published" /\ frozen = file /\ revision = file

BuildInv ==
    /\ TypeOK
    /\ cuts = 0 => Alone /\ (~aborted => Established) /\ Published

LEMMA BuildInit == Init => BuildInv
<1> SUFFICES ASSUME Init PROVE BuildInv
  OBVIOUS
<1>1. TypeOK
  BY TypeInit
<1> QED
  BY <1>1 DEF Init, BuildInv, Alone, Established, Published, AgentIdle, Executed, Publishing,
      Caller

LEMMA BuildNext == BuildInv /\ [Next]_vars => BuildInv'
<1> SUFFICES ASSUME BuildInv, [Next]_vars PROVE BuildInv'
  OBVIOUS
<1>0. TypeOK'
  BY TypeNext DEF BuildInv
<1>a. TypeOK /\ (cuts = 0 => Alone /\ (~aborted => Established) /\ Published)
  BY DEF BuildInv
<1> DEFINE Goal == cuts = 0 => Alone /\ (~aborted => Established) /\ Published
<1> SUFFICES Goal'
  BY <1>0 DEF BuildInv
<1> USE BuildConstants, <1>a, <1>0 DEF TypeOK, Alone, Established, Published, Validated, Derived, Recorded,
        Ran, AgentIdle, Executed, Publishing, Origin, File, Artifact, Caller,
        tree, agent, notes, bounds
<1>1. CASE CallWrite
  BY <1>1 DEF CallWrite
<1>2. CASE WriteModel
  BY <1>2 DEF WriteModel
<1>3. CASE CallExecute
  BY <1>3 DEF CallExecute, StartRun
<1>4. CASE AgentRunEnds
  BY <1>4 DEF AgentRunEnds, RunEnds
<1>5. ASSUME NEW c \in Caller, NEW f \in Artifact, RunWrites(c, f) PROVE Goal'
  BY <1>5 DEF RunWrites
<1>6. CASE Abort
  BY <1>6 DEF Abort, Settled
<1>7. CASE CheckActive
  BY <1>7 DEF CheckActive
<1>8. CASE EndPrompt
  BY <1>8 DEF EndPrompt, PromptLeft
<1>9. CASE Execute
  BY <1>9 DEF Execute, StartRun
<1>10. CASE ExecuteEnds
  BY <1>10 DEF ExecuteEnds, RunEnds
<1>11. CASE Inspect
  BY <1>11 DEF Inspect
<1>12. CASE WriteValidation
  BY <1>12 DEF WriteValidation, Report
<1>13. CASE Derive
  BY <1>13 DEF Derive
<1>14. CASE DeriveEnds
  BY <1>14 DEF DeriveEnds
<1>15. CASE Pass
  BY <1>15 DEF Pass, Record
<1>16. CASE Repair
  BY <1>16 DEF Repair, Record, Again
<1>17. CASE Throw
  BY <1>17 DEF Throw, Record
<1>18. CASE Resume
  BY <1>18 DEF Resume
<1>19. CASE Confirm
  BY <1>19 DEF Confirm
<1>20. CASE Publish
  BY <1>20 DEF Publish
<1>21. CASE Freeze
  BY <1>21 DEF Freeze
<1>22. CASE UNCHANGED vars
  BY <1>22 DEF vars
<1> QED
  BY <1>1, <1>2, <1>3, <1>4, <1>5, <1>6, <1>7, <1>8, <1>9, <1>10, <1>11, <1>12, <1>13,
     <1>14, <1>15, <1>16, <1>17, <1>18, <1>19, <1>20, <1>21, <1>22 DEF Next

(* A revision's report and derived files are those of its model, and the   *)
(* model satisfies the requirement.                                        *)
THEOREM RevisionsAreValidated == Spec => []ValidatedIsPublished
<1>1. BuildInv => ValidatedIsPublished
  BY DEF BuildInv, Published, Derived, Validated, Publishing, ValidatedIsPublished
<1> QED BY BuildInit, BuildNext, <1>1, PTL DEF Spec

(* A revision's source is the one recorded and executed last.              *)
THEOREM RevisionsAreRecorded == Spec => []PublishedIsRecorded
<1>1. BuildInv => PublishedIsRecorded
  BY DEF BuildInv, Published, Recorded, Ran, Publishing, PublishedIsRecorded
<1> QED BY BuildInit, BuildNext, <1>1, PTL DEF Spec

(* The frozen directory holds the files that were stored.                  *)
THEOREM FrozenAsPublished == Spec => []FrozenIsPublished
<1>1. BuildInv => FrozenIsPublished
  BY DEF BuildInv, Published, FrozenIsPublished
<1> QED BY BuildInit, BuildNext, <1>1, PTL DEF Spec

(* What was executed, recorded, published and frozen is one work.          *)
THEOREM RecordIsKept == Spec => []RecordKept
<1>1. PublishedIsRecorded /\ FrozenIsPublished => RecordKept
  BY DEF RecordKept
<1> QED BY RevisionsAreRecorded, FrozenAsPublished, <1>1, PTL
=============================================================================
