------------------------ MODULE DesignDialogueProofs ------------------------
(***************************************************************************)
(* Proofs about DesignDialogue, for any tasks, requests, messages and      *)
(* solids.                                                                 *)
(***************************************************************************)
EXTENDS DesignDialogue, SequenceTheorems, FiniteSetTheorems, WellFoundedInduction, TLAPS

(* Where a pattern matches in the words so far, it matches at the same     *)
(* places of the words that follow.                                        *)
LEMMA Prefix ==
    ASSUME NEW w \in Seq(Phrase), NEW m \in Seq(Phrase)
    PROVE  /\ w \o m \in Seq(Phrase)
           /\ DOMAIN w \subseteq DOMAIN (w \o m)
           /\ \A i \in DOMAIN w : (w \o m)[i] = w[i]
           /\ \A i \in DOMAIN (w \o m) : i \in Nat /\ (i \notin DOMAIN w =>
                                           \A j \in DOMAIN w : j < i)
<1>1. /\ Len(w) \in Nat /\ DOMAIN w = 1..Len(w)
      /\ Len(m) \in Nat
      /\ w \o m \in Seq(Phrase) /\ Len(w \o m) = Len(w) + Len(m)
      /\ DOMAIN (w \o m) = 1..Len(w \o m)
  BY LenProperties, ConcatProperties
<1>2. \A i \in 1..(Len(w) + Len(m)) : (w \o m)[i] = IF i <= Len(w) THEN w[i] ELSE m[i - Len(w)]
  BY ConcatProperties
<1> QED
  BY <1>1, <1>2

(* There is a first place among those where a pattern matches.             *)
LEMMA Least ==
    ASSUME NEW I \in SUBSET Nat, I # {}
    PROVE  \E i \in I : \A j \in I : i <= j
<1>1. IsWellFoundedOn(OpToRel(<, Nat), Nat)
  BY NatLessThanWellFounded
<1>2. PICK i \in I : \A j \in I : <<j, i>> \notin OpToRel(<, Nat)
  BY <1>1, WFMin
<1>3. \A j \in I : ~(j < i)
  BY <1>2 DEF OpToRel
<1> QED
  BY <1>3

(* It is one of the words.                                                 *)
LEMMA FirstIn ==
    ASSUME NEW w, NEW I \in SUBSET Nat, I # {}
    PROVE  \E i \in I : First(w, I) = w[i]
BY Least DEF First

-----------------------------------------------------------------------------
(* What a snapshot holds comes from the words w: where they say nothing,   *)
(* it holds nothing.                                                       *)
Silent(w, d) == Trailing(w, d) = {} /\ Naming(w, d) = {} /\ Compactly(w, d) = {}
NoHole(w) == ~ \E i \in Of(w, "size") : w[i].wording \in HoleWording

Covered(s, w) ==
    /\ \A d \in Dimension : Silent(w, d) => s.dimensions[d] = None
    /\ \A f \in {"hole", "fillet", "chamfer"} :
          About(w, f) = {} /\ (f = "hole" => NoHole(w)) => f \notin s.features
    /\ Of(w, "part") = {} => s.partType = None

(* What is extracted from all words does not depend on a snapshot they     *)
(* cover, but for its version.                                             *)
SameBut(s, u) ==
    /\ s.partType = u.partType /\ s.unit = u.unit /\ s.dimensions = u.dimensions
    /\ s.features = u.features /\ s.missing = u.missing /\ s.conflicts = u.conflicts

LEMMA Merge ==
    ASSUME NEW s, NEW w, NEW b, NEW x, Covered(s, w)
    PROVE  SameBut(extractRequirementSnapshot(w, b, x, s), ReadOut(w))
<1>1. Dimensions(w, s.dimensions) = Dimensions(w, NoSnapshot.dimensions)
  <2>1. \A d \in Dimension :
            OrElse(w, Trailing(w, d), OrElse(w, Naming(w, d),
                OrElse(w, Compactly(w, d), s.dimensions[d])))
          = OrElse(w, Trailing(w, d), OrElse(w, Naming(w, d),
                OrElse(w, Compactly(w, d), NoSnapshot.dimensions[d])))
    BY DEF Covered, Silent, OrElse, NoSnapshot
  <2> QED
    BY <2>1 DEF Dimensions
<1>2. Features(w, s.features) = Features(w, NoSnapshot.features)
  BY DEF Covered, NoHole, Features, NoSnapshot
<1>3. PartIn(w, s.partType) = PartIn(w, NoSnapshot.partType)
  BY DEF Covered, PartIn, NoSnapshot
<1> QED
  BY <1>1, <1>2, <1>3 DEF SameBut, ReadOut, extractRequirementSnapshot

LEMMA CoveredNone == ASSUME NEW w PROVE Covered(NoSnapshot, w)
BY DEF Covered, NoSnapshot

(* What is extracted is covered by the words it is extracted from.         *)
LEMMA Own ==
    ASSUME NEW s, NEW w, NEW b, NEW x, Covered(s, w)
    PROVE  Covered(extractRequirementSnapshot(w, b, x, s), w)
<1>1. \A d \in Dimension : Silent(w, d) => Dimensions(w, s.dimensions)[d] = None
  BY DEF Covered, Silent, OrElse, Dimensions
<1>2. \A f \in {"hole", "fillet", "chamfer"} :
          About(w, f) = {} /\ (f = "hole" => NoHole(w)) => f \notin Features(w, s.features)
  BY DEF Covered, NoHole, Features
<1>3. Of(w, "part") = {} => PartIn(w, s.partType) = None
  BY DEF Covered, PartIn
<1> QED
  BY <1>1, <1>2, <1>3 DEF Covered, extractRequirementSnapshot

(* More words cover what fewer do.                                         *)
LEMMA Grows ==
    ASSUME NEW s, NEW w \in Seq(Phrase), NEW m \in Seq(Phrase), Covered(s, w)
    PROVE  Covered(s, w \o m)
<1>1. \A k : Of(w, k) \subseteq Of(w \o m, k)
  BY Prefix DEF Of
<1>2. \A d \in Dimension : Silent(w \o m, d) => Silent(w, d)
  <2>1. \A d \in Dimension : Naming(w, d) \subseteq Naming(w \o m, d)
    BY <1>1, Prefix DEF Naming, Of
  <2>2. \A d \in Dimension : Trailing(w, d) \subseteq Trailing(w \o m, d)
    BY <1>1, Prefix DEF Trailing, Of
  <2>3. \A d \in Dimension : Compactly(w, d) \subseteq Compactly(w \o m, d)
    BY <1>1 DEF Compactly
  <2> QED
    BY <2>1, <2>2, <2>3 DEF Silent
<1>3. \A f : About(w, f) \subseteq About(w \o m, f)
  BY <1>1, Prefix DEF About, Of
<1>4. NoHole(w \o m) => NoHole(w)
  BY <1>1, Prefix DEF NoHole, Of
<1> QED
  BY <1>1, <1>2, <1>3, <1>4 DEF Covered

-----------------------------------------------------------------------------
(* The latest task of several is one of them.                              *)
LEMMA Latest ==
    ASSUME NEW S \in SUBSET Task, S # {}, \A t \in Task : task[t].born \in Nat
    PROVE  LatestOf(S) \in S
<1> DEFINE After(t) == {u \in S : task[u].born > task[t].born}
           T == {After(t) : t \in S}
<1>1. IsFiniteSet(S)
  BY DialogueConstants, FS_Subset
<1>2. T # {} /\ T \subseteq FiniteSubsetsOf(S)
  <2>1. \A t \in S : After(t) \subseteq S /\ IsFiniteSet(After(t))
    BY <1>1, FS_Subset
  <2> QED
    BY <2>1 DEF FiniteSubsetsOf
<1>3. \E X \in T : \A Y \in T : <<Y, X>> \notin StrictSubsetOrdering(S)
  <2> HIDE DEF T
  <2> QED
    BY <1>2, FS_StrictSubsetOrderingWellFounded, WFMin
<1>4. PICK t \in S : \A u \in S : <<After(u), After(t)>> \notin StrictSubsetOrdering(S)
  BY <1>3
<1>5. \A u \in S : task[u].born <= task[t].born
  <2> SUFFICES ASSUME NEW u \in S, task[u].born > task[t].born PROVE FALSE
    OBVIOUS
  <2>1. After(u) \subseteq After(t) /\ u \in After(t) /\ u \notin After(u)
    OBVIOUS
  <2>2. <<After(u), After(t)>> \in StrictSubsetOrdering(S)
    BY <2>1 DEF StrictSubsetOrdering
  <2> QED
    BY <1>4, <2>2
<1> QED
  BY <1>5 DEF LatestOf

(* The types of what is read out of words.                                 *)
LEMMA NoSnapshotType == NoSnapshot \in Snapshot
BY DEF NoSnapshot, Snapshot, Value, Unit

LEMMA Known ==
    \A p \in Phrase : /\ p.kind = "part" => p.part \in ToSet(PartOrder)
                      /\ p.kind = "unit" => p.unit \in Unit
BY DialogueConstants

LEMMA Sizes == {"length", "width", "thickness", "outerDiameter"} \subseteq Dimension
<1>1. /\ {"length", "width", "thickness", "outer_diameter"} \subseteq DOMAIN NamedBy
      /\ "length" \in NamedBy["length"] /\ "width" \in NamedBy["width"]
      /\ "thickness" \in NamedBy["thickness"] /\ "outerDiameter" \in NamedBy["outer_diameter"]
  BY DEF NamedBy
<1> QED
  BY <1>1 DEF Dimension

LEMMA ExtractType ==
    ASSUME NEW s \in Snapshot, NEW w \in Seq(Phrase),
           NEW b \in BOOLEAN, NEW x \in SUBSET Reference
    PROVE  extractRequirementSnapshot(w, b, x, s) \in Snapshot
<1>1. DOMAIN w \subseteq Nat /\ \A i \in DOMAIN w : w[i] \in Phrase
  BY LenProperties, ElementOfSeq
<1>2. \A I \in SUBSET (Of(w, "size") \cup Of(w, "compact")), v \in Value :
          OrElse(w, I, v) \in Value
  <2> SUFFICES ASSUME NEW I \in SUBSET (Of(w, "size") \cup Of(w, "compact")), I # {}
               PROVE  First(w, I).value \in Value
    BY DEF OrElse
  <2>1. PICK i \in I : First(w, I) = w[i]
    BY <1>1, FirstIn DEF Of
  <2>2. i \in DOMAIN w /\ w[i].kind \in {"size", "compact"}
    BY DEF Of
  <2> QED
    BY <1>1, <2>1, <2>2 DEF Value
<1>3. Dimensions(w, s.dimensions) \in [Dimension -> Value]
  <2> SUFFICES ASSUME NEW d \in Dimension
               PROVE  OrElse(w, Trailing(w, d), OrElse(w, Naming(w, d),
                          OrElse(w, Compactly(w, d), s.dimensions[d]))) \in Value
    BY DEF Dimensions
  <2>1. s.dimensions[d] \in Value
    BY DEF Snapshot
  <2>2. OrElse(w, Compactly(w, d), s.dimensions[d]) \in Value
    BY <1>2, <2>1 DEF Compactly
  <2>3. OrElse(w, Naming(w, d), OrElse(w, Compactly(w, d), s.dimensions[d])) \in Value
    BY <1>2, <2>2 DEF Naming
  <2> QED
    BY <1>2, <2>3 DEF Trailing
<1>4. PartIn(w, s.partType) \in {None} \cup ToSet(PartOrder)
  <2>1. CASE Of(w, "part") = {}
    BY <2>1 DEF PartIn, Snapshot
  <2>2. CASE Of(w, "part") # {}
    <3> DEFINE parts == {w[j].part : j \in Of(w, "part")}
               I == {i \in 1..3 : PartOrder[i] \in parts}
    <3>1. PICK p \in parts : p \in ToSet(PartOrder)
      <4>1. PICK j \in Of(w, "part") : TRUE
        BY <2>2
      <4>2. w[j] \in Phrase /\ w[j].kind = "part"
        BY <1>1 DEF Of
      <4>3. w[j].part \in ToSet(PartOrder)
        BY <4>2, Known
      <4> QED
        BY <4>3
    <3>2. /\ DOMAIN PartOrder = 1..3
          /\ ToSet(PartOrder) = {PartOrder[i] : i \in 1..3}
      BY DEF ToSet, PartOrder
    <3>3. I # {} /\ I \in SUBSET Nat
      BY <3>1, <3>2
    <3>4. PICK i \in I : First(PartOrder, I) = PartOrder[i]
      BY ONLY <3>3, FirstIn
    <3>5. First(PartOrder, I) \in ToSet(PartOrder)
      BY <3>2, <3>4
    <3>6. parts # {}
      BY <3>1
    <3> QED
      BY <3>5, <3>6 DEF PartIn
  <2> QED
    BY <2>1, <2>2
<1>5. \A part, dimensions : Missing(part, dimensions) \in SUBSET ({"partType"} \cup Dimension)
  <2>1. \A part : RequiredOf(part) \subseteq Dimension
    BY Sizes DEF RequiredOf
  <2> QED
    BY <2>1 DEF Missing
<1>6. /\ Features(w, s.features) \in SUBSET {"hole", "fillet", "chamfer"}
      /\ DetectUnit(w) \in Unit /\ Conflicts(w) \in BOOLEAN
  BY DEF Features, DetectUnit, Unit, Conflicts
<1> QED
  BY <1>3, <1>4, <1>5, <1>6 DEF extractRequirementSnapshot, Snapshot

-----------------------------------------------------------------------------
(* An entity of a map is a part of the solid, and has its place as ref.    *)
LEMMA MapEntities ==
    ASSUME NEW s, NEW n, NEW kind \in Kind
    PROVE  /\ DeriveMap(s, n)[kind] = Entities(s, kind)
           /\ \A e \in Entities(s, kind) :
                 /\ e.ref \in DOMAIN PartsOf(s, kind)
                 /\ e = Entity(s, kind, e.ref)
<1>1. DeriveMap(s, n)[kind] = Entities(s, kind)
  BY DEF Kind, DeriveMap
<1>2. ASSUME NEW e \in Entities(s, kind)
      PROVE  e.ref \in DOMAIN PartsOf(s, kind) /\ e = Entity(s, kind, e.ref)
  <2>1. PICK i \in DOMAIN PartsOf(s, kind) : e = Entity(s, kind, i)
    BY DEF Entities
  <2>2. e.ref = i
    BY <2>1 DEF Entity, Ref
  <2> QED
    BY <2>1, <2>2
<1> QED
  BY <1>1, <1>2

LEMMA WordsType ==
    \A m \in Message : /\ m.words \in Seq(Phrase)
                       /\ m.freecad \in BOOLEAN /\ m.refs \in SUBSET Reference
BY DialogueConstants

LEMMA RowType ==
    ASSUME TypeOK, NEW m \in Message, NEW status \in {"QUEUED", "COMPLETED"}
    PROVE  /\ Row(status, m) \in TaskRow
           /\ Row(status, m).born > 0
           /\ Row(status, m).status = status /\ Row(status, m).freecad = m.freecad
           /\ Row(status, m).snapshot
                = extractRequirementSnapshot(m.words, m.freecad, m.refs, NoSnapshot)
<1>1. Cardinality({t \in Task : task[t].born > 0}) \in Nat
  BY DialogueConstants, FS_Subset, FS_CardinalityType
<1>2. extractRequirementSnapshot(m.words, m.freecad, m.refs, NoSnapshot) \in Snapshot
  BY WordsType, NoSnapshotType, ExtractType
<1>3. m.freecad \in BOOLEAN
  BY WordsType
<1> HIDE DEF extractRequirementSnapshot
<1> QED
  BY <1>1, <1>2, <1>3 DEF Row, TaskRow, Open

(* A request that answers knows the task it answers.                       *)
Answering(r) == request[r].step \in {"acquire", "read", "commit"}
Targets == \A r \in Request : Answering(r) => request[r].task \in Task

LEMMA Steps ==
    ASSUME TypeOK, NEW r \in Request,
           NEW step \in {"find", "create", "acquire", "read", "commit", "done"}
    PROVE  [request EXCEPT ![r].step = step] \in [Request -> RequestState]
<1>1. request[r] \in RequestState
  BY DEF TypeOK
<1>2. [request[r] EXCEPT !.step = step] \in RequestState
  BY <1>1 DEF RequestState
<1> QED
  BY <1>2 DEF TypeOK

LEMMA Statuses ==
    ASSUME TypeOK, NEW t \in Task,
           NEW status \in Open \cup Waiting \cup {"NONE", "COMPLETED", "FAILED"}
    PROVE  [task EXCEPT ![t].status = status] \in [Task -> TaskRow]
<1>1. task[t] \in TaskRow
  BY DEF TypeOK
<1>2. [task[t] EXCEPT !.status = status] \in TaskRow
  BY <1>1 DEF TaskRow
<1> QED
  BY <1>2 DEF TypeOK

LEMMA EndsType ==
    ASSUME TypeOK, NEW t \in Task,
           NEW status \in Open \cup Waiting \cup {"NONE", "COMPLETED", "FAILED"},
           Ends(t, status)
    PROVE  /\ task' \in [Task -> TaskRow] /\ worker' \in [Task -> Snapshot \cup {None}]
           /\ lease' \in Task \cup {None}
           /\ said' \in [Task -> Seq(Phrase)] /\ request' \in [Request -> RequestState]
BY Statuses DEF Ends, Released, TypeOK

LEMMA RevisionType ==
    ASSUME TypeOK, MayPublish, UNCHANGED selection
    PROVE  /\ revision' \in Seq(Solid)
           /\ \A s \in selection' :
                 /\ s.revision \in DOMAIN revision' /\ s.kind \in Kind
                 /\ s.ref \in DOMAIN PartsOf(revision'[s.revision], s.kind)
<1>1. CASE UNCHANGED revision
  BY <1>1 DEF TypeOK
<1>2. CASE \E s \in Solid : revision' = Append(revision, s)
  <2>1. /\ revision' \in Seq(Solid)
        /\ \A n \in DOMAIN revision : n \in DOMAIN revision' /\ revision'[n] = revision[n]
    BY <1>2, AppendProperties, LenProperties DEF TypeOK
  <2> QED
    BY <2>1 DEF TypeOK
<1> QED
  BY <1>1, <1>2 DEF MayPublish

LEMMA TypeInit == Init => TypeOK /\ Targets
<1> SUFFICES ASSUME Init PROVE TypeOK /\ Targets
  OBVIOUS
<1>1. \A m \in Message : Asking(m) \in RequestState
  BY NoSnapshotType DEF Asking, RequestState
<1>2. request \in [Request -> RequestState]
  BY <1>1 DEF Init
<1>3. NoRow \in TaskRow
  BY NoSnapshotType DEF NoRow, TaskRow
<1> QED
  BY <1>2, <1>3 DEF Init, TypeOK, Targets, Answering, Asking

LEMMA TargetsNext == TypeOK /\ Targets /\ [Next]_vars => Targets'
<1> SUFFICES ASSUME TypeOK, Targets, [Next]_vars, NEW q \in Request, Answering(q)'
             PROVE  request'[q].task \in Task
  BY DEF Targets
<1>1. ASSUME request'[q] = request[q] PROVE request'[q].task \in Task
  BY <1>1 DEF Targets, Answering
<1>2. CASE FindWaiting(q)
  <2>1. \A t \in Task : task[t].born \in Nat
    BY DEF TypeOK, TaskRow
  <2>2. Having(Waiting) # {} => LatestOf(Having(Waiting)) \in Task
    BY <2>1, Latest DEF Having
  <2> QED
    BY <1>2, <2>2 DEF FindWaiting, TypeOK, RequestState, Answering
<1>3. CASE Create(q) \/ ReadFails(q) \/ Answer(q) \/ AnswerFails(q)
  <2>1. request' = [request EXCEPT ![q].step = "done"]
    BY <1>3 DEF Create, ReadFails, Answer, AnswerFails
  <2>2. request[q] \in RequestState /\ request'[q] = [request[q] EXCEPT !.step = "done"]
    BY <2>1 DEF TypeOK
  <2>3. request'[q].step = "done"
    BY <2>2 DEF RequestState
  <2> QED
    BY <2>3 DEF Answering
<1>4. CASE Acquire(q) \/ ReadMessages(q)
  <2>1. Answering(q) /\ request'[q].task = request[q].task
    BY <1>4 DEF Acquire, ReadMessages, Answering, TypeOK, RequestState
  <2> QED
    BY <2>1 DEF Targets
<1>5. ASSUME NEW r \in Request, r # q,
             \/ FindWaiting(r) \/ Create(r) \/ Acquire(r) \/ ReadMessages(r)
             \/ ReadFails(r) \/ Answer(r) \/ AnswerFails(r)
      PROVE  request'[q] = request[q]
  BY <1>5 DEF FindWaiting, Create, Acquire, ReadMessages, ReadFails, Answer, AnswerFails, TypeOK
<1>6. CASE UNCHANGED request
  BY <1>6, <1>1
<1>7. ASSUME NEW t \in Task, Start(t) \/ Ask(t) \/ Build(t) \/ GivesUp(t) \/ Fails(t)
      PROVE  UNCHANGED request
  BY <1>7 DEF Start, Ask, Build, GivesUp, Fails, Ends
<1>8. ASSUME NEW n \in DOMAIN revision, NEW kind \in Kind, Inspect(n, kind)
      PROVE  UNCHANGED request
  BY <1>8 DEF Inspect
<1>9. ASSUME NEW r \in Request,
             \/ FindWaiting(r) \/ Create(r) \/ Acquire(r) \/ ReadMessages(r)
             \/ ReadFails(r) \/ Answer(r) \/ AnswerFails(r)
      PROVE  request'[q].task \in Task
  <2>1. CASE r = q
    BY <1>2, <1>3, <1>4, <1>9, <2>1
  <2>2. CASE r # q
    BY <1>1, <1>5, <1>9, <2>2
  <2> QED
    BY <2>1, <2>2
<1>10. CASE UNCHANGED vars
  BY <1>6, <1>10 DEF vars
<1> QED
  BY <1>6, <1>7, <1>8, <1>9, <1>10 DEF Next

LEMMA TypeNext == TypeOK /\ Targets /\ [Next]_vars => TypeOK'
<1> SUFFICES ASSUME TypeOK, Targets, [Next]_vars PROVE TypeOK'
  OBVIOUS
<1>1. ASSUME NEW r \in Request, FindWaiting(r) PROVE TypeOK'
  <2>1. \A t \in Task : task[t].born \in Nat /\ task[t].snapshot \in Snapshot
    BY DEF TypeOK, TaskRow
  <2>2. Having(Waiting) # {} => LatestOf(Having(Waiting)) \in Task
    BY <2>1, Latest DEF Having
  <2>3. request[r] \in RequestState
    BY DEF TypeOK
  <2>4. request'[r] \in RequestState
    <3>1. CASE Having(Waiting) = {}
      BY <1>1, <2>3, <3>1 DEF FindWaiting, RequestState, TypeOK
    <3>2. CASE Having(Waiting) # {}
      <4> DEFINE t == LatestOf(Having(Waiting))
      <4>1. request'[r] = [request[r] EXCEPT !.step = "acquire", !.task = t,
                                             !.previous = task[t].snapshot]
        BY <1>1, <3>2 DEF FindWaiting, TypeOK
      <4>2. t \in Task /\ task[t].snapshot \in Snapshot
        BY <2>1, <2>2, <3>2
      <4> HIDE DEF t
      <4> QED
        BY <2>3, <4>1, <4>2 DEF RequestState
    <3> QED
      BY <3>1, <3>2
  <2> QED
    BY <1>1, <2>4 DEF FindWaiting, TypeOK
<1>2. ASSUME NEW r \in Request, Create(r) PROVE TypeOK'
  <2>1. request[r].message \in Message /\ request[r].message.words \in Seq(Phrase)
    BY WordsType DEF TypeOK, RequestState
  <2>3. /\ Row("QUEUED", request[r].message) \in TaskRow
        /\ Row("COMPLETED", request[r].message) \in TaskRow
    BY <2>1, RowType
  <2>4. request' \in [Request -> RequestState]
    BY <1>2, Steps DEF Create
  <2> QED
    BY <1>2, <2>1, <2>3, <2>4 DEF Create, TypeOK
<1>3. ASSUME NEW r \in Request, Acquire(r) PROVE TypeOK'
  <2>1. request' \in [Request -> RequestState]
    BY <1>3, Steps DEF Acquire
  <2>2. lease' \in Task \cup {None}
    BY <1>3 DEF Acquire, TypeOK, RequestState
  <2> QED
    BY <1>3, <2>1, <2>2 DEF Acquire, TypeOK
<1>4. ASSUME NEW r \in Request, ReadMessages(r) PROVE TypeOK'
  <2>1. request[r] \in RequestState /\ request[r].task \in Task
    BY <1>4 DEF ReadMessages, Targets, Answering, TypeOK
  <2>2. Joined(r) \in Seq(Phrase)
    <3>1. request[r].message.words \in Seq(Phrase)
      BY <2>1, WordsType DEF RequestState
    <3> QED
      BY <2>1, <3>1, ConcatProperties DEF Joined, TypeOK
  <2>3. request'[r] \in RequestState
    BY <1>4, <2>1, <2>2 DEF ReadMessages, TypeOK, RequestState
  <2> QED
    BY <1>4, <2>3 DEF ReadMessages, TypeOK
<1>5. ASSUME NEW r \in Request, ReadFails(r) PROVE TypeOK'
  BY <1>5, Steps DEF ReadFails, TypeOK
<1>6. ASSUME NEW r \in Request, Answer(r) PROVE TypeOK'
  <2>1. request[r] \in RequestState /\ request[r].task \in Task
    BY <1>6 DEF Answer, Targets, Answering, TypeOK
  <2> DEFINE t == request[r].task
  <2>2. Merged(r) \in Snapshot
    <3>2. (request[r].message.freecad \/ task[t].freecad) \in BOOLEAN
      OBVIOUS
    <3>3. /\ request[r].previous \in Snapshot /\ request[r].words \in Seq(Phrase)
          /\ request[r].message.refs \in SUBSET Reference
      BY <2>1, WordsType DEF RequestState
    <3> QED
      BY <3>2, <3>3, ExtractType DEF Merged
  <2>3. said[t] \o request[r].message.words \in Seq(Phrase)
    <3>1. request[r].message.words \in Seq(Phrase)
      BY <2>1, WordsType DEF RequestState
    <3> QED
      BY <2>1, <3>1, ConcatProperties DEF TypeOK
  <2>4. request' \in [Request -> RequestState]
    BY <1>6, Steps DEF Answer
  <2>5. task'[t] \in TaskRow
    BY <1>6, <2>1, <2>2 DEF Answer, TypeOK, TaskRow, Open
  <2> QED
    BY <1>6, <2>1, <2>3, <2>4, <2>5 DEF Answer, TypeOK
<1>7. ASSUME NEW r \in Request, AnswerFails(r) PROVE TypeOK'
  BY <1>7, Steps DEF AnswerFails, Released, TypeOK
<1>8. ASSUME NEW t \in Task, Start(t) PROVE TypeOK'
  BY <1>8, Statuses DEF Start, Open, TypeOK, TaskRow
<1>9. ASSUME NEW t \in Task, Ask(t) PROVE TypeOK'
  BY <1>9, EndsType DEF Ask, Waiting, TypeOK
<1>10. ASSUME NEW t \in Task, Build(t) PROVE TypeOK'
  BY <1>10, EndsType, RevisionType DEF Build, TypeOK
<1>11. ASSUME NEW t \in Task, GivesUp(t) PROVE TypeOK'
  BY <1>11, EndsType DEF GivesUp, Waiting, TypeOK
<1>12. ASSUME NEW t \in Task, Fails(t) PROVE TypeOK'
  BY <1>12, EndsType, RevisionType DEF Fails, MayPublish, TypeOK
<1>13. ASSUME NEW n \in DOMAIN revision, NEW kind \in Kind, Inspect(n, kind) PROVE TypeOK'
  BY <1>13, MapEntities DEF Inspect, MapOf, TypeOK
<1>14. CASE UNCHANGED vars
  BY <1>14 DEF vars, TypeOK
<1> QED
  BY <1>1, <1>2, <1>3, <1>4, <1>5, <1>6, <1>7, <1>8, <1>9, <1>10, <1>11, <1>12, <1>13, <1>14
     DEF Next

(* Type correctness.                                                       *)
THEOREM TypeCorrect == Spec => []TypeOK
BY TypeInit, TypeNext, TargetsNext, PTL DEF Spec

-----------------------------------------------------------------------------
(* Who may write: an open task has the lease, and so has the one request   *)
(* that reads or commits the messages of a task; what it has joined is     *)
(* therefore still what was said when it commits.                          *)
Holds(r) == request[r].step \in {"read", "commit"}

Ownership ==
    /\ \A t \in Task : /\ task[t].status \in Open => lease = t
                       /\ worker[t] # None => task[t].status = "RUNNING"
                       /\ task[t].born = 0 => task[t].status = "NONE"
    /\ \A r \in Request : Answering(r) => task[request[r].task].born > 0
    /\ \A r \in Request : Holds(r) => /\ lease = request[r].task
                                      /\ task[request[r].task].status \notin Open
    /\ \A q, r \in Request : Holds(q) /\ Holds(r) => q = r
    /\ \A r \in Request : request[r].step = "commit" => request[r].words = Joined(r)

LEMMA OwnershipInit == Init => Ownership
BY DEF Init, Ownership, Holds, Answering, Asking, NoRow, Open

(* A request that has nothing more to do stands in nobody's way.           *)
LEMMA DoneStep ==
    ASSUME TypeOK, NEW r \in Request, request' = [request EXCEPT ![r].step = "done"]
    PROVE  /\ \A q \in Request \ {r} : request'[q] = request[q]
           /\ ~Answering(r)' /\ ~Holds(r)' /\ request'[r].step # "commit"
           /\ \A q \in Request : Answering(q)' => q # r /\ Answering(q)
           /\ \A q \in Request : Holds(q)' => q # r /\ Holds(q)
<1>1. request[r] \in RequestState
  BY DEF TypeOK
<1>2. request'[r].step = "done"
  BY <1>1 DEF TypeOK, RequestState
<1>3. \A q \in Request \ {r} : request'[q] = request[q]
  BY DEF TypeOK
<1> QED
  BY <1>2, <1>3 DEF Answering, Holds

(* The steps of the workers leave the requests and the words alone.        *)
LEMMA WorkerFrame ==
    ASSUME TypeOK, NEW t \in Task, NEW status \in {"RUNNING", "COMPLETED", "FAILED",
                                                   "WAITING_USER", "NEEDS_USER"},
           task' = [task EXCEPT ![t].status = status]
    PROVE  /\ \A u \in Task \ {t} : task'[u] = task[u]
           /\ task'[t].status = status
           /\ \A u \in Task : /\ task'[u].born = task[u].born
                              /\ task'[u].snapshot = task[u].snapshot
                              /\ task'[u].freecad = task[u].freecad
<1>1. task[t] \in TaskRow
  BY DEF TypeOK
<1>2. task'[t] = [task[t] EXCEPT !.status = status]
  BY DEF TypeOK
<1>3. \A u \in Task \ {t} : task'[u] = task[u]
  BY DEF TypeOK
<1> QED
  BY <1>1, <1>2, <1>3 DEF TaskRow

LEMMA OwnershipEnds ==
    ASSUME TypeOK, Targets, Ownership, NEW t \in Task, worker[t] # None,
           NEW status \in {"COMPLETED", "FAILED", "WAITING_USER", "NEEDS_USER"},
           Ends(t, status)
    PROVE  Ownership'
<1>1. /\ \A u \in Task \ {t} : task'[u] = task[u] /\ worker'[u] = worker[u]
      /\ task'[t].status = status /\ worker'[t] = None
      /\ \A u \in Task : task'[u].born = task[u].born
      /\ UNCHANGED <<said, request>>
  BY WorkerFrame DEF Ends, TypeOK
<1>2. lease = t /\ task[t].status = "RUNNING"
  BY DEF Ownership, Open
<1>3. \A r \in Request : ~Holds(r)
  BY <1>2 DEF Ownership, Open
<1>4. \A u \in Task \ {t} : task[u].status \notin Open
  BY <1>2 DEF Ownership
<1>5. task[t].born # 0
  BY <1>2 DEF Ownership
<1>6. \A r \in Request : ~Holds(r)' /\ (Answering(r)' => Answering(r))
  BY <1>1, <1>3 DEF Holds, Answering
<1>7. \A u \in Task : /\ task'[u].status \in Open => lease' = u
                      /\ worker'[u] # None => task'[u].status = "RUNNING"
                      /\ task'[u].born = 0 => task'[u].status = "NONE"
  BY <1>1, <1>4, <1>5 DEF Ownership, Open
<1>8. \A r \in Request : request'[r].step # "commit"
  BY <1>1, <1>3 DEF Holds
<1>9. \A r \in Request : Answering(r)' => task'[request'[r].task].born > 0
  BY <1>1, <1>6 DEF Ownership, Targets
<1> QED
  BY <1>6, <1>7, <1>8, <1>9 DEF Ownership

LEMMA OwnershipNext == TypeOK /\ Targets /\ Ownership /\ [Next]_vars => Ownership'
<1> SUFFICES ASSUME TypeOK, Targets, Ownership, [Next]_vars PROVE Ownership'
  OBVIOUS
<1>1. ASSUME NEW r \in Request, FindWaiting(r) PROVE Ownership'
  <2>1. UNCHANGED <<task, said, lease, worker>>
    BY <1>1 DEF FindWaiting
  <2>2. \A q \in Request \ {r} : request'[q] = request[q]
    BY <1>1 DEF FindWaiting, TypeOK
  <2>3. /\ request'[r].step \in {"create", "acquire"}
        /\ request'[r].step = "acquire" =>
             Having(Waiting) # {} /\ request'[r].task = LatestOf(Having(Waiting))
    BY <1>1 DEF FindWaiting, TypeOK, RequestState
  <2>4. request'[r].step = "acquire" => task[request'[r].task].born > 0
    <3>1. \A t \in Task : task[t].born \in Nat
      BY DEF TypeOK, TaskRow
    <3>2. \A t \in Having(Waiting) : t \in Task /\ task[t].status # "NONE"
      BY DEF Having, Waiting
    <3>3. \A t \in Having(Waiting) : task[t].born > 0
      BY <3>1, <3>2 DEF Ownership
    <3> QED
      BY <2>3, <3>1, <3>2, <3>3, Latest
  <2>5. ~Holds(r)'
    BY <2>3 DEF Holds
  <2>6. \A q \in Request : Holds(q)' => q # r /\ Holds(q)
    BY <2>2, <2>5 DEF Holds
  <2>7. \A q \in Request : Answering(q)' => task'[request'[q].task].born > 0
    BY <2>1, <2>2, <2>3, <2>4 DEF Ownership, Answering
  <2> QED
    BY <2>1, <2>2, <2>3, <2>6, <2>7 DEF Ownership, Joined
<1>2. ASSUME NEW r \in Request, Create(r) PROVE Ownership'
  <2>1. /\ \A q \in Request : Answering(q)' => q # r /\ Answering(q) /\ request'[q] = request[q]
        /\ \A q \in Request : Holds(q)' => q # r /\ Holds(q) /\ request'[q] = request[q]
        /\ \A q \in Request : request'[q].step = "commit" => request'[q] = request[q]
    BY <1>2, DoneStep DEF Create
  <2>2. UNCHANGED worker
    BY <1>2 DEF Create
  <2>3. CASE UNCHANGED <<task, said, lease>>
    BY <2>1, <2>2, <2>3 DEF Ownership, Joined
  <2>4. CASE \E t \in Task : task[t].born = 0 /\ \E m \in Message :
               /\ said' = [said EXCEPT ![t] = m.words]
               /\ \/ lease = None /\ lease' = t /\ task' = [task EXCEPT ![t] = Row("QUEUED", m)]
                  \/ lease' = lease /\ task' = [task EXCEPT ![t] = Row("COMPLETED", m)]
    <3>1. PICK t \in Task, m \in Message :
               /\ task[t].born = 0
               /\ said' = [said EXCEPT ![t] = m.words]
               /\ \/ lease = None /\ lease' = t /\ task' = [task EXCEPT ![t] = Row("QUEUED", m)]
                  \/ lease' = lease /\ task' = [task EXCEPT ![t] = Row("COMPLETED", m)]
      BY <2>4
    <3>2. /\ \A u \in Task \ {t} : task'[u] = task[u] /\ said'[u] = said[u]
          /\ task'[t].born > 0 /\ task'[t].status \in {"QUEUED", "COMPLETED"}
          /\ task'[t].status = "QUEUED" => lease = None /\ lease' = t
          /\ task'[t].status = "COMPLETED" => lease' = lease
      BY <3>1, RowType DEF TypeOK
    <3>3. worker[t] = None
      BY <3>1 DEF Ownership
    <3>4. \A q \in Request : Answering(q) => request[q].task \in Task \ {t}
      BY <3>1 DEF Ownership, Targets
    <3>5. \A u \in Task : /\ task'[u].status \in Open => lease' = u
                          /\ worker'[u] # None => task'[u].status = "RUNNING"
                          /\ task'[u].born = 0 => task'[u].status = "NONE"
      BY <2>2, <3>2, <3>3, DialogueConstants DEF Ownership, Open
    <3>6. lease = None => \A q \in Request : ~Holds(q)
      BY DialogueConstants DEF Ownership, Holds, Targets, Answering
    <3>7. \A q \in Request : Holds(q)' => /\ lease' = request'[q].task
                                          /\ task'[request'[q].task].status \notin Open
      BY <2>1, <3>2, <3>4, <3>6 DEF Ownership, Holds, Answering
    <3>8. \A q \in Request : Answering(q)' => task'[request'[q].task].born > 0
      BY <2>1, <3>2, <3>4 DEF Ownership
    <3>9. \A q \in Request : request'[q].step = "commit" => request'[q].words = Joined(q)'
      <4> SUFFICES ASSUME NEW q \in Request, request'[q].step = "commit"
                   PROVE  request'[q].words = Joined(q)'
        OBVIOUS
      <4>1. request'[q] = request[q] /\ request[q].step = "commit"
        BY <2>1
      <4>2. request[q].words = Joined(q)
        BY <4>1 DEF Ownership
      <4>3. request[q].task \in Task \ {t}
        BY <3>4, <4>1 DEF Answering
      <4> QED
        BY <3>2, <4>1, <4>2, <4>3 DEF Joined
    <3> QED
      BY <2>1, <3>5, <3>7, <3>8, <3>9 DEF Ownership
  <2>5. request[r].message \in Message
    BY DEF TypeOK, RequestState
  <2> QED
    BY <1>2, <2>3, <2>4, <2>5 DEF Create
<1>3. ASSUME NEW r \in Request, Acquire(r) PROVE Ownership'
  <2>1. UNCHANGED <<task, said, worker>>
    BY <1>3 DEF Acquire
  <2>2. CASE lease = None
    <3>1. request' = [request EXCEPT ![r].step = "read"] /\ lease' = request[r].task
      BY <1>3, <2>2 DEF Acquire, FreeFor
    <3>2. /\ \A q \in Request \ {r} : request'[q] = request[q]
          /\ request'[r].step = "read" /\ request'[r].task = request[r].task
      BY <3>1 DEF TypeOK, RequestState
    <3>3. \A q \in Request : ~Holds(q)
      BY <2>2, DialogueConstants DEF Ownership, Holds, Targets, Answering
    <3>4. \A t \in Task : task[t].status \notin Open
      BY <2>2, DialogueConstants DEF Ownership
    <3>5. request[r].step = "acquire"
      BY <1>3 DEF Acquire
    <3>6. /\ request[r].task \in Task
          /\ \A q \in Request : Holds(q)' => q = r
          /\ \A q \in Request : request'[q].step # "commit"
          /\ \A q \in Request : Answering(q)' => Answering(q) /\ request'[q].task = request[q].task
      BY <3>2, <3>3, <3>5 DEF Holds, Answering, Targets
    <3> QED
      BY <2>1, <3>1, <3>2, <3>4, <3>6 DEF Ownership
  <2>3. CASE lease # None
    <3>1. request' = [request EXCEPT ![r].step = "done"] /\ UNCHANGED lease
      BY <1>3, <2>3 DEF Acquire, FreeFor
    <3>2. /\ \A q \in Request : Answering(q)' => q # r /\ Answering(q) /\ request'[q] = request[q]
          /\ \A q \in Request : Holds(q)' => q # r /\ Holds(q) /\ request'[q] = request[q]
          /\ \A q \in Request : request'[q].step = "commit" => request'[q] = request[q]
      BY <3>1, DoneStep
    <3> QED
      BY <2>1, <3>1, <3>2 DEF Ownership, Joined
  <2> QED
    BY <2>2, <2>3
<1>4. ASSUME NEW r \in Request, ReadMessages(r) PROVE Ownership'
  <2>1. UNCHANGED <<task, said, lease, worker>> /\ request[r].step = "read"
    BY <1>4 DEF ReadMessages
  <2>2. \A q \in Request \ {r} : request'[q] = request[q]
    BY <1>4 DEF ReadMessages, TypeOK
  <2>3. /\ request'[r].step = "commit" /\ request'[r].task = request[r].task
        /\ request'[r].message = request[r].message /\ request'[r].words = Joined(r)
    BY <1>4 DEF ReadMessages, TypeOK, RequestState
  <2>4. \A q \in Request : /\ Holds(q)' <=> Holds(q)
                           /\ Answering(q)' <=> Answering(q)
                           /\ request'[q].task = request[q].task
    BY <2>1, <2>2, <2>3 DEF Holds, Answering
  <2>5. \A q \in Request : request'[q].step = "commit" => request'[q].words = Joined(q)'
    BY <2>1, <2>2, <2>3 DEF Joined, Ownership
  <2> QED
    BY <2>1, <2>4, <2>5 DEF Ownership
<1>5. ASSUME NEW r \in Request, ReadFails(r) \/ AnswerFails(r) PROVE Ownership'
  <2>1. request' = [request EXCEPT ![r].step = "done"] /\ UNCHANGED <<task, said, worker>>
    BY <1>5 DEF ReadFails, AnswerFails
  <2>2. /\ \A q \in Request : Answering(q)' => q # r /\ Answering(q) /\ request'[q] = request[q]
        /\ \A q \in Request : Holds(q)' => q # r /\ Holds(q) /\ request'[q] = request[q]
        /\ \A q \in Request : request'[q].step = "commit" => request'[q] = request[q]
    BY <2>1, DoneStep
  <2>3. Holds(r)
    BY <1>5 DEF ReadFails, AnswerFails, Holds
  <2>4. \A q \in Request : ~Holds(q)'
    BY <2>2, <2>3 DEF Ownership
  <2>5. \A t \in Task : task[t].status \notin Open
    BY <2>3 DEF Ownership
  <2>6. \A q \in Request : request'[q].step = "commit" => request'[q].words = Joined(q)'
    BY <2>1, <2>2 DEF Joined, Ownership
  <2> QED
    BY <2>1, <2>2, <2>4, <2>5, <2>6 DEF Ownership
<1>6. ASSUME NEW r \in Request, Answer(r) PROVE Ownership'
  <2> DEFINE t == request[r].task
  <2>1. /\ request' = [request EXCEPT ![r].step = "done"] /\ UNCHANGED <<lease, worker>>
        /\ \A u \in Task \ {t} : task'[u] = task[u]
    BY <1>6 DEF Answer, TypeOK
  <2>2. /\ \A q \in Request : Answering(q)' => q # r /\ Answering(q) /\ request'[q] = request[q]
        /\ \A q \in Request : Holds(q)' => q # r /\ Holds(q)
        /\ \A q \in Request : request'[q].step = "commit" => Holds(q)'
    BY <2>1, DoneStep DEF Holds
  <2>3. Holds(r) /\ Answering(r)
    BY <1>6 DEF Answer, Holds, Answering
  <2>4. t \in Task /\ task[t] \in TaskRow
    BY <2>3 DEF Targets, TypeOK
  <2>5. task'[t].status = "QUEUED" /\ task'[t].born = task[t].born
    BY <1>6, <2>4 DEF Answer, TypeOK, TaskRow
  <2>6. \A q \in Request : ~Holds(q)' /\ request'[q].step # "commit"
    BY <2>2, <2>3 DEF Ownership
  <2>7. lease = t /\ task[t].born > 0 /\ task[t].status \notin Open
    BY <2>3 DEF Ownership
  <2>8. worker[t] = None
    BY <2>4, <2>7 DEF Ownership, Open
  <2>9. \A q \in Request : Answering(q)' => task'[request'[q].task].born > 0
    BY <2>1, <2>2, <2>5 DEF Ownership, Targets
  <2>10. \A u \in Task : /\ task'[u].status \in Open => lease' = u
                         /\ worker'[u] # None => task'[u].status = "RUNNING"
                         /\ task'[u].born = 0 => task'[u].status = "NONE"
    BY <2>1, <2>4, <2>5, <2>7, <2>8 DEF Ownership
  <2> QED
    BY <2>6, <2>9, <2>10 DEF Ownership
<1>7. ASSUME NEW t \in Task, Start(t) PROVE Ownership'
  <2>1. /\ UNCHANGED <<said, request>> /\ lease' = t
        /\ \A u \in Task \ {t} : task'[u] = task[u] /\ worker'[u] = worker[u]
        /\ task'[t].status = "RUNNING"
        /\ \A u \in Task : task'[u].born = task[u].born
        /\ task[t].status = "QUEUED"
    BY <1>7, WorkerFrame DEF Start, TypeOK
  <2>2. lease = t /\ task[t].born # 0
    BY <2>1 DEF Ownership, Open
  <2>3. \A r \in Request : ~Holds(r)
    BY <2>1, <2>2 DEF Ownership, Open
  <2>4. \A r \in Request : /\ ~Holds(r)' /\ request'[r].step # "commit"
                           /\ Answering(r)' => Answering(r)
    BY <2>1, <2>3 DEF Holds, Answering
  <2>5. \A u \in Task : /\ task'[u].status \in Open => lease' = u
                        /\ worker'[u] # None => task'[u].status = "RUNNING"
                        /\ task'[u].born = 0 => task'[u].status = "NONE"
    BY <2>1, <2>2 DEF Ownership
  <2>6. \A r \in Request : Answering(r)' => task'[request'[r].task].born > 0
    BY <2>1, <2>4 DEF Ownership, Targets
  <2> QED
    BY <2>4, <2>5, <2>6 DEF Ownership
<1>8. ASSUME NEW t \in Task, Ask(t) \/ Build(t) \/ GivesUp(t) \/ Fails(t) PROVE Ownership'
  BY <1>8, OwnershipEnds DEF Ask, Build, GivesUp, Fails
<1>9. ASSUME UNCHANGED <<task, said, lease, request, worker>> PROVE Ownership'
  BY <1>9 DEF Ownership, Answering, Holds, Joined
<1>10. ASSUME NEW n \in DOMAIN revision, NEW kind \in Kind, Inspect(n, kind) PROVE Ownership'
  BY <1>9, <1>10 DEF Inspect
<1> QED
  BY <1>1, <1>2, <1>3, <1>4, <1>5, <1>6, <1>7, <1>8, <1>9, <1>10 DEF Next, vars

-----------------------------------------------------------------------------
(* The snapshot of a task is what its words give, and says nothing that    *)
(* they do not; neither does the older snapshot of a request that answers. *)
Words ==
    /\ \A t \in Task : task[t].born > 0 =>
          /\ SameBut(task[t].snapshot, ReadOut(said[t]))
          /\ Covered(task[t].snapshot, said[t])
          /\ task[t].freecad => task[t].snapshot.freecad
    /\ \A r \in Request : Answering(r) => Covered(request[r].previous, said[request[r].task])
    /\ \A t \in Task : worker[t] # None => worker[t] = task[t].snapshot

LEMMA WordsInit == Init => Words
BY DEF Init, Words, Answering, Asking, NoRow

LEMMA WordsNext == TypeOK /\ Targets /\ Ownership /\ Words /\ [Next]_vars => Words'
<1> SUFFICES ASSUME TypeOK, Targets, Ownership, Words, [Next]_vars PROVE Words'
  OBVIOUS
<1>1. ASSUME NEW r \in Request, FindWaiting(r) PROVE Words'
  <2>1. UNCHANGED <<task, said, worker>>
    BY <1>1 DEF FindWaiting
  <2>2. \A q \in Request \ {r} : request'[q] = request[q]
    BY <1>1 DEF FindWaiting, TypeOK
  <2>3. Answering(r)' => Covered(request'[r].previous, said'[request'[r].task])
    <3> SUFFICES ASSUME Answering(r)'
                 PROVE  Covered(request'[r].previous, said[request'[r].task])
      BY <2>1
    <3> DEFINE t == LatestOf(Having(Waiting))
    <3>1. Having(Waiting) # {} /\ request'[r].task = t /\ request'[r].previous = task[t].snapshot
      BY <1>1 DEF FindWaiting, Answering, TypeOK, RequestState
    <3>2. \A u \in Task : task[u].born \in Nat
      BY DEF TypeOK, TaskRow
    <3>3. t \in Having(Waiting)
      BY <3>1, <3>2, Latest DEF Having
    <3>4. t \in Task /\ task[t].status # "NONE"
      BY <3>3 DEF Having, Waiting
    <3>5. task[t].born > 0
      BY <3>2, <3>4 DEF Ownership
    <3> QED
      BY <3>1, <3>4, <3>5 DEF Words
  <2>4. \A q \in Request : Answering(q)' => Covered(request'[q].previous, said'[request'[q].task])
    BY <2>1, <2>2, <2>3 DEF Words, Answering
  <2> QED
    BY <2>1, <2>4 DEF Words
<1>2. ASSUME NEW r \in Request, Create(r) PROVE Words'
  <2> DEFINE message == request[r].message
             words == message.words
             snapshot == extractRequirementSnapshot(words, message.freecad, message.refs,
                                                    NoSnapshot)
  <2>0. message \in Message
    BY DEF TypeOK, RequestState
  <2>1. \A q \in Request : Answering(q)' => Answering(q) /\ request'[q] = request[q]
    BY <1>2, DoneStep DEF Create
  <2>2. UNCHANGED worker
    BY <1>2 DEF Create
  <2>3. CASE UNCHANGED <<task, said>>
    BY <2>1, <2>2, <2>3 DEF Words
  <2>4. CASE \E t \in Task : /\ task[t].born = 0 /\ said' = [said EXCEPT ![t] = words]
                             /\ \E status \in {"QUEUED", "COMPLETED"} :
                                   task' = [task EXCEPT ![t] = Row(status, message)]
    <3>1. PICK t \in Task : /\ task[t].born = 0 /\ said' = [said EXCEPT ![t] = words]
                            /\ \E status \in {"QUEUED", "COMPLETED"} :
                                  task' = [task EXCEPT ![t] = Row(status, message)]
      BY <2>4
    <3>2. /\ \A u \in Task \ {t} : task'[u] = task[u] /\ said'[u] = said[u]
          /\ said'[t] = words /\ task'[t].snapshot = snapshot
          /\ task'[t].freecad = message.freecad
      <4> HIDE DEF message
      <4> QED
        BY <2>0, <3>1, RowType DEF TypeOK
    <3>3. /\ SameBut(snapshot, ReadOut(words)) /\ Covered(snapshot, words)
          /\ message.freecad => snapshot.freecad
      BY CoveredNone, Merge, Own DEF extractRequirementSnapshot
    <3>4. worker[t] = None /\ \A q \in Request : Answering(q) => request[q].task \in Task \ {t}
      BY <3>1 DEF Ownership, Targets
    <3>5. \A u \in Task : task'[u].born > 0 =>
            /\ SameBut(task'[u].snapshot, ReadOut(said'[u]))
            /\ Covered(task'[u].snapshot, said'[u])
            /\ task'[u].freecad => task'[u].snapshot.freecad
      <4> HIDE DEF snapshot, words, message
      <4> QED
        BY <3>2, <3>3 DEF Words
    <3>6. \A q \in Request : Answering(q)' => Covered(request'[q].previous, said'[request'[q].task])
      BY <2>1, <3>2, <3>4 DEF Words
    <3>7. \A u \in Task : worker'[u] # None => worker'[u] = task'[u].snapshot
      BY <2>2, <3>2, <3>4 DEF Words
    <3> QED
      BY <3>5, <3>6, <3>7 DEF Words
  <2> QED
    BY <1>2, <2>3, <2>4 DEF Create
<1>3. ASSUME NEW r \in Request, Acquire(r) \/ ReadMessages(r) PROVE Words'
  <2>1. UNCHANGED <<task, said, worker>>
    BY <1>3 DEF Acquire, ReadMessages
  <2>2. \A q \in Request \ {r} : request'[q] = request[q]
    BY <1>3 DEF Acquire, ReadMessages, TypeOK
  <2>3. /\ Answering(r) /\ request'[r].task = request[r].task
        /\ request'[r].previous = request[r].previous
    BY <1>3 DEF Acquire, ReadMessages, Answering, TypeOK, RequestState
  <2>4. \A q \in Request : Answering(q)' => Covered(request'[q].previous, said'[request'[q].task])
    BY <2>1, <2>2, <2>3 DEF Words, Answering
  <2> QED
    BY <2>1, <2>4 DEF Words
<1>4. ASSUME NEW r \in Request, ReadFails(r) \/ AnswerFails(r) PROVE Words'
  <2>1. request' = [request EXCEPT ![r].step = "done"] /\ UNCHANGED <<task, said, worker>>
    BY <1>4 DEF ReadFails, AnswerFails
  <2>2. \A q \in Request : Answering(q)' => Answering(q) /\ request'[q] = request[q]
    BY <2>1, DoneStep
  <2> QED
    BY <2>1, <2>2 DEF Words
<1>5. ASSUME NEW r \in Request, Answer(r) PROVE Words'
  <2> DEFINE t == request[r].task
             snapshot == Merged(r)
             words == said[t] \o request[r].message.words
  <2>1. request[r] \in RequestState /\ t \in Task /\ Answering(r) /\ request[r].words = words
    BY <1>5 DEF Answer, Answering, Targets, Ownership, Joined, TypeOK
  <2>2. said[t] \in Seq(Phrase) /\ request[r].message.words \in Seq(Phrase)
    BY <2>1, WordsType DEF TypeOK, RequestState
  <2>3. \A s : Covered(s, said[t]) => Covered(s, words)
    BY <2>2, Grows
  <2>4. Covered(request[r].previous, words)
    BY <2>1, <2>3 DEF Words
  <2>5. /\ SameBut(snapshot, ReadOut(words)) /\ Covered(snapshot, words)
        /\ task[t].freecad => snapshot.freecad
    <3>1. request[r].words = words
      BY <2>1
    <3>2. SameBut(snapshot, ReadOut(words)) /\ Covered(snapshot, words)
      BY <2>4, <3>1, Merge, Own DEF Merged
    <3>3. task[t].freecad => snapshot.freecad
      BY DEF Merged, extractRequirementSnapshot
    <3> QED
      BY <3>2, <3>3
  <2>6. /\ \A u \in Task \ {t} : task'[u] = task[u] /\ said'[u] = said[u]
        /\ said'[t] = words /\ task'[t].snapshot = snapshot /\ UNCHANGED worker
        /\ task'[t].freecad = task[t].freecad
    <3>1. task[t] \in TaskRow
      BY <2>1 DEF TypeOK
    <3> QED
      BY <1>5, <2>1, <3>1 DEF Answer, TypeOK, TaskRow
  <2>7. worker[t] = None
    BY <1>5, <2>1 DEF Answer, Ownership, Holds, Open
  <2>8. \A q \in Request : Answering(q)' => Answering(q) /\ request'[q] = request[q]
    BY <1>5, DoneStep DEF Answer
  <2> HIDE DEF t, snapshot, words
  <2>9. \A u \in Task : task'[u].born > 0 =>
            /\ SameBut(task'[u].snapshot, ReadOut(said'[u]))
            /\ Covered(task'[u].snapshot, said'[u])
            /\ task'[u].freecad => task'[u].snapshot.freecad
    BY <2>5, <2>6 DEF Words
  <2>10. ASSUME NEW q \in Request, Answering(q)'
         PROVE  Covered(request'[q].previous, said'[request'[q].task])
    <3>1. Answering(q) /\ request'[q] = request[q] /\ request[q].task \in Task
      BY <2>8, <2>10 DEF Targets
    <3>2. Covered(request[q].previous, said[request[q].task])
      BY <3>1 DEF Words
    <3> QED
      BY <2>3, <2>6, <3>1, <3>2
  <2>11. \A u \in Task : worker'[u] # None => worker'[u] = task'[u].snapshot
    BY <2>6, <2>7 DEF Words
  <2> QED
    BY <2>9, <2>10, <2>11 DEF Words
<1>6. ASSUME NEW t \in Task, Start(t) \/ Ask(t) \/ Build(t) \/ GivesUp(t) \/ Fails(t) PROVE Words'
  <2>1. /\ UNCHANGED <<said, request>>
        /\ \A u \in Task : /\ task'[u].snapshot = task[u].snapshot
                            /\ task'[u].born = task[u].born /\ task'[u].freecad = task[u].freecad
    BY <1>6, WorkerFrame DEF Start, Ask, Build, GivesUp, Fails, Ends
  <2>2. /\ \A u \in Task \ {t} : worker'[u] = worker[u]
        /\ worker'[t] \in {None, task[t].snapshot}
    BY <1>6 DEF Start, Ask, Build, GivesUp, Fails, Ends, TypeOK
  <2>3. \A u \in Task : worker'[u] # None => worker'[u] = task'[u].snapshot
    BY <2>1, <2>2 DEF Words
  <2> QED
    BY <2>1, <2>3 DEF Words, Answering
<1>7. ASSUME UNCHANGED <<task, said, request, worker>> PROVE Words'
  BY <1>7 DEF Words, Answering
<1>8. ASSUME NEW n \in DOMAIN revision, NEW kind \in Kind, Inspect(n, kind) PROVE Words'
  BY <1>7, <1>8 DEF Inspect
<1> QED
  BY <1>1, <1>2, <1>3, <1>4, <1>5, <1>6, <1>7, <1>8 DEF Next, vars

LEMMA WordsCount == TypeOK /\ Words => EveryWordCounts
<1> SUFFICES ASSUME TypeOK, Words, NEW t \in Task, task[t].born > 0
             PROVE  /\ [task[t].snapshot EXCEPT !.version = 1, !.freecad = FALSE, !.refs = {}]
                          = ReadOut(said[t])
                    /\ task[t].freecad => task[t].snapshot.freecad
  BY DEF EveryWordCounts
<1>1. task[t].snapshot \in Snapshot /\ ReadOut(said[t]) \in Snapshot
  <2>1. {} \in SUBSET Reference /\ FALSE \in BOOLEAN
    OBVIOUS
  <2> QED
    BY <2>1, NoSnapshotType, ExtractType DEF TypeOK, TaskRow, ReadOut
<1>2. SameBut(task[t].snapshot, ReadOut(said[t])) /\ (task[t].freecad => task[t].snapshot.freecad)
  BY DEF Words
<1>3. ReadOut(said[t]).version = 1 /\ ~ReadOut(said[t]).freecad /\ ReadOut(said[t]).refs = {}
  BY DEF ReadOut, extractRequirementSnapshot, NoSnapshot
<1>4. ReadOut(said[t]).freecad = FALSE
  BY <1>1, <1>3 DEF Snapshot
<1> HIDE DEF NoSnapshot, extractRequirementSnapshot, ReadOut
<1> QED
  BY <1>1, <1>2, <1>3, <1>4 DEF SameBut, Snapshot

-----------------------------------------------------------------------------
LEMMA Mixable == IsFiniteSet({"mm", "cm", "in"})
<1>1. IsFiniteSet({"mm"}) /\ IsFiniteSet({"mm"} \cup {"cm"})
  BY FS_Singleton, FS_AddElement
<1>2. IsFiniteSet(({"mm"} \cup {"cm"}) \cup {"in"})
  BY ONLY <1>1, FS_AddElement
<1>3. ({"mm"} \cup {"cm"}) \cup {"in"} = {"mm", "cm", "in"}
  OBVIOUS
<1> QED
  BY <1>2, <1>3

(* A snapshot with which a model is built: nothing is missing, so its part *)
(* and the sizes of that part are among the words.                         *)
LEMMA Extracted ==
    ASSUME NEW w \in Seq(Phrase), NEW s,
           SameBut(s, ReadOut(w)), ~Unclear(s)
    PROVE  /\ \E i \in Of(w, "part") : w[i].part = s.partType
           /\ \A d \in RequiredOf(s.partType) : Naming(w, d) # {} \/ Compactly(w, d) # {}
           /\ \A u, v \in UnitsIn(w) : "m" \notin {u, v} => u = v
<1>1. /\ s.partType = PartIn(w, None) /\ s.missing = Missing(s.partType, s.dimensions)
      /\ s.dimensions = Dimensions(w, NoSnapshot.dimensions) /\ s.conflicts = Conflicts(w)
  BY DEF SameBut, ReadOut, extractRequirementSnapshot, NoSnapshot
<1>2. s.missing = {} /\ ~s.conflicts
  BY DEF Unclear
<1>3. s.partType # None /\ \A d \in RequiredOf(s.partType) : s.dimensions[d] # None
  BY <1>1, <1>2 DEF Missing
<1>4. \E i \in Of(w, "part") : w[i].part = s.partType
  <2> DEFINE parts == {w[j].part : j \in Of(w, "part")}
             I == {i \in 1..3 : PartOrder[i] \in parts}
  <2>1. parts # {} /\ s.partType = First(PartOrder, I)
    BY <1>1, <1>3 DEF PartIn
  <2>2. I # {}
    <3>1. PICK j \in Of(w, "part") : TRUE
      BY <2>1
    <3>2. w[j] \in Phrase /\ w[j].kind = "part"
      BY ElementOfSeq, LenProperties DEF Of
    <3>3. w[j].part \in ToSet(PartOrder)
      BY <3>2, Known
    <3>4. ToSet(PartOrder) = {PartOrder[i] : i \in 1..3}
      BY DEF ToSet, PartOrder
    <3> QED
      BY <3>3, <3>4
  <2>3. I \in SUBSET Nat
    OBVIOUS
  <2>4. PICK i \in I : First(PartOrder, I) = PartOrder[i]
    BY ONLY <2>2, <2>3, FirstIn
  <2> QED
    BY <2>1, <2>4
<1>5. ASSUME NEW d \in RequiredOf(s.partType) PROVE Naming(w, d) # {} \/ Compactly(w, d) # {}
  <2>1. d \in Dimension /\ d # "pitchCircleDiameter"
    BY Sizes DEF RequiredOf
  <2> QED
    BY <1>1, <1>3, <2>1 DEF Dimensions, OrElse, Trailing, NoSnapshot
<1>6. ASSUME NEW u \in UnitsIn(w), NEW v \in UnitsIn(w), "m" \notin {u, v}, u # v PROVE FALSE
  <2>1. UnitsIn(w) \subseteq Unit
    BY Known, ElementOfSeq, LenProperties DEF UnitsIn, Of
  <2>2. {u, v} \subseteq UnitsIn(w) \cap {"mm", "cm", "in"}
    BY <1>6, <2>1 DEF Unit
  <2>3. IsFiniteSet(UnitsIn(w) \cap {"mm", "cm", "in"})
    BY Mixable, FS_Subset
  <2> DEFINE X == UnitsIn(w) \cap {"mm", "cm", "in"}
  <2>4. X # {} /\ ~ \E x : X = {x}
    BY <1>6, <2>2
  <2>5. Cardinality(X) \in Nat /\ Cardinality(X) # 0 /\ Cardinality(X) # 1
    BY <2>3, <2>4, FS_EmptySet, FS_Singleton, FS_CardinalityType
  <2>6. ~Conflicts(w)
    <3>1. s.conflicts = Conflicts(w) /\ ~s.conflicts
      BY <1>1, <1>2
    <3> QED
      BY ONLY <3>1, Zenon
  <2> QED
    BY <2>5, <2>6 DEF Conflicts
<1> QED
  BY <1>4, <1>5, <1>6

LEMMA SaidBeforeBuilt == TypeOK /\ Ownership /\ Words => BuiltAsSaid
<1> SUFFICES ASSUME TypeOK, Ownership, Words,
                    NEW t \in Task, worker[t] # None, ~Unclear(worker[t])
             PROVE  \E i \in Of(said[t], "part") :
            /\ said[t][i].part = worker[t].partType
            /\ worker[t].partType = "mounting plate" =>
                 \A d \in {"length", "width", "thickness"} : Given(t, d)
            /\ worker[t].partType = "flange" =>
                 \A d \in {"outerDiameter", "thickness"} : Given(t, d)
            /\ \A j, k \in Of(said[t], "unit") :
                 "m" \notin {said[t][j].unit, said[t][k].unit} =>
                     said[t][j].unit = said[t][k].unit
  BY DEF BuiltAsSaid
<1>1. said[t] \in Seq(Phrase) /\ task[t].born \in Nat
  BY DEF TypeOK, TaskRow
<1>2. task[t].born > 0 /\ worker[t] = task[t].snapshot
  BY <1>1 DEF Ownership, Words
<1>3. SameBut(worker[t], ReadOut(said[t]))
  BY <1>2 DEF Words
<1>4. PICK i \in Of(said[t], "part") : said[t][i].part = worker[t].partType
  BY <1>1, <1>3, Extracted
<1>5. \A d \in RequiredOf(worker[t].partType) :
          Naming(said[t], d) # {} \/ Compactly(said[t], d) # {}
  BY <1>1, <1>3, Extracted
<1>6. \A d \in RequiredOf(worker[t].partType) : Given(t, d)
  BY <1>5 DEF Given, Naming, Compactly, Of
<1>7. \A u, v \in UnitsIn(said[t]) : "m" \notin {u, v} => u = v
  BY <1>1, <1>3, Extracted
<1> QED
  BY <1>4, <1>6, <1>7 DEF RequiredOf, UnitsIn

-----------------------------------------------------------------------------
(* One entity among several that match is taken only if it is the only     *)
(* one.                                                                    *)
LEMMA AmongThem ==
    ASSUME NEW M, IsFiniteSet(M), NEW x \in M
    PROVE  Among(M) \in {Recovered(x), Unresolved("AMBIGUOUS")}
<1>1. CASE Cardinality(M) = 1
  <2>1. M = {x}
    BY <1>1, FS_Singleton
  <2>2. (CHOOSE e \in M : TRUE) = x
    BY <2>1
  <2> QED
    BY <1>1, <2>2 DEF Among, Only
<1>2. CASE Cardinality(M) # 1
  BY <1>2 DEF Among
<1> QED
  BY <1>1, <1>2

(* Of entities like the selected one, one is taken, or none.               *)
LEMMA Survives ==
    ASSUME NEW E, IsFiniteSet(E), NEW old, NEW survivor \in E, Alike(survivor, old),
           old.measure \in Nat
    PROVE  Resolve(old, E) \in {Recovered(survivor), Unresolved("AMBIGUOUS")}
<1>1. IsFiniteSet(TagMatches(old, E)) /\ IsFiniteSet(SignatureMatches(old, E))
  BY FS_Subset DEF TagMatches, SignatureMatches
<1>2. CASE TagMatches(old, E) # {}
  <2>1. old.tags # {}
    BY <1>2 DEF TagMatches
  <2>2. old.tags \cap survivor.tags # {}
    BY <2>1 DEF Alike
  <2>3. survivor \in TagMatches(old, E)
    BY <2>2 DEF TagMatches
  <2> QED
    BY <1>1, <1>2, <2>3, AmongThem DEF Resolve
<1>3. CASE TagMatches(old, E) = {}
  <2>1. Near(old.measure, survivor.measure)
    BY DEF Near, Alike
  <2>2. survivor \in SignatureMatches(old, E)
    BY <2>1 DEF SignatureMatches, Alike
  <2> QED
    BY <1>1, <1>3, <2>2, AmongThem DEF Resolve
<1> QED
  BY <1>2, <1>3

LEMMA Parts ==
    ASSUME NEW s \in Solid, NEW kind \in Kind
    PROVE  /\ Len(PartsOf(s, kind)) \in Nat
           /\ DOMAIN PartsOf(s, kind) = 1..Len(PartsOf(s, kind))
           /\ \A i \in DOMAIN PartsOf(s, kind) :
                 PartsOf(s, kind)[i].measure \in Nat /\ CountOf(s, kind, i) \in Nat
<1>1. PartsOf(s, kind) \in Seq(TopologyPart)
  BY DialogueConstants
<1>2. /\ Len(PartsOf(s, kind)) \in Nat
      /\ DOMAIN PartsOf(s, kind) = 1..Len(PartsOf(s, kind))
      /\ \A i \in DOMAIN PartsOf(s, kind) : PartsOf(s, kind)[i] \in TopologyPart
  BY <1>1, LenProperties, ElementOfSeq
<1>3. \A p \in TopologyPart : p.measure \in Nat /\ p.drawn \in Nat
  BY DEF TopologyPart
<1> QED
  BY <1>2, <1>3 DEF CountOf

LEMMA FiniteMap ==
    ASSUME NEW s \in Solid, NEW kind \in Kind
    PROVE  /\ IsFiniteSet(Entities(s, kind))
           /\ \A e \in Entities(s, kind) : e.measure \in Nat
<1> DEFINE I == {j \in DOMAIN PartsOf(s, kind) : Drawn(CountOf(s, kind, j))}
<1>1. IsFiniteSet(DOMAIN PartsOf(s, kind))
  BY Parts, FS_Interval
<1>2. IsFiniteSet(I)
  BY <1>1, FS_Subset
<1>3. IsFiniteSet({Entity(s, kind, i) : i \in I})
  <2> DEFINE T == {Entity(s, kind, i) : i \in I}
             f == [i \in I |-> Entity(s, kind, i)]
  <2>1. f \in Surjection(I, T)
    BY DEF Surjection
  <2> QED
    BY <1>2, <2>1, FS_Surjection
<1>4. \A i \in I : Entity(s, kind, i).measure \in Nat
  BY Parts DEF Entity
<1> QED
  BY <1>3, <1>4 DEF Entities

-----------------------------------------------------------------------------
(* There is a cursor: were there a first place it cannot reach, the cursor *)
(* up to the place before could be taken one part further.                 *)
LEMMA CursorExists ==
    ASSUME NEW n \in Nat, NEW c \in [1..n -> Nat]
    PROVE  \E f \in [0..n -> Nat] :
              f = [i \in 0..n |-> IF i = 0 THEN 0 ELSE f[i - 1] + c[i]]
<1> DEFINE Reaches(m) == \E f \in [0..n -> Nat] :
                            f[0] = 0 /\ \A i \in 1..m : f[i] = f[i - 1] + c[i]
           Lost == {m \in 0..n : ~Reaches(m)}
<1>1. Reaches(0)
  <2> DEFINE f == [i \in 0..n |-> 0]
  <2>1. f \in [0..n -> Nat] /\ f[0] = 0 /\ 1..0 = {}
    OBVIOUS
  <2> HIDE DEF f
  <2> QED
    BY <2>1
<1>2. ASSUME NEW m \in 1..n, Reaches(m - 1)
      PROVE  Reaches(m)
  <2>1. PICK f \in [0..n -> Nat] : f[0] = 0 /\ \A i \in 1..(m - 1) : f[i] = f[i - 1] + c[i]
    BY <1>2
  <2> DEFINE g == [i \in 0..n |-> IF i = m THEN f[m - 1] + c[m] ELSE f[i]]
  <2>2. g \in [0..n -> Nat]
    <3>1. m - 1 \in 0..n
      OBVIOUS
    <3> QED
      BY <2>1, <3>1
  <2>3. g[0] = 0
    BY <2>1
  <2>4. ASSUME NEW i \in 1..m
        PROVE  g[i] = g[i - 1] + c[i]
    <3>1. i \in 0..n /\ i - 1 \in 0..n /\ i - 1 # m
      OBVIOUS
    <3>2. g[i - 1] = f[i - 1]
      BY <3>1
    <3>3. CASE i = m
      BY <3>1, <3>2, <3>3
    <3>4. CASE i # m
      <4>1. i \in 1..(m - 1) /\ g[i] = f[i]
        BY <3>1, <3>4
      <4> QED
        BY <2>1, <3>2, <4>1
    <3> QED
      BY <3>3, <3>4
  <2> HIDE DEF g
  <2> QED
    BY <2>2, <2>3, <2>4
<1>3. Lost = {}
  <2> SUFFICES ASSUME Lost # {}
               PROVE  FALSE
    OBVIOUS
  <2>1. Lost \in SUBSET Nat
    OBVIOUS
  <2> HIDE DEF Reaches
  <2>2. PICK m \in Lost : \A k \in Lost : m <= k
    <3> HIDE DEF Lost
    <3> QED
      BY <2>1, Least
  <2>3. m \in 1..n /\ m - 1 \in 0..n
    BY <1>1, <2>2
  <2>4. m - 1 \notin Lost
    BY <2>2, <2>3
  <2>5. Reaches(m - 1)
    BY <2>3, <2>4
  <2> QED
    BY <1>2, <2>2, <2>3, <2>5
<1>4. Reaches(n)
  <2> HIDE DEF Reaches
  <2> QED
    BY <1>3
<1>5. PICK f \in [0..n -> Nat] : f[0] = 0 /\ \A i \in 1..n : f[i] = f[i - 1] + c[i]
  BY <1>4
<1>6. \A i \in 0..n : f[i] = IF i = 0 THEN 0 ELSE f[i - 1] + c[i]
  BY <1>5
<1>7. f = [i \in 0..n |-> IF i = 0 THEN 0 ELSE f[i - 1] + c[i]]
  BY <1>6
<1> QED
  BY <1>7

(* The cursor stands at zero, moves by what each part is drawn with and    *)
(* never goes back.                                                        *)
LEMMA CursorMoves ==
    ASSUME NEW s \in Solid, NEW kind \in Kind
    PROVE  LET n == Len(PartsOf(s, kind))
               at == Cursor(s, kind)
           IN  /\ \A i \in 0..n : at[i] \in Nat
               /\ at[0] = 0
               /\ \A i \in 1..n : at[i] = at[i - 1] + CountOf(s, kind, i)
               /\ \A i, k \in 0..n : i <= k => at[i] <= at[k]
<1> DEFINE n == Len(PartsOf(s, kind))
           at == Cursor(s, kind)
           Moves(f) == f = [i \in 0..n |-> IF i = 0 THEN 0 ELSE f[i - 1] + CountOf(s, kind, i)]
<1>1. n \in Nat /\ \A i \in 1..n : CountOf(s, kind, i) \in Nat
  BY Parts
<1>2. PICK f \in [0..n -> Nat] : Moves(f)
  <2> DEFINE c == [i \in 1..n |-> CountOf(s, kind, i)]
  <2> HIDE DEF n
  <2>1. c \in [1..n -> Nat] /\ \A i \in 1..n : c[i] = CountOf(s, kind, i)
    BY <1>1
  <2> HIDE DEF c
  <2>2. PICK f \in [0..n -> Nat] : f = [i \in 0..n |-> IF i = 0 THEN 0 ELSE f[i - 1] + c[i]]
    BY <1>1, <2>1, CursorExists
  <2>3. \A i \in 0..n : i # 0 => i \in 1..n
    BY <1>1
  <2>4. [i \in 0..n |-> IF i = 0 THEN 0 ELSE f[i - 1] + c[i]]
          = [i \in 0..n |-> IF i = 0 THEN 0 ELSE f[i - 1] + CountOf(s, kind, i)]
    BY <2>1, <2>3
  <2> QED
    BY <2>2, <2>4
<1>3. Moves(at)
  <2>1. at = CHOOSE g : Moves(g)
    BY DEF Cursor
  <2> QED
    BY <1>2, <2>1
<1>4. at[0] = 0 /\ \A i \in 1..n : at[i] = at[i - 1] + CountOf(s, kind, i)
  <2>1. \A i \in 0..n : at[i] = IF i = 0 THEN 0 ELSE at[i - 1] + CountOf(s, kind, i)
    <3> HIDE DEF at, n
    <3> QED
      BY <1>3
  <2> HIDE DEF at, n
  <2> QED
    BY <1>1, <2>1
<1> HIDE DEF at, n, Moves
<1>5. \A i \in 0..n : at[i] \in Nat
  <2> DEFINE Lost == {m \in 0..n : at[m] \notin Nat}
  <2> SUFFICES ASSUME Lost # {}
               PROVE  FALSE
    OBVIOUS
  <2>1. Lost \in SUBSET Nat
    OBVIOUS
  <2>2. PICK m \in Lost : \A k \in Lost : m <= k
    <3> HIDE DEF Lost
    <3> QED
      BY <2>1, Least
  <2>3. m \in 1..n /\ m - 1 \in 0..n /\ m - 1 \notin Lost
    BY <1>1, <1>4, <2>2
  <2> QED
    BY <1>1, <1>4, <2>2, <2>3
<1>6. ASSUME NEW i \in 0..n, NEW k \in 0..n, i <= k
      PROVE  at[i] <= at[k]
  <2> DEFINE Lost == {m \in i..n : ~(at[i] <= at[m])}
  <2> SUFFICES ASSUME Lost # {}
               PROVE  FALSE
    BY <1>6
  <2>1. Lost \in SUBSET Nat
    OBVIOUS
  <2>2. PICK m \in Lost : \A j \in Lost : m <= j
    <3> HIDE DEF Lost
    <3> QED
      BY <2>1, Least
  <2>3. m # i
    BY <1>5, <2>2
  <2>4. m \in 1..n /\ m - 1 \in i..n /\ m - 1 \notin Lost
    BY <1>1, <2>2, <2>3
  <2>5. at[i] <= at[m - 1] /\ at[m] = at[m - 1] + CountOf(s, kind, m)
    BY <1>4, <2>4
  <2> QED
    BY <1>1, <1>5, <2>2, <2>4, <2>5
<1> QED
  BY <1>4, <1>5, <1>6 DEF at, n

(* So the ranges of two listed parts lie apart, and every place below the  *)
(* last cursor is in the range of the part that first moves beyond it.     *)
LEMMA RangesPartition ==
    ASSUME NEW s \in Solid, NEW kind \in Kind
    PROVE  LET E == Entities(s, kind) IN
           /\ \A e \in E : e.start \in Nat /\ e.count \in Nat /\ e.count > 0
           /\ \A e, f \in E : e # f => e.start + e.count <= f.start \/ f.start + f.count <= e.start
           /\ \A x \in 0..(Total(s, kind) - 1) : \E e \in E : x \in e.start..(e.start + e.count - 1)
<1> DEFINE n == Len(PartsOf(s, kind))
           at == Cursor(s, kind)
           E == Entities(s, kind)
<1>1. /\ n \in Nat /\ DOMAIN PartsOf(s, kind) = 1..n
      /\ \A i \in 1..n : CountOf(s, kind, i) \in Nat
  BY Parts
<1>2. /\ \A i \in 0..n : at[i] \in Nat
      /\ at[0] = 0
      /\ \A i \in 1..n : at[i] = at[i - 1] + CountOf(s, kind, i)
      /\ \A i, k \in 0..n : i <= k => at[i] <= at[k]
  BY CursorMoves
<1>3. Total(s, kind) = at[n]
  BY DEF Total
<1>4. \A i : /\ Entity(s, kind, i).start = at[i - 1]
             /\ Entity(s, kind, i).count = CountOf(s, kind, i)
  BY DEF Entity, StartOf
<1>5. E = {Entity(s, kind, i) : i \in {j \in 1..n : CountOf(s, kind, j) > 0}}
  BY <1>1 DEF Entities, Drawn
<1> HIDE DEF n, at, E
<1>6. ASSUME NEW e \in E
      PROVE  \E i \in 1..n : /\ e = Entity(s, kind, i)
                             /\ e.start = at[i - 1] /\ e.start \in Nat
                             /\ e.count \in Nat /\ e.count > 0
                             /\ e.start + e.count = at[i]
  <2>1. PICK i \in 1..n : e = Entity(s, kind, i) /\ CountOf(s, kind, i) > 0
    BY <1>5
  <2>2. i - 1 \in 0..n
    BY <1>1
  <2> QED
    BY <1>1, <1>2, <1>4, <2>1, <2>2
<1>7. ASSUME NEW e \in E, NEW f \in E, e # f
      PROVE  e.start + e.count <= f.start \/ f.start + f.count <= e.start
  <2>1. PICK i \in 1..n : e = Entity(s, kind, i) /\ e.start = at[i - 1] /\ e.start + e.count = at[i]
    BY <1>6
  <2>2. PICK k \in 1..n : f = Entity(s, kind, k) /\ f.start = at[k - 1] /\ f.start + f.count = at[k]
    BY <1>6
  <2>3. i # k
    BY <1>7, <2>1, <2>2
  <2>4. {i, k, i - 1, k - 1} \subseteq 0..n
    BY <1>1
  <2>5. CASE i <= k - 1
    BY <1>2, <2>1, <2>2, <2>4, <2>5
  <2>6. CASE k <= i - 1
    BY <1>2, <2>1, <2>2, <2>4, <2>6
  <2> QED
    BY <2>3, <2>5, <2>6
<1>8. ASSUME NEW x \in 0..(at[n] - 1)
      PROVE  \E e \in E : x \in e.start..(e.start + e.count - 1)
  <2> DEFINE Beyond == {m \in 0..n : x < at[m]}
  <2>1. Beyond \in SUBSET Nat /\ Beyond # {}
    <3>1. n \in 0..n /\ at[n] \in Nat
      BY <1>1, <1>2
    <3>2. n \in Beyond
      BY <3>1
    <3> QED
      BY <3>2
  <2>2. PICK m \in Beyond : \A k \in Beyond : m <= k
    <3> HIDE DEF Beyond
    <3> QED
      BY <2>1, Least
  <2>3. m \in 1..n /\ m - 1 \in 0..n
    BY <1>1, <1>2, <2>2
  <2>4. m - 1 \notin Beyond
    BY <2>2, <2>3
  <2>5. at[m - 1] \in Nat /\ at[m] \in Nat /\ x \in Nat /\ at[m - 1] <= x /\ x < at[m]
    BY <1>2, <2>2, <2>3, <2>4
  <2>6. CountOf(s, kind, m) > 0 /\ at[m] = at[m - 1] + CountOf(s, kind, m)
    BY <1>1, <1>2, <2>3, <2>5
  <2>7. Entity(s, kind, m) \in E
    BY <1>5, <2>3, <2>6
  <2>8. x \in Entity(s, kind, m).start
                ..(Entity(s, kind, m).start + Entity(s, kind, m).count - 1)
    BY <1>1, <1>4, <2>3, <2>5, <2>6
  <2> QED
    BY <2>7, <2>8
<1> QED
  BY <1>3, <1>6, <1>7, <1>8 DEF E

LEMMA OneEntity == TypeOK => EveryPickHasOneEntity
<1> SUFFICES ASSUME TypeOK, NEW n \in DOMAIN revision
             PROVE  /\ Parses(MapOf(n), n)
                    /\ \A kind \in Kind : \A x \in 0..(Total(revision[n], kind) - 1) :
                          Cardinality({e \in MapOf(n)[kind] :
                                         x \in e.start..(e.start + e.count - 1)}) = 1
  BY DEF EveryPickHasOneEntity
<1>1. revision[n] \in Solid
  BY ElementOfSeq, LenProperties DEF TypeOK
<1>2. \A kind \in Kind : MapOf(n)[kind] = Entities(revision[n], kind)
  BY MapEntities DEF MapOf
<1>3. ASSUME NEW kind \in Kind
      PROVE  /\ \A e \in MapOf(n)[kind] : e.start \in Nat /\ e.count \in Nat /\ e.count > 0
             /\ \A e, f \in MapOf(n)[kind] : e # f =>
                   e.start + e.count <= f.start \/ f.start + f.count <= e.start
             /\ \A x \in 0..(Total(revision[n], kind) - 1) :
                   \E e \in MapOf(n)[kind] : x \in e.start..(e.start + e.count - 1)
  BY <1>1, <1>2, RangesPartition
<1>4. Parses(MapOf(n), n)
  <2>1. MapOf(n).revision = n
    BY DEF MapOf, DeriveMap
  <2>2. ASSUME NEW kind \in Kind
        PROVE  ~Overlap(MapOf(n)[kind])
    BY <1>3 DEF Overlap
  <2> QED
    BY <1>3, <2>1, <2>2 DEF Parses
<1>5. ASSUME NEW kind \in Kind, NEW x \in 0..(Total(revision[n], kind) - 1)
      PROVE  Cardinality({e \in MapOf(n)[kind] : x \in e.start..(e.start + e.count - 1)}) = 1
  <2> DEFINE Hit == {e \in MapOf(n)[kind] : x \in e.start..(e.start + e.count - 1)}
  <2>1. PICK e \in MapOf(n)[kind] : x \in e.start..(e.start + e.count - 1)
    BY <1>3
  <2>2. \A f \in Hit : f = e
    BY <1>3, <2>1
  <2>3. Hit = {e}
    BY <2>1, <2>2
  <2> QED
    BY <2>3, FS_Singleton
<1> QED
  BY <1>4, <1>5

LEMMA NotMistaken == TypeOK => SurvivorIsNotMistaken
<1> SUFFICES ASSUME TypeOK, NEW sel \in selection, NEW n \in DOMAIN revision,
                    NEW old \in Find(MapOf(sel.revision), sel.kind, sel.ref),
                    NEW survivor \in MapOf(n)[sel.kind], Alike(survivor, old)
             PROVE  Resolution(sel, n) \in {Recovered(survivor), Unresolved("AMBIGUOUS")}
  BY DEF SurvivorIsNotMistaken
<1>1. /\ sel.revision \in DOMAIN revision /\ sel.kind \in Kind
      /\ \A k \in DOMAIN revision : revision[k] \in Solid
  BY ElementOfSeq, LenProperties DEF TypeOK
<1>2. \A k \in DOMAIN revision : MapOf(k)[sel.kind] = Entities(revision[k], sel.kind)
  BY <1>1, MapEntities DEF MapOf
<1>3. \A e \in Find(MapOf(sel.revision), sel.kind, sel.ref) :
          e = Entity(revision[sel.revision], sel.kind, sel.ref)
  <2>1. \A e \in Entities(revision[sel.revision], sel.kind) :
            e = Entity(revision[sel.revision], sel.kind, e.ref)
    BY <1>1, MapEntities
  <2> QED
    BY <1>1, <1>2, <2>1 DEF Find
<1>4. (CHOOSE e \in Find(MapOf(sel.revision), sel.kind, sel.ref) : TRUE) = old
  BY <1>3
<1>5. old.measure \in Nat
  BY <1>1, <1>2, FiniteMap DEF Find
<1>6. IsFiniteSet(MapOf(n)[sel.kind])
  BY <1>1, <1>2, FiniteMap
<1>7. Resolve(old, MapOf(n)[sel.kind]) \in {Recovered(survivor), Unresolved("AMBIGUOUS")}
  BY <1>5, <1>6, Survives
<1> QED
  BY <1>4, <1>7 DEF Resolution

-----------------------------------------------------------------------------
Dialogue == TypeOK /\ Targets /\ Ownership /\ Words

LEMMA DialogueHolds == Spec => []Dialogue
<1>1. Init => Dialogue
  BY TypeInit, OwnershipInit, WordsInit DEF Dialogue
<1>2. Dialogue /\ [Next]_vars => Dialogue'
  BY TypeNext, TargetsNext, OwnershipNext, WordsNext DEF Dialogue
<1> QED
  BY <1>1, <1>2, PTL DEF Spec

(* No word of an answer is lost, however many requests overlap: the older  *)
(* snapshot a request merges into says nothing that the words of the task  *)
(* do not, the lease keeps those words as they were joined until they are  *)
(* committed, and extraction from them gives the same whatever it is       *)
(* merged into; the column of the task keeps the wish it was opened with   *)
(* (messages.ts:93-144).                                                   *)
THEOREM NoAnswerLost == Spec => []EveryWordCounts
<1>1. Dialogue => EveryWordCounts
  BY WordsCount DEF Dialogue
<1> QED
  BY <1>1, DialogueHolds, PTL

(* A model is built only from a part, sizes and a unit that the user has   *)
(* named (task-worker.ts:92-104).                                          *)
THEOREM NothingIsGuessed == Spec => []BuiltAsSaid
<1>1. Dialogue => BuiltAsSaid
  BY SaidBeforeBuilt DEF Dialogue
<1> QED
  BY <1>1, DialogueHolds, PTL

(* What the user has selected is not taken for another entity while it is  *)
(* still there (topology.ts:43-68).                                        *)
THEOREM SelectionNotMistaken == Spec => []SurvivorIsNotMistaken
<1>1. Dialogue => SurvivorIsNotMistaken
  BY NotMistaken DEF Dialogue
<1> QED
  BY <1>1, DialogueHolds, PTL

(* Every triangle and every point of an edge that the viewer draws belongs *)
(* to exactly one entity of a map that the API accepts, whatever the solid *)
(* (derive.py:72-158, topology.ts:6-31).                                   *)
THEOREM EveryPickIsFound == Spec => []EveryPickHasOneEntity
<1>1. TypeOK => EveryPickHasOneEntity
  BY OneEntity
<1> QED
  BY <1>1, TypeCorrect, PTL
=============================================================================
