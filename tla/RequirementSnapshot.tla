------------------------ MODULE RequirementSnapshot -------------------------
(***************************************************************************)
(* What the API reads out of a user's words: whether a request is about    *)
(* CAD, and the requirement snapshot a task is built from.  Words are a    *)
(* sequence of phrases, each of which the patterns of the code match or    *)
(* not; `match` without the g flag returns the first of several.           *)
(***************************************************************************)
EXTENDS Naturals, FiniteSets

CONSTANT None

(* A wording of a size, and the dimensions whose patterns match it: the    *)
(* pattern of `diameter` is not anchored, the Chinese one of outerDiameter *)
(* (waijing) does not contain that of `diameter`.                          *)
NamedBy ==
    [length          |-> {"length"},
     width           |-> {"width"},
     thickness       |-> {"thickness"},
     waijing         |-> {"outerDiameter"},
     outer_diameter  |-> {"outerDiameter", "diameter"},
     pitch_circle    |-> {"pitchCircleDiameter"},
     center_hole     |-> {"centerHoleDiameter"},
     mounting_hole   |-> {"holeDiameter"},
     diameter        |-> {"diameter"},
     on_pitch_circle |-> {"diameter"}]

Dimension == UNION {NamedBy[w] : w \in DOMAIN NamedBy}
CompactDimension == {"length", "width", "thickness"}
Unit == {"mm", "cm", "m", "in"}
HoleWording == {"center_hole", "mounting_hole"}

(* Phrases, by kind: a named size, L x W x T, a part, a feature with or    *)
(* without a negation before it, a unit, another CAD term, a verb of       *)
(* change, an intent the guard forbids.                                    *)
Size(wording, value) == [kind |-> "size", wording |-> wording, value |-> value]
Compact(value)       == [kind |-> "compact", value |-> value]
Part(part)           == [kind |-> "part", part |-> part]
Feature(f, negated)  == [kind |-> "feature", feature |-> f, negated |-> negated]
InUnit(unit)         == [kind |-> "unit", unit |-> unit]
CadTerm              == [kind |-> "term"]
Change               == [kind |-> "change"]
Forbidden            == [kind |-> "forbidden"]

Of(words, kind) == {i \in DOMAIN words : words[i].kind = kind}
First(words, I) == words[CHOOSE i \in I : \A j \in I : i <= j]

-----------------------------------------------------------------------------
(* The guard of a new task; an answer to a question does not pass it. *)
MentionsCad(words) ==
    \/ Of(words, "part") \cup Of(words, "feature") \cup Of(words, "term") # {}
    \/ \E i \in Of(words, "size") : words[i].wording \in HoleWording

classifyDomainRequest(words, hasCurrentModel) ==
    IF Of(words, "forbidden") # {} THEN "unsafe_intent"
    ELSE IF MentionsCad(words) THEN "cad_request"
    ELSE IF hasCurrentModel /\ Of(words, "change") # {} THEN "current_model_modification"
    ELSE "non_cad"

Allowed(words, hasCurrentModel) ==
    classifyDomainRequest(words, hasCurrentModel)
        \in {"cad_request", "current_model_modification"}

-----------------------------------------------------------------------------
Naming(words, d) == {i \in Of(words, "size") : d \in NamedBy[words[i].wording]}

(* A size keeps its value of before, which the compact form overwrites,    *)
(* which a named size overwrites, which the trailing form overwrites.      *)
OrElse(words, I, value) == IF I = {} THEN value ELSE First(words, I).value

Compactly(words, d) == IF d \in CompactDimension THEN Of(words, "compact") ELSE {}
Trailing(words, d) ==
    IF d = "pitchCircleDiameter"
      THEN {i \in Of(words, "size") : words[i].wording = "on_pitch_circle"} ELSE {}

Dimensions(words, previous) ==
    [d \in Dimension |->
        OrElse(words, Trailing(words, d),
        OrElse(words, Naming(words, d),
        OrElse(words, Compactly(words, d), previous[d])))]

About(words, f) == {i \in Of(words, "feature") : words[i].feature = f}

(* A hole is never taken back; a fillet or a chamfer is added or deleted   *)
(* as the first phrase about it says.                                      *)
Features(words, previous) ==
    {f \in {"hole", "fillet", "chamfer"} :
        IF f = "hole"
          THEN \/ f \in previous \/ About(words, f) # {}
               \/ \E i \in Of(words, "size") : words[i].wording \in HoleWording
          ELSE IF About(words, f) = {} THEN f \in previous
               ELSE ~First(words, About(words, f)).negated}

PartOrder == <<"flange", "bracket", "mounting plate">>

(* detectPartType tries the parts in this order. *)
PartIn(words, previous) ==
    LET parts == {words[i].part : i \in Of(words, "part")} IN
    IF parts = {} THEN previous
                  ELSE First(PartOrder, {i \in 1..3 : PartOrder[i] \in parts})

(* What a part cannot be modelled without. *)
RequiredOf(part) ==
    CASE part = "mounting plate" -> {"length", "width", "thickness"}
      [] part = "flange" -> {"outerDiameter", "thickness"}
      [] OTHER -> {}

Missing(part, dimensions) ==
    (IF part = None THEN {"partType"} ELSE {})
        \cup {d \in RequiredOf(part) : dimensions[d] = None}

UnitsIn(words) == {words[i].unit : i \in Of(words, "unit")}
DetectUnit(words) ==
    LET units == UnitsIn(words) IN
    CASE "in" \in units -> "in"
      [] "in" \notin units /\ "cm" \in units -> "cm"
      [] units = {"m"} -> "m"
      [] OTHER -> "mm"

(* Metres are not among the units that may be mixed up. *)
Conflicts(words) == Cardinality(UnitsIn(words) \cap {"mm", "cm", "in"}) > 1

NoSnapshot == [version |-> 0, partType |-> None, unit |-> "mm",
               dimensions |-> [d \in Dimension |-> None], features |-> {},
               missing |-> {}, conflicts |-> FALSE, freecad |-> FALSE, refs |-> {}]

(* The wish for a FreeCAD file and the references (selections, attachments *)
(* and the parent revision) are the input's own, whatever was there before.*)
extractRequirementSnapshot(words, freecad, refs, previous) ==
    LET part == PartIn(words, previous.partType)
        dimensions == Dimensions(words, previous.dimensions) IN
    [version    |-> previous.version + 1,
     partType   |-> part,
     unit       |-> DetectUnit(words),
     dimensions |-> dimensions,
     features   |-> Features(words, previous.features),
     missing    |-> Missing(part, dimensions),
     conflicts  |-> Conflicts(words),
     freecad    |-> freecad,
     refs       |-> refs]
=============================================================================
