------------------------------ MODULE Topology ------------------------------
(***************************************************************************)
(* The topology map of a revision: how the Runner derives it from a solid, *)
(* what the API accepts as one, and how an entity a user has selected in   *)
(* one revision is found again in another.                                 *)
(*                                                                         *)
(* A solid is a record of two sequences.  A face or an edge has tags, a    *)
(* geometry type, a measure (area or length, in millionths) and the number *)
(* of triangles or points it is drawn with.                                *)
(***************************************************************************)
EXTENDS Naturals, FiniteSets, Sequences

Kind == {"face", "edge"}
TopologyPart == [tags : SUBSET STRING, geometry : STRING, measure : Nat, drawn : Nat]
PartsOf(solid, kind) == IF kind = "face" THEN solid.faces ELSE solid.edges

(* A curve sampled at fewer than two points is drawn by its two ends; a    *)
(* face without a triangulation has no triangles.                          *)
CountOf(solid, kind, i) ==
    LET n == PartsOf(solid, kind)[i].drawn IN
    IF kind = "edge" /\ n < 2 THEN 2 ELSE n

(* face_index and edge_index, from which the topologyRef is formatted.     *)
Ref(i) == i

(* triangle_cursor and polyline_cursor, after so many parts; they run over *)
(* all parts, those that are left out included.                            *)
Cursor(solid, kind) ==
    LET cursor[i \in 0..Len(PartsOf(solid, kind))] ==
            IF i = 0 THEN 0 ELSE cursor[i - 1] + CountOf(solid, kind, i)
    IN  cursor

StartByIndex(solid, kind, i) == i - 1
StartOf(solid, kind, i) == Cursor(solid, kind)[i - 1]
Total(solid, kind) == Cursor(solid, kind)[Len(PartsOf(solid, kind))]

Entity(solid, kind, i) ==
    [ref |-> Ref(i), start |-> StartOf(solid, kind, i), count |-> CountOf(solid, kind, i),
     tags |-> PartsOf(solid, kind)[i].tags, geometry |-> PartsOf(solid, kind)[i].geometry,
     measure |-> PartsOf(solid, kind)[i].measure]

(* Parts that are not drawn are left out of the map. *)
Drawn(count) == count > 0
Entities(solid, kind) ==
    {Entity(solid, kind, i) : i \in {j \in DOMAIN PartsOf(solid, kind) :
                                      Drawn(CountOf(solid, kind, j))}}

DeriveMap(solid, revision) ==
    [revision |-> revision, face |-> Entities(solid, "face"), edge |-> Entities(solid, "edge")]

-----------------------------------------------------------------------------
(* parseTopologyMap: the schema wants positive counts, and the ranges must *)
(* not overlap.                                                            *)
Overlap(entities) ==
    \E e, f \in entities : e # f /\ e.start <= f.start /\ f.start < e.start + e.count

Parses(map, revision) ==
    /\ \A kind \in Kind : \A e \in map[kind] : e.count > 0
    /\ map.revision = revision
    /\ \A kind \in Kind : ~Overlap(map[kind])

(* findTopologyEntity *)
Find(map, kind, ref) == {e \in map[kind] : e.ref = ref}

(* resolveTopologyEntity: one that shares a tag, or else one of the same   *)
(* geometry and nearly the same measure; never one out of several.         *)
Near(old, new) ==
    LET difference == IF old < new THEN new - old ELSE old - new IN
    difference <= 1 \/ difference <= old \div 1000000

TagMatches(old, entities) ==
    {e \in entities : old.tags \cap e.tags # {}}
SignatureMatches(old, entities) ==
    {e \in entities : e.geometry = old.geometry /\ Near(old.measure, e.measure)}

Recovered(e)    == [status |-> "RECOVERED", ref |-> e.ref]
Unresolved(why) == [status |-> why, ref |-> 0]
Only(matches)   == Recovered(CHOOSE e \in matches : TRUE)

(* Exactly one match is an answer. *)
FirstOf(matches) == IF matches = {} THEN Unresolved("INVALID") ELSE Only(matches)
Among(matches) ==
    IF matches = {} THEN Unresolved("INVALID")
    ELSE IF Cardinality(matches) = 1 THEN Only(matches)
    ELSE Unresolved("AMBIGUOUS")

Resolve(old, entities) ==
    IF TagMatches(old, entities) # {}
      THEN Among(TagMatches(old, entities))
      ELSE Among(SignatureMatches(old, entities))
=============================================================================
