------------------------- MODULE MCDesignDialogue --------------------------
EXTENDS DesignDialogue, TLC

(* A complete plate with a drawing attached; a flange without its          *)
(* thickness, as a FreeCAD file; two answers in other units or with other  *)
(* sizes, one about a selection; a change without a part; a forbidden      *)
(* intent.                                                                 *)
Sent(words, freecad, refs) == [words |-> words, freecad |-> freecad, refs |-> refs]
MCMessage ==
    {Sent(<<Part("mounting plate"), Compact(1), Feature("fillet", FALSE)>>, FALSE, {"drawing"}),
     Sent(<<Part("flange"), Size("outer_diameter", 1), Size("on_pitch_circle", 2),
            InUnit("mm")>>, TRUE, {}),
     Sent(<<Size("thickness", 1), Size("pitch_circle", 1), InUnit("in")>>, FALSE, {}),
     Sent(<<Size("thickness", 2), Compact(2), Feature("fillet", TRUE), Change>>, FALSE,
          {"face"}),
     Sent(<<Feature("hole", FALSE), InUnit("cm"), Part("mounting plate"),
            Size("length", 2)>>, TRUE, {}),
     Sent(<<Forbidden, CadTerm>>, FALSE, {})}

Shape(tags, geometry, measure, drawn) ==
    [tags |-> tags, geometry |-> geometry, measure |-> measure, drawn |-> drawn]

(* Tags kept, lost and given twice; faces of nearly the same area; a face  *)
(* without triangles; an edge of one point.                                *)
MCSolid ==
    {[faces |-> <<Shape({"top"}, "plane", 3000000, 2), Shape({}, "cylinder", 5, 0),
                  Shape({}, "plane", 3000003, 1)>>,
      edges |-> <<Shape({}, "line", 10, 1), Shape({}, "circle", 8, 3)>>],
     [faces |-> <<Shape({}, "plane", 3000000, 1), Shape({}, "plane", 3000003, 2),
                  Shape({"top"}, "plane", 3000000, 1)>>,
      edges |-> <<Shape({"rim"}, "circle", 8, 2), Shape({}, "circle", 9, 2)>>],
     [faces |-> <<Shape({"top"}, "plane", 3000000, 0), Shape({"top", "rim"}, "cone", 7, 1),
                  Shape({"top"}, "plane", 3000000, 1)>>,
      edges |-> <<Shape({}, "line", 10, 2)>>]}

Symmetry == Permutations(Task) \cup Permutations(Request)
=============================================================================
