SPECIFICATION Spec
CONSTANTS
  GuiRefs = {g1, g2}
  RenderRefs = {r1, r2}
INVARIANTS TypeOK CountsReferences NeverDangling
PROPERTIES ReleasedByTheLast
