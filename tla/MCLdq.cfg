\* One ring of four slots, two frames; the indices wrap after three rounds.
CONSTANTS
  Frames = {f1, f2}
  Size = 4
  IdxMod = 12
  Null = Null
SPECIFICATION Spec
SYMMETRY FrameSymmetry
INVARIANTS TypeOK SlotsDisjoint RingInv
PROPERTY ImplementsChannel
