\* Three lidars for two places; the allocating thread and two that only look up.
CONSTANTS
  Handles = {a, b, c}
  Allocators = {command}
  Readers = {data, process}
  kMaxSourceLidar = 2
  None = None
SPECIFICATION Spec
SYMMETRY Symmetric
INVARIANTS TypeOK IndexInjective AnswersConsistent NoIndexLost
PROPERTY ImplementsRegistry
