CONSTANTS
  Nodes = {1, 2, 3, 4, 5, 6, 7, 8}
  Nil = Nil
  Null = Null
  Half = 4
  DueTimes <- MCDueTimes
SPECIFICATION Spec
INVARIANTS Linked Balanced BrotherExists Neighbours LookupFinds
PROPERTIES ImplementsSortedSeq LoopsEnd
