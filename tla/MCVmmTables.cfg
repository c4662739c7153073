CONSTANTS
  Usable <- MCUsable
  Value = {Zero, Dirty}
  Zero = Zero
  Dirty = Dirty
  Proc = {p1, p2, p3}
  Nil = Nil
  NPages = 5
  TableSize = 2
  PageSize = 2
  Phdrs <- MCPhdrs
  StackTop = 10
  StackSize = 2
  MaxBreak = 8
  MaxCalls = 4
SPECIFICATION VmmSpec
SYMMETRY Symmetry
CHECK_DEADLOCK FALSE
INVARIANT TablesClear
