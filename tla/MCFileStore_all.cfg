SPECIFICATION Spec
CONSTANTS
  Files = {f1, f2}
  Cells = {c1}
  Keys = {k1, k2}
  Requests = {r1, r2}
  MaxChanges = 1
SYMMETRY Symmetric
INVARIANTS TypeOK CarefulIsReadable RowsHaveFiles
