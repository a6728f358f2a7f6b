CONSTANTS
  r1 = r1
  r2 = r2
  File = {f, g}
  Schedule = {hourly, never}
  Invalid = Invalid
  NoRow = NoRow
  Registrar = {r1, r2}
  Runner = {x}
SPECIFICATION Spec
INVARIANTS
  RowReadFromOneFile
PROPERTIES
  EnabledChangedByUser
  SeenRowKept
SYMMETRY MCSymmetry
