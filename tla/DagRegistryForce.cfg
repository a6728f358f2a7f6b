CONSTANTS
  r1 = r1
  r2 = r2
  File = {f, g}
  Schedule = {hourly, never}
  Invalid = Invalid
  NoRow = NoRow
  Registrar = {r1, r2}
  Runner = {}
SPECIFICATION Spec
PROPERTIES
  EnabledSurvivesForce
