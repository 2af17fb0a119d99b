\* Lists of up to two of three entries, edited up to three times.
SPECIFICATION Spec
CONSTANTS
  Entry = {e1, e2, e3}
  None = None
  MaxEntries = 2
  MaxEdits = 3
INVARIANTS TypeOK ChangeNoticed
PROPERTIES ReorderingKeepsRoutes
