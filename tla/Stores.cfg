SPECIFICATION Spec
CONSTANTS
  k1 = k1
  v1 = v1
  v2 = v2
  Deleted = Deleted
  Absent = Absent
  Solo = r0
  Readers = {r1, r2}
SYMMETRY ReaderSymmetry
CHECK_DEADLOCK FALSE
INVARIANTS
  StoresAreFaithful
PROPERTIES
  ViewsAreSnapshots
