CONSTANTS
  Request = {q1}
  DocType = {id, paystub}
  Content = {"heic", "exe"}
  Declared = {"heic", "heif", "exe"}
  Upload = {u1, u2}
  Scan = {s1, s2}
  Download = {d1}
  MAX_FILES_PER_REQUEST = 1
  Key = {k1, k2, k3}
  NoKey = NoKey
SPECIFICATION Spec
CHECK_DEADLOCK FALSE
SYMMETRY Symmetry
INVARIANTS RowsAndObjectsAgree FilesBounded
PROPERTIES DeletedForGood
