\* Four addresses.
CONSTANTS
  Node = {n1, n2, n3, n4}
  NULL = NULL
SPECIFICATION Spec
SYMMETRY Alike
INVARIANTS Sound CurrentIsThere InPreorder
PROPERTIES IsPaths
