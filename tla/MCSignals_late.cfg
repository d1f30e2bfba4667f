\* Is a parent that is killed one that has not answered?
CONSTANTS
  BITS = 8
  File <- TwoBytes
SPECIFICATION Spec
PROPERTIES NotResponding
