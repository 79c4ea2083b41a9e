\* The frontier moves between the comparison and the rename.
CONSTANTS
  Requests = {q1}
  Absent = Absent
  Frontier = Frontier
  Moved = Moved
SPECIFICATION Spec
PROPERTIES
  MovedIsNotReplaced
