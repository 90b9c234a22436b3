\* Two jobs of any kind over two servers that compete for one name.
SPECIFICATION Spec
CONSTANTS
  Server = {s1, s2}
  Name = {n1}
  Job = {j1, j2}
  Rest = Rest
  Absent = Absent
  Kind = {"sync", "sweep", "register", "remove"}
  MaxChange = 1
SYMMETRY Symmetry
CHECK_DEADLOCK FALSE
INVARIANTS
  TypeOK
  OwnerAdvertised
  ListedIsRoutable
PROPERTIES
  RestToolsStay
