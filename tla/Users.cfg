CONSTANTS
  Uid = {u1, u2, u3}
  Password = {p1, p2}
  Privilege = {3, 9, 10, 11}
  Absent = Absent
SYMMETRY Symmetry
SPECIFICATION Spec
INVARIANTS
  TypeOK
  OnlineRegistered
PROPERTIES
  NobodyReachesTheTop
  AccountsKept
