CONSTANTS
  Uid = {u1, u2}
  Password = {p1}
  Privilege = {3}
  Absent = Absent
SPECIFICATION Spec
PROPERTIES
  LogoutOnlyOwnSession
