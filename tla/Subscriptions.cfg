SPECIFICATION Spec
CONSTANTS
  Custom = {"Free"}
  Servers = {s1, s2}
  Urls = {u1, u2}
INVARIANTS
  TypeOK
  RefreshIsCounted
  GroupsAgree
PROPERTIES
  RefreshEnds
