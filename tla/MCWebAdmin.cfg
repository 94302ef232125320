\* Two requests and one socket at a time, two families, one rotation of each; shells with
\* three sets of locations and two values of PATH.
SPECIFICATION MCSpec
CONSTANTS
  Requests = {r1, r2}
  Sockets = {s1}
  CodeLimit = 2
  MaxChallenges = 2
  MaxFamilies = 2
  MaxRotations = 1
  Locations = {"home", "other runtime dir", "other state dir"}
  Elsewhere = {"other runtime dir"}
  Paths = {"path1", "path2"}
INVARIANTS SecretsSpentOnce ServiceObeys
PROPERTIES RevokedSocketsClose
CHECK_DEADLOCK FALSE
