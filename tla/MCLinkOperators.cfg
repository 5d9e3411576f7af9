SPECIFICATION LinkSpec
CONSTANTS
  vx = vx
  vy = vy
  vz = vz
  vu = vu
  vv = vv
  vw = vw
  Variable = {vx, vy, vz, vu, vv, vw}
  Relation = 1
  Size = 1000
  Number <- MCNumber
  Written <- MCWritten
  Reals <- MCReals
  Rank <- MCRank
  Lower <- MCLower
  Upper <- MCUpper
  Worlds <- MCWorlds
  Jobs <- MCJobs
CHECK_DEADLOCK FALSE
INVARIANTS
  LinkTypeOK
  ArithmeticOutcome
  
  AnswerOutcome
  StringOutcome
