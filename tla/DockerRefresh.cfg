SPECIFICATION FairSpec
CONSTANTS
  AllowMock = TRUE
  Users = {"u1"}
  Projections = {"t1", "t2"}
  MaxHost = 2
  MaxIncarnation = 1
INVARIANTS BindingOfItsSnapshot StampIsHonest
PROPERTIES DockerRecovers
