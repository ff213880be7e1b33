SPECIFICATION FairSpec
CONSTANTS
  Switch = {reed}
  Distance = {}
  main = main
  observer = observer
INVARIANTS TypeOK MuteEnds
PROPERTY Settles
