SPECIFICATION FairSpec
CONSTANT MaxPresses = 4
INVARIANTS TypeOK CountsAgree OneEffect FlagMeansOwed
PROPERTY EveryPressHeard
