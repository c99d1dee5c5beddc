SPECIFICATION BooksSpec
CONSTANTS
  Debtor = {"u1", "u2"}
  Unwound = {"m1", "m2"}
  Owes <- MCOwes
  HouseBack <- MCHouseBack
  StartState <- MCStartState
  StartCash <- MCStartCash
  StartHouse = 4
  WKey = {"w1"}
  RKey = {"r1", "r2", "r3"}
  RTarget <- MCRTarget
  RAmount <- MCRAmount
  Principal = {"a", "b"}
  HandleOf <- MCHandleOf
  OutstandingCap = 3
  ItemCap = 3
  WriteOffDaily = 3
  RemedialMarket = 2
  RemedialDaily = 2
  ConfirmDelay = 1
  ProposalTtl = 1
  DayLength = 2
  MaxNow = 3
  MaxInFlight = 2
  MaxOther = 2
  Holder = {1, 2}
  Book = {"m1", "m2"}
  Trade <- MCTrade
  GrantKey <- MCGrantKey
  BindKey = {"k"}
  Reward <- MCReward
  RewardClass = "real_money"
  MinNotional = 4
  MintCap = 4
  MintWindow = 0
  StartReserve = 3
  StartCredit = 6
  MaxTopUps = 1
  MaxTick = 1
  Worker = {"w1", "w2"}
  Proc = {"p1", "p2"}
  Host <- MCHost
  Endpoint = {"e1", "e2", "e3"}
  Faulty = {"e3"}
  MaxAttempt = 3
INVARIANTS RefundPaidOnce CollectedWithinOpened HouseAccounted ReserveCovers FeesBackConversions
CHECK_DEADLOCK FALSE
