CONSTANTS
  Denoms = {"native", "ibc"}
  BondDenom = "native"
  Accounts = {"alice", "bob"}
  LatestVersion = 1
  MaxSequence = 3
  MaxUint256 = 3
  InitBalances <- MCBalances
  Locked <- MCLocked
  Approvers <- MCApprovers
  ParamsSet <- MCParams
  Delegators = {"alice", "bob"}
  Validators = {1, 2}
  SelfBond <- MCSelfBond
  Coins <- MCCoins
  WithdrawTo <- MCWithdrawTo
  MinReward = 2
  MaxAmount = 1
  MaxRewards = 2
  MaxCalls = 2
  Holders = {"alice", "bob", "carol", "contract"}
  Eoas = {"alice", "bob", "carol"}
  Funds <- MCFunds
  MaxMessages = 2
  MaxLevel = 4
SPECIFICATION Spec
INVARIANTS
  RegistryConsistent
  
  TransfersLogged
  StakingLogged
  VestingProven
CHECK_DEADLOCK FALSE
