SPECIFICATION Spec
CONSTANTS
  R = 4
  Diffusible <- MCDiffusible
  TargetDensity = 2
  SearchRadius = 4
  WanderDistance = 2
  BombRange = 2
  BombCount = 2
  DataMax = 1000000
  Datums = {3}
  FishBirthAge = 1
  SharkBirthAge = 1
  EnergyPerFish = 3
  MaxSharkEnergy = 4
  GoldPerRes = 2
  BaseCost = 2
  InfantryCost = 1
  MaxTimer = 2
  Worlds <- MCWorlds
  XRayed <- MCXRayed
  FairSites <- MCFairSites
  MaxTally = 2
  MaxExhaust = 2
  MaxDrift = 1
INVARIANTS
  PhysicsTypeOK
  CountsAgree
  DataAccounted
  CargoKept
PROPERTIES
  MatterKept
  EconomyBalanced
  SharksPayForFish
  InflammationSubsides
  StackCountsSettle
