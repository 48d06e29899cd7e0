SPECIFICATION FairSpec
CONSTANTS
  c1 = c1
  c2 = c2
  signer = signer
  creator = creator
  u1 = u1
  deposits = deposits
  withdrawals = withdrawals
  w1 = w1
  msg = msg
  transfer = transfer
  p1 = p1
  p2 = p2
  p3 = p3
  nonce = nonce
  ClusterName <- MCClusterName
  SecretsFile <- MCSecretsFile
  ConfigKey <- MCConfigKey
  Request <- MCRequest
  Uid = {u1, deposits, withdrawals}
  Wallet = {w1}
  Message = {msg, transfer}
  Proof = {p1, p2, p3, nonce}
  Body <- AllBodies
  NoBody = NoBody
  Bodies <- MCBodies
  BodyDelays <- MCBodyDelays
  WalletOf <- MCWalletOf
  bridge_deposit = deposits
  bridge_withdraw = withdrawals
  Rendered <- MCRendered
  Challenge <- MCChallenge
  NoRecord = NoRecord
  VerifyLimit <- MCVerifyLimit
  CombinationsOf <- MCCombinations
  LiveServersOf <- MCLiveServers
  TIMEOUT = 1
  ServiceLimit = 4
  SIGN_CONCURRENCY = 2
INVARIANTS
  OnlyVerifiedIsAsked
  AnswersAreTrue
  TimeoutsForCause
PROPERTIES
  StartupSettles
  StopsGracefully
