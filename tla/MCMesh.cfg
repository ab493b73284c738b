SPECIFICATION MeshSpec
CONSTANTS
  Self = self
  Peers = {p1, p2, p3, p4}
  MaxAttempts = 3
  AllowSmallQuorum = TRUE
  Members = {p1, p2, p3, p4}
  Pair = {p1, p2}
  Proposals = {x}
  Kind <- MCKind
  MaxRounds = 1
  MaxCuts = 1
INVARIANTS QuorumSound VotesCounted GovOnce PollSound
PROPERTY PollsEnd
CHECK_DEADLOCK FALSE
