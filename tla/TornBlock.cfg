SPECIFICATION StateSpec
CONSTANTS
  alice = alice
  bob = bob
  v1 = v1
  v2 = v2
  v3 = v3
  s1 = s1
  s2 = s2
  NoTx = NoTx
  Validators = {v1, v2, v3}
  Seeds = {s1, s2}
  MinValidators = 1
  Addr = {alice, bob}
  PeerKeys = {v1, v2, v3}
  Adders = {a1}
  MaxHeight = 2
  MaxTime = 1
  Genesis <- mcGenesis
  ShuffleOf <- mcShuffle
  Tx <- mcTxs
  GenesisBalance <- mcGenesisBalance
  NetVTxs <- mcNetVTxs
  NetTxSeqs <- mcTxSeqs
INVARIANTS
  ValidBlockIsProcessed
CHECK_DEADLOCK FALSE
