SPECIFICATION Spec
CONSTANTS
  alice = alice
  bob = bob
  v1 = v1
  v2 = v2
  v3 = v3
  s1 = s1
  s2 = s2
  NoTx = NoTx
  Validators = {v1, v2, v3}
  Seeds = {s1, s2}
  MinValidators = 1
  Addr = {alice, bob}
  PeerKeys = {}
  Adders = {a1, a2}
  MyKeys = {v1, v2, v3}
  MaxHeight = 2
  MaxTime = 1
  Genesis <- mcGenesis
  ShuffleOf <- mcShuffle
  Tx <- mcUnrivalled
  GenesisBalance <- mcGenesisBalance
  NetVTxs = {}
  NetTxSeqs <- mcEmptySeq
INVARIANTS
  ProducerNeverThrows
CHECK_DEADLOCK FALSE
