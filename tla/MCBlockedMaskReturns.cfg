\* The same instance; the fairness of Spec, and the claim that mask returns.
SPECIFICATION Spec
CONSTANTS
  ByteBits = 4
  WordBits = 8
  HashBits = 7
  MurmurShift = 4
  Factor1 = 77
  Factor2 = 83
  Golden = 79
  num_hashes = 3
  murmur <- MCMurmur
PROPERTY
  Returns
CHECK_DEADLOCK FALSE
