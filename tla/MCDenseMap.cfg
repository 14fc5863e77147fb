\* Five keys for at most four buckets, hashes of three bits that share and
\* do not share home buckets and fingerprints, two operations on
\* tables built from ranges of up to four values.
SPECIFICATION Spec
CONSTANTS
  k1 = k1
  k2 = k2
  k3 = k3
  k4 = k4
  k5 = k5
  v1 = v1
  v2 = v2
  Key = {k1, k2, k3, k4, k5}
  Val = {v1, v2}
  none = none
  HashBits = 3
  FingerprintBits = 1
  IndexBits = 2
  InitialBits = 1
  HashValues = {0, 6, 7}
  Percents = {80, 100}
  Containers <- MCContainers
  MaxCalls = 2
INVARIANTS TypeOK BucketsExact FindsExactly ErasesExactly
PROPERTIES ImplementsMap
