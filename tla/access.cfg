\* Three goroutines that rotate, use and post the keys of two users, over an unreliable Redis
SPECIFICATION Spec
CONSTANTS
  Users = {u1, u2}
  Workers = {w1, w2, w3}
  Texts = {a}
  RedisFails = TRUE
  MaxKeys = 3
  MaxOps = 1
SYMMETRY Symmetry
INVARIANTS
  CurrentKeyWorks
  OneKey
  LeakRevoked
  StoredKeysRefused
CHECK_DEADLOCK FALSE
