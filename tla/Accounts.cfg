SPECIFICATION Spec
CONSTANTS
  Workers = {w1, w2}
  Names = {ann, bob}
  Passwords = {p, q}
INVARIANTS AckedIsDurable AckedCanLogin LoginSound
