\* Two keys, rotated, retired and brought back; a Ttl of two ticks, and time
\* for an entry to expire twice.
SPECIFICATION Spec
CONSTANTS
  Keys = {k1, k2}
  Ttl = 2
  MaxTime = 4
  NoKid = NoKid
  None = None
SYMMETRY Symmetry
INVARIANT TypeOK
PROPERTIES
  RetiredKeysLapse
  SoundTokensPass
