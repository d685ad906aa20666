CONSTANTS
  Handler = {h1}
  Ttl = 60
  RenewAt = 48
  Hang = 5
  MaxOutage = 5
SPECIFICATION Spec
INVARIANTS NoPoolIsLeaked NeverExpires DeadOnlyBriefly
