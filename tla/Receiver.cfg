CONSTANTS
  Mod32 = 16
  Mod64 = 96
  RecvCapacity = 7
  PeerISN = 11
  Total = 19
  MaxLength = 6
SPECIFICATION FairSpec
INVARIANTS OutputIsStream RingHoldsAccepted UnwrapClosest NeverThrows
PROPERTIES NeverReneges EventuallyComplete
