SPECIFICATION FairSpec
CONSTANTS
  Campaigns = {c1}
  Ids = {1, 2, 3, 4, 5}
  Ttl = 3
  MaxListings = 2
  MaxLate = 1
  MaxMissed = 3
INVARIANTS TypeOK OneMissedBeatIsHarmless DelistedInTime OrphansExpire
PROPERTY Heals
