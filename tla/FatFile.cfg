SPECIFICATION Spec
CONSTANTS
  Others = {t1, t2}
  Writer = W
  NClusters = 3
  sec_per_clus = 2
  FAT_MAX_CACHE = 2
INVARIANTS CacheSound MapsRight BlocksExact NoBug
SYMMETRY Symmetry
CONSTRAINT UntilRace
