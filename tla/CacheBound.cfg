CONSTANTS
    None = None
    MaxSegs = 4
    Cap = 1
    Reader = {r1, r2}
    MaxFailures = 1

SPECIFICATION Spec
INVARIANT MappingsBounded
INVARIANT QueueTracksCache
INVARIANT HandlesMatch
