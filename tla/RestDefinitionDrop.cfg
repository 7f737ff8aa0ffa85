CONSTANTS
    d1 = d1  d2 = d2  a = a  b = b  c = c  v1 = v1  v2 = v2   i1 = i1 
    None = None
    Bare = Bare
    Docs = {a, b, c}
    VersionOf <- SharedVersionOf
    Versions = {v1, v2}
    Fallback = v2
    Secured = {}
    Defs = {d1, d2}
    Instances = {i1}
    MaxEdits = 2
    MaxFaults = 0
SPECIFICATION Spec
PROPERTIES RefusesToDropInstances
CHECK_DEADLOCK FALSE
