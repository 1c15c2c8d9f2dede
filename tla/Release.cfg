\* One session; two threads serving publish and the rollback thread; three
\* requests and one upset: a fault, a restart, or a request that overlaps
\* another one (an overlap that also meets a fault takes two)
SPECIFICATION Spec
CONSTANTS
    Sessions = {s1}
    Publishers = {p1, p2}
    MaxRequests = 3
    MaxUpsets = 1
SYMMETRY Symmetry
INVARIANTS TypeOK RegistrySound  
PROPERTIES ClosedStays
CHECK_DEADLOCK FALSE
