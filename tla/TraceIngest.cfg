SPECIFICATION Spec
CONSTANTS
    Ingestions = {i1}
    MaxEvents = 3
    MaxClashes = 1
    Heavy = {1}
    MaxRestarts = 1
    Endings = {"cancelled"}
    TestEndings = {"cancelled"}
INVARIANTS TypeOK MarkExact VerifiedIsWhole EndingIsProven
PROPERTIES AcceptedStays VerifiedStays EndStays
CHECK_DEADLOCK FALSE
