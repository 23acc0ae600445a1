\* What a request passes before its handler.
SPECIFICATION GatewaySpec
CONSTANTS
    Desks = {"idempotency", "access", "limits"}
    r1 = r1  r2 = r2  r3 = r3  s1 = s1  s2 = s2
    Requests <- MCRequests
    Payloads = {a, b}
    Nobody = Nobody
    Slots <- MCSlots
    Users = {"ana", "luis", "eva"}
    Orgs = {"north", "south"}  Seeded = "north"
    Staff <- MCStaff
    Viewing = {"property:read", "communication:read"}
    TokenTtl = 1  SessionTtl = 2  MaxTime = 1  MaxSessions = 2  MaxRequests = 2
    Keys = {"one", "other"}  WindowMs = 3  Max = 2  Second = 2  MaxClock = 6
SYMMETRY MCSymmetry
INVARIANTS GatewayTypeOK AnswersAreDeserved TakesEffectOnce WritesArePermitted SomebodyAdministers RateIsKept
CHECK_DEADLOCK FALSE
