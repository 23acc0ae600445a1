\* Two overlapping requests with one key and payload.
SPECIFICATION GatewaySpec
CONSTANTS
    Desks = {"idempotency"}
    r1 = r1  r2 = r2  r3 = r3  s1 = s1  s2 = s2
    Requests <- MCRequests
    Payloads = {a, b}
    Nobody = Nobody
    Slots <- MCSlots
    Users = {"ana", "luis", "eva"}
    Orgs = {"north", "south"}  Seeded = "north"
    Staff <- MCStaff
    Viewing = {"property:read", "communication:read"}
    TokenTtl = 1  SessionTtl = 2  MaxTime = 1  MaxSessions = 2  MaxRequests = 2
    Keys = {"one", "other"}  WindowMs = 3  Max = 2  Second = 2  MaxClock = 6
SYMMETRY MCSymmetry
INVARIANT OncePerPayload
CHECK_DEADLOCK FALSE
