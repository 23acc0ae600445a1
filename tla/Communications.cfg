\* Sending communications, and getting their e-mails out of the outbox.
SPECIFICATION Spec
CONSTANTS
    Consumers = {c1, c2}
    Poison = {1}
    Window = 2
    Limit = 2
    MaxEvents = 3
    MaxStops = 1
    ana = ana  luis = luis  home = home  work = work
    Users = {ana, luis}
    Addresses = {home, work}
    Recipients <- Asked
    Sendings = {m1}
    MaxChanges = 1
INVARIANTS TypeOK AnsweredIsServed
PROPERTIES QueueSpec
CHECK_DEADLOCK FALSE
