----------------------------- MODULE PhotoCapture -----------------------------
(***************************************************************************)
(* PhotoCapture.upload of the PWA: the record of a photo is posted, or     *)
(* queued in localStorage when the browser is offline or the server does   *)
(* not take it.  The button stays enabled while a request is under way,    *)
(* and what the user is told is a single line.                             *)
(***************************************************************************)
EXTENDS Integers, FiniteSets

CONSTANTS
    Photos,
    MaxPresses    \* bound on how often the button is pressed

PhotoAssumption == MaxPresses \in Nat

VARIABLES
    onLine,       \* navigator.onLine, which need not be true of the server
    awaiting,     \* awaiting[p]: requests of p under way
    line,         \* line[p]: what the user was told last
    queue,        \* photos in the list in localStorage
    onServer,     \* photos the server has an attachment of
    presses, full \* history: localStorage refused the list

photoVars == <<onLine, awaiting, line, queue, onServer, presses, full>>

PhotoTypeOK ==
    /\ onLine \in BOOLEAN /\ awaiting \in [Photos -> 0..MaxPresses]
    /\ line \in [Photos -> {"none", "uploading", "queued", "conflict", "saved"}]
    /\ queue \subseteq Photos /\ onServer \subseteq Photos
    /\ presses \in 0..MaxPresses /\ full \in BOOLEAN

PhotoInit ==
    /\ onLine \in BOOLEAN
    /\ awaiting = [p \in Photos |-> 0] /\ line = [p \in Photos |-> "none"]
    /\ queue = {} /\ onServer = {} /\ presses = 0 /\ full = FALSE

-----------------------------------------------------------------------------
Tell(p, what) == line' = [line EXCEPT ![p] = what]

NetworkChanges == onLine' = ~onLine /\ UNCHANGED <<awaiting, line, queue, onServer, presses, full>>

\* new OfflineQueue(localStorage).enqueue(...): its persist swallows what setItem throws,
\* and the instance with the list in memory is gone.
Enqueue(p) ==
    /\ \/ queue' = queue \cup {p} /\ UNCHANGED full
       \/ full' = TRUE /\ UNCHANGED queue
    /\ Tell(p, "queued")

Upload(p) ==
    /\ presses < MaxPresses /\ presses' = presses + 1
    /\ \/ ~onLine /\ Enqueue(p) /\ UNCHANGED awaiting
       \/ /\ onLine /\ Tell(p, "uploading")
          /\ awaiting' = [awaiting EXCEPT ![p] = @ + 1] /\ UNCHANGED <<queue, full>>
    /\ UNCHANGED <<onLine, onServer>>

Ends(p) == awaiting[p] > 0 /\ awaiting' = [awaiting EXCEPT ![p] = @ - 1]

\* 2xx
Saved(p) ==
    /\ Ends(p) /\ Tell(p, "saved") /\ onServer' = onServer \cup {p}
    /\ UNCHANGED <<onLine, queue, presses, full>>

\* 409: somebody's record of the same photo is kept.  The component handles the answer;
\* no route of the API gives it today, as the request carries no idempotency key.
Conflict(p) ==
    /\ Ends(p) /\ p \in onServer /\ Tell(p, "conflict")
    /\ UNCHANGED <<onLine, queue, onServer, presses, full>>

Mutant_NotOkIsDone(p, done) ==
    /\ Ends(p) /\ Tell(p, "saved")
    /\ onServer' = IF done THEN onServer \cup {p} ELSE onServer
    /\ UNCHANGED <<onLine, queue, presses, full>>
\* Any other status, also that of a proxy when the server did its part.
NotOk(p, done) ==
    /\ Ends(p) /\ Enqueue(p)
    /\ onServer' = IF done THEN onServer \cup {p} ELSE onServer
    /\ UNCHANGED <<onLine, presses>>

\* fetch rejects and nobody catches it: the line goes on saying that it uploads.
Rejected(p, done) ==
    /\ Ends(p)
    /\ onServer' = IF done THEN onServer \cup {p} ELSE onServer
    /\ UNCHANGED <<onLine, line, queue, presses, full>>

PhotoNext ==
    \/ NetworkChanges
    \/ \E p \in Photos :
        \/ Upload(p) \/ Saved(p) \/ Conflict(p)
        \/ \E done \in BOOLEAN : NotOk(p, done) \/ Rejected(p, done)

-----------------------------------------------------------------------------
\* A photo of which the user was told that it is saved, queued or known is on the server or
\* in the stored queue, whatever became of other requests for it, unless localStorage
\* refused the list.
ToldIsKept ==
    ~full => \A p \in Photos :
                 line[p] \in {"saved", "queued", "conflict"} => p \in onServer \cup queue
=============================================================================
