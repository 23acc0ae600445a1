-------------------------------- MODULE Client --------------------------------
(***************************************************************************)
(* The parts of the PWA that keep state in the browser: the offline queue, *)
(* the capture of photos and the cache of models.  Each has an entry of    *)
(* its own in localStorage; the queue is the one whose list the capture    *)
(* also writes, which OfflineQueue has as Capture.  A behaviour exercises  *)
(* one of them; the initial state picks which.                             *)
(***************************************************************************)
EXTENDS OfflineQueue

CONSTANTS
    Desks,                              \* the parts a behaviour may exercise
    Photos, MaxPresses,                 \* of PhotoCapture
    Models, Totals, Unknown, MaxBytes   \* of ModelCache

VARIABLES
    desk,
    onLine, awaiting, line, queue, onServer, presses, full,
    entries, saved, reached, starts, refused, late

Photo == INSTANCE PhotoCapture

Cache == INSTANCE ModelCache WITH stored <- saved, reloads <- starts, unsaved <- refused

ASSUME ClientAssumption == Photo!PhotoAssumption /\ Cache!CacheAssumption

photos == <<onLine, awaiting, line, queue, onServer, presses, full>>
models == <<entries, saved, reached, starts, refused, late>>

ClientInit ==
    /\ desk \in Desks /\ Init /\ Photo!PhotoInit /\ Cache!CacheInit
    /\ desk # "photos" => onLine

ClientNext ==
    /\ UNCHANGED desk
    /\ \/ desk = "queue" /\ Next /\ UNCHANGED <<photos, models>>
       \/ desk = "photos" /\ Photo!PhotoNext /\ UNCHANGED <<vars, models>>
       \/ desk = "models" /\ Cache!CacheNext /\ UNCHANGED <<vars, photos>>

ClientSpec == ClientInit /\ [][ClientNext]_<<desk, vars, photos, models>>

-----------------------------------------------------------------------------
ClientTypeOK == TypeOK /\ Photo!PhotoTypeOK /\ Cache!CacheTypeOK

\* What the user was told of a photo is true.
ToldIsKept == Photo!ToldIsKept

\* A download goes on where it stopped.
ResumesWhereItStopped == Cache!ResumesWhereItStopped
=============================================================================
