------------------------------ MODULE ModelCache ------------------------------
(***************************************************************************)
(* class ModelCache of the PWA: how far the download of every model got,   *)
(* in the memory of the page and in localStorage.  Every call changes the  *)
(* memory first and then stores the whole list; when storing throws the    *)
(* change stays in memory alone.                                           *)
(***************************************************************************)
EXTENDS Integers

CONSTANTS
    Models,
    Totals,       \* bytes of a model as a caller knows them
    Unknown,      \* totalBytes is null
    MaxBytes,     \* bound on the progress a caller reports
    MaxReloads    \* bound on the reloads of the page

CacheAssumption == MaxBytes \in Nat /\ MaxReloads \in Nat /\ Totals \subseteq 0..MaxBytes

VARIABLES
    entries,      \* entries[m]: [state, receivedBytes, totalBytes]
    stored,       \* the entries in localStorage
    reached,      \* history: reached[m]: bytes of the download that is under way, -1 when
                  \* there is none that could go on
    reloads,
    unsaved,      \* history: storing threw
    late          \* history: progress was reported of a download that had failed

cacheVars == <<entries, stored, reached, reloads, unsaved, late>>

Absent == [state |-> "absent", receivedBytes |-> 0, totalBytes |-> Unknown]

CacheTypeOK ==
    /\ \A table \in {entries, stored} :
           table \in [Models -> [state : {"absent", "downloading", "complete", "failed"},
                                 receivedBytes : 0..MaxBytes,
                                 totalBytes : Totals \cup {Unknown}]]
    /\ reached \in [Models -> -1..MaxBytes] /\ reloads \in 0..MaxReloads
    /\ unsaved \in BOOLEAN /\ late \in BOOLEAN

CacheInit ==
    /\ entries = [m \in Models |-> Absent] /\ stored = entries
    /\ reached = [m \in Models |-> -1] /\ reloads = 0
    /\ unsaved = FALSE /\ late = FALSE

-----------------------------------------------------------------------------
Persist == \/ stored' = entries' /\ UNCHANGED unsaved
           \/ unsaved' = TRUE /\ UNCHANGED stored

Put(m, entry) == entries' = [entries EXCEPT ![m] = entry] /\ Persist

CanResume(entry) ==
    /\ entry.state = "downloading"
    /\ entry.totalBytes = Unknown \/ entry.receivedBytes < entry.totalBytes

ResumeOffset(m) == IF CanResume(entries[m]) THEN entries[m].receivedBytes ELSE 0

Mutant_FailedGoesOn(m, total) ==
    /\ Put(m, [state |-> "downloading", totalBytes |-> total,
               receivedBytes |-> IF entries[m].state \in {"downloading", "failed"}
                                 THEN entries[m].receivedBytes ELSE 0])
    /\ reached' = [reached EXCEPT ![m] = IF @ = -1 THEN 0 ELSE @]
    /\ UNCHANGED <<reloads, late>>
StartDownload(m, total) ==
    /\ Put(m, [state |-> "downloading", totalBytes |-> total,
               receivedBytes |-> IF entries[m].state = "downloading"
                                 THEN entries[m].receivedBytes ELSE 0])
    /\ reached' = [reached EXCEPT ![m] = IF @ = -1 THEN 0 ELSE @]
    /\ UNCHANGED <<reloads, late>>

\* Progress of a download that was not started is an error, of a complete one is ignored.
RecordProgress(m, bytes) ==
    LET entry == entries[m]
        reachedEnd == entry.totalBytes # Unknown /\ bytes >= entry.totalBytes IN
    /\ entry.state \notin {"absent", "complete"}
    /\ Put(m, [entry EXCEPT !.state = IF reachedEnd THEN "complete" ELSE "downloading",
                            !.receivedBytes = IF reachedEnd THEN entry.totalBytes ELSE bytes])
    /\ reached' = [reached EXCEPT ![m] = IF reachedEnd THEN -1 ELSE IF @ = -1 THEN @ ELSE bytes]
    /\ late' = (late \/ entry.state = "failed")
    /\ UNCHANGED reloads

Complete(m, total) ==
    /\ Put(m, [state |-> "complete", totalBytes |-> total,
               receivedBytes |-> IF total # Unknown THEN total ELSE entries[m].receivedBytes])
    /\ reached' = [reached EXCEPT ![m] = -1]
    /\ UNCHANGED <<reloads, late>>

Fail(m) ==
    /\ entries[m].state # "absent"
    /\ Put(m, [entries[m] EXCEPT !.state = "failed"])
    /\ reached' = [reached EXCEPT ![m] = -1]
    /\ UNCHANGED <<reloads, late>>

Evict(m) ==
    /\ Put(m, Absent)
    /\ reached' = [reached EXCEPT ![m] = -1]
    /\ UNCHANGED <<reloads, late>>

\* A new page loads what is stored; what cannot be parsed is no list.
Reload ==
    /\ reloads < MaxReloads /\ reloads' = reloads + 1
    /\ \/ entries' = stored /\ UNCHANGED <<stored, reached>>
       \/ /\ entries' = [m \in Models |-> Absent] /\ stored' = entries'   \* cleared or corrupt
          /\ reached' = [m \in Models |-> -1]
    /\ UNCHANGED <<unsaved, late>>

CacheNext ==
    \/ Reload
    \/ \E m \in Models :
        \/ \E t \in Totals \cup {Unknown} : StartDownload(m, t) \/ Complete(m, t)
        \/ \E b \in 0..MaxBytes : RecordProgress(m, b)
        \/ Fail(m) \/ Evict(m)

-----------------------------------------------------------------------------
\* "A download that never completed stays resumable; a failed one is restarted from zero":
\* the offset is where the download under way stopped, over reloads of the page, and 0 when
\* there is none, unless storing threw or progress came in after a failure.
ResumesWhereItStopped ==
    ~unsaved /\ ~late =>
        \A m \in Models :
            LET whole == entries[m].totalBytes # Unknown /\ reached[m] >= entries[m].totalBytes IN
            ResumeOffset(m) = IF reached[m] = -1 \/ whole THEN 0 ELSE reached[m]
=============================================================================
