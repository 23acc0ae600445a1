--------------------------- MODULE DocumentsProofs ---------------------------
(***************************************************************************)
(* What Documents guarantees for any number of handlers, users and         *)
(* versions.                                                               *)
(*                                                                         *)
(* A handler judges a status or a table and writes later.  What survives   *)
(* the delay is what only grows: signatures are never deleted, so a        *)
(* transition that found one is still right; and an insert that found no   *)
(* row is one of at most as many as there are handlers, so the rows there  *)
(* are and the inserts still to come are counted together.                 *)
(***************************************************************************)
EXTENDS Documents, FiniteSetTheorems, SequenceTheorems, TLAPS

Signed == \E a \in Actors : signatures[a] > 0

\* Handlers that found no row and are about to insert one.
Approving(a) == {s \in Slots : pc[s] = "ready" /\ job[s].kind = "approve" /\ job[s].actor = a /\ job[s].seen = 0}
Signing(a) == {s \in Slots : pc[s] = "ready" /\ job[s].kind = "sign" /\ job[s].actor = a}
Enqueuing(v) == {s \in Slots : pc[s] = "ready" /\ job[s].kind = "pdf" /\ job[s].seen = v}

JobsFit ==
    \A s \in Slots :
        /\ InFlight(s) /\ job[s].kind = "pdf" => job[s].seen \in 1..MaxVersions
        /\ pc[s] = "ready" /\ job[s].kind = "edit" => job[s].seen < MaxVersions
        /\ pc[s] = "loaded" /\ job[s].kind = "transition" => job[s].to \in {"APPROVED", "SIGNED"}

TransitionsAreGranted ==
    \A s \in Slots :
        pc[s] = "ready" /\ job[s].kind = "transition" /\ job[s].to \in {"SIGNED", "FINAL"} => Signed

InsertsCounted ==
    /\ \A a \in Actors : Len(approvals[a]) + Cardinality(Approving(a)) <= Cardinality(Slots)
    /\ \A a \in Actors : signatures[a] + Cardinality(Signing(a)) <= Cardinality(Slots)
    /\ \A v \in 1..MaxVersions : jobs[v] + Cardinality(Enqueuing(v)) <= Cardinality(Slots)

\* Until two handlers overlap, the one under way still sees what it read.
OneHandler ==
    /\ \A s, q \in Slots : InFlight(s) /\ InFlight(q) => s = q
    /\ \A s \in Slots : InFlight(s) =>
          /\ job[s].kind = "edit" => status \in {"DRAFT", "IN_REVIEW"}
          /\ job[s].kind = "approve" => status = "IN_REVIEW"
          /\ job[s].kind = "transition" => job[s].to \in Transitions(status)

OneRow ==
    /\ \A a \in Actors :
          /\ Len(approvals[a]) <= 1 /\ signatures[a] <= 1
          /\ Approving(a) # {} => approvals[a] = <<>>
          /\ Signing(a) # {} => signatures[a] = 0
    /\ \A v \in 1..MaxVersions : jobs[v] <= 1 /\ (Enqueuing(v) # {} => jobs[v] = 0)

Inv ==
    /\ TypeOK /\ JobsFit
    /\ SignedHasSignature /\ TransitionsAreGranted
    /\ InsertsCounted
    /\ ~raced => OneHandler /\ OneRow

LEMMA RequestType == \A k \in Kinds : Request(k) \in Job
BY DocumentAssumption DEF Request, Job, Kinds, Status

LEMMA SlotsFinite ==
    ASSUME NEW W \in SUBSET Slots
    PROVE  IsFiniteSet(W) /\ Cardinality(W) \in Nat /\ Cardinality(W) <= Cardinality(Slots)
           /\ Cardinality(Slots) \in Nat
BY DocumentAssumption, FS_Subset, FS_CardinalityType

\* Rows and the inserts to come: an insert starts where there is no row, and
\* turns into a row when it is done.
LEMMA Slotted ==
    ASSUME NEW W \in SUBSET Slots, NEW V \in SUBSET Slots, NEW n \in Nat, NEW m \in Nat,
           n + Cardinality(W) <= Cardinality(Slots),
           \/ V \subseteq W /\ m = n
           \/ m = 0
           \/ m = n + 1 /\ \E s \in W : V \subseteq W \ {s}
    PROVE  m + Cardinality(V) <= Cardinality(Slots)
<1>1. /\ IsFiniteSet(W) /\ Cardinality(W) \in Nat /\ Cardinality(Slots) \in Nat
      /\ IsFiniteSet(V) /\ Cardinality(V) \in Nat /\ Cardinality(V) <= Cardinality(Slots)
  BY SlotsFinite
<1>2. CASE V \subseteq W /\ m = n
  <2>1. Cardinality(V) <= Cardinality(W)
    BY <1>1, <1>2, FS_Subset
  <2> QED
    BY <1>1, <1>2, <2>1
<1>3. CASE m = 0
  BY <1>1, <1>3
<1>4. CASE m = n + 1 /\ \E s \in W : V \subseteq W \ {s}
  <2>1. PICK s \in W : V \subseteq W \ {s}
    BY <1>4
  <2>2. Cardinality(W \ {s}) = Cardinality(W) - 1 /\ IsFiniteSet(W \ {s})
    BY <1>1, FS_RemoveElement
  <2>3. Cardinality(V) <= Cardinality(W \ {s})
    BY <2>1, <2>2, FS_Subset
  <2> QED
    BY <1>1, <1>4, <2>2, <2>3
<1> QED
  BY <1>2, <1>3, <1>4

LEMMA InsertsKept ==
    ASSUME TypeOK, TypeOK', InsertsCounted,
           \A a \in Actors :
              \/ Approving(a)' \subseteq Approving(a) /\ Len(approvals'[a]) = Len(approvals[a])
              \/ Len(approvals'[a]) = 0
              \/ /\ Len(approvals'[a]) = Len(approvals[a]) + 1
                 /\ \E s \in Approving(a) : Approving(a)' \subseteq Approving(a) \ {s},
           \A a \in Actors :
              \/ Signing(a)' \subseteq Signing(a) /\ signatures'[a] = signatures[a]
              \/ signatures'[a] = 0
              \/ /\ signatures'[a] = signatures[a] + 1
                 /\ \E s \in Signing(a) : Signing(a)' \subseteq Signing(a) \ {s},
           \A v \in 1..MaxVersions :
              \/ Enqueuing(v)' \subseteq Enqueuing(v) /\ jobs'[v] = jobs[v]
              \/ jobs'[v] = 0
              \/ /\ jobs'[v] = jobs[v] + 1
                 /\ \E s \in Enqueuing(v) : Enqueuing(v)' \subseteq Enqueuing(v) \ {s}
    PROVE  InsertsCounted'
<1>1. ASSUME NEW a \in Actors
      PROVE  Len(approvals'[a]) + Cardinality(Approving(a)') <= Cardinality(Slots)
  <2>1. Approving(a) \in SUBSET Slots /\ Approving(a)' \in SUBSET Slots
    BY DEF Approving
  <2>2. Len(approvals[a]) \in Nat /\ Len(approvals'[a]) \in Nat
    BY DEF TypeOK
  <2>3. Len(approvals[a]) + Cardinality(Approving(a)) <= Cardinality(Slots)
    BY DEF InsertsCounted
  <2> QED
    BY <2>1, <2>2, <2>3, Slotted
<1>2. ASSUME NEW a \in Actors
      PROVE  signatures'[a] + Cardinality(Signing(a)') <= Cardinality(Slots)
  <2>1. Signing(a) \in SUBSET Slots /\ Signing(a)' \in SUBSET Slots
    BY DEF Signing
  <2>2. signatures[a] \in Nat /\ signatures'[a] \in Nat
    BY DEF TypeOK
  <2>3. signatures[a] + Cardinality(Signing(a)) <= Cardinality(Slots)
    BY DEF InsertsCounted
  <2> QED
    BY <2>1, <2>2, <2>3, Slotted
<1>3. ASSUME NEW v \in 1..MaxVersions
      PROVE  jobs'[v] + Cardinality(Enqueuing(v)') <= Cardinality(Slots)
  <2>1. Enqueuing(v) \in SUBSET Slots /\ Enqueuing(v)' \in SUBSET Slots
    BY DEF Enqueuing
  <2>2. jobs[v] \in Nat /\ jobs'[v] \in Nat
    BY DEF TypeOK
  <2>3. jobs[v] + Cardinality(Enqueuing(v)) <= Cardinality(Slots)
    BY DEF InsertsCounted
  <2> QED
    BY <2>1, <2>2, <2>3, Slotted
<1> QED
  BY <1>1, <1>2, <1>3 DEF InsertsCounted

LEMMA InitInv == Init => Inv
<1> SUFFICES ASSUME Init
             PROVE  Inv
  OBVIOUS
<1>1. TypeOK
  <2>1. status \in Status /\ versions \in 1..MaxVersions
    BY DocumentAssumption DEF Init, Status
  <2>2. <<>> \in Seq(BOOLEAN)
    OBVIOUS
  <2>3. approvals \in [Actors -> Seq(BOOLEAN)] /\ signatures \in [Actors -> Nat]
    BY <2>2 DEF Init
  <2>4. Request("none") \in Job
    BY RequestType DEF Kinds
  <2>5. job \in [Slots -> Job] /\ pc \in [Slots -> {"idle", "loaded", "ready", "auditing"}]
    BY <2>4 DEF Init
  <2>6. jobs \in [1..MaxVersions -> Nat] /\ raced \in BOOLEAN
    BY DEF Init
  <2> QED
    BY <2>1, <2>3, <2>5, <2>6 DEF TypeOK
<1>2. JobsFit /\ TransitionsAreGranted /\ SignedHasSignature /\ OneHandler
  BY DEF Init, JobsFit, InFlight, TransitionsAreGranted, SignedHasSignature, OneHandler
<1>3. /\ \A a \in Actors : Approving(a) = {} /\ Signing(a) = {}
      /\ \A v \in 1..MaxVersions : Enqueuing(v) = {}
  BY DEF Init, Approving, Signing, Enqueuing
<1>4. OneRow
  BY <1>3 DEF Init, OneRow
<1>5. InsertsCounted
  BY <1>3, FS_EmptySet, SlotsFinite DEF Init, InsertsCounted
<1> QED
  BY <1>1, <1>2, <1>4, <1>5 DEF Inv

\* Steps that write no table and start no handler: the audit event, an abort, a
\* check that fails.
LEMMA QuietInv ==
    ASSUME Inv, UNCHANGED <<tables, raced>>,
           pc' \in [Slots -> {"idle", "loaded", "ready", "auditing"}], job' \in [Slots -> Job],
           \A s \in Slots : (pc'[s] = pc[s] /\ job'[s] = job[s]) \/ pc'[s] \in {"idle", "auditing"}
    PROVE  Inv'
<1>1. TypeOK'
  BY DEF Inv, TypeOK, tables
<1>2. /\ \A a \in Actors : Approving(a)' \subseteq Approving(a) /\ Signing(a)' \subseteq Signing(a)
      /\ \A v \in 1..MaxVersions : Enqueuing(v)' \subseteq Enqueuing(v)
  BY DEF Approving, Signing, Enqueuing
<1>3. JobsFit' /\ TransitionsAreGranted' /\ SignedHasSignature'
  BY DEF Inv, JobsFit, InFlight, TransitionsAreGranted, SignedHasSignature, Signed, tables
<1>4. InsertsCounted'
  BY <1>1, <1>2, InsertsKept DEF Inv, tables
<1>5. ~raced => OneHandler' /\ OneRow'
  BY <1>2 DEF Inv, OneHandler, InFlight, OneRow, tables
<1> QED
  BY <1>1, <1>3, <1>4, <1>5 DEF Inv, tables

LEMMA AcceptInv ==
    ASSUME Inv, NEW s \in Slots, NEW r \in Job, NEW step \in {"loaded", "ready"}, Accept(s, r, step),
           r.kind = "pdf" => r.seen \in 1..MaxVersions,
           r.kind = "edit" => status \in {"DRAFT", "IN_REVIEW"},
           r.kind = "approve" => status = "IN_REVIEW",
           r.kind = "transition" => r.to \in Transitions(status),
           r.kind = "transition" /\ step = "loaded" => r.to \in {"APPROVED", "SIGNED"},
           step = "ready" => r.kind = "transition" /\ r.to \notin {"APPROVED", "SIGNED"}
    PROVE  Inv'
<1>1. /\ pc[s] = "idle" /\ pc'[s] = step /\ job'[s] = r /\ UNCHANGED tables
      /\ \A q \in Slots \ {s} : pc'[q] = pc[q] /\ job'[q] = job[q]
      /\ raced' = (raced \/ \E q \in Slots : InFlight(q))
  BY DEF Accept, Inv, TypeOK
<1>2. TypeOK'
  BY DEF Accept, Inv, TypeOK, tables
<1>3. /\ \A a \in Actors : Approving(a)' \subseteq Approving(a) /\ Signing(a)' \subseteq Signing(a)
      /\ \A v \in 1..MaxVersions : Enqueuing(v)' \subseteq Enqueuing(v)
  BY <1>1 DEF Approving, Signing, Enqueuing
<1>4. JobsFit' /\ SignedHasSignature'
  BY <1>1 DEF Inv, JobsFit, InFlight, SignedHasSignature, tables
<1>5. TransitionsAreGranted'
  <2>1. step = "ready" /\ r.to \in {"SIGNED", "FINAL"} => Signed
    BY DEF Inv, TypeOK, Status, Transitions, SignedHasSignature, Signed
  <2> QED
    BY <1>1, <2>1 DEF Inv, TransitionsAreGranted, Signed, tables
<1>6. InsertsCounted'
  BY <1>1, <1>2, <1>3, InsertsKept DEF Inv, tables
<1>7. ~raced' => OneHandler' /\ OneRow'
  <2> SUFFICES ASSUME ~raced'
               PROVE  OneHandler' /\ OneRow'
    OBVIOUS
  <2>1. ~raced /\ \A q \in Slots : ~InFlight(q)
    BY <1>1 DEF Inv, TypeOK
  <2>2. \A q \in Slots : InFlight(q)' => q = s
    BY <1>1, <2>1 DEF InFlight
  <2>3. OneHandler'
    BY <1>1, <2>2 DEF OneHandler, tables
  <2>4. OneRow'
    BY <1>1, <1>3, <2>1 DEF Inv, OneRow, tables
  <2> QED
    BY <2>3, <2>4
<1> QED
  BY <1>2, <1>4, <1>5, <1>6, <1>7 DEF Inv

\* A read that lets the handler go on: what its write depends on holds now.
LEMMA ReadInv ==
    ASSUME Inv, NEW s \in Slots, NEW kind \in Kinds, NEW go \in BOOLEAN, NEW seen \in Nat,
           Read(s, kind, go, seen),
           go /\ kind = "edit" => seen < MaxVersions,
           go /\ kind = "transition" => Granted(job[s].to),
           go /\ kind = "approve" /\ seen = 0 => approvals[job[s].actor] = <<>>,
           go /\ kind = "sign" => signatures[job[s].actor] = 0,
           go /\ kind = "pdf" => seen = job[s].seen /\ jobs[seen] = 0
    PROVE  Inv'
<1>0. job[s] \in Job /\ Request("none") \in Job
  BY RequestType DEF Inv, TypeOK, Kinds
<1>1. /\ pc[s] = "loaded" /\ job[s].kind = kind /\ UNCHANGED <<tables, raced>>
      /\ pc' = [pc EXCEPT ![s] = IF go THEN "ready" ELSE "idle"]
      /\ job' = [job EXCEPT ![s] = IF go THEN [@ EXCEPT !.seen = seen] ELSE Request("none")]
  BY DEF Read
<1>2. CASE ~go
  <2>1. pc' \in [Slots -> {"idle", "loaded", "ready", "auditing"}] /\ job' \in [Slots -> Job]
    BY <1>0, <1>1, <1>2 DEF Inv, TypeOK
  <2>2. \A q \in Slots : (pc'[q] = pc[q] /\ job'[q] = job[q]) \/ pc'[q] \in {"idle", "auditing"}
    BY <1>1, <1>2 DEF Inv, TypeOK
  <2> QED
    BY <1>1, <2>1, <2>2, QuietInv
<1>3. CASE go
  <2> DEFINE r == [job[s] EXCEPT !.seen = seen]
  <2>1. r \in Job /\ r.kind = kind /\ r.to = job[s].to /\ r.actor = job[s].actor /\ r.seen = seen
    BY <1>0, <1>1 DEF Job
  <2>2. /\ pc'[s] = "ready" /\ job'[s] = r
        /\ \A q \in Slots \ {s} : pc'[q] = pc[q] /\ job'[q] = job[q]
    BY <1>1, <1>3 DEF Inv, TypeOK
  <2>3. TypeOK'
    <3>1. pc' \in [Slots -> {"idle", "loaded", "ready", "auditing"}]
      BY <1>1, <1>3 DEF Inv, TypeOK
    <3>2. job' \in [Slots -> Job]
      BY <1>1, <1>3, <2>1 DEF Inv, TypeOK
    <3> QED
      BY <1>1, <3>1, <3>2 DEF Inv, TypeOK, tables
  <2> HIDE DEF r
  <2>4. \A a \in Actors :
          /\ Approving(a)' \subseteq Approving(a) \/ (kind = "approve" /\ seen = 0 /\ a = job[s].actor)
          /\ Signing(a)' \subseteq Signing(a) \/ (kind = "sign" /\ a = job[s].actor)
    BY <2>1, <2>2 DEF Approving, Signing
  <2>5. \A v \in 1..MaxVersions : Enqueuing(v)' \subseteq Enqueuing(v) \/ (kind = "pdf" /\ v = seen)
    BY <2>1, <2>2 DEF Enqueuing
  <2>6. JobsFit' /\ SignedHasSignature'
    BY <1>1, <1>3, <2>1, <2>2 DEF Inv, JobsFit, InFlight, SignedHasSignature, tables
  <2>7. TransitionsAreGranted'
    <3>1. kind = "transition" /\ job[s].to \in {"SIGNED", "FINAL"} => Signed
      BY <1>1, <1>3 DEF Inv, JobsFit, InFlight, Granted, Signed
    <3> QED
      BY <1>1, <2>1, <2>2, <3>1 DEF Inv, TransitionsAreGranted, Signed, tables
  <2>8. InsertsCounted'
    <3>1. \A a \in Actors :
            /\ Approving(a)' \subseteq Approving(a) \/ Len(approvals'[a]) = 0
            /\ Signing(a)' \subseteq Signing(a) \/ signatures'[a] = 0
      BY <1>1, <1>3, <2>4 DEF tables
    <3>2. \A v \in 1..MaxVersions : Enqueuing(v)' \subseteq Enqueuing(v) \/ jobs'[v] = 0
      BY <1>1, <1>3, <2>5 DEF tables
    <3> QED
      BY <1>1, <2>3, <3>1, <3>2, InsertsKept DEF Inv, tables
  <2>9. ~raced' => OneHandler' /\ OneRow'
    <3> SUFFICES ASSUME ~raced
                 PROVE  OneHandler' /\ OneRow'
      BY <1>1
    <3>1. OneHandler'
      <4>1. \A q \in Slots : InFlight(q)' => InFlight(q) /\ job'[q].kind = job[q].kind /\ job'[q].to = job[q].to
        BY <1>1, <2>1, <2>2 DEF InFlight
      <4> QED
        BY <1>1, <4>1 DEF Inv, OneHandler, tables
    <3>2. OneRow'
      <4>1. \A a \in Actors :
              /\ Approving(a)' # {} => approvals[a] = <<>>
              /\ Signing(a)' # {} => signatures[a] = 0
        BY <1>3, <2>4 DEF Inv, OneRow
      <4>2. \A v \in 1..MaxVersions : Enqueuing(v)' # {} => jobs[v] = 0
        BY <1>3, <2>5 DEF Inv, OneRow
      <4> QED
        BY <1>1, <4>1, <4>2 DEF Inv, OneRow, tables
    <3> QED
      BY <3>1, <3>2
  <2> QED
    BY <2>3, <2>6, <2>7, <2>8, <2>9 DEF Inv
<1> QED
  BY <1>2, <1>3

\* A handler that writes was ready, and has nothing under way afterwards.
LEMMA WroteFrame ==
    ASSUME Inv, NEW s \in Slots, NEW kind \in Kinds, Wrote(s, kind)
    PROVE  /\ pc[s] = "ready" /\ job[s].kind = kind /\ job[s] \in Job /\ raced' = raced
           /\ pc'[s] = "auditing" /\ job'[s].kind = "none"
           /\ \A q \in Slots \ {s} : pc'[q] = pc[q] /\ job'[q] = job[q]
           /\ pc' \in [Slots -> {"idle", "loaded", "ready", "auditing"}] /\ job' \in [Slots -> Job]
           /\ \A a \in Actors : Approving(a)' = Approving(a) \ {s} /\ Signing(a)' = Signing(a) \ {s}
           /\ \A v \in 1..MaxVersions : Enqueuing(v)' = Enqueuing(v) \ {s}
           /\ \A q \in Slots : InFlight(q)' => InFlight(q) /\ q # s
<1>0. Request("none") \in Job /\ Request("none").kind = "none"
  BY RequestType DEF Kinds, Request
<1>1. /\ pc[s] = "ready" /\ job[s].kind = kind /\ raced' = raced
      /\ pc' = [pc EXCEPT ![s] = "auditing"]
      /\ job' = [job EXCEPT ![s] = Request("none")]
  BY DEF Wrote
<1>2. job[s] \in Job /\ pc' \in [Slots -> {"idle", "loaded", "ready", "auditing"}] /\ job' \in [Slots -> Job]
  BY <1>0, <1>1 DEF Inv, TypeOK
<1>3. /\ pc'[s] = "auditing" /\ job'[s].kind = "none"
      /\ \A q \in Slots \ {s} : pc'[q] = pc[q] /\ job'[q] = job[q]
  BY <1>0, <1>1 DEF Inv, TypeOK
<1>4. /\ \A a \in Actors : Approving(a)' = Approving(a) \ {s} /\ Signing(a)' = Signing(a) \ {s}
      /\ \A v \in 1..MaxVersions : Enqueuing(v)' = Enqueuing(v) \ {s}
  BY <1>3 DEF Approving, Signing, Enqueuing
<1>5. \A q \in Slots : InFlight(q)' => InFlight(q) /\ q # s
  BY <1>3 DEF InFlight
<1> QED
  BY <1>1, <1>2, <1>3, <1>4, <1>5

\* Until two handlers overlap nobody else is under way when one writes.
LEMMA NobodyElse ==
    ASSUME Inv, ~raced, NEW s \in Slots, pc[s] = "ready"
    PROVE  \A q \in Slots : InFlight(q) => q = s
BY DEF Inv, OneHandler, InFlight

LEMMA SaveInv ==
    ASSUME Inv, NEW s \in Slots, SaveVersion(s)
    PROVE  Inv'
<1>0. "edit" \in Kinds /\ UNCHANGED <<status, approvals, signatures, jobs>>
  BY DEF Kinds, SaveVersion
<1>1. CASE job[s].seen = versions /\ Wrote(s, "edit") /\ versions' = versions + 1
  <2>1. /\ pc[s] = "ready" /\ job[s].kind = "edit" /\ raced' = raced
        /\ \A q \in Slots \ {s} : pc'[q] = pc[q] /\ job'[q] = job[q]
        /\ pc'[s] = "auditing"
        /\ pc' \in [Slots -> {"idle", "loaded", "ready", "auditing"}] /\ job' \in [Slots -> Job]
        /\ \A a \in Actors : Approving(a)' = Approving(a) \ {s} /\ Signing(a)' = Signing(a) \ {s}
        /\ \A v \in 1..MaxVersions : Enqueuing(v)' = Enqueuing(v) \ {s}
        /\ \A q \in Slots : InFlight(q)' => InFlight(q) /\ q # s
    BY <1>0, <1>1, WroteFrame
  <2>2. versions' \in 1..MaxVersions
    BY <1>1, <2>1, DocumentAssumption DEF Inv, TypeOK, JobsFit
  <2>3. TypeOK'
    BY <1>0, <2>1, <2>2 DEF Inv, TypeOK
  <2>4. JobsFit' /\ TransitionsAreGranted' /\ SignedHasSignature'
    BY <1>0, <2>1 DEF Inv, JobsFit, InFlight, TransitionsAreGranted, SignedHasSignature, Signed
  <2>5. InsertsCounted'
    BY <1>0, <2>1, <2>3, InsertsKept DEF Inv
  <2>6. ~raced => OneHandler' /\ OneRow'
    BY <1>0, <2>1 DEF Inv, OneHandler, OneRow
  <2> QED
    BY <2>1, <2>3, <2>4, <2>5, <2>6 DEF Inv
<1>2. CASE /\ pc' = [pc EXCEPT ![s] = "idle"]
           /\ job' = [job EXCEPT ![s] = Request("none")]
           /\ UNCHANGED <<versions, raced>>
  <2>1. Request("none") \in Job
    BY RequestType DEF Kinds
  <2>2. pc' \in [Slots -> {"idle", "loaded", "ready", "auditing"}] /\ job' \in [Slots -> Job]
    BY <1>2, <2>1 DEF Inv, TypeOK
  <2>3. \A q \in Slots : (pc'[q] = pc[q] /\ job'[q] = job[q]) \/ pc'[q] \in {"idle", "auditing"}
    BY <1>2 DEF Inv, TypeOK
  <2>4. UNCHANGED <<tables, raced>>
    BY <1>0, <1>2 DEF tables
  <2> QED
    BY <2>2, <2>3, <2>4, QuietInv
<1> QED
  BY <1>1, <1>2 DEF SaveVersion

LEMMA SetStatusInv ==
    ASSUME Inv, NEW s \in Slots, SetDocumentStatus(s)
    PROVE  Inv'
<1>0. /\ "transition" \in Kinds /\ UNCHANGED <<versions, approvals, signatures, jobs>>
      /\ Wrote(s, "transition") /\ status' = job[s].to
  BY DEF Kinds, SetDocumentStatus
<1>1. /\ pc[s] = "ready" /\ job[s].kind = "transition" /\ job[s] \in Job /\ raced' = raced
      /\ \A q \in Slots \ {s} : pc'[q] = pc[q] /\ job'[q] = job[q]
      /\ pc'[s] = "auditing"
      /\ pc' \in [Slots -> {"idle", "loaded", "ready", "auditing"}] /\ job' \in [Slots -> Job]
      /\ \A a \in Actors : Approving(a)' = Approving(a) \ {s} /\ Signing(a)' = Signing(a) \ {s}
      /\ \A v \in 1..MaxVersions : Enqueuing(v)' = Enqueuing(v) \ {s}
      /\ \A q \in Slots : InFlight(q)' => InFlight(q) /\ q # s
  BY <1>0, WroteFrame
<1>2. TypeOK'
  <2>1. status' \in Status
    BY <1>0, <1>1 DEF Job
  <2> QED
    BY <1>0, <1>1, <2>1 DEF Inv, TypeOK
<1>3. JobsFit' /\ TransitionsAreGranted'
  BY <1>0, <1>1 DEF Inv, JobsFit, InFlight, TransitionsAreGranted, Signed
<1>4. SignedHasSignature'
  BY <1>0, <1>1 DEF Inv, TransitionsAreGranted, SignedHasSignature, Signed
<1>5. InsertsCounted'
  BY <1>0, <1>1, <1>2, InsertsKept DEF Inv
<1>6. ~raced => OneHandler' /\ OneRow'
  <2> SUFFICES ASSUME ~raced
               PROVE  OneHandler' /\ OneRow'
    OBVIOUS
  <2>1. \A q \in Slots : ~InFlight(q)'
    BY <1>1, NobodyElse
  <2>2. OneHandler'
    BY <2>1 DEF OneHandler
  <2>3. OneRow'
    BY <1>0, <1>1 DEF Inv, OneRow
  <2> QED
    BY <2>2, <2>3
<1> QED
  BY <1>1, <1>2, <1>3, <1>4, <1>5, <1>6 DEF Inv

\* Changing a row of a table keeps its length.
LEMMA RowChanges ==
    ASSUME NEW q \in Seq(BOOLEAN), NEW k, NEW b \in BOOLEAN
    PROVE  [q EXCEPT ![k] = b] \in Seq(BOOLEAN) /\ Len([q EXCEPT ![k] = b]) = Len(q)
<1>1. CASE k \in 1..Len(q)
  BY <1>1, ExceptSeq
<1>2. CASE k \notin 1..Len(q)
  <2>1. [q EXCEPT ![k] = b] = q
    BY <1>2
  <2> QED
    BY <2>1
<1> QED
  BY <1>1, <1>2

LEMMA RecordApprovalInv ==
    ASSUME Inv, NEW s \in Slots, RecordApproval(s)
    PROVE  Inv'
<1> DEFINE a == job[s].actor
<1>0. /\ "approve" \in Kinds /\ UNCHANGED <<status, versions, signatures, jobs>> /\ Wrote(s, "approve")
      /\ approvals' = [approvals EXCEPT ![a] = IF job[s].seen = 0 THEN Append(@, job[s].yes)
                                               ELSE [@ EXCEPT ![job[s].seen] = job[s].yes]]
  BY DEF Kinds, RecordApproval
<1>1. /\ pc[s] = "ready" /\ job[s].kind = "approve" /\ job[s] \in Job /\ raced' = raced
      /\ \A q \in Slots \ {s} : pc'[q] = pc[q] /\ job'[q] = job[q]
      /\ pc'[s] = "auditing"
      /\ pc' \in [Slots -> {"idle", "loaded", "ready", "auditing"}] /\ job' \in [Slots -> Job]
      /\ \A b \in Actors : Approving(b)' = Approving(b) \ {s} /\ Signing(b)' = Signing(b) \ {s}
      /\ \A v \in 1..MaxVersions : Enqueuing(v)' = Enqueuing(v) \ {s}
      /\ \A q \in Slots : InFlight(q)' => InFlight(q) /\ q # s
  BY <1>0, WroteFrame
<1>2. a \in Actors /\ job[s].yes \in BOOLEAN /\ approvals[a] \in Seq(BOOLEAN)
  BY <1>1 DEF Job, Inv, TypeOK
<1>3. /\ approvals'[a] \in Seq(BOOLEAN)
      /\ Len(approvals'[a]) = IF job[s].seen = 0 THEN Len(approvals[a]) + 1 ELSE Len(approvals[a])
      /\ \A b \in Actors \ {a} : approvals'[b] = approvals[b]
  <2>1. CASE job[s].seen = 0
    <3>1. approvals'[a] = Append(approvals[a], job[s].yes)
      BY <1>0, <1>2, <2>1 DEF Inv, TypeOK
    <3>2. Append(approvals[a], job[s].yes) \in Seq(BOOLEAN)
          /\ Len(Append(approvals[a], job[s].yes)) = Len(approvals[a]) + 1
      BY <1>2
    <3> QED
      BY <1>0, <2>1, <3>1, <3>2 DEF Inv, TypeOK
  <2>2. CASE job[s].seen # 0
    <3>1. approvals'[a] = [approvals[a] EXCEPT ![job[s].seen] = job[s].yes]
      BY <1>0, <1>2, <2>2 DEF Inv, TypeOK
    <3>2. /\ [approvals[a] EXCEPT ![job[s].seen] = job[s].yes] \in Seq(BOOLEAN)
          /\ Len([approvals[a] EXCEPT ![job[s].seen] = job[s].yes]) = Len(approvals[a])
      BY <1>2, RowChanges
    <3> QED
      BY <1>0, <2>2, <3>1, <3>2 DEF Inv, TypeOK
  <2> QED
    BY <2>1, <2>2
<1>4. approvals' \in [Actors -> Seq(BOOLEAN)]
  <2>1. \A b \in Actors : approvals'[b] \in Seq(BOOLEAN)
    BY <1>3 DEF Inv, TypeOK
  <2>2. approvals' = [b \in Actors |-> approvals'[b]]
    BY <1>0 DEF Inv, TypeOK
  <2> QED
    BY <2>1, <2>2
<1>5. TypeOK'
  BY <1>0, <1>1, <1>4 DEF Inv, TypeOK
<1>6. JobsFit' /\ TransitionsAreGranted' /\ SignedHasSignature'
  BY <1>0, <1>1 DEF Inv, JobsFit, InFlight, TransitionsAreGranted, SignedHasSignature, Signed
<1>7. job[s].seen = 0 => s \in Approving(a)
  BY <1>1 DEF Approving
<1>8. InsertsCounted'
  BY <1>0, <1>1, <1>3, <1>5, <1>7, InsertsKept DEF Inv
<1>9. ~raced => OneHandler' /\ OneRow'
  <2> SUFFICES ASSUME ~raced
               PROVE  OneHandler' /\ OneRow'
    OBVIOUS
  <2>1. \A q \in Slots : InFlight(q) => q = s
    BY <1>1, NobodyElse
  <2>2. OneHandler'
    BY <1>1, <2>1 DEF OneHandler
  <2>3. \A b \in Actors : Approving(b)' = {}
    BY <1>1, <2>1 DEF Approving, InFlight
  <2>4. Len(approvals'[a]) <= 1
    <3>1. CASE job[s].seen = 0
      <4>1. approvals[a] = <<>>
        BY <1>2, <1>7, <3>1 DEF Inv, OneRow
      <4> QED
        BY <1>3, <3>1, <4>1
    <3>2. CASE job[s].seen # 0
      BY <1>2, <1>3, <3>2 DEF Inv, OneRow
    <3> QED
      BY <3>1, <3>2
  <2>5. OneRow'
    BY <1>0, <1>1, <1>3, <2>3, <2>4 DEF Inv, OneRow
  <2> QED
    BY <2>2, <2>5
<1> QED
  BY <1>1, <1>5, <1>6, <1>8, <1>9 DEF Inv

LEMMA RecordSignatureInv ==
    ASSUME Inv, NEW s \in Slots, RecordSignature(s)
    PROVE  Inv'
<1> DEFINE a == job[s].actor
<1>0. /\ "sign" \in Kinds /\ UNCHANGED <<status, versions, approvals, jobs>> /\ Wrote(s, "sign")
      /\ signatures' = [signatures EXCEPT ![a] = @ + 1]
  BY DEF Kinds, RecordSignature
<1>1. /\ pc[s] = "ready" /\ job[s].kind = "sign" /\ job[s] \in Job /\ raced' = raced
      /\ \A q \in Slots \ {s} : pc'[q] = pc[q] /\ job'[q] = job[q]
      /\ pc'[s] = "auditing"
      /\ pc' \in [Slots -> {"idle", "loaded", "ready", "auditing"}] /\ job' \in [Slots -> Job]
      /\ \A b \in Actors : Approving(b)' = Approving(b) \ {s} /\ Signing(b)' = Signing(b) \ {s}
      /\ \A v \in 1..MaxVersions : Enqueuing(v)' = Enqueuing(v) \ {s}
      /\ \A q \in Slots : InFlight(q)' => InFlight(q) /\ q # s
  BY <1>0, WroteFrame
<1>2. /\ a \in Actors /\ signatures'[a] = signatures[a] + 1 /\ signatures[a] \in Nat
      /\ \A b \in Actors \ {a} : signatures'[b] = signatures[b]
  BY <1>0, <1>1 DEF Job, Inv, TypeOK
<1>3. TypeOK'
  <2>1. signatures' \in [Actors -> Nat]
    BY <1>0, <1>2 DEF Inv, TypeOK
  <2> QED
    BY <1>0, <1>1, <2>1 DEF Inv, TypeOK
<1>4. \A b \in Actors : signatures[b] > 0 => signatures'[b] > 0
  BY <1>2
<1>5. JobsFit' /\ TransitionsAreGranted' /\ SignedHasSignature'
  BY <1>0, <1>1, <1>4 DEF Inv, JobsFit, InFlight, TransitionsAreGranted, SignedHasSignature, Signed
<1>6. s \in Signing(a)
  BY <1>1 DEF Signing
<1>7. InsertsCounted'
  BY <1>0, <1>1, <1>2, <1>3, <1>6, InsertsKept DEF Inv
<1>8. ~raced => OneHandler' /\ OneRow'
  <2> SUFFICES ASSUME ~raced
               PROVE  OneHandler' /\ OneRow'
    OBVIOUS
  <2>1. \A q \in Slots : InFlight(q) => q = s
    BY <1>1, NobodyElse
  <2>2. OneHandler'
    BY <1>1, <2>1 DEF OneHandler
  <2>3. \A b \in Actors : Signing(b)' = {}
    BY <1>1, <2>1 DEF Signing, InFlight
  <2>4. signatures'[a] <= 1
    BY <1>2, <1>6 DEF Inv, OneRow
  <2>5. OneRow'
    BY <1>0, <1>1, <1>2, <2>3, <2>4 DEF Inv, OneRow
  <2> QED
    BY <2>2, <2>5
<1> QED
  BY <1>1, <1>3, <1>5, <1>7, <1>8 DEF Inv

LEMMA EnqueueInv ==
    ASSUME Inv, NEW s \in Slots, EnqueuePdfJob(s)
    PROVE  Inv'
<1> DEFINE v == job[s].seen
<1>0. /\ "pdf" \in Kinds /\ UNCHANGED <<status, versions, approvals, signatures>> /\ Wrote(s, "pdf")
      /\ jobs' = [jobs EXCEPT ![v] = @ + 1]
  BY DEF Kinds, EnqueuePdfJob
<1>1. /\ pc[s] = "ready" /\ job[s].kind = "pdf" /\ job[s] \in Job /\ raced' = raced
      /\ \A q \in Slots \ {s} : pc'[q] = pc[q] /\ job'[q] = job[q]
      /\ pc'[s] = "auditing"
      /\ pc' \in [Slots -> {"idle", "loaded", "ready", "auditing"}] /\ job' \in [Slots -> Job]
      /\ \A b \in Actors : Approving(b)' = Approving(b) \ {s} /\ Signing(b)' = Signing(b) \ {s}
      /\ \A w \in 1..MaxVersions : Enqueuing(w)' = Enqueuing(w) \ {s}
      /\ \A q \in Slots : InFlight(q)' => InFlight(q) /\ q # s
  BY <1>0, WroteFrame
<1>2. v \in 1..MaxVersions
  BY <1>1 DEF Inv, JobsFit, InFlight
<1>3. /\ jobs'[v] = jobs[v] + 1 /\ jobs[v] \in Nat
      /\ \A w \in (1..MaxVersions) \ {v} : jobs'[w] = jobs[w]
  BY <1>0, <1>2 DEF Inv, TypeOK
<1>4. TypeOK'
  <2>1. jobs' \in [1..MaxVersions -> Nat]
    BY <1>0, <1>3 DEF Inv, TypeOK
  <2> QED
    BY <1>0, <1>1, <2>1 DEF Inv, TypeOK
<1>5. JobsFit' /\ TransitionsAreGranted' /\ SignedHasSignature'
  BY <1>0, <1>1 DEF Inv, JobsFit, InFlight, TransitionsAreGranted, SignedHasSignature, Signed
<1>6. s \in Enqueuing(v)
  BY <1>1 DEF Enqueuing
<1>7. InsertsCounted'
  <2>1. \A w \in 1..MaxVersions :
              \/ Enqueuing(w)' \subseteq Enqueuing(w) /\ jobs'[w] = jobs[w]
              \/ /\ jobs'[w] = jobs[w] + 1
                 /\ \E q \in Enqueuing(w) : Enqueuing(w)' \subseteq Enqueuing(w) \ {q}
    BY <1>1, <1>3, <1>6
  <2> QED
    BY <1>0, <1>1, <1>4, <2>1, InsertsKept DEF Inv
<1>8. ~raced => OneHandler' /\ OneRow'
  <2> SUFFICES ASSUME ~raced
               PROVE  OneHandler' /\ OneRow'
    OBVIOUS
  <2>1. \A q \in Slots : InFlight(q) => q = s
    BY <1>1, NobodyElse
  <2>2. OneHandler'
    BY <1>1, <2>1 DEF OneHandler
  <2>3. \A w \in 1..MaxVersions : Enqueuing(w)' = {}
    BY <1>1, <2>1 DEF Enqueuing, InFlight
  <2>4. jobs'[v] <= 1
    BY <1>2, <1>3, <1>6 DEF Inv, OneRow
  <2>5. OneRow'
    BY <1>0, <1>1, <1>3, <2>3, <2>4 DEF Inv, OneRow
  <2> QED
    BY <2>2, <2>5
<1> QED
  BY <1>1, <1>4, <1>5, <1>7, <1>8 DEF Inv

LEMMA StepInv == Inv /\ [Next]_vars => Inv'
<1> SUFFICES ASSUME Inv, [Next]_vars
             PROVE  Inv'
  OBVIOUS
<1>0. TypeOK /\ JobsFit /\ Request("none") \in Job /\ \A k \in Kinds : Request(k).kind = k
  BY RequestType DEF Inv, Kinds, Request
<1>1. ASSUME NEW s \in Slots, EditDocument(s)
      PROVE  Inv'
  <2>1. Request("edit") \in Job /\ Request("edit").kind = "edit"
    BY RequestType DEF Kinds, Request
  <2> QED
    BY <1>1, <2>1, AcceptInv DEF EditDocument
<1>2. ASSUME NEW s \in Slots, NEW to \in Status, TransitionDocument(s, to)
      PROVE  Inv'
  <2> DEFINE r == [Request("transition") EXCEPT !.to = to]
  <2>1. r \in Job /\ r.kind = "transition" /\ r.to = to
    BY DocumentAssumption DEF Request, Job, Kinds, Status
  <2> HIDE DEF r
  <2>2. to \in Transitions(status) /\ Accept(s, r, IF to \in {"APPROVED", "SIGNED"} THEN "loaded" ELSE "ready")
    BY <1>2 DEF TransitionDocument, r
  <2> QED
    BY <2>1, <2>2, AcceptInv
<1>3. ASSUME NEW s \in Slots, NEW a \in Actors, NEW yes \in BOOLEAN, ApproveDocument(s, a, yes)
      PROVE  Inv'
  <2> DEFINE r == [Request("approve") EXCEPT !.actor = a, !.yes = yes]
  <2>1. r \in Job /\ r.kind = "approve"
    BY DocumentAssumption DEF Request, Job, Kinds, Status
  <2> HIDE DEF r
  <2>2. status = "IN_REVIEW" /\ Accept(s, r, "loaded")
    BY <1>3 DEF ApproveDocument, r
  <2> QED
    BY <2>1, <2>2, AcceptInv
<1>4. ASSUME NEW s \in Slots, NEW a \in Actors, SignDocument(s, a)
      PROVE  Inv'
  <2> DEFINE r == [Request("sign") EXCEPT !.actor = a]
  <2>1. r \in Job /\ r.kind = "sign"
    BY DocumentAssumption DEF Request, Job, Kinds, Status
  <2> HIDE DEF r
  <2>2. Accept(s, r, "loaded")
    BY <1>4 DEF SignDocument, r
  <2> QED
    BY <2>1, <2>2, AcceptInv
<1>5. ASSUME NEW s \in Slots, NEW v \in 1..versions, RequestPdf(s, v)
      PROVE  Inv'
  <2> DEFINE r == [Request("pdf") EXCEPT !.seen = v]
  <2>0. v \in 1..MaxVersions /\ v \in Nat
    BY <1>0, DocumentAssumption DEF TypeOK
  <2>1. r \in Job /\ r.kind = "pdf" /\ r.seen = v
    BY <2>0, DocumentAssumption DEF Request, Job, Kinds, Status
  <2> HIDE DEF r
  <2>2. Accept(s, r, "loaded")
    BY <1>5 DEF RequestPdf, r
  <2> QED
    BY <2>0, <2>1, <2>2, AcceptInv
<1>6. ASSUME NEW s \in Slots,
             FindLastVersion(s) \/ CheckTransition(s) \/ FindApproval(s) \/ ListSignatures(s) \/ FindPdfJob(s)
      PROVE  Inv'
  <2>0. {"edit", "transition", "approve", "sign", "pdf"} \subseteq Kinds
    BY DEF Kinds
  <2>1. CASE FindLastVersion(s)
    <3>1. versions < MaxVersions /\ Read(s, "edit", TRUE, versions)
      BY <2>1 DEF FindLastVersion
    <3>2. versions \in Nat
      BY <1>0 DEF TypeOK
    <3> QED
      BY <2>0, <3>1, <3>2, ReadInv
  <2>2. CASE CheckTransition(s)
    <3> DEFINE go == Granted(job[s].to)
    <3>1. pc[s] = "loaded" /\ job[s].kind = "transition"
      BY <2>2 DEF CheckTransition, Read
    <3>2. go \in BOOLEAN
      BY <1>0, <3>1 DEF JobsFit, Granted
    <3>3. Read(s, "transition", go, 0)
      BY <2>2 DEF CheckTransition
    <3>4. go => Granted(job[s].to)
      OBVIOUS
    <3> HIDE DEF go
    <3> QED
      BY <2>0, <3>2, <3>3, <3>4, ReadInv
  <2>3. CASE FindApproval(s)
    <3>1. PICK k \in 0..Len(approvals[job[s].actor]) :
             /\ k = 0 => approvals[job[s].actor] = <<>>
             /\ Read(s, "approve", TRUE, k)
      BY <2>3 DEF FindApproval
    <3>2. k \in Nat
      OBVIOUS
    <3> QED
      BY <2>0, <3>1, <3>2, ReadInv
  <2>4. CASE ListSignatures(s)
    <3> DEFINE go == signatures[job[s].actor] = 0
    <3>1. go \in BOOLEAN /\ (go => signatures[job[s].actor] = 0)
      OBVIOUS
    <3>2. Read(s, "sign", go, 0)
      BY <2>4 DEF ListSignatures
    <3> HIDE DEF go
    <3> QED
      BY <2>0, <3>1, <3>2, ReadInv
  <2>5. CASE FindPdfJob(s)
    <3> DEFINE go == jobs[job[s].seen] = 0
               k == job[s].seen
    <3>1. go \in BOOLEAN /\ (go => jobs[k] = 0) /\ k = job[s].seen
      OBVIOUS
    <3>2. k \in Nat
      BY <1>0 DEF TypeOK, Job
    <3>3. Read(s, "pdf", go, k)
      BY <2>5 DEF FindPdfJob
    <3> HIDE DEF go, k
    <3> QED
      BY <2>0, <3>1, <3>2, <3>3, ReadInv
  <2> QED
    BY <1>6, <2>1, <2>2, <2>3, <2>4, <2>5
<1>7. ASSUME NEW s \in Slots,
             SaveVersion(s) \/ SetDocumentStatus(s) \/ RecordApproval(s) \/ RecordSignature(s) \/ EnqueuePdfJob(s)
      PROVE  Inv'
  BY <1>7, SaveInv, SetStatusInv, RecordApprovalInv, RecordSignatureInv, EnqueueInv
<1>8. ASSUME NEW s \in Slots, Audit(s) \/ Abort(s)
      PROVE  Inv'
  <2>1. UNCHANGED <<tables, raced>>
    BY <1>8 DEF Audit, Abort
  <2>2. pc' \in [Slots -> {"idle", "loaded", "ready", "auditing"}] /\ job' \in [Slots -> Job]
    BY <1>0, <1>8 DEF Audit, Abort, TypeOK
  <2>3. \A q \in Slots : (pc'[q] = pc[q] /\ job'[q] = job[q]) \/ pc'[q] \in {"idle", "auditing"}
    BY <1>0, <1>8 DEF Audit, Abort, TypeOK
  <2> QED
    BY <2>1, <2>2, <2>3, QuietInv
<1>9. CASE UNCHANGED vars
  <2>1. UNCHANGED <<tables, raced, pc, job>>
    BY <1>9 DEF vars
  <2> QED
    BY <1>0, <2>1, QuietInv DEF TypeOK
<1> QED
  BY <1>1, <1>2, <1>3, <1>4, <1>5, <1>6, <1>7, <1>8, <1>9 DEF Next

LEMMA Invariance == Spec => []Inv
BY InitInv, StepInv, PTL DEF Spec

\* A document that is SIGNED or FINAL has a signature on file, whatever the
\* transitions and signatures that overlap.
THEOREM SignaturesBackTheStatus == Spec => []SignedHasSignature
<1>1. Inv => SignedHasSignature
  BY DEF Inv
<1> QED
  BY <1>1, Invariance, PTL

\* No user has more rows, and no version more jobs, than there are handlers; one
\* each as long as handlers do not overlap.
THEOREM RowsStayBounded == Spec => []RowsBounded
<1>1. Inv => RowsBounded
  <2> SUFFICES ASSUME Inv
               PROVE  DuplicatesBounded
    BY DEF Inv, RowsBounded
  <2>1. CASE raced
    <3>1. /\ \A a \in Actors : /\ Cardinality(Approving(a)) \in Nat /\ Cardinality(Signing(a)) \in Nat
                               /\ Len(approvals[a]) \in Nat /\ signatures[a] \in Nat
          /\ \A v \in 1..MaxVersions : Cardinality(Enqueuing(v)) \in Nat /\ jobs[v] \in Nat
          /\ Cardinality(Slots) \in Nat
      <4>1. /\ \A a \in Actors : Cardinality(Approving(a)) \in Nat /\ Cardinality(Signing(a)) \in Nat
            /\ \A v \in 1..MaxVersions : Cardinality(Enqueuing(v)) \in Nat
        <5>1. /\ \A a \in Actors : Approving(a) \in SUBSET Slots /\ Signing(a) \in SUBSET Slots
              /\ \A v \in 1..MaxVersions : Enqueuing(v) \in SUBSET Slots
          BY DEF Approving, Signing, Enqueuing
        <5>2. \A W \in SUBSET Slots : Cardinality(W) \in Nat
          BY SlotsFinite
        <5> QED
          BY <5>1, <5>2
      <4>2. /\ \A a \in Actors : Len(approvals[a]) \in Nat /\ signatures[a] \in Nat
            /\ \A v \in 1..MaxVersions : jobs[v] \in Nat
        <5>1. /\ approvals \in [Actors -> Seq(BOOLEAN)] /\ signatures \in [Actors -> Nat]
              /\ jobs \in [1..MaxVersions -> Nat]
          BY DEF Inv, TypeOK
        <5>2. \A a \in Actors : approvals[a] \in Seq(BOOLEAN) /\ signatures[a] \in Nat
          BY <5>1
        <5>3. \A v \in 1..MaxVersions : jobs[v] \in Nat
          BY <5>1
        <5>4. \A q \in Seq(BOOLEAN) : Len(q) \in Nat
          OBVIOUS
        <5> QED
          BY <5>2, <5>3, <5>4
      <4>3. Cardinality(Slots) \in Nat
        BY DocumentAssumption, FS_CardinalityType
      <4> QED
        BY <4>1, <4>2, <4>3
    <3>2. InsertsCounted
      BY DEF Inv
    <3> QED
      BY <2>1, <3>1, <3>2 DEF InsertsCounted, DuplicatesBounded
  <2>2. CASE ~raced
    BY <2>2 DEF Inv, OneRow, DuplicatesBounded
  <2> QED
    BY <2>1, <2>2
<1> QED
  BY <1>1, Invariance, PTL

\* Until two handlers overlap, a document that left review keeps its versions
\* and approvals, never returns to review, and stays ARCHIVED once it is.
THEOREM ReviewedIsFrozen == Spec => FrozenAfterReview
<1> DEFINE Frozen == ~raced /\ status \notin {"DRAFT", "IN_REVIEW"} =>
                        /\ UNCHANGED <<versions, approvals>>
                        /\ status' \notin {"DRAFT", "IN_REVIEW"}
                        /\ status = "ARCHIVED" => status' = "ARCHIVED"
<1>1. Inv /\ [Next]_vars => Frozen
  <2> SUFFICES ASSUME Inv, [Next]_vars, ~raced, status \notin {"DRAFT", "IN_REVIEW"}
               PROVE  /\ UNCHANGED <<versions, approvals>>
                      /\ status' \notin {"DRAFT", "IN_REVIEW"}
                      /\ status = "ARCHIVED" => status' = "ARCHIVED"
    OBVIOUS
  <2>0. status \in Status /\ OneHandler
    BY DEF Inv, TypeOK
  <2>1. ASSUME NEW s \in Slots, SaveVersion(s) \/ RecordApproval(s)
        PROVE  FALSE
    <3>1. InFlight(s) /\ job[s].kind \in {"edit", "approve"}
      BY <2>1 DEF SaveVersion, RecordApproval, Wrote, InFlight
    <3> QED
      BY <2>0, <3>1 DEF OneHandler
  <2>2. ASSUME NEW s \in Slots, SetDocumentStatus(s)
        PROVE  /\ UNCHANGED <<versions, approvals>> /\ status' \notin {"DRAFT", "IN_REVIEW"}
               /\ status # "ARCHIVED"
    <3>1. InFlight(s) /\ job[s].kind = "transition" /\ status' = job[s].to /\ UNCHANGED <<versions, approvals>>
      BY <2>2 DEF SetDocumentStatus, Wrote, InFlight
    <3>2. job[s].to \in Transitions(status)
      BY <2>0, <3>1 DEF OneHandler
    <3> QED
      BY <2>0, <3>1, <3>2 DEF Transitions, Status
  <2>3. (\E s \in Slots : SaveVersion(s) \/ RecordApproval(s) \/ SetDocumentStatus(s))
        \/ UNCHANGED <<versions, approvals, status>>
    BY DEF Next, EditDocument, FindLastVersion, TransitionDocument, CheckTransition, SignDocument,
           ApproveDocument, FindApproval, ListSignatures, RecordSignature, RequestPdf, FindPdfJob,
           EnqueuePdfJob, Audit, Abort, Accept, Read, tables, vars
  <2> QED
    BY <2>1, <2>2, <2>3
<1>2. Spec => [][Frozen]_vars
  BY <1>1, Invariance, PTL DEF Spec
<1> QED
  BY <1>2, PTL DEF FrozenAfterReview
=============================================================================
