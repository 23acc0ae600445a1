---------------------------- MODULE ClientProofs ----------------------------
(***************************************************************************)
(* What the parts of the PWA that keep state in the browser guarantee for  *)
(* any mutations, photos and models, any number of flushes at once, any    *)
(* number of attempts, presses and reloads.                                *)
(*                                                                         *)
(* The argument for the queue follows the arrays.  A flush goes on over    *)
(* the array it started with; as long as that is still this.items, what it *)
(* has passed is settled or will be put back, so making what it kept the   *)
(* queue loses nothing.  Everything that takes the array away marks the    *)
(* flush as overtaken.                                                     *)
(***************************************************************************)
EXTENDS Client, SumTheorems

Distinct(s) == \A j, k \in DOMAIN s : s[j] = s[k] => j = k

Types ==
    /\ items \in Seq(Items) /\ attempts \in [Items -> Nat]
    /\ stored \in [ids : Seq(Items), attempts : [Items -> Nat]]
    /\ active \subseteq Flushes /\ own \in [Flushes -> BOOLEAN]
    /\ iter \in [Flushes -> Seq(Items)] /\ remaining \in [Flushes -> Seq(Items)]
    /\ pos \in [Flushes -> Nat]
    /\ accepted \in [Items -> 0..2] /\ settled \subseteq Items
    /\ dropped \subseteq Items /\ known \subseteq Items
    /\ overlapped \in BOOLEAN /\ overtaken \in BOOLEAN /\ unsaved \in BOOLEAN /\ blind \in BOOLEAN

\* What a flush that has come to index k of the array s has in hand: it puts
\* back mutations it has passed, each of them once.
InHand(s, k, rest) ==
    /\ s \in Seq(Items) /\ Distinct(s)
    /\ rest \in Seq(Items) /\ Distinct(rest)
    /\ \A l \in DOMAIN rest : \E j \in DOMAIN s : j < k /\ s[j] = rest[l]

Arrays ==
    /\ Distinct(items) /\ Distinct(stored.ids)
    /\ Ids(items) \subseteq known
    /\ \A f \in Flushes : own[f] => f \in active
    /\ \A f \in active : /\ pos[f] \in DOMAIN Array(f) /\ InHand(Array(f), pos[f], remaining[f])
                         /\ Ids(Array(f)) \subseteq known
    /\ \A i \in Items \ known : attempts[i] = 0 /\ stored.attempts[i] = 0

\* A flush over this.items settles what it passes or puts it back.
Exact ==
    /\ \A f \in active : ~own[f] =>
          \A j \in DOMAIN items : j < pos[f] => items[j] \in settled \cup Ids(remaining[f])
    /\ ~unsaved => Ids(items) \subseteq Ids(stored.ids)
    /\ ~unsaved /\ ~overtaken =>
          /\ known \subseteq Ids(items) \cup settled \cup dropped
          /\ \A i \in dropped \ settled : i \notin Ids(items) /\ i \notin Ids(stored.ids)

\* What is tried or put back has an attempt left.
Bounded ==
    /\ ~overlapped =>
          /\ \A f, g \in active : f = g
          /\ \A i \in Items : attempts[i] <= MaxAttempts /\ stored.attempts[i] <= MaxAttempts
          /\ \A f \in active : attempts[Array(f)[pos[f]]] < MaxAttempts
    /\ ~overlapped /\ ~blind =>
          /\ \A f \in active : \A i \in Ids(remaining[f]) : attempts[i] < MaxAttempts
          /\ ~unsaved /\ active = {} =>
                /\ \A i \in Ids(items) : attempts[i] < MaxAttempts
                /\ \A i \in Ids(stored.ids) : stored.attempts[i] < MaxAttempts

Clean == ~blind /\ ~overlapped /\ ~overtaken /\ ~unsaved

\* What the server has carried out is settled, and nothing settled is sent or put back.
Once ==
    Clean =>
        /\ \A i \in Items : accepted[i] <= 1 /\ (accepted[i] > 0 => i \in settled)
        /\ active = {} => \A i \in settled : i \notin Ids(items) /\ i \notin Ids(stored.ids)
        /\ \A f \in active :
              /\ \A j \in DOMAIN Array(f) : j >= pos[f] => Array(f)[j] \notin settled
              /\ \A i \in Ids(remaining[f]) : i \notin settled

Inv == Types /\ Arrays /\ Exact /\ Bounded /\ Once

-----------------------------------------------------------------------------
(***************************************************************************)
(* Sequences without repetition                                            *)
(***************************************************************************)
LEMMA InIds == \A s, i : i \in Ids(s) <=> \E k \in DOMAIN s : s[k] = i
BY DEF Ids

LEMMA EmptyList == /\ <<>> \in Seq(Items) /\ Distinct(<<>>) /\ Ids(<<>>) = {} /\ DOMAIN <<>> = {}
BY DEF Distinct, Ids

LEMMA AppendedList ==
    ASSUME NEW S, NEW s \in Seq(S), NEW i \in S
    PROVE  /\ Append(s, i) \in Seq(S) /\ DOMAIN s = 1..Len(s) /\ Len(s) \in Nat
           /\ DOMAIN Append(s, i) = 1..(Len(s) + 1) /\ Append(s, i)[Len(s) + 1] = i
           /\ \A k \in 1..Len(s) : Append(s, i)[k] = s[k]
           /\ \A j : j \in Ids(Append(s, i)) <=> j \in Ids(s) \/ j = i
           /\ Distinct(s) /\ i \notin Ids(s) => Distinct(Append(s, i))
<1> DEFINE t == Append(s, i)
<1>1. /\ t \in Seq(S) /\ DOMAIN s = 1..Len(s) /\ Len(s) \in Nat
      /\ DOMAIN t = 1..(Len(s) + 1) /\ t[Len(s) + 1] = i
      /\ \A k \in 1..Len(s) : t[k] = s[k]
  OBVIOUS
<1> HIDE DEF t
<1>2. \A k : k \in DOMAIN t <=> k \in DOMAIN s \/ k = Len(s) + 1
  BY <1>1
<1>3. \A j : j \in Ids(t) <=> j \in Ids(s) \/ j = i
  BY <1>1, <1>2, InIds
<1>4. ASSUME Distinct(s), i \notin Ids(s)
      PROVE  Distinct(t)
  <2> SUFFICES ASSUME NEW k \in DOMAIN t, NEW l \in DOMAIN t, t[k] = t[l]
               PROVE  k = l
    BY DEF Distinct
  <2>1. \A k_1 \in DOMAIN s : s[k_1] # i
    BY <1>4, InIds
  <2> QED
    BY <1>1, <1>2, <1>4, <2>1 DEF Distinct
<1> QED
  BY <1>1, <1>3, <1>4 DEF t

\* filter keeps the others, once each and in their places.
LEMMA WithoutKeepsTheOthers ==
    ASSUME NEW S, NEW s \in Seq(S), NEW i
    PROVE  /\ Without(s, i) \in Seq(S)
           /\ \A j : j \in Ids(Without(s, i)) <=> j \in Ids(s) /\ j # i
           /\ Distinct(s) => Distinct(Without(s, i))
<1> DEFINE Filters(g, n) ==
              g = [k \in 0..n |-> IF k = 0 THEN <<>>
                                 ELSE IF s[k] = i THEN g[k - 1] ELSE Append(g[k - 1], s[k])]
           Bad == {n \in 0..Len(s) : ~ \E g : Filters(g, n)}
<1>0. Len(s) \in Nat /\ DOMAIN s = 1..Len(s) /\ \A k \in 1..Len(s) : s[k] \in S
  OBVIOUS
<1>a. ASSUME NEW g, NEW n, Filters(g, n), NEW k \in 0..n
      PROVE  g[k] = IF k = 0 THEN <<>> ELSE IF s[k] = i THEN g[k - 1] ELSE Append(g[k - 1], s[k])
  BY <1>a, Zenon
<1>1. Bad = {}
  <2> SUFFICES ASSUME Bad # {}
               PROVE  FALSE
    OBVIOUS
  <2>1. Bad \subseteq Nat
    BY <1>0
  <2> HIDE DEF Bad
  <2>2. PICK m \in Bad : \A n \in Bad : m <= n
    BY <2>1, SmallestNumber
  <2>3. m \in 0..Len(s) /\ ~ \E g : Filters(g, m)
    BY DEF Bad
  <2>4. CASE m = 0
    <3> DEFINE g == [k \in 0..0 |-> <<>>]
    <3>1. Filters(g, 0)
      OBVIOUS
    <3> QED
      BY <2>3, <2>4, <3>1
  <2>5. CASE m # 0
    <3>1. m - 1 \in 0..Len(s) /\ m - 1 \notin Bad /\ m \in Nat
      BY <1>0, <2>1, <2>2, <2>3, <2>5
    <3>2. PICK h : Filters(h, m - 1)
      BY <3>1 DEF Bad
    <3> DEFINE g == [k \in 0..m |-> IF k = 0 THEN <<>>
                                   ELSE IF s[k] = i THEN h[k - 1] ELSE Append(h[k - 1], s[k])]
    <3>3. \A k \in 0..(m - 1) : g[k] = h[k]
      <4>1. \A k \in 0..(m - 1) : h[k] = IF k = 0 THEN <<>>
                                         ELSE IF s[k] = i THEN h[k - 1] ELSE Append(h[k - 1], s[k])
        BY <1>a, <3>2
      <4>2. \A k \in 0..(m - 1) : k \in 0..m
        BY <3>1
      <4> QED
        BY <4>1, <4>2
    <3>4. Filters(g, m)
      <4>1. \A k \in 0..m : k # 0 => k - 1 \in 0..(m - 1)
        BY <3>1
      <4>2. \A k \in 0..m : k # 0 => g[k - 1] = h[k - 1]
        BY <3>3, <4>1
      <4>3. \A k \in 0..m : g[k] = IF k = 0 THEN <<>>
                                   ELSE IF s[k] = i THEN g[k - 1] ELSE Append(g[k - 1], s[k])
        BY <4>2
      <4> QED
        BY <4>3
    <3> QED
      BY <2>3, <3>4
  <2> QED
    BY <2>4, <2>5
<1> DEFINE kept == CHOOSE g : Filters(g, Len(s))
<1>2. Filters(kept, Len(s))
  <2>1. \E g : Filters(g, Len(s))
    BY <1>0, <1>1
  <2> QED
    BY <2>1, Zenon
<1>3. Without(s, i) = kept[Len(s)]
  BY DEF Without
<1>4. /\ kept[0] = <<>>
      /\ \A k \in 1..Len(s) : kept[k] = IF s[k] = i THEN kept[k - 1] ELSE Append(kept[k - 1], s[k])
  <2>1. \A k \in 0..Len(s) : kept[k] = IF k = 0 THEN <<>>
                                        ELSE IF s[k] = i THEN kept[k - 1] ELSE Append(kept[k - 1], s[k])
    BY <1>a, <1>2
  <2> HIDE DEF kept
  <2> QED
    BY <1>0, <2>1
<1> HIDE DEF kept, Bad
<1> DEFINE Right(n) ==
              /\ kept[n] \in Seq(S)
              /\ \A j : j \in Ids(kept[n]) <=> j # i /\ \E k \in 1..n : s[k] = j
              /\ Distinct(s) => Distinct(kept[n])
           Wrong == {n \in 0..Len(s) : ~Right(n)}
<1>5. Wrong = {}
  <2> SUFFICES ASSUME Wrong # {}
               PROVE  FALSE
    OBVIOUS
  <2>1. Wrong \subseteq Nat
    BY <1>0
  <2> HIDE DEF Wrong
  <2>2. PICK m \in Wrong : \A n \in Wrong : m <= n
    BY <2>1, SmallestNumber
  <2>3. m \in 0..Len(s) /\ ~Right(m) /\ m \in Nat
    BY <2>1 DEF Wrong
  <2>4. m # 0
    <3>1. <<>> \in Seq(S) /\ Distinct(<<>>) /\ \A j : j \notin Ids(<<>>)
      BY EmptyList
    <3>2. Right(0)
      BY <1>4, <3>1
    <3> QED
      BY <2>3, <3>2
  <2>5. m - 1 \in 0..Len(s) /\ m \in 1..Len(s) /\ m - 1 \notin Wrong
    BY <1>0, <2>1, <2>2, <2>3, <2>4
  <2>6. Right(m - 1)
    BY <2>5 DEF Wrong
  <2>7. \A k : k \in 1..m <=> k \in 1..(m - 1) \/ k = m
    BY <2>3, <2>5
  <2>8. kept[m] = IF s[m] = i THEN kept[m - 1] ELSE Append(kept[m - 1], s[m])
    BY <1>4, <2>5
  <2>9. CASE s[m] = i
    BY <2>3, <2>6, <2>7, <2>8, <2>9
  <2>10. CASE s[m] # i
    <3>1. s[m] \in S /\ kept[m] = Append(kept[m - 1], s[m])
      BY <1>0, <2>5, <2>8, <2>10
    <3>2. /\ kept[m] \in Seq(S) /\ \A j : j \in Ids(kept[m]) <=> j \in Ids(kept[m - 1]) \/ j = s[m]
          /\ Distinct(kept[m - 1]) /\ s[m] \notin Ids(kept[m - 1]) => Distinct(kept[m])
      BY <2>6, <3>1, AppendedList
    <3>3. \A j : j \in Ids(kept[m]) <=> j # i /\ \E k \in 1..m : s[k] = j
      BY <2>6, <2>7, <2>10, <3>2
    <3>4. ASSUME Distinct(s)
          PROVE  Distinct(kept[m])
      <4>1. \A k \in 1..(m - 1) : k \in DOMAIN s /\ m \in DOMAIN s /\ k # m
        BY <1>0, <2>5, <2>3
      <4>2. \A k \in 1..(m - 1) : s[k] # s[m]
        BY <3>4, <4>1 DEF Distinct
      <4> QED
        BY <2>6, <3>2, <3>4, <4>2
    <3> QED
      BY <2>3, <3>2, <3>3, <3>4
  <2> QED
    BY <2>9, <2>10
<1>6. Right(Len(s))
  BY <1>0, <1>5
<1>7. \A j : j \in Ids(s) <=> \E k \in 1..Len(s) : s[k] = j
  BY <1>0, InIds
<1> QED
  BY <1>3, <1>6, <1>7

-----------------------------------------------------------------------------
(***************************************************************************)
(* One turn of flush: what a flush has in hand when its loop goes on at    *)
(* index k of its array s, and what comes of it                            *)
(***************************************************************************)
Turn(f, s, k, tries, rest, done) ==
    /\ s = Array(f) /\ k \in 1..(Len(s) + 1) /\ InHand(s, k, rest) /\ Ids(s) \subseteq known
    /\ tries \in [Items -> Nat] /\ done \subseteq Items
    /\ \A i \in Items \ known : tries[i] = 0
    /\ ~own[f] => \A j \in DOMAIN s : j < k => s[j] \in settled \cup done \cup Ids(rest)
    /\ accepted' \in [Items -> 0..2] /\ overlapped' \in BOOLEAN /\ blind' \in BOOLEAN
    /\ ~overlapped' => ~overlapped /\ active \subseteq {f} /\ \A i \in Items : tries[i] <= MaxAttempts
    /\ ~blind' => ~blind
    /\ ~overlapped' /\ ~blind' => \A i \in Ids(rest) : tries[i] < MaxAttempts
    /\ ~overlapped' /\ ~blind' /\ ~overtaken /\ ~unsaved =>
          /\ \A i \in Items : accepted'[i] <= 1 /\ (accepted'[i] > 0 => i \in settled \cup done)
          /\ \A j \in DOMAIN s : j >= k => s[j] \notin settled \cup done
          /\ \A i \in Ids(rest) : i \notin settled \cup done
    /\ Loop(f, s, k, tries, rest, done)
    /\ UNCHANGED <<reloads, dropped, known>>

\* The flush awaits the fetch of mutation n, or has come to the end.
Awaits(f, s, k, n, rest, done) ==
    /\ n \in DOMAIN s /\ n >= k
    /\ settled' = settled \cup done \cup {s[j] : j \in k..n - 1}
    /\ active' = active \cup {f}
    /\ pos' = [pos EXCEPT ![f] = n]
    /\ remaining' = [remaining EXCEPT ![f] = rest]
    /\ UNCHANGED <<items, own, iter, stored, unsaved, overtaken>>

Ends(f, s, k, tries, rest, done) ==
    /\ settled' = settled \cup done \cup {s[j] : j \in k..Len(s)}
    /\ Finish(f, rest, tries)

LEMMA LoopOutcome ==
    ASSUME Types, NEW f \in Flushes, NEW s, NEW k, NEW tries, NEW rest, NEW done,
           Turn(f, s, k, tries, rest, done)
    PROVE  /\ attempts' = tries
           /\ \/ \E n \in DOMAIN s : tries[s[n]] < MaxAttempts /\ Awaits(f, s, k, n, rest, done)
              \/ Ends(f, s, k, tries, rest, done)
<1> DEFINE open == {j \in k..Len(s) : tries[s[j]] < MaxAttempts}
           next == CHOOSE j \in open : \A l \in open : j <= l
<1>1. s \in Seq(Items) /\ k \in Nat /\ k >= 1 /\ Len(s) \in Nat /\ DOMAIN s = 1..Len(s)
  BY DEF Turn, InHand
<1>2. open # {} => next \in open
  <2> SUFFICES ASSUME open # {}
               PROVE  next \in open
    OBVIOUS
  <2>1. open \subseteq Nat
    BY <1>1
  <2> HIDE DEF open
  <2>2. \E m \in open : \A n \in open : m <= n
    BY <2>1, SmallestNumber
  <2> QED
    BY <2>2
<1>3. open # {} => next \in DOMAIN s /\ next >= k /\ tries[s[next]] < MaxAttempts
  BY <1>1, <1>2
<1>4. /\ attempts' = tries
      /\ \/ /\ open # {}
            /\ settled' = settled \cup done \cup {s[j] : j \in k..next - 1}
            /\ active' = active \cup {f}
            /\ pos' = [pos EXCEPT ![f] = next]
            /\ remaining' = [remaining EXCEPT ![f] = rest]
            /\ UNCHANGED <<items, own, iter, stored, unsaved, overtaken>>
         \/ Ends(f, s, k, tries, rest, done)
  BY DEF Turn, Loop, Ends
<1> HIDE DEF open, next
<1> QED
  BY <1>3, <1>4 DEF Awaits

LEMMA Persisted ==
    ASSUME Types, NEW ids \in Seq(Items), NEW tries \in [Items -> Nat], Persist(ids, tries)
    PROVE  /\ stored' \in [ids : Seq(Items), attempts : [Items -> Nat]] /\ unsaved' \in BOOLEAN
           /\ ~unsaved' => ~unsaved /\ stored'.ids = ids /\ stored'.attempts = tries
           /\ \/ stored'.ids = ids /\ stored'.attempts = tries
              \/ stored'.ids = stored.ids /\ stored'.attempts = stored.attempts
<1>1. CASE stored' = [ids |-> ids, attempts |-> tries] /\ UNCHANGED unsaved
  BY <1>1 DEF Types
<1>2. CASE unsaved' = TRUE /\ UNCHANGED stored
  BY <1>2 DEF Types
<1> QED
  BY <1>1, <1>2 DEF Persist

\* Putting a new array in the place of this.items leaves every flush its own.
LEMMA Replaced ==
    ASSUME Types, NEW s \in Seq(Items), NEW F \in SUBSET Flushes, ReplaceItems(s, F)
    PROVE  /\ items' = s /\ own' \in [Flushes -> BOOLEAN] /\ iter' \in [Flushes -> Seq(Items)]
           /\ \A f \in Flushes : own'[f] <=> f \in F
           /\ \A f \in F : own'[f] /\ Array(f)' = Array(f)
<1>1. items' = s /\ own' \in [Flushes -> BOOLEAN] /\ \A f \in Flushes : own'[f] <=> f \in F
  <2>1. own' = [f \in Flushes |-> f \in F]
    BY DEF ReplaceItems
  <2>2. \A f \in Flushes : (f \in F) \in BOOLEAN
    OBVIOUS
  <2>3. own' \in [Flushes -> BOOLEAN]
    BY <2>1, <2>2, Zenon
  <2>4. \A f \in Flushes : own'[f] <=> f \in F
    BY <2>1, Zenon
  <2> QED
    BY <2>3, <2>4 DEF ReplaceItems
<1>2. \A f \in Flushes : Array(f) \in Seq(Items)
  BY DEF Types, Array
<1>3. <<>> \in Seq(Items)
  BY EmptyList
<1>4. /\ iter' \in [Flushes -> Seq(Items)]
      /\ \A f \in F : iter'[f] = Array(f)
  BY <1>2, <1>3 DEF ReplaceItems
<1>5. \A f \in F : Array(f)' = iter'[f]
  BY <1>1 DEF Array
<1> QED
  BY <1>1, <1>4, <1>5

LEMMA TurnTypes ==
    ASSUME Types, NEW f \in Flushes, NEW s, NEW k, NEW tries, NEW rest, NEW done,
           Turn(f, s, k, tries, rest, done)
    PROVE  Types'
<1>1. /\ s \in Seq(Items) /\ rest \in Seq(Items) /\ tries \in [Items -> Nat] /\ done \subseteq Items
      /\ accepted' \in [Items -> 0..2] /\ overlapped' \in BOOLEAN /\ blind' \in BOOLEAN
      /\ UNCHANGED <<reloads, dropped, known>>
      /\ k \in Nat /\ k >= 1 /\ DOMAIN s = 1..Len(s) /\ Len(s) \in Nat
  BY DEF Turn, InHand
<1>2. attempts' \in [Items -> Nat]
  BY <1>1, LoopOutcome
<1>3. ASSUME NEW n \in DOMAIN s, Awaits(f, s, k, n, rest, done)
      PROVE  Types'
  <2>1. {s[j] : j \in k..n - 1} \subseteq Items
    BY <1>1, <1>3
  <2>2. pos' \in [Flushes -> Nat] /\ remaining' \in [Flushes -> Seq(Items)] /\ active' \subseteq Flushes
    BY <1>1, <1>3 DEF Types, Awaits
  <2> QED
    BY <1>1, <1>2, <1>3, <2>1, <2>2 DEF Types, Awaits
<1>4. ASSUME Ends(f, s, k, tries, rest, done)
      PROVE  Types'
  <2>1. {s[j] : j \in k..Len(s)} \subseteq Items
    BY <1>1
  <2>2. pos' \in [Flushes -> Nat] /\ remaining' \in [Flushes -> Seq(Items)] /\ active' \subseteq Flushes
        /\ overtaken' \in BOOLEAN /\ settled' \subseteq Items
    BY <1>1, <1>4, <2>1 DEF Types, Ends, Finish
  <2>3. items' \in Seq(Items) /\ own' \in [Flushes -> BOOLEAN] /\ iter' \in [Flushes -> Seq(Items)]
    BY <1>1, <1>4, <2>2, Replaced DEF Ends, Finish
  <2>4. stored' \in [ids : Seq(Items), attempts : [Items -> Nat]] /\ unsaved' \in BOOLEAN
    BY <1>1, <1>4, Persisted DEF Ends, Finish
  <2> QED
    BY <1>1, <1>2, <2>2, <2>3, <2>4 DEF Types
<1> QED
  BY <1>3, <1>4, LoopOutcome

LEMMA AwaitsKeeps ==
    ASSUME Types, Arrays, Exact, Bounded, Once, NEW f \in Flushes, NEW s, NEW k, NEW tries, NEW rest, NEW done,
           Turn(f, s, k, tries, rest, done), attempts' = tries,
           NEW n \in DOMAIN s, tries[s[n]] < MaxAttempts, Awaits(f, s, k, n, rest, done)
    PROVE  Arrays' /\ Exact' /\ Bounded' /\ Once'
<1>1. /\ s \in Seq(Items) /\ s = Array(f) /\ rest \in Seq(Items) /\ InHand(s, k, rest) /\ k \in Nat /\ n \in Nat
      /\ n >= k /\ DOMAIN s = 1..Len(s) /\ Len(s) \in Nat
      /\ \A j \in DOMAIN s : j \in Nat /\ (j < k => j < n) /\ (j >= n => j >= k)
  BY DEF Turn, InHand, Awaits
<1>2. /\ UNCHANGED <<items, own, iter, stored, unsaved, overtaken, reloads, dropped, known>>
      /\ active' = active \cup {f} /\ pos'[f] = n /\ remaining'[f] = rest
      /\ \A g \in Flushes \ {f} : pos'[g] = pos[g] /\ remaining'[g] = remaining[g]
  BY DEF Types, Turn, Awaits
<1>3. \A g \in Flushes : Array(g)' = Array(g)
  BY <1>2 DEF Array
<1>4. \A i : i \in settled' <=> i \in settled \/ i \in done \/ \E j \in DOMAIN s : k <= j /\ j < n /\ s[j] = i
  <2>1. \A j : j \in k..n - 1 <=> j \in DOMAIN s /\ k <= j /\ j < n
    BY <1>1 DEF Turn
  <2> QED
    BY <2>1 DEF Awaits
<1>5. Arrays'
  <2>1. InHand(s, n, rest)
    BY <1>1 DEF InHand
  <2>2. \A g \in active' : /\ pos'[g] \in DOMAIN Array(g)' /\ InHand(Array(g)', pos'[g], remaining'[g])
                           /\ Ids(Array(g)') \subseteq known'
    <3> SUFFICES ASSUME NEW g \in active'
                 PROVE  /\ pos'[g] \in DOMAIN Array(g)' /\ InHand(Array(g)', pos'[g], remaining'[g])
                        /\ Ids(Array(g)') \subseteq known'
      OBVIOUS
    <3>1. CASE g = f
      BY <1>1, <1>2, <1>3, <2>1, <3>1 DEF Turn
    <3>2. CASE g # f
      BY <1>2, <1>3, <3>2 DEF Types, Arrays
    <3> QED
      BY <3>1, <3>2
  <2>3. \A i \in Items \ known' : attempts'[i] = 0 /\ stored'.attempts[i] = 0
    BY <1>2 DEF Arrays, Turn
  <2> QED
    BY <1>2, <2>2, <2>3 DEF Arrays
<1>6. Exact'
  <2>1. \A g \in active' : ~own'[g] =>
           \A j \in DOMAIN items' : j < pos'[g] => items'[j] \in settled' \cup Ids(remaining'[g])
    <3> SUFFICES ASSUME NEW g \in active', ~own'[g], NEW j \in DOMAIN items', j < pos'[g]
                 PROVE  items'[j] \in settled' \cup Ids(remaining'[g])
      OBVIOUS
    <3>1. CASE g = f
      <4>1. s = items /\ j \in DOMAIN s /\ j < n /\ ~own[f] /\ items'[j] = s[j]
        BY <1>1, <1>2, <3>1 DEF Array
      <4>2. CASE j < k
        BY <1>2, <1>4, <3>1, <4>1, <4>2 DEF Turn
      <4>3. CASE k <= j
        BY <1>4, <4>1, <4>3
      <4> QED
        BY <1>1, <4>1, <4>2, <4>3
    <3>2. CASE g # f
      <4>1. g \in active /\ ~own[g] /\ j \in DOMAIN items /\ j < pos[g]
            /\ remaining'[g] = remaining[g] /\ items'[j] = items[j]
        BY <1>2, <3>2 DEF Types
      <4>2. items[j] \in settled \cup Ids(remaining[g])
        BY <4>1 DEF Exact
      <4> QED
        BY <1>4, <4>1, <4>2
    <3> QED
      BY <3>1, <3>2
  <2>2. settled \subseteq settled'
    BY <1>4
  <2> QED
    BY <1>2, <2>1, <2>2 DEF Exact
<1>7. Bounded'
  <2>1. ASSUME ~overlapped'
        PROVE  /\ \A g, h \in active' : g = h
               /\ \A i \in Items : attempts'[i] <= MaxAttempts /\ stored'.attempts[i] <= MaxAttempts
               /\ \A g \in active' : attempts'[Array(g)'[pos'[g]]] < MaxAttempts
    <3>1. ~overlapped /\ active' = {f} /\ \A i \in Items : tries[i] <= MaxAttempts
      BY <1>2, <2>1 DEF Turn
    <3> QED
      BY <1>1, <1>2, <1>3, <3>1 DEF Bounded
  <2>2. ASSUME ~overlapped', ~blind'
        PROVE  \A g \in active' : \A i \in Ids(remaining'[g]) : attempts'[i] < MaxAttempts
    <3>1. active' = {f} /\ \A i \in Ids(rest) : tries[i] < MaxAttempts
      BY <1>2, <2>2 DEF Turn
    <3> QED
      BY <1>2, <3>1
  <2>3. active' # {}
    BY <1>2
  <2> QED
    BY <2>1, <2>2, <2>3 DEF Bounded
<1>8. Once'
  <2> SUFFICES ASSUME Clean'
               PROVE  /\ \A i \in Items : accepted'[i] <= 1 /\ (accepted'[i] > 0 => i \in settled')
                      /\ \A g \in active' :
                            /\ \A j \in DOMAIN Array(g)' : j >= pos'[g] => Array(g)'[j] \notin settled'
                            /\ \A i \in Ids(remaining'[g]) : i \notin settled'
    BY <1>2 DEF Once
  <2>1. /\ \A i \in Items : accepted'[i] <= 1 /\ (accepted'[i] > 0 => i \in settled \cup done)
        /\ \A j \in DOMAIN s : j >= k => s[j] \notin settled \cup done
        /\ \A i \in Ids(rest) : i \notin settled \cup done
        /\ active' = {f}
    BY <1>2 DEF Clean, Turn
  <2>2. \A j \in DOMAIN s : j >= n => s[j] \notin settled'
    <3> SUFFICES ASSUME NEW j \in DOMAIN s, j >= n, s[j] \in settled'
                 PROVE  FALSE
      OBVIOUS
    <3>1. PICK l \in DOMAIN s : k <= l /\ l < n /\ s[l] = s[j]
      BY <1>1, <1>4, <2>1
    <3>2. l = j
      BY <1>1, <3>1 DEF InHand, Distinct
    <3> QED
      BY <1>1, <3>1, <3>2
  <2>3. \A i \in Ids(rest) : i \notin settled'
    <3> SUFFICES ASSUME NEW i \in Ids(rest), i \in settled'
                 PROVE  FALSE
      OBVIOUS
    <3>1. PICK j \in DOMAIN s : j < k /\ s[j] = i
      BY <1>1, InIds DEF InHand
    <3>2. PICK l \in DOMAIN s : k <= l /\ l < n /\ s[l] = i
      BY <1>4, <2>1
    <3>3. l = j
      BY <1>1, <3>1, <3>2 DEF InHand, Distinct
    <3> QED
      BY <1>1, <3>1, <3>2, <3>3
  <2> QED
    BY <1>1, <1>2, <1>3, <1>4, <2>1, <2>2, <2>3
<1> QED
  BY <1>5, <1>6, <1>7, <1>8

\* What a flush over this.items kept is the queue when it ends.
LEMMA EndsKeeps ==
    ASSUME Types, Arrays, Exact, Bounded, Once, NEW f \in Flushes, NEW s, NEW k, NEW tries, NEW rest, NEW done,
           Turn(f, s, k, tries, rest, done), attempts' = tries, Ends(f, s, k, tries, rest, done)
    PROVE  Arrays' /\ Exact' /\ Bounded' /\ Once'
<1>1. /\ s \in Seq(Items) /\ s = Array(f) /\ rest \in Seq(Items) /\ InHand(s, k, rest) /\ k \in Nat
      /\ DOMAIN s = 1..Len(s) /\ Len(s) \in Nat /\ tries \in [Items -> Nat]
      /\ \A j \in DOMAIN s : j \in Nat
  BY DEF Turn, InHand
<1>2. /\ UNCHANGED <<reloads, dropped, known>>
      /\ active' = active \ {f} /\ active' \in SUBSET Flushes
      /\ overtaken' = (overtaken \/ own[f])
      /\ \A g \in Flushes \ {f} : pos'[g] = pos[g] /\ remaining'[g] = remaining[g]
  BY DEF Types, Turn, Ends, Finish
<1>3. /\ items' = rest
      /\ \A g \in Flushes : own'[g] <=> g \in active'
      /\ \A g \in active' : own'[g] /\ Array(g)' = Array(g)
  BY <1>1, <1>2, Replaced DEF Ends, Finish
<1>4. \A i : i \in settled' <=> i \in settled \/ i \in done \/ \E j \in DOMAIN s : k <= j /\ s[j] = i
  <2>1. \A j : j \in k..Len(s) <=> j \in DOMAIN s /\ k <= j
    BY <1>1 DEF Turn
  <2> QED
    BY <2>1 DEF Ends
<1>5. /\ ~unsaved' => ~unsaved /\ stored'.ids = rest /\ stored'.attempts = tries
      /\ \/ stored'.ids = rest /\ stored'.attempts = tries
         \/ stored'.ids = stored.ids /\ stored'.attempts = stored.attempts
  BY <1>1, Persisted DEF Ends, Finish
<1>6. /\ Distinct(rest) /\ \A i \in Ids(rest) : \E j \in DOMAIN s : j < k /\ s[j] = i
      /\ Ids(rest) \subseteq Ids(s) /\ Ids(s) \subseteq known
  <2>1. \A i \in Ids(rest) : \E j \in DOMAIN s : j < k /\ s[j] = i
    BY <1>1, InIds DEF InHand
  <2> QED
    BY <1>1, <2>1, InIds DEF InHand, Turn
<1>7. Arrays'
  <2>1. Distinct(items') /\ Distinct(stored'.ids) /\ Ids(items') \subseteq known'
    BY <1>2, <1>3, <1>5, <1>6 DEF Arrays
  <2>2. \A g \in active' : /\ pos'[g] \in DOMAIN Array(g)' /\ InHand(Array(g)', pos'[g], remaining'[g])
                           /\ Ids(Array(g)') \subseteq known'
    BY <1>2, <1>3 DEF Arrays
  <2>3. \A i \in Items \ known' : attempts'[i] = 0 /\ stored'.attempts[i] = 0
    BY <1>2, <1>5 DEF Arrays, Turn
  <2> QED
    BY <1>3, <2>1, <2>2, <2>3 DEF Arrays
<1>8. Exact'
  <2>1. ~unsaved' => Ids(items') \subseteq Ids(stored'.ids)
    BY <1>3, <1>5
  <2>2. ASSUME ~unsaved', ~overtaken'
        PROVE  /\ known' \subseteq Ids(items') \cup settled' \cup dropped'
               /\ \A i \in dropped' \ settled' : i \notin Ids(items') /\ i \notin Ids(stored'.ids)
    <3>1. ~unsaved /\ ~overtaken /\ ~own[f] /\ s = items /\ stored'.ids = rest
      BY <1>1, <1>2, <1>5, <2>2 DEF Array
    <3>2. \A i \in Ids(s) : i \in settled' \cup Ids(rest)
      <4> SUFFICES ASSUME NEW i \in Ids(s)
                   PROVE  i \in settled' \cup Ids(rest)
        OBVIOUS
      <4>1. PICK j \in DOMAIN s : s[j] = i
        BY InIds
      <4>2. CASE j < k
        BY <1>4, <3>1, <4>1, <4>2 DEF Turn
      <4>3. CASE k <= j
        BY <1>4, <4>1, <4>3
      <4> QED
        BY <1>1, <4>1, <4>2, <4>3
    <3>3. known \subseteq Ids(s) \cup settled \cup dropped /\ \A i \in dropped \ settled : i \notin Ids(s)
      BY <3>1 DEF Exact
    <3>4. settled \subseteq settled'
      BY <1>4
    <3> QED
      BY <1>2, <1>3, <1>6, <3>1, <3>2, <3>3, <3>4
  <2> QED
    BY <1>3, <2>1, <2>2 DEF Exact
<1>9. Bounded'
  <2>1. ASSUME ~overlapped'
        PROVE  /\ active' = {}
               /\ \A i \in Items : attempts'[i] <= MaxAttempts /\ stored'.attempts[i] <= MaxAttempts
    <3>1. ~overlapped /\ active' = {} /\ \A i \in Items : tries[i] <= MaxAttempts
      BY <1>2, <2>1 DEF Turn
    <3> QED
      BY <1>5, <3>1 DEF Bounded
  <2>2. ASSUME ~overlapped', ~blind'
        PROVE  /\ \A i \in Ids(items') : attempts'[i] < MaxAttempts
               /\ ~unsaved' => \A i \in Ids(stored'.ids) : stored'.attempts[i] < MaxAttempts
    BY <1>3, <1>5, <2>2 DEF Turn
  <2> QED
    BY <2>1, <2>2 DEF Bounded
<1>10. Once'
  <2> SUFFICES ASSUME Clean'
               PROVE  /\ \A i \in Items : accepted'[i] <= 1 /\ (accepted'[i] > 0 => i \in settled')
                      /\ \A i \in settled' : i \notin Ids(items') /\ i \notin Ids(stored'.ids)
                      /\ active' = {}
    BY DEF Once
  <2>1. /\ \A i \in Items : accepted'[i] <= 1 /\ (accepted'[i] > 0 => i \in settled \cup done)
        /\ \A i \in Ids(rest) : i \notin settled \cup done
        /\ active' = {} /\ stored'.ids = rest
    BY <1>2, <1>5 DEF Clean, Turn
  <2>2. \A i \in Ids(rest) : i \notin settled'
    <3> SUFFICES ASSUME NEW i \in Ids(rest), i \in settled'
                 PROVE  FALSE
      OBVIOUS
    <3>1. PICK j \in DOMAIN s : j < k /\ s[j] = i
      BY <1>6
    <3>2. PICK l \in DOMAIN s : k <= l /\ s[l] = i
      BY <1>4, <2>1
    <3>3. l = j
      BY <1>1, <3>1, <3>2 DEF InHand, Distinct
    <3> QED
      BY <1>1, <3>1, <3>2, <3>3
  <2> QED
    BY <1>3, <1>4, <2>1, <2>2
<1> QED
  BY <1>7, <1>8, <1>9, <1>10

LEMMA TurnKeeps ==
    ASSUME Inv, NEW f \in Flushes, NEW s, NEW k, NEW tries, NEW rest, NEW done,
           Turn(f, s, k, tries, rest, done)
    PROVE  Inv'
BY TurnTypes, LoopOutcome, AwaitsKeeps, EndsKeeps DEF Inv

-----------------------------------------------------------------------------
(***************************************************************************)
(* flush                                                                   *)
(***************************************************************************)
LEMMA StartTurn ==
    ASSUME Inv, NEW f \in Flushes, StartFlush(f)
    PROVE  Turn(f, items, 1, attempts, <<>>, {})
<1>1. /\ items \in Seq(Items) /\ Len(items) \in Nat /\ attempts \in [Items -> Nat] /\ Distinct(items)
      /\ \A j \in DOMAIN items : j >= 1 /\ ~(j < 1)
  BY DEF Inv, Types, Arrays
<1>2. ~own[f] /\ items = Array(f) /\ Ids(items) \subseteq known
  BY DEF Inv, Arrays, StartFlush, Array
<1>3. InHand(items, 1, <<>>)
  BY <1>1, EmptyList DEF InHand
<1>4. overlapped' = (overlapped \/ active # {}) /\ UNCHANGED <<accepted, reloads, dropped, known, blind>>
  BY DEF StartFlush
<1>5. ~overlapped' => /\ ~overlapped /\ active = {}
                      /\ \A i \in Items : attempts[i] <= MaxAttempts
  BY <1>4 DEF Inv, Bounded
<1>6. ~overlapped' /\ ~blind' /\ ~overtaken /\ ~unsaved =>
          /\ \A i \in Items : accepted'[i] <= 1 /\ (accepted'[i] > 0 => i \in settled)
          /\ \A j \in DOMAIN items : items[j] \notin settled
  BY <1>4, <1>5, InIds DEF Inv, Once, Clean
<1>7. /\ accepted' \in [Items -> 0..2] /\ overlapped' \in BOOLEAN /\ blind' \in BOOLEAN
      /\ \A i \in Items \ known : attempts[i] = 0
  BY <1>4 DEF Inv, Types, Arrays
<1>8. Loop(f, items, 1, attempts, <<>>, {})
  BY DEF StartFlush
<1> QED
  BY <1>1, <1>2, <1>3, <1>4, <1>5, <1>6, <1>7, <1>8, EmptyList DEF Turn

\* The mutation whose fetch a flush awaits, among those it has passed and those to come.
LEMMA Awaited ==
    ASSUME Inv, NEW f \in active, NEW s, s = Array(f), NEW n, n = pos[f], NEW i, i = s[n]
    PROVE  /\ f \in Flushes /\ s \in Seq(Items) /\ Ids(s) \subseteq known /\ n \in DOMAIN s
           /\ n + 1 \in 1..(Len(s) + 1) /\ i \in Items /\ i \in known
           /\ \A j \in DOMAIN s : (j < n + 1 => j < n \/ j = n) /\ (j >= n + 1 => j >= n /\ s[j] # i)
           /\ remaining[f] \in Seq(Items) /\ InHand(s, n + 1, remaining[f]) /\ i \notin Ids(remaining[f])
           /\ ~own[f] => \A j \in DOMAIN s : j < n => s[j] \in settled \cup Ids(remaining[f])
<1>1. /\ s \in Seq(Items) /\ Ids(s) \subseteq known /\ n \in DOMAIN s /\ InHand(s, n, remaining[f])
      /\ f \in Flushes /\ Distinct(s)
  BY DEF Inv, Types, Arrays, InHand
<1>2. Len(s) \in Nat /\ DOMAIN s = 1..Len(s) /\ n \in Nat /\ \A j \in DOMAIN s : j \in Nat /\ s[j] \in Items
  BY <1>1
<1>3. i \in Items /\ i \in known
  BY <1>1, <1>2, InIds
<1>4. n + 1 \in 1..(Len(s) + 1) /\ \A j \in DOMAIN s : (j < n + 1 => j < n \/ j = n) /\ (j >= n + 1 => j >= n /\ j # n)
  BY <1>1, <1>2
<1>5. \A j \in DOMAIN s : j >= n + 1 => s[j] # i
  BY <1>1, <1>4 DEF Distinct
<1>6. InHand(s, n + 1, remaining[f])
  <2>1. \A j \in DOMAIN s : j < n => j < n + 1
    BY <1>2
  <2> QED
    BY <1>1, <2>1 DEF InHand
<1>7. i \notin Ids(remaining[f])
  <2> SUFFICES ASSUME i \in Ids(remaining[f])
               PROVE  FALSE
    OBVIOUS
  <2>1. PICK j \in DOMAIN s : j < n /\ s[j] = i
    BY <1>1, InIds DEF InHand
  <2>2. j = n
    BY <1>1, <2>1 DEF Distinct
  <2> QED
    BY <1>2, <2>1, <2>2
<1>8. ~own[f] => \A j \in DOMAIN s : j < n => s[j] \in settled \cup Ids(remaining[f])
  BY DEF Inv, Exact, Array
<1> QED
  BY <1>1, <1>3, <1>4, <1>5, <1>6, <1>7, <1>8 DEF InHand

LEMMA AnsweredTurn ==
    ASSUME Inv, NEW f \in Flushes, NEW ok \in BOOLEAN, Answered(f, ok)
    PROVE  Turn(f, Array(f), pos[f] + 1, attempts, remaining[f], {Array(f)[pos[f]]})
<1> DEFINE s == Array(f)
           n == pos[f]
           i == s[n]
           rest == remaining[f]
<1>1. /\ f \in active /\ accepted' = (IF ok THEN [accepted EXCEPT ![i] = Twice(@)] ELSE accepted)
      /\ UNCHANGED <<reloads, dropped, known, overlapped, blind>>
      /\ Loop(f, s, n + 1, attempts, rest, {i})
  BY DEF Answered
<1>2. /\ s \in Seq(Items) /\ Ids(s) \subseteq known /\ n \in DOMAIN s
      /\ n + 1 \in 1..(Len(s) + 1) /\ i \in Items
      /\ \A j \in DOMAIN s : (j < n + 1 => j < n \/ j = n) /\ (j >= n + 1 => j >= n /\ s[j] # i)
      /\ InHand(s, n + 1, rest) /\ i \notin Ids(rest)
      /\ ~own[f] => \A j \in DOMAIN s : j < n => s[j] \in settled \cup Ids(rest)
  BY <1>1, Awaited
<1>3. /\ attempts \in [Items -> Nat] /\ overlapped \in BOOLEAN /\ blind \in BOOLEAN
      /\ accepted \in [Items -> 0..2] /\ \A j \in Items \ known : attempts[j] = 0
  BY DEF Inv, Types, Arrays
<1>4. accepted' \in [Items -> 0..2] /\ \A j \in Items : j # i => accepted'[j] = accepted[j]
  BY <1>1, <1>2, <1>3 DEF Twice
<1>5. ~overlapped => /\ active \subseteq {f} /\ \A j \in Items : attempts[j] <= MaxAttempts
  BY <1>1 DEF Inv, Bounded
<1>6. ~overlapped /\ ~blind => \A j \in Ids(rest) : attempts[j] < MaxAttempts
  BY <1>1 DEF Inv, Bounded
<1>7. ASSUME ~overlapped, ~blind, ~overtaken, ~unsaved
      PROVE  /\ \A j \in Items : accepted'[j] <= 1 /\ (accepted'[j] > 0 => j \in settled \cup {i})
             /\ \A j \in DOMAIN s : j >= n + 1 => s[j] \notin settled \cup {i}
             /\ \A j \in Ids(rest) : j \notin settled \cup {i}
  <2>1. /\ \A j \in Items : accepted[j] <= 1 /\ (accepted[j] > 0 => j \in settled)
        /\ \A j \in DOMAIN s : j >= n => s[j] \notin settled
        /\ \A j \in Ids(rest) : j \notin settled
    BY <1>1, <1>7 DEF Inv, Once, Clean
  <2>2. i \notin settled
    <3>1. n >= n
      BY <1>2
    <3> QED
      BY <1>2, <2>1, <3>1
  <2>3. accepted[i] = 0
    BY <1>2, <1>3, <2>1, <2>2
  <2>4. accepted'[i] <= 1
    BY <1>1, <1>2, <1>3, <2>3 DEF Twice
  <2> HIDE DEF i, s, n, rest
  <2> QED
    BY <1>2, <1>4, <2>1, <2>4
<1>8. ~own[f] => \A j \in DOMAIN s : j < n + 1 => s[j] \in settled \cup {i} \cup Ids(rest)
  BY <1>2
<1> HIDE DEF s, rest
<1>9. Turn(f, s, n + 1, attempts, rest, {i})
  <2>1. s = Array(f)
    BY DEF s
  <2> HIDE DEF i, n
  <2> QED
    BY <1>1, <1>2, <1>3, <1>4, <1>5, <1>6, <1>7, <1>8, <2>1 DEF Turn
<1> QED
  BY <1>9 DEF s, rest

LEMMA FailedTurn ==
    ASSUME Inv, NEW f \in Flushes, NEW done \in BOOLEAN, Failed(f, done)
    PROVE  LET i == Array(f)[pos[f]]
               tries == [attempts EXCEPT ![i] = @ + 1]
               over == tries[i] >= MaxAttempts
           IN  Turn(f, Array(f), pos[f] + 1, tries,
                    IF over THEN remaining[f] ELSE Append(remaining[f], i), IF over THEN {i} ELSE {})
<1> DEFINE s == Array(f)
           n == pos[f]
           i == s[n]
           tries == [attempts EXCEPT ![i] = @ + 1]
           over == tries[i] >= MaxAttempts
           rest == IF over THEN remaining[f] ELSE Append(remaining[f], i)
           ended == IF over THEN {i} ELSE {}
<1>1. /\ f \in active /\ accepted' = (IF done THEN [accepted EXCEPT ![i] = Twice(@)] ELSE accepted)
      /\ blind' = (blind \/ done)
      /\ UNCHANGED <<reloads, dropped, known, overlapped>>
      /\ Loop(f, s, n + 1, tries, rest, ended)
  BY DEF Failed
<1>2. /\ s \in Seq(Items) /\ Ids(s) \subseteq known /\ n \in DOMAIN s
      /\ n + 1 \in 1..(Len(s) + 1) /\ i \in Items /\ i \in known
      /\ \A j \in DOMAIN s : (j < n + 1 => j < n \/ j = n) /\ (j >= n + 1 => j >= n /\ s[j] # i)
      /\ remaining[f] \in Seq(Items) /\ InHand(s, n + 1, remaining[f]) /\ i \notin Ids(remaining[f])
      /\ ~own[f] => \A j \in DOMAIN s : j < n => s[j] \in settled \cup Ids(remaining[f])
  BY <1>1, Awaited
<1>3. /\ attempts \in [Items -> Nat] /\ overlapped \in BOOLEAN /\ blind \in BOOLEAN
      /\ accepted \in [Items -> 0..2] /\ \A j \in Items \ known : attempts[j] = 0
  BY DEF Inv, Types, Arrays
<1>4. accepted' \in [Items -> 0..2] /\ blind' \in BOOLEAN
  BY <1>1, <1>2, <1>3 DEF Twice
<1>5. /\ tries \in [Items -> Nat] /\ tries[i] = attempts[i] + 1
      /\ \A j \in Items : j # i => tries[j] = attempts[j]
  BY <1>2, <1>3
<1>6. \A j : j \in Ids(rest) <=> j \in Ids(remaining[f]) \/ (~over /\ j = i)
  BY <1>2, AppendedList
<1>7. ~over => tries[i] < MaxAttempts
  BY <1>2, <1>5, QueueAssumption
<1>8. InHand(s, n + 1, rest)
  <2>1. CASE over
    BY <1>2, <2>1
  <2>2. CASE ~over
    <3>1. rest = Append(remaining[f], i)
      BY <2>2
    <3>2. rest \in Seq(Items) /\ Distinct(rest)
      BY <1>2, <3>1, AppendedList DEF InHand
    <3>3. \A l \in DOMAIN rest : \E j \in DOMAIN s : j < n + 1 /\ s[j] = rest[l]
      <4> SUFFICES ASSUME NEW l \in DOMAIN rest
                   PROVE  \E j \in DOMAIN s : j < n + 1 /\ s[j] = rest[l]
        OBVIOUS
      <4>1. rest[l] \in Ids(rest)
        BY InIds
      <4>2. CASE rest[l] = i
        <5>1. n < n + 1
          BY <1>2
        <5> QED
          BY <1>2, <4>2, <5>1
      <4>3. CASE rest[l] \in Ids(remaining[f])
        <5>1. PICK m \in DOMAIN remaining[f] : remaining[f][m] = rest[l]
          BY <4>3, InIds
        <5> HIDE DEF rest, s, n
        <5> QED
          BY <1>2, <5>1 DEF InHand
      <4> QED
        BY <1>6, <4>1, <4>2, <4>3
    <3> HIDE DEF rest, s, n
    <3> QED
      BY <1>2, <3>2, <3>3 DEF InHand
  <2> QED
    BY <2>1, <2>2
<1>9. \A j : j \in ended <=> over /\ j = i
  OBVIOUS
<1>10. ~overlapped => /\ active \subseteq {f} /\ \A j \in Items : tries[j] <= MaxAttempts
  <2> SUFFICES ASSUME ~overlapped
               PROVE  active \subseteq {f} /\ \A j \in Items : tries[j] <= MaxAttempts
    OBVIOUS
  <2>1. active \subseteq {f} /\ attempts[i] < MaxAttempts /\ \A j \in Items : attempts[j] <= MaxAttempts
    BY <1>1 DEF Inv, Bounded
  <2>2. attempts[i] + 1 <= MaxAttempts
    BY <1>2, <1>3, <2>1, QueueAssumption
  <2> HIDE DEF tries, i
  <2> QED
    BY <1>5, <2>1, <2>2
<1>11. ~overlapped /\ ~blind => \A j \in Ids(rest) : tries[j] < MaxAttempts
  <2> SUFFICES ASSUME ~overlapped, ~blind, NEW j \in Ids(rest)
               PROVE  tries[j] < MaxAttempts
    OBVIOUS
  <2>1. \A l \in Ids(remaining[f]) : attempts[l] < MaxAttempts /\ l \in Items
    BY <1>1, <1>2, InIds DEF Inv, Bounded
  <2> HIDE DEF tries, rest, i, over
  <2> QED
    BY <1>2, <1>5, <1>6, <1>7, <2>1
<1>12. ASSUME ~overlapped, ~blind', ~overtaken, ~unsaved
       PROVE  /\ \A j \in Items : accepted'[j] <= 1 /\ (accepted'[j] > 0 => j \in settled \cup ended)
              /\ \A j \in DOMAIN s : j >= n + 1 => s[j] \notin settled \cup ended
              /\ \A j \in Ids(rest) : j \notin settled \cup ended
  <2>1. ~blind /\ accepted' = accepted
    BY <1>1, <1>12
  <2>2. /\ \A j \in Items : accepted[j] <= 1 /\ (accepted[j] > 0 => j \in settled)
        /\ \A j \in DOMAIN s : j >= n => s[j] \notin settled
        /\ \A j \in Ids(remaining[f]) : j \notin settled
    BY <1>1, <1>12, <2>1 DEF Inv, Once, Clean
  <2>3. i \notin settled
    <3>1. n >= n
      BY <1>2
    <3> QED
      BY <1>2, <2>2, <3>1
  <2> HIDE DEF i, s, n, rest, over, ended
  <2> QED
    BY <1>2, <1>6, <1>9, <2>1, <2>2, <2>3
<1>13. ~own[f] => \A j \in DOMAIN s : j < n + 1 => s[j] \in settled \cup ended \cup Ids(rest)
  BY <1>2, <1>6, <1>9
<1>14. \A j \in Items \ known : tries[j] = 0
  BY <1>2, <1>3, <1>5
<1>15. ended \subseteq Items
  BY <1>2
<1>16. s = Array(f)
  OBVIOUS
<1> HIDE DEF s, rest, ended, i, n, tries, over
<1>17. Turn(f, s, n + 1, tries, rest, ended)
  BY <1>1, <1>2, <1>4, <1>3, <1>5, <1>8, <1>10, <1>11, <1>12, <1>13, <1>14, <1>15, <1>16 DEF Turn
<1> QED
  BY <1>17 DEF s, rest, ended, i, n, tries, over

-----------------------------------------------------------------------------
(***************************************************************************)
(* What else happens to the queue                                          *)
(***************************************************************************)
LEMMA InitInv == Init => Inv
<1> SUFFICES ASSUME Init
             PROVE  Inv
  OBVIOUS
<1>1. Types
  <2>1. stored = [ids |-> <<>>, attempts |-> [i \in Items |-> 0]]
    BY DEF Init
  <2>2. stored \in [ids : Seq(Items), attempts : [Items -> Nat]] /\ attempts \in [Items -> Nat]
    BY <2>1, EmptyList DEF Init
  <2>3. /\ iter \in [Flushes -> Seq(Items)] /\ remaining \in [Flushes -> Seq(Items)] /\ items \in Seq(Items)
    BY EmptyList DEF Init
  <2>4. own \in [Flushes -> BOOLEAN]
    BY DEF Init
  <2>5. accepted \in [Items -> 0..2] /\ pos \in [Flushes -> Nat]
    BY DEF Init
  <2> QED
    BY <2>2, <2>3, <2>4, <2>5 DEF Init, Types
<1>2. Arrays /\ Exact /\ Bounded /\ Once
  BY EmptyList, QueueAssumption DEF Init, Arrays, Exact, Bounded, Once
<1> QED
  BY <1>1, <1>2 DEF Inv

LEMMA EnqueueKeeps == ASSUME Inv, NEW i \in Items, Enqueue(i) PROVE Inv'
<1>0. Types /\ Arrays /\ Exact /\ Bounded /\ Once
  BY DEF Inv
<1>1. /\ i \notin known /\ i \notin settled /\ i \notin dropped /\ i \notin Ids(stored.ids)
      /\ items' = Append(items, i) /\ known' = known \cup {i} /\ Persist(items', attempts)
      /\ UNCHANGED <<attempts, active, own, iter, pos, remaining, accepted, settled, reloads, dropped,
                     overlapped, overtaken, blind>>
  BY DEF Enqueue, NeverQueued, flushing, server
<1>2. /\ items' \in Seq(Items) /\ DOMAIN items = 1..Len(items) /\ Len(items) \in Nat
      /\ DOMAIN items' = 1..(Len(items) + 1) /\ items'[Len(items) + 1] = i
      /\ \A k \in 1..Len(items) : items'[k] = items[k]
      /\ \A j : j \in Ids(items') <=> j \in Ids(items) \/ j = i
      /\ Distinct(items) /\ i \notin Ids(items) => Distinct(items')
  BY <1>0, <1>1, AppendedList DEF Types
<1>3. Ids(items) \subseteq known /\ Distinct(items')
  BY <1>0, <1>1, <1>2 DEF Arrays
<1>4. /\ stored' \in [ids : Seq(Items), attempts : [Items -> Nat]] /\ unsaved' \in BOOLEAN
      /\ ~unsaved' => ~unsaved /\ stored'.ids = items' /\ stored'.attempts = attempts
      /\ \/ stored'.ids = items' /\ stored'.attempts = attempts
         \/ stored'.ids = stored.ids /\ stored'.attempts = stored.attempts
  BY <1>0, <1>1, <1>2, Persisted DEF Types
<1>5. Types'
  BY <1>0, <1>1, <1>2, <1>4 DEF Types
<1>6. attempts[i] = 0 /\ stored.attempts[i] = 0 /\ MaxAttempts > 0
  BY <1>0, <1>1, QueueAssumption DEF Arrays
\* A flush that is under way sees the new mutation at the end of its array, if that is this.items.
<1>7. \A f \in active :
         /\ Array(f)' \in Seq(Items) /\ Distinct(Array(f)') /\ Ids(Array(f)') \subseteq known'
         /\ \A j \in DOMAIN Array(f) : j \in DOMAIN Array(f)' /\ Array(f)'[j] = Array(f)[j]
         /\ \A j \in DOMAIN Array(f)' : j \in DOMAIN Array(f) \/ Array(f)'[j] = i
  <2> SUFFICES ASSUME NEW f \in active
               PROVE  /\ Array(f)' \in Seq(Items) /\ Distinct(Array(f)') /\ Ids(Array(f)') \subseteq known'
                      /\ \A j \in DOMAIN Array(f) : j \in DOMAIN Array(f)' /\ Array(f)'[j] = Array(f)[j]
                      /\ \A j \in DOMAIN Array(f)' : j \in DOMAIN Array(f) \/ Array(f)'[j] = i
    OBVIOUS
  <2>1. CASE own[f]
    <3>1. Array(f)' = Array(f)
      BY <1>1, <2>1 DEF Array
    <3>2. Array(f) \in Seq(Items) /\ Distinct(Array(f)) /\ Ids(Array(f)) \subseteq known
      BY <1>0 DEF Arrays, InHand
    <3> QED
      BY <1>1, <3>1, <3>2
  <2>2. CASE ~own[f]
    <3>1. Array(f)' = items' /\ Array(f) = items
      BY <1>1, <2>2 DEF Array
    <3>2. \A j : j \in 1..(Len(items) + 1) <=> j \in 1..Len(items) \/ j = Len(items) + 1
      BY <1>2
    <3> QED
      BY <1>1, <1>2, <1>3, <3>1, <3>2
  <2> QED
    BY <2>1, <2>2
<1>8. Arrays'
  <2>1. \A f \in active' : /\ pos'[f] \in DOMAIN Array(f)' /\ InHand(Array(f)', pos'[f], remaining'[f])
                           /\ Ids(Array(f)') \subseteq known'
    <3> SUFFICES ASSUME NEW f \in active
                 PROVE  /\ pos[f] \in DOMAIN Array(f)' /\ InHand(Array(f)', pos[f], remaining[f])
                        /\ Ids(Array(f)') \subseteq known'
      BY <1>1
    <3>1. pos[f] \in DOMAIN Array(f) /\ InHand(Array(f), pos[f], remaining[f])
      BY <1>0 DEF Arrays
    <3> QED
      BY <1>7, <3>1 DEF InHand
  <2>2. Distinct(stored'.ids)
    BY <1>0, <1>3, <1>4 DEF Arrays
  <2>3. \A j \in Items \ known' : attempts'[j] = 0 /\ stored'.attempts[j] = 0
    BY <1>0, <1>1, <1>4 DEF Arrays
  <2> QED
    BY <1>0, <1>1, <1>2, <1>3, <2>1, <2>2, <2>3 DEF Arrays
<1>9. Exact'
  <2>1. \A f \in active' : ~own'[f] =>
           \A j \in DOMAIN items' : j < pos'[f] => items'[j] \in settled' \cup Ids(remaining'[f])
    <3> SUFFICES ASSUME NEW f \in active, ~own[f], NEW j \in DOMAIN items', j < pos[f]
                 PROVE  items'[j] \in settled \cup Ids(remaining[f])
      BY <1>1
    <3>1. pos[f] \in 1..Len(items)
      BY <1>0, <1>2 DEF Arrays, Array
    <3>2. j \in DOMAIN items /\ items'[j] = items[j]
      BY <1>2, <3>1
    <3> QED
      BY <1>0, <3>2 DEF Exact
  <2>2. ~unsaved' /\ ~overtaken' =>
          /\ known' \subseteq Ids(items') \cup settled' \cup dropped'
          /\ \A j \in dropped' \ settled' : j \notin Ids(items') /\ j \notin Ids(stored'.ids)
    BY <1>0, <1>1, <1>2, <1>4 DEF Exact
  <2>3. ~unsaved' => Ids(items') \subseteq Ids(stored'.ids)
    BY <1>4
  <2> QED
    BY <2>1, <2>2, <2>3 DEF Exact
<1>10. Bounded'
  <2>1. \A f \in active : Array(f)'[pos[f]] = Array(f)[pos[f]]
    BY <1>0, <1>7 DEF Arrays
  <2>2. ~overlapped =>
          /\ \A f, g \in active : f = g
          /\ \A j \in Items : attempts[j] <= MaxAttempts /\ stored'.attempts[j] <= MaxAttempts
          /\ \A f \in active : attempts[Array(f)'[pos[f]]] < MaxAttempts
    BY <1>0, <1>4, <2>1 DEF Bounded
  <2>3. ~overlapped /\ ~blind /\ ~unsaved' /\ active = {} =>
          /\ \A j \in Ids(items') : attempts[j] < MaxAttempts
          /\ \A j \in Ids(stored'.ids) : stored'.attempts[j] < MaxAttempts
    BY <1>0, <1>2, <1>4, <1>6 DEF Bounded
  <2>4. ~overlapped /\ ~blind => \A f \in active : \A j \in Ids(remaining[f]) : attempts[j] < MaxAttempts
    BY <1>0 DEF Bounded
  <2> QED
    BY <1>1, <2>2, <2>3, <2>4 DEF Bounded
<1>11. Once'
  <2> SUFFICES ASSUME Clean'
               PROVE  /\ \A j \in Items : accepted[j] <= 1 /\ (accepted[j] > 0 => j \in settled)
                      /\ active = {} => \A j \in settled : j \notin Ids(items') /\ j \notin Ids(stored'.ids)
                      /\ \A f \in active :
                            /\ \A j \in DOMAIN Array(f)' : j >= pos[f] => Array(f)'[j] \notin settled
                            /\ \A j \in Ids(remaining[f]) : j \notin settled
    BY <1>1 DEF Once
  <2>1. Clean /\ stored'.ids = items'
    BY <1>1, <1>4 DEF Clean
  <2>2. \A f \in active : \A j \in DOMAIN Array(f)' : j >= pos[f] => Array(f)'[j] \notin settled
    BY <1>0, <1>1, <1>7, <2>1 DEF Once
  <2> QED
    BY <1>0, <1>1, <1>2, <2>1, <2>2 DEF Once
<1> QED
  BY <1>5, <1>8, <1>9, <1>10, <1>11 DEF Inv

LEMMA CaptureKeeps == ASSUME Inv, NEW i \in Items, Capture(i) PROVE Inv'
<1>0. Types /\ Arrays /\ Exact /\ Bounded /\ Once
  BY DEF Inv
<1>1. /\ i \notin known /\ i \notin settled /\ i \notin dropped /\ i \notin Ids(stored.ids)
      /\ Persist(Append(stored.ids, i), stored.attempts)
      /\ UNCHANGED <<items, attempts, active, own, iter, pos, remaining, accepted, settled, reloads, dropped, known,
                     overlapped, overtaken, blind>>
  BY DEF Capture, NeverQueued, flushing, server
<1>2. stored.ids \in Seq(Items) /\ stored.attempts \in [Items -> Nat]
  BY <1>0 DEF Types
<1> DEFINE ids == Append(stored.ids, i)
<1>3. /\ ids \in Seq(Items) /\ Distinct(ids) /\ \A j : j \in Ids(ids) <=> j \in Ids(stored.ids) \/ j = i
  BY <1>0, <1>1, <1>2, AppendedList DEF Arrays
<1> HIDE DEF ids
<1>4. /\ stored' \in [ids : Seq(Items), attempts : [Items -> Nat]] /\ unsaved' \in BOOLEAN
      /\ ~unsaved' => ~unsaved
      /\ stored'.attempts = stored.attempts
      /\ stored'.ids = ids \/ stored'.ids = stored.ids
  BY <1>0, <1>1, <1>2, <1>3, Persisted DEF ids
<1>5. Types'
  BY <1>0, <1>1, <1>4 DEF Types
<1>6. stored.attempts[i] = 0 /\ MaxAttempts > 0
  BY <1>0, <1>1, QueueAssumption DEF Arrays
<1>7. \A f \in Flushes : Array(f)' = Array(f)
  BY <1>1 DEF Array
<1>8. /\ Distinct(stored'.ids)
      /\ \A j : j \in Ids(stored'.ids) => j \in Ids(stored.ids) \/ j = i
      /\ \A j : j \in Ids(stored.ids) => j \in Ids(stored'.ids)
  BY <1>0, <1>3, <1>4 DEF Arrays
<1>9. active \subseteq Flushes
  BY <1>0 DEF Types
<1>10. Arrays' /\ Exact'
  <2>1. Arrays'
    BY <1>0, <1>1, <1>4, <1>7, <1>8, <1>9 DEF Arrays
  <2>2. Exact'
    BY <1>0, <1>1, <1>4, <1>8 DEF Exact
  <2> QED
    BY <2>1, <2>2
<1>11. Bounded'
  BY <1>0, <1>1, <1>4, <1>6, <1>7, <1>8, <1>9 DEF Bounded
<1>12. Once'
  <2>1. Clean' => Clean
    BY <1>1, <1>4 DEF Clean
  <2> QED
    BY <1>0, <1>1, <1>7, <1>8, <1>9, <2>1 DEF Once
<1> QED
  BY <1>5, <1>10, <1>11, <1>12 DEF Inv

\* Some mutations leave the queue for good, while any flushes go on over the old array.
LEMMA ShrinkKeeps ==
    ASSUME Inv, NEW kept \in Seq(Items), Distinct(kept), Ids(kept) \subseteq Ids(items),
           ReplaceItems(kept, active), Persist(kept, attempts),
           dropped' \subseteq Items, dropped \subseteq dropped', Ids(items) \subseteq Ids(kept) \cup dropped',
           Ids(kept) \cap dropped' \subseteq dropped,
           UNCHANGED <<attempts, active, pos, remaining, accepted, settled, reloads, known, overlapped,
                       overtaken, blind>>
    PROVE  Inv'
<1>0. Types /\ Arrays /\ Exact /\ Bounded /\ Once
  BY DEF Inv
<1>1. /\ items' = kept /\ own' \in [Flushes -> BOOLEAN] /\ iter' \in [Flushes -> Seq(Items)]
      /\ \A f \in Flushes : own'[f] <=> f \in active
      /\ \A f \in active : own'[f] /\ Array(f)' = Array(f)
  <2>1. active \in SUBSET Flushes
    BY <1>0 DEF Types
  <2> QED
    BY <1>0, <2>1, Replaced
<1>2. /\ stored' \in [ids : Seq(Items), attempts : [Items -> Nat]] /\ unsaved' \in BOOLEAN
      /\ ~unsaved' => ~unsaved /\ stored'.ids = kept /\ stored'.attempts = attempts
      /\ \/ stored'.ids = kept /\ stored'.attempts = attempts
         \/ stored'.ids = stored.ids /\ stored'.attempts = stored.attempts
  BY <1>0, Persisted DEF Types
<1>3. Types'
  BY <1>0, <1>1, <1>2 DEF Types
<1>4. Arrays'
  <2>1. Distinct(items') /\ Distinct(stored'.ids) /\ Ids(items') \subseteq known'
    BY <1>0, <1>1, <1>2 DEF Arrays
  <2>2. \A j \in Items \ known' : attempts'[j] = 0 /\ stored'.attempts[j] = 0
    BY <1>0, <1>2 DEF Arrays
  <2> QED
    BY <1>0, <1>1, <2>1, <2>2 DEF Arrays
<1>5. Exact'
  <2>1. ~unsaved' => Ids(items') \subseteq Ids(stored'.ids)
    BY <1>1, <1>2
  <2>2. ASSUME ~unsaved', ~overtaken'
        PROVE  /\ known' \subseteq Ids(items') \cup settled' \cup dropped'
               /\ \A j \in dropped' \ settled' : j \notin Ids(items') /\ j \notin Ids(stored'.ids)
    <3>1. /\ stored'.ids = kept /\ known \subseteq Ids(items) \cup settled \cup dropped
          /\ \A j \in dropped \ settled : j \notin Ids(items)
      BY <1>0, <1>2, <2>2 DEF Exact
    <3> QED
      BY <1>1, <3>1
  <2>3. \A f \in active' : own'[f]
    BY <1>1
  <2> QED
    BY <2>1, <2>2, <2>3 DEF Exact
<1>6. Bounded'
  <2>1. ~overlapped =>
          /\ \A f, g \in active : f = g
          /\ \A j \in Items : attempts[j] <= MaxAttempts /\ stored'.attempts[j] <= MaxAttempts
          /\ \A f \in active : attempts[Array(f)'[pos[f]]] < MaxAttempts
    BY <1>0, <1>1, <1>2 DEF Bounded
  <2>2. ~overlapped /\ ~blind => \A f \in active : \A j \in Ids(remaining[f]) : attempts[j] < MaxAttempts
    BY <1>0 DEF Bounded
  <2>3. ~overlapped /\ ~blind /\ ~unsaved' /\ active = {} =>
          /\ \A j \in Ids(items') : attempts[j] < MaxAttempts
          /\ \A j \in Ids(stored'.ids) : stored'.attempts[j] < MaxAttempts
    BY <1>0, <1>1, <1>2 DEF Bounded
  <2> QED
    BY <2>1, <2>2, <2>3 DEF Bounded
<1>7. Once'
  <2>1. Clean' => Clean /\ stored'.ids = kept
    BY <1>2 DEF Clean
  <2> QED
    BY <1>0, <1>1, <2>1 DEF Once
<1> QED
  BY <1>3, <1>4, <1>5, <1>6, <1>7 DEF Inv

LEMMA DropKeeps == ASSUME Inv, NEW i \in Items, Drop(i) PROVE Inv'
<1> DEFINE kept == Without(items, i)
<1>1. items \in Seq(Items) /\ Distinct(items) /\ dropped \subseteq Items
  BY DEF Inv, Types, Arrays
<1>2. /\ kept \in Seq(Items) /\ Distinct(kept)
      /\ \A j : j \in Ids(kept) <=> j \in Ids(items) /\ j # i
  BY <1>1, WithoutKeepsTheOthers
<1>3. /\ ReplaceItems(kept, active) /\ Persist(items', attempts) /\ dropped' = dropped \cup {i}
      /\ UNCHANGED <<attempts, active, pos, remaining, accepted, settled, reloads, known, overlapped,
                     overtaken, blind>>
  BY DEF Drop, server
<1> HIDE DEF kept
<1>4. items' = kept
  BY <1>3 DEF ReplaceItems
<1> QED
  BY <1>1, <1>2, <1>3, <1>4, ShrinkKeeps

LEMMA ClearKeeps == ASSUME Inv, Clear PROVE Inv'
<1>1. /\ ReplaceItems(<<>>, active) /\ Persist(<<>>, attempts)
      /\ dropped' = dropped \cup Ids(items) \cup Ids(stored.ids)
      /\ UNCHANGED <<attempts, active, pos, remaining, accepted, settled, reloads, known, overlapped,
                     overtaken, blind>>
  BY DEF Clear, server
<1>2. items \in Seq(Items) /\ stored.ids \in Seq(Items) /\ dropped \subseteq Items
  BY DEF Inv, Types
<1>3. dropped' \subseteq Items
  <2>1. Ids(items) \subseteq Items /\ Ids(stored.ids) \subseteq Items
    BY <1>2, InIds
  <2> QED
    BY <1>1, <1>2, <2>1
<1> QED
  BY <1>1, <1>3, EmptyList, ShrinkKeeps

\* What is stored takes the place of what was in memory.
LEMMA ReloadKeeps == ASSUME Inv, Reload PROVE Inv'
<1>0. Types /\ Arrays /\ Exact /\ Bounded /\ Once
  BY DEF Inv
<1>1. /\ items' = stored.ids /\ attempts' = stored.attempts /\ active' = {}
      /\ own' = [f \in Flushes |-> FALSE] /\ iter' = [f \in Flushes |-> <<>>]
      /\ remaining' = [f \in Flushes |-> <<>>] /\ pos' = [f \in Flushes |-> 0]
      /\ known' = known \cup Ids(stored.ids) /\ blind' = (blind \/ active # {})
      /\ UNCHANGED <<stored, settled, dropped, overlapped, overtaken, unsaved>>
  BY DEF Reload
<1>2. accepted' \in [Items -> 0..2] /\ (active = {} => accepted' = accepted)
  <2>1. PICK F \in SUBSET active :
           accepted' = [i \in Items |-> IF i \in {Array(f)[pos[f]] : f \in F} THEN Twice(accepted[i])
                                       ELSE accepted[i]]
    BY DEF Reload
  <2>2. \A i \in Items : accepted[i] \in 0..2 /\ Twice(accepted[i]) \in 0..2
    BY <1>0 DEF Types, Twice
  <2>3. accepted' \in [Items -> 0..2]
    BY <2>1, <2>2
  <2>4. ASSUME active = {}
        PROVE  accepted' = accepted
    <3>1. \A i : i \notin {Array(f)[pos[f]] : f \in F}
      BY <2>4
    <3>2. accepted' = [i \in Items |-> accepted[i]]
      BY <2>1, <3>1
    <3> QED
      BY <1>0, <3>2 DEF Types
  <2> QED
    BY <2>3, <2>4
<1>3. stored.ids \in Seq(Items) /\ stored.attempts \in [Items -> Nat] /\ Ids(stored.ids) \subseteq Items
  <2>1. stored.ids \in Seq(Items) /\ stored.attempts \in [Items -> Nat]
    BY <1>0 DEF Types
  <2> QED
    BY <2>1, InIds
<1>4. Types'
  <2>1. own' \in [Flushes -> BOOLEAN]
    BY <1>1
  <2>2. iter' \in [Flushes -> Seq(Items)] /\ remaining' \in [Flushes -> Seq(Items)] /\ pos' \in [Flushes -> Nat]
    BY <1>1, EmptyList
  <2>3. blind' \in BOOLEAN
    BY <1>0, <1>1 DEF Types
  <2> QED
    BY <1>0, <1>1, <1>2, <1>3, <2>1, <2>2, <2>3 DEF Types
<1>5. Arrays'
  <2>1. \A f \in Flushes : ~own'[f]
    BY <1>1
  <2> QED
    BY <1>0, <1>1, <2>1 DEF Arrays
<1>6. Exact'
  BY <1>0, <1>1 DEF Exact
<1>7. Bounded'
  BY <1>0, <1>1 DEF Bounded
<1>8. Once'
  <2>1. Clean' => Clean /\ active = {}
    BY <1>1 DEF Clean
  <2> QED
    BY <1>0, <1>1, <1>2, <2>1 DEF Once
<1> QED
  BY <1>4, <1>5, <1>6, <1>7, <1>8 DEF Inv

LEMMA Step == Inv /\ [Next]_vars => Inv'
<1> SUFFICES ASSUME Inv, [Next]_vars
             PROVE  Inv'
  OBVIOUS
<1>1. ASSUME NEW i \in Items, Enqueue(i) \/ Capture(i) \/ Drop(i)
      PROVE  Inv'
  BY <1>1, EnqueueKeeps, CaptureKeeps, DropKeeps
<1>2. ASSUME Clear \/ Reload
      PROVE  Inv'
  BY <1>2, ClearKeeps, ReloadKeeps
<1>3. ASSUME NEW f \in Flushes, StartFlush(f)
      PROVE  Inv'
  BY <1>3, StartTurn, TurnKeeps
<1>4. ASSUME NEW f \in Flushes, NEW ok \in BOOLEAN, Answered(f, ok)
      PROVE  Inv'
  BY <1>4, AnsweredTurn, TurnKeeps
<1>5. ASSUME NEW f \in Flushes, NEW done \in BOOLEAN, Failed(f, done)
      PROVE  Inv'
  BY <1>5, FailedTurn, TurnKeeps
<1>6. CASE UNCHANGED vars
  <2>1. UNCHANGED <<items, attempts, stored, active, own, iter, pos, remaining, accepted, settled, reloads,
                    dropped, known, overlapped, overtaken, unsaved, blind>>
    BY <1>6 DEF vars, flushing, server, history
  <2>2. \A f : Array(f)' = Array(f)
    BY <2>1 DEF Array
  <2>3. Types' /\ Exact'
    BY <2>1 DEF Inv, Types, Exact
  <2>4. Arrays'
    BY <2>1, <2>2 DEF Inv, Arrays
  <2>5. Bounded' /\ Once'
    BY <2>1, <2>2 DEF Inv, Bounded, Once, Clean
  <2> QED
    BY <2>3, <2>4, <2>5 DEF Inv
<1> QED
  BY <1>1, <1>2, <1>3, <1>4, <1>5, <1>6 DEF Next

LEMMA Invariance == Spec => []Inv
BY InitInv, Step, PTL DEF Spec

-----------------------------------------------------------------------------
\* A mutation the page has queued leaves the queue only by being sent, reported
\* as a conflict or dropped, and what was dropped does not come back, as long as
\* localStorage works and no flush ends on an array that was replaced under it:
\* for any mutations, any number of flushes, reloads and photo captures between.
THEOREM QueueIsExactAlways == Spec => []QueueIsExact
<1>1. Inv => QueueIsExact
  <2> SUFFICES ASSUME Inv
               PROVE  NothingVanishes /\ DroppedStaysOut
    BY DEF QueueIsExact
  <2>1. NothingVanishes
    BY DEF Inv, Exact, NothingVanishes, Queued
  <2>2. DroppedStaysOut
    BY DEF Inv, Exact, DroppedStaysOut
  <2> QED
    BY <2>1, <2>2
<1> QED
  BY <1>1, Invariance, PTL

\* No mutation is tried more often than maxAttempts and the server carries none
\* out twice, each under its own proviso: flushes that overlap, a lost response, a
\* reload in the middle of a flush and a full localStorage are what it takes.
THEOREM SendingIsBoundedAlways == Spec => []SendingIsBounded
<1>1. Inv => SendingIsBounded
  <2> SUFFICES ASSUME Inv
               PROVE  AttemptsBounded /\ SentOnce
    BY DEF SendingIsBounded
  <2>1. AttemptsBounded
    BY DEF Inv, Bounded, AttemptsBounded
  <2>2. SentOnce
    BY DEF Inv, Once, Clean, SentOnce
  <2> QED
    BY <2>1, <2>2
<1> QED
  BY <1>1, Invariance, PTL
-----------------------------------------------------------------------------
(***************************************************************************)
(* The queue among the other parts.                                        *)
(***************************************************************************)
\* The queue of the PWA is the offline queue, whatever the other parts do.
THEOREM ClientImplementsQueue == ClientSpec => Spec
<1>1. ClientInit => Init
  BY DEF ClientInit
<1>2. [ClientNext]_<<desk, vars, photos, models>> => [Next]_vars
  BY DEF ClientNext
<1> QED
  BY <1>1, <1>2, PTL DEF ClientSpec, Spec

ReloadsFit == reloads \in 0..MaxReloads

LEMMA ReloadsBounded == Spec => []ReloadsFit
<1>1. Init => ReloadsFit
  BY QueueAssumption DEF Init, ReloadsFit
<1>2. ASSUME ReloadsFit, [Next]_vars PROVE ReloadsFit'
  <2>1. UNCHANGED reloads \/ Reload
    BY <1>2, Zenon DEF Next, Enqueue, Capture, Drop, Clear, StartFlush, Answered, Failed, vars
  <2> QED
    BY <1>2, <2>1, QueueAssumption DEF Reload, ReloadsFit
<1> QED
  BY <1>1, <1>2, PTL DEF Spec

-----------------------------------------------------------------------------
(***************************************************************************)
(* The capture of photos.                                                  *)
(***************************************************************************)
PhotoInv ==
    /\ Photo!PhotoTypeOK /\ Photo!ToldIsKept
    /\ \A p \in Photos : awaiting[p] <= presses

\* What ends a request under way.
LEMMA Ended ==
    ASSUME PhotoInv, NEW p \in Photos, Photo!Ends(p), UNCHANGED presses
    PROVE  /\ awaiting' \in [Photos -> 0..MaxPresses]
           /\ \A q \in Photos : awaiting'[q] <= presses'
<1>1. awaiting \in [Photos -> 0..MaxPresses] /\ presses \in 0..MaxPresses /\ MaxPresses \in Nat
      /\ \A q \in Photos : awaiting[q] <= presses
  BY ClientAssumption DEF PhotoInv, Photo!PhotoTypeOK, Photo!PhotoAssumption
<1> QED
  BY <1>1 DEF Photo!Ends

LEMMA PhotoStep == ASSUME PhotoInv, [Photo!PhotoNext]_photos PROVE PhotoInv'
<1> DEFINE Lines == {"none", "uploading", "queued", "conflict", "saved"}
<1>0. /\ onLine \in BOOLEAN /\ awaiting \in [Photos -> 0..MaxPresses] /\ line \in [Photos -> Lines]
      /\ queue \subseteq Photos /\ onServer \subseteq Photos /\ presses \in 0..MaxPresses /\ full \in BOOLEAN
      /\ MaxPresses \in Nat /\ \A q \in Photos : awaiting[q] <= presses
      /\ ~full => \A p \in Photos : line[p] \in {"saved", "queued", "conflict"} => p \in onServer \cup queue
  BY ClientAssumption DEF PhotoInv, Photo!PhotoTypeOK, Photo!ToldIsKept, Photo!PhotoAssumption
<1> DEFINE Told == ~full' => \A q \in Photos :
                      line'[q] \in {"saved", "queued", "conflict"} => q \in onServer' \cup queue'
           Fits == /\ awaiting' \in [Photos -> 0..MaxPresses] /\ presses' \in 0..MaxPresses
                   /\ \A q \in Photos : awaiting'[q] <= presses'
           Good == /\ onLine' \in BOOLEAN /\ line' \in [Photos -> Lines] /\ full' \in BOOLEAN
                   /\ queue' \subseteq Photos /\ onServer' \subseteq Photos
                   /\ Fits /\ Told
\* The step tells what holds, and takes nothing off the server or out of the queue.
<1>1. ASSUME NEW p \in Photos, NEW what \in Lines, Photo!Tell(p, what),
             queue \subseteq queue', onServer \subseteq onServer', full => full',
             ~full' /\ what \in {"saved", "queued", "conflict"} => p \in onServer' \cup queue'
      PROVE  line' \in [Photos -> Lines] /\ Told
  <2>1. line' \in [Photos -> Lines] /\ line'[p] = what /\ \A q \in Photos \ {p} : line'[q] = line[q]
    BY <1>0, <1>1 DEF Photo!Tell
  <2> QED
    BY <1>0, <1>1, <2>1
<1>3. ASSUME NEW p \in Photos, Photo!Enqueue(p)
      PROVE  line' \in [Photos -> Lines] /\ queue' \subseteq Photos /\ full' \in BOOLEAN
             /\ (onServer \subseteq onServer' => Told)
  <2>1. queue \subseteq queue' /\ queue' \subseteq Photos /\ (full => full') /\ full' \in BOOLEAN
        /\ (~full' => p \in queue') /\ Photo!Tell(p, "queued")
    <3>1. CASE queue' = queue \cup {p} /\ UNCHANGED full
      BY <1>0, <1>3, <3>1 DEF Photo!Enqueue
    <3>2. CASE full' = TRUE /\ UNCHANGED queue
      BY <1>0, <1>3, <3>2 DEF Photo!Enqueue
    <3> QED
      BY <1>3, <3>1, <3>2 DEF Photo!Enqueue
  <2>2. line' \in [Photos -> Lines]
    BY <1>0, <2>1 DEF Photo!Tell
  <2> QED
    BY <1>1, <2>1, <2>2
<1>4. ASSUME NEW p \in Photos, Photo!Upload(p) PROVE Good
  <2>1. presses < MaxPresses /\ presses' = presses + 1 /\ UNCHANGED <<onLine, onServer>>
    BY <1>4 DEF Photo!Upload
  <2>2. CASE Photo!Enqueue(p) /\ UNCHANGED awaiting
    <3>1. Fits
      BY <1>0, <2>1, <2>2
    <3> HIDE DEF Fits, Told
    <3> QED
      BY <1>0, <1>3, <2>1, <2>2, <3>1
  <2>3. CASE /\ Photo!Tell(p, "uploading") /\ UNCHANGED <<queue, full>>
             /\ awaiting' = [awaiting EXCEPT ![p] = @ + 1]
    <3>1. Fits
      BY <1>0, <2>1, <2>3
    <3>2. line' \in [Photos -> Lines] /\ Told
      BY <1>1, <2>1, <2>3
    <3> HIDE DEF Fits, Told
    <3> QED
      BY <1>0, <2>1, <2>3, <3>1, <3>2
  <2> QED
    BY <1>4, <2>2, <2>3 DEF Photo!Upload
<1>5. ASSUME NEW p \in Photos, Photo!Saved(p) \/ Photo!Conflict(p) PROVE Good
  <2>1. Photo!Ends(p) /\ UNCHANGED <<onLine, queue, presses, full>> /\ onServer \subseteq onServer'
        /\ onServer' \subseteq Photos /\ p \in onServer'
        /\ (Photo!Tell(p, "saved") \/ Photo!Tell(p, "conflict"))
    BY <1>0, <1>5 DEF Photo!Saved, Photo!Conflict
  <2>2. Fits
    BY <1>0, <2>1, Ended
  <2>3. line' \in [Photos -> Lines] /\ Told
    BY <1>1, <2>1
  <2> HIDE DEF Fits, Told
  <2> QED
    BY <1>0, <2>1, <2>2, <2>3
<1>6. ASSUME NEW p \in Photos, NEW done, Photo!NotOk(p, done) PROVE Good
  <2>1. Photo!Ends(p) /\ Photo!Enqueue(p) /\ UNCHANGED <<onLine, presses>>
        /\ onServer \subseteq onServer' /\ onServer' \subseteq Photos
    BY <1>0, <1>6 DEF Photo!NotOk
  <2>2. Fits
    BY <1>0, <2>1, Ended
  <2> HIDE DEF Fits, Told
  <2> QED
    BY <1>0, <1>3, <2>1, <2>2
<1>7. ASSUME NEW p \in Photos, NEW done, Photo!Rejected(p, done) PROVE Good
  <2>1. Photo!Ends(p) /\ UNCHANGED <<onLine, line, queue, presses, full>>
        /\ onServer \subseteq onServer' /\ onServer' \subseteq Photos
    BY <1>0, <1>7 DEF Photo!Rejected
  <2>2. Fits
    BY <1>0, <2>1, Ended
  <2>3. Told
    BY <1>0, <2>1
  <2> HIDE DEF Fits, Told
  <2> QED
    BY <1>0, <2>1, <2>2, <2>3
<1> HIDE DEF Good
<1>9. Good
  <2>1. CASE Photo!NetworkChanges
    BY <1>0, <2>1 DEF Photo!NetworkChanges, Good
  <2>2. CASE UNCHANGED photos
    BY <1>0, <2>2 DEF photos, Good
  <2> QED
    BY <1>4, <1>5, <1>6, <1>7, <2>1, <2>2 DEF Photo!PhotoNext
<1> QED
  BY <1>9 DEF Good, PhotoInv, Photo!PhotoTypeOK, Photo!ToldIsKept

LEMMA PhotoInvariance == ClientSpec => []PhotoInv
<1>1. ClientInit => PhotoInv
  <2> SUFFICES ASSUME ClientInit PROVE PhotoInv
    OBVIOUS
  <2>1. /\ onLine \in BOOLEAN /\ queue = {} /\ onServer = {} /\ presses = 0 /\ full = FALSE
        /\ awaiting = [p \in Photos |-> 0] /\ line = [p \in Photos |-> "none"] /\ MaxPresses \in Nat
    BY ClientAssumption DEF ClientInit, Photo!PhotoInit, Photo!PhotoAssumption
  <2>2. awaiting \in [Photos -> 0..MaxPresses] /\ \A p \in Photos : awaiting[p] <= presses
    BY <2>1
  <2>3. Photo!ToldIsKept
    BY <2>1 DEF Photo!ToldIsKept
  <2>4. line \in [Photos -> {"none", "uploading", "queued", "conflict", "saved"}]
    BY <2>1
  <2>a. presses \in 0..MaxPresses
    BY <2>1
  <2>5. full \in BOOLEAN /\ queue \subseteq Photos /\ onServer \subseteq Photos
    BY <2>1, Zenon
  <2>6. Photo!PhotoTypeOK
    BY <2>1, <2>2, <2>4, <2>5, <2>a DEF Photo!PhotoTypeOK
  <2> QED
    BY <2>2, <2>3, <2>6 DEF PhotoInv
<1>2. PhotoInv /\ [ClientNext]_<<desk, vars, photos, models>> => PhotoInv'
  BY PhotoStep DEF ClientNext
<1> QED
  BY <1>1, <1>2, PTL DEF ClientSpec

\* What the user was told of a photo last is true whatever became of the other requests for it:
\* nothing that was told is ever only in a request under way.
THEOREM ToldIsKeptAlways == ClientSpec => []ToldIsKept
<1>1. PhotoInv => ToldIsKept
  BY DEF PhotoInv, ToldIsKept
<1> QED
  BY <1>1, PhotoInvariance, PTL

-----------------------------------------------------------------------------
(***************************************************************************)
(* The cache of models.                                                    *)
(***************************************************************************)
Entry == [state : {"absent", "downloading", "complete", "failed"},
          receivedBytes : 0..MaxBytes, totalBytes : Totals \cup {Unknown}]

\* While everything was stored and nothing came in late, storage has what the memory has, and
\* a download is under way exactly where an entry says so, as far as it says.
Stored == ~refused => saved = entries

UnderWay ==
    ~refused /\ ~late => \A m \in Models :
        reached[m] = IF entries[m].state = "downloading" THEN entries[m].receivedBytes ELSE -1

CacheInv == Cache!CacheTypeOK /\ Stored /\ UnderWay

LEMMA CacheFits ==
    ASSUME CacheInv
    PROVE  /\ entries \in [Models -> Entry] /\ saved \in [Models -> Entry]
           /\ reached \in [Models -> -1..MaxBytes] /\ starts \in 0..MaxReloads
           /\ refused \in BOOLEAN /\ late \in BOOLEAN
           /\ MaxBytes \in Nat /\ MaxReloads \in Nat /\ Totals \subseteq 0..MaxBytes
BY ClientAssumption DEF CacheInv, Cache!CacheTypeOK, Entry, Cache!CacheAssumption

\* One entry is replaced and the list is stored, or is not.
LEMMA PutKeeps ==
    ASSUME CacheInv, NEW m \in Models, NEW e \in Entry, Cache!Put(m, e), UNCHANGED starts,
           NEW b \in -1..MaxBytes, reached' = [reached EXCEPT ![m] = b],
           late' \in BOOLEAN, late => late',
           ~refused' /\ ~late' => b = IF e.state = "downloading" THEN e.receivedBytes ELSE -1
    PROVE  CacheInv'
<1> USE CacheFits
<1> HIDE DEF Entry
<1>1. entries' = [entries EXCEPT ![m] = e] /\ Cache!Persist
  BY DEF Cache!Put
<1>2. entries' \in [Models -> Entry] /\ entries'[m] = e /\ \A n \in Models \ {m} : entries'[n] = entries[n]
  BY <1>1
<1>3. reached' \in [Models -> -1..MaxBytes] /\ reached'[m] = b
      /\ \A n \in Models \ {m} : reached'[n] = reached[n]
  OBVIOUS
<1>4. \/ saved' = entries' /\ refused' = refused
      \/ refused' = TRUE /\ saved' = saved
  BY <1>1 DEF Cache!Persist
<1>5. saved' \in [Models -> Entry] /\ refused' \in BOOLEAN /\ Stored' /\ (refused => refused')
  BY <1>2, <1>4 DEF Stored
<1>6. UnderWay'
  <2> SUFFICES ASSUME ~refused', ~late', NEW n \in Models
               PROVE  reached'[n] = IF entries'[n].state = "downloading" THEN entries'[n].receivedBytes ELSE -1
    BY DEF UnderWay
  <2>1. CASE n = m
    BY <1>2, <1>3, <2>1
  <2>2. CASE n # m
    BY <1>2, <1>3, <1>5, <2>2 DEF CacheInv, UnderWay
  <2> QED
    BY <2>1, <2>2
<1>7. Cache!CacheTypeOK'
  BY <1>2, <1>3, <1>5 DEF Cache!CacheTypeOK, Entry
<1> QED
  BY <1>5, <1>6, <1>7 DEF CacheInv

LEMMA CacheStep == ASSUME CacheInv, [Cache!CacheNext]_models PROVE CacheInv'
<1> USE CacheFits
<1>1. ASSUME NEW m \in Models PROVE entries[m] \in Entry /\ reached[m] \in -1..MaxBytes
  OBVIOUS
<1>2. ASSUME NEW m \in Models, NEW t \in Totals \cup {Unknown}, Cache!StartDownload(m, t) PROVE CacheInv'
  <2> DEFINE e == [state |-> "downloading", totalBytes |-> t,
                   receivedBytes |-> IF entries[m].state = "downloading" THEN entries[m].receivedBytes ELSE 0]
             b == IF reached[m] = -1 THEN 0 ELSE reached[m]
  <2>1. Cache!Put(m, e) /\ UNCHANGED <<starts, late>> /\ reached' = [reached EXCEPT ![m] = b]
    BY <1>2 DEF Cache!StartDownload
  <2>2. e \in Entry /\ b \in -1..MaxBytes /\ e.state = "downloading"
    BY <1>1 DEF Entry
  <2>3. ~refused' /\ ~late' => b = e.receivedBytes
    <3>1. refused => refused'
      BY <2>1 DEF Cache!Put, Cache!Persist
    <3>2. entries[m].receivedBytes \in 0..MaxBytes
      BY <1>1 DEF Entry
    <3> QED
      BY <2>1, <3>1, <3>2 DEF CacheInv, UnderWay
  <2> HIDE DEF e, b
  <2> QED
    BY <2>1, <2>2, <2>3, PutKeeps
<1>3. ASSUME NEW m \in Models, NEW bytes \in 0..MaxBytes, Cache!RecordProgress(m, bytes) PROVE CacheInv'
  <2> DEFINE old == entries[m]
             ends == old.totalBytes # Unknown /\ bytes >= old.totalBytes
             e == [old EXCEPT !.state = IF ends THEN "complete" ELSE "downloading",
                              !.receivedBytes = IF ends THEN old.totalBytes ELSE bytes]
             b == IF ends THEN -1 ELSE IF reached[m] = -1 THEN reached[m] ELSE bytes
  <2>1. /\ Cache!Put(m, e) /\ UNCHANGED starts /\ reached' = [reached EXCEPT ![m] = b]
        /\ old.state \notin {"absent", "complete"} /\ late' = (late \/ old.state = "failed")
    BY <1>3 DEF Cache!RecordProgress
  <2>2. old \in Entry
    BY <1>1
  <2>3. e \in Entry /\ b \in -1..MaxBytes /\ e.state = (IF ends THEN "complete" ELSE "downloading")
        /\ e.receivedBytes = IF ends THEN old.totalBytes ELSE bytes
    <3>1. ends => old.totalBytes \in 0..MaxBytes
      BY <2>2 DEF Entry
    <3> HIDE DEF ends
    <3>2. e.state = IF ends THEN "complete" ELSE "downloading"
      BY <2>2 DEF Entry
    <3>3. e.receivedBytes = IF ends THEN old.totalBytes ELSE bytes
      BY <2>2 DEF Entry
    <3>4. e \in Entry
      BY <2>2, <3>1 DEF Entry
    <3>5. b \in -1..MaxBytes
      BY <1>1
    <3> HIDE DEF e, b
    <3> QED
      BY <3>2, <3>3, <3>4, <3>5
  <2>4. ASSUME ~refused', ~late' PROVE b = IF e.state = "downloading" THEN e.receivedBytes ELSE -1
    <3>1. refused => refused'
      BY <2>1 DEF Cache!Put, Cache!Persist
    <3>2. ~refused /\ ~late /\ old.state = "downloading"
      BY <2>1, <2>2, <2>4, <3>1 DEF Entry
    <3>3. reached[m] = old.receivedBytes /\ old.receivedBytes \in 0..MaxBytes
      BY <2>2, <3>2 DEF CacheInv, UnderWay, Entry
    <3>4. reached[m] # -1
      BY <3>3
    <3> HIDE DEF ends
    <3>5. b = IF ends THEN -1 ELSE bytes
      BY <3>4
    <3> HIDE DEF e, old, b
    <3> QED
      BY <2>3, <3>5
  <2>5. late' \in BOOLEAN /\ (late => late')
    BY <2>1
  <2> HIDE DEF e, b, old, ends
  <2> QED
    BY <2>1, <2>3, <2>4, <2>5, PutKeeps
<1>4. ASSUME NEW m \in Models, NEW t \in Totals \cup {Unknown}, Cache!Complete(m, t) PROVE CacheInv'
  <2> DEFINE e == [state |-> "complete", totalBytes |-> t,
                   receivedBytes |-> IF t # Unknown THEN t ELSE entries[m].receivedBytes]
  <2>1. Cache!Put(m, e) /\ UNCHANGED <<starts, late>> /\ reached' = [reached EXCEPT ![m] = -1]
    BY <1>4 DEF Cache!Complete
  <2>2. e \in Entry /\ -1 \in -1..MaxBytes /\ e.state # "downloading"
    BY <1>1 DEF Entry
  <2> HIDE DEF e
  <2> QED
    BY <2>1, <2>2, PutKeeps
<1>5. ASSUME NEW m \in Models, Cache!Fail(m) PROVE CacheInv'
  <2> DEFINE e == [entries[m] EXCEPT !.state = "failed"]
  <2>1. Cache!Put(m, e) /\ UNCHANGED <<starts, late>> /\ reached' = [reached EXCEPT ![m] = -1]
    BY <1>5 DEF Cache!Fail
  <2>2. e \in Entry /\ -1 \in -1..MaxBytes /\ e.state # "downloading"
    BY <1>1 DEF Entry
  <2> HIDE DEF e
  <2> QED
    BY <2>1, <2>2, PutKeeps
<1>6. ASSUME NEW m \in Models, Cache!Evict(m) PROVE CacheInv'
  <2>1. Cache!Put(m, Cache!Absent) /\ UNCHANGED <<starts, late>> /\ reached' = [reached EXCEPT ![m] = -1]
    BY <1>6 DEF Cache!Evict
  <2>2. Cache!Absent \in Entry /\ -1 \in -1..MaxBytes /\ Cache!Absent.state # "downloading"
    BY DEF Entry, Cache!Absent
  <2> QED
    BY <2>1, <2>2, PutKeeps
<1>7. CASE Cache!Reload
  <2>1. starts' \in 0..MaxReloads /\ UNCHANGED <<refused, late>>
    BY <1>7 DEF Cache!Reload
  <2>2. CASE entries' = saved /\ UNCHANGED <<saved, reached>>
    BY <2>1, <2>2 DEF CacheInv, Stored, UnderWay, Cache!CacheTypeOK, Entry
  <2>3. CASE /\ entries' = [m \in Models |-> Cache!Absent] /\ saved' = entries'
             /\ reached' = [m \in Models |-> -1]
    <3>1. Cache!Absent \in Entry /\ Cache!Absent.state # "downloading"
      BY DEF Entry, Cache!Absent
    <3>2. entries' \in [Models -> Entry] /\ reached' \in [Models -> -1..MaxBytes]
      BY <2>3, <3>1
    <3> QED
      BY <2>1, <2>3, <3>1, <3>2 DEF CacheInv, Stored, UnderWay, Cache!CacheTypeOK, Entry
  <2> QED
    BY <1>7, <2>2, <2>3 DEF Cache!Reload
<1>8. CASE UNCHANGED models
  BY <1>8 DEF models, CacheInv, Stored, UnderWay, Cache!CacheTypeOK
<1> QED
  BY <1>2, <1>3, <1>4, <1>5, <1>6, <1>7, <1>8 DEF Cache!CacheNext

LEMMA CacheInvariance == ClientSpec => []CacheInv
<1>1. ClientInit => CacheInv
  <2>1. Cache!Absent \in Entry /\ Cache!Absent.state # "downloading"
    BY ClientAssumption DEF Entry, Cache!Absent, Cache!CacheAssumption
  <2> SUFFICES ASSUME ClientInit PROVE CacheInv
    OBVIOUS
  <2>2. /\ entries = [m \in Models |-> Cache!Absent] /\ saved = entries
        /\ reached = [m \in Models |-> -1] /\ starts = 0 /\ refused = FALSE /\ late = FALSE
        /\ MaxBytes \in Nat /\ MaxReloads \in Nat
    BY ClientAssumption DEF ClientInit, Cache!CacheInit, Cache!CacheAssumption
  <2> HIDE DEF Entry
  <2>3. entries \in [Models -> Entry] /\ reached \in [Models -> -1..MaxBytes]
    BY <2>1, <2>2
  <2>4. \A m \in Models : reached[m] = -1 /\ entries[m].state # "downloading"
    BY <2>1, <2>2
  <2>5. saved = entries /\ refused \in BOOLEAN /\ late \in BOOLEAN
    BY <2>2, Zenon
  <2>a. starts \in 0..MaxReloads
    BY <2>2
  <2>6. Cache!CacheTypeOK
    BY <2>3, <2>5, <2>a DEF Cache!CacheTypeOK, Entry
  <2>7. Stored /\ UnderWay
    BY <2>4, <2>5 DEF Stored, UnderWay
  <2> QED
    BY <2>6, <2>7 DEF CacheInv
<1>2. CacheInv /\ [ClientNext]_<<desk, vars, photos, models>> => CacheInv'
  BY CacheStep DEF ClientNext
<1> QED
  BY <1>1, <1>2, PTL DEF ClientSpec

\* A download goes on where it stopped, over reloads of the page, and one that failed or is whole
\* starts from zero, unless storing threw or progress came in after a failure.
THEOREM ResumesWhereItStoppedAlways == ClientSpec => []ResumesWhereItStopped
<1>1. ASSUME CacheInv PROVE ResumesWhereItStopped
  <2> SUFFICES ASSUME ~refused, ~late, NEW m \in Models
               PROVE  LET whole == entries[m].totalBytes # Unknown /\ reached[m] >= entries[m].totalBytes IN
                      Cache!ResumeOffset(m) = IF reached[m] = -1 \/ whole THEN 0 ELSE reached[m]
    BY DEF ResumesWhereItStopped, Cache!ResumesWhereItStopped
  <2>1. entries[m] \in Entry /\ Totals \subseteq Nat
    BY <1>1, CacheFits
  <2>2. reached[m] = IF entries[m].state = "downloading" THEN entries[m].receivedBytes ELSE -1
    BY <1>1 DEF CacheInv, UnderWay
  <2> DEFINE e == entries[m]
             whole == e.totalBytes # Unknown /\ reached[m] >= e.totalBytes
  <2>3. e.receivedBytes \in Nat /\ (e.totalBytes # Unknown => e.totalBytes \in Nat)
    <3>1. MaxBytes \in Nat
      BY <1>1, CacheFits
    <3>2. e.receivedBytes \in 0..MaxBytes /\ e.totalBytes \in Totals \cup {Unknown}
      BY <2>1 DEF Entry
    <3> HIDE DEF e
    <3>3. e.receivedBytes \in Nat
      BY <3>1, <3>2
    <3>4. e.totalBytes # Unknown => e.totalBytes \in Totals
      BY <3>2, Zenon
    <3> QED
      BY <2>1, <3>3, <3>4, Zenon
  <2>4. Cache!ResumeOffset(m) = IF Cache!CanResume(e) THEN e.receivedBytes ELSE 0
    BY DEF Cache!ResumeOffset
  <2>5. Cache!CanResume(e) <=> e.state = "downloading" /\ (e.totalBytes = Unknown \/ e.receivedBytes < e.totalBytes)
    BY DEF Cache!CanResume
  <2>6. CASE e.state # "downloading"
    BY <2>2, <2>4, <2>5, <2>6
  <2>7. CASE e.state = "downloading" /\ e.totalBytes = Unknown
    BY <2>2, <2>3, <2>4, <2>5, <2>7
  <2>8. CASE e.state = "downloading" /\ e.totalBytes # Unknown
    <3>1. reached[m] = e.receivedBytes /\ (e.receivedBytes < e.totalBytes <=> ~whole)
      BY <2>2, <2>3, <2>8
    <3> HIDE DEF whole
    <3>2. reached[m] # -1
      BY <2>3, <3>1
    <3>3. Cache!ResumeOffset(m) = IF reached[m] = -1 \/ whole THEN 0 ELSE reached[m]
      BY <2>4, <2>5, <2>8, <3>1, <3>2
    <3> QED
      BY <3>3 DEF whole
  <2> QED
    BY <2>6, <2>7, <2>8
<1> QED
  BY <1>1, CacheInvariance, PTL

\* Everything the browser keeps has its type.
THEOREM ClientTypeCorrect == ClientSpec => []ClientTypeOK
<1>1. Inv /\ ReloadsFit => TypeOK
  BY DEF Inv, Types, ReloadsFit, TypeOK
<1>2. PhotoInv => Photo!PhotoTypeOK
  BY DEF PhotoInv
<1>3. CacheInv => Cache!CacheTypeOK
  BY DEF CacheInv
<1>4. TypeOK /\ Photo!PhotoTypeOK /\ Cache!CacheTypeOK => ClientTypeOK
  BY DEF ClientTypeOK
<1> QED
  BY <1>1, <1>2, <1>3, <1>4, Invariance, ReloadsBounded, PhotoInvariance, CacheInvariance,
     ClientImplementsQueue, PTL
=============================================================================
