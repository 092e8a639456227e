----------------------------- MODULE ReachProofs -----------------------------
(***************************************************************************)
(* Whose credentials are believed or used, for any number of keys, lookups,*)
(* fire-fighters and consents, and any cache floor, memory and patience.   *)
(***************************************************************************)
EXTENDS MCReach, SequenceTheorems, WellFoundedInduction, TLAPS

-----------------------------------------------------------------------------
(* The keys of Access.                                                     *)

Documents == [keys : SUBSET Kids, at : Times]
Refusals == [kid : Kids, until : Nat]
LookupStates ==
  [stage : {"idle", "waiting", "accepted", "unknown", "failed"}, kid : Kids \cup {Null},
   start : Times \cup {Null}, last : BOOLEAN]

\* Who asked for a key has a key id, and who waits knows since when.
KeysTyped ==
  /\ now \in Times
  /\ born \in [Kids -> 0..now \cup {Null}] /\ gone \in [Kids -> 0..now \cup {Null}]
  /\ cache = Null \/ cache \in Documents
  /\ load = Null \/ load \in Loads
  /\ resumed \in Seq(Lookups) /\ unknown \in Seq(Refusals)
  /\ lookup \in [Lookups -> LookupStates]
  /\ \A c \in Lookups :
       /\ lookup[c].stage # "idle" => lookup[c].kid \in Kids
       /\ lookup[c].stage = "waiting" => lookup[c].start \in 0..now

\* The document was the published one at some moment from lo to hi.
DocumentAt(keys, t) ==
  \A k \in Kids : IF k \in keys THEN WasPublished(k, t) ELSE WasAbsent(k, t)
DocumentOf(keys, lo, hi) == \E t \in lo..hi : DocumentAt(keys, t)
AbsentIn(kid, lo, hi) == \E t \in lo..hi : WasAbsent(kid, t)

CacheInv ==
  cache # Null => cache.at <= now /\ DocumentOf(cache.keys, cache.at - Patience, cache.at)

\* Who waits, and for what: the load under way or the one that has just arrived, once.
Among(q, c) == \E i \in DOMAIN q : q[i] = c
Once(q) == \A i, j \in DOMAIN q : q[i] = q[j] => i = j
Waits == IF load = Null THEN <<>> ELSE load.waiters

QueueInv ==
  /\ Once(resumed) /\ Once(Waits)
  /\ \A c \in Lookups :
       /\ ~(Among(resumed, c) /\ Among(Waits, c))
       /\ lookup[c].stage = "waiting" <=> Among(resumed, c) \/ Among(Waits, c)

\* A load is not older than Patience, and neither was it when a lookup joined it.
LoadInv ==
  load # Null =>
    /\ load.start <= now /\ now - load.start <= Patience
    /\ load.read # Null => DocumentOf(load.read, load.start, now)
    /\ \A c \in Lookups : Among(load.waiters, c) => lookup[c].start - Patience <= load.start

\* What has just arrived answers those who go on with it.
ResumedInv ==
  resumed # <<>> =>
    /\ cache \in Documents /\ DocumentOf(cache.keys, now - Patience, now)
    /\ \A c \in Lookups :
         Among(resumed, c) => DocumentOf(cache.keys, lookup[c].start - Patience, now)

\* One entry for each kid that is remembered, which was absent when it was looked for.
MemoryInv ==
  /\ Len(unknown) <= MaxUnknown
  /\ \A i, j \in DOMAIN unknown : unknown[i].kid = unknown[j].kid => i = j
  /\ \A i \in DOMAIN unknown : AbsentIn(unknown[i].kid, unknown[i].until - Ttl - Patience, now)

\* What the two promises about verdicts say of one lookup.
VerdictStands(c) ==
  /\ lookup[c].stage = "accepted" =>
       \E t \in (now - Floor - Patience + 1)..now : WasPublished(lookup[c].kid, t)
  /\ lookup[c].stage = "unknown" => AbsentIn(lookup[c].kid, now - Ttl - Patience + 1, now)

KeysInv ==
  /\ KeysTyped /\ QueueInv /\ CacheInv /\ LoadInv /\ ResumedInv /\ MemoryInv
  /\ \A c \in Lookups : VerdictStands(c)

-----------------------------------------------------------------------------
(* What was is so for good.                                                *)

LEMMA Parameters ==
  /\ Floor \in Nat \ {0} /\ Ttl \in Nat \ {0} /\ MaxUnknown \in Nat \ {0}
  /\ Patience \in Nat /\ Watched \in Nat /\ Null \notin Nat /\ Issued \subseteq Kids
  /\ Null \notin Loads
BY KeysAssumption

LEMMA PastKept ==
  ASSUME KeysTyped, KeysNext,
         NEW k \in Kids, NEW t \in Int, t <= now
  PROVE  /\ WasPublished(k, t) => WasPublished(k, t)'
         /\ WasAbsent(k, t) => WasAbsent(k, t)'
<1>1. CASE Publish
  BY <1>1, Parameters DEF Publish, KeysTyped, Times, WasPublished, WasAbsent
<1>2. CASE Retire
  BY <1>2, Parameters DEF Retire, KeysTyped, Times, WasPublished, WasAbsent
<1>3. CASE UNCHANGED <<born, gone>>
  BY <1>3 DEF WasPublished, WasAbsent
<1> QED BY <1>1, <1>2, <1>3 DEF KeysNext, GoOn, TimePasses, Ask, ReadDocument, Arrive, LoadFails

LEMMA DocumentKept ==
  ASSUME KeysTyped, KeysNext,
         NEW keys, NEW lo \in Int, NEW hi \in Int, hi <= now, DocumentOf(keys, lo, hi)
  PROVE  \E t \in lo..hi :
           \A k \in Kids : IF k \in keys THEN WasPublished(k, t)' ELSE WasAbsent(k, t)'
<1>1. PICK t \in lo..hi : DocumentAt(keys, t)
  BY DEF DocumentOf
<1>2. t \in Int /\ t <= now
  BY DEF KeysTyped, Times
<1>3. \A k \in Kids :
        (WasPublished(k, t) => WasPublished(k, t)') /\ (WasAbsent(k, t) => WasAbsent(k, t)')
  BY <1>2, PastKept
<1>4. \A k \in Kids : IF k \in keys THEN WasPublished(k, t)' ELSE WasAbsent(k, t)'
  BY <1>1, <1>3 DEF DocumentAt
<1> QED BY <1>4

LEMMA AbsenceKept ==
  ASSUME KeysTyped, KeysNext,
         NEW k \in Kids, NEW lo \in Int, NEW hi \in Int, hi <= now, AbsentIn(k, lo, hi)
  PROVE  \E t \in lo..hi : WasAbsent(k, t)'
<1>1. PICK t \in lo..hi : WasAbsent(k, t)
  BY DEF AbsentIn
<1>2. t \in Int /\ t <= now
  BY DEF KeysTyped, Times
<1>3. WasAbsent(k, t)'
  BY <1>1, <1>2, PastKept
<1> QED BY <1>3

-----------------------------------------------------------------------------
(* The memory of unknown kids.                                             *)

LEMMA WithoutEffect ==
  ASSUME unknown \in Seq(Refusals), NEW i \in DOMAIN unknown
  PROVE  /\ Without(i) \in Seq(Refusals) /\ Len(Without(i)) = Len(unknown) - 1
         /\ \A j \in DOMAIN Without(i) :
              /\ j \in DOMAIN unknown /\ j + 1 \in DOMAIN unknown
              /\ Without(i)[j] = IF j < i THEN unknown[j] ELSE unknown[j + 1]
<1> DEFINE n == Len(unknown)
           front == SubSeq(unknown, 1, i - 1)
           back == SubSeq(unknown, i + 1, n)
<1>1. /\ n \in Nat /\ i \in 1..n /\ DOMAIN unknown = 1..n
      /\ \A j \in 1..n : unknown[j] \in Refusals
  BY LenProperties, ElementOfSeq
<1>2. /\ front \in Seq(Refusals) /\ Len(front) = i - 1
      /\ \A j \in 1..(i - 1) : front[j] = unknown[j]
  <2>1. \A j \in 1..(i - 1) : unknown[j] \in Refusals
    BY <1>1
  <2>2. 1 \in Int /\ i - 1 \in Int
    BY <1>1
  <2> QED BY <1>1, <2>1, <2>2, SubSeqProperties
<1>3. /\ back \in Seq(Refusals) /\ Len(back) = n - i
      /\ \A j \in 1..(n - i) : back[j] = unknown[i + j]
  <2>1. \A j \in (i + 1)..n : unknown[j] \in Refusals
    BY <1>1
  <2>2. i + 1 \in Int /\ n \in Int
    BY <1>1
  <2>3. /\ back \in Seq(Refusals) /\ Len(back) = IF i + 1 <= n THEN n - (i + 1) + 1 ELSE 0
        /\ \A j \in 1..(n - (i + 1) + 1) : back[j] = unknown[(i + 1) + j - 1]
    BY <2>1, <2>2, SubSeqProperties
  <2>4. /\ n - (i + 1) + 1 = n - i /\ (~(i + 1 <= n) => n - i = 0)
        /\ \A j \in 1..(n - i) : (i + 1) + j - 1 = i + j
    BY <1>1
  <2> HIDE DEF back, n
  <2> QED BY <2>3, <2>4
<1> HIDE DEF front, back, n
<1>4. /\ front \o back \in Seq(Refusals) /\ Len(front \o back) = n - 1
      /\ \A j \in 1..(n - 1) : (front \o back)[j] = IF j < i THEN front[j] ELSE back[j - (i - 1)]
  <2>1. /\ front \o back \in Seq(Refusals) /\ Len(front \o back) = Len(front) + Len(back)
        /\ \A j \in 1..(Len(front) + Len(back)) :
             (front \o back)[j] = IF j <= Len(front) THEN front[j] ELSE back[j - Len(front)]
    BY <1>2, <1>3, ConcatProperties
  <2>2. Len(front) = i - 1 /\ Len(front) + Len(back) = n - 1
    BY <1>1, <1>2, <1>3
  <2>3. \A j \in 1..(n - 1) : j < i <=> j <= i - 1
    BY <1>1
  <2> QED BY <2>1, <2>2, <2>3
<1>5. DOMAIN (front \o back) = 1..(n - 1)
  BY <1>4, LenProperties
<1>6. ASSUME NEW j \in 1..(n - 1)
      PROVE  /\ j \in DOMAIN unknown /\ j + 1 \in DOMAIN unknown
             /\ (front \o back)[j] = IF j < i THEN unknown[j] ELSE unknown[j + 1]
  <2>1. CASE j < i
    BY <1>1, <1>2, <1>4, <2>1
  <2>2. CASE ~(j < i)
    <3>1. j - (i - 1) \in 1..(n - i) /\ i + (j - (i - 1)) = j + 1
      BY <1>1, <2>2
    <3>2. (front \o back)[j] = back[j - (i - 1)] /\ back[j - (i - 1)] = unknown[j + 1]
      BY <1>3, <1>4, <2>2, <3>1
    <3>3. j \in 1..n /\ j + 1 \in 1..n
      BY <1>1
    <3> QED BY <1>1, <2>2, <3>2, <3>3
  <2> QED BY <2>1, <2>2
<1>7. Without(i) = front \o back /\ Len(unknown) = n
  BY DEF Without, front, back, n
<1> QED BY <1>4, <1>5, <1>6, <1>7

\* What is forgotten or remembered leaves a memory of its size, and nothing new but the entry.
LEMMA ForgetEffect ==
  ASSUME KeysTyped, MemoryInv, NEW kid \in Kids, Forget(kid)
  PROVE  /\ unknown' \in Seq(Refusals) /\ Len(unknown') <= MaxUnknown
         /\ \A i, j \in DOMAIN unknown' : unknown'[i].kid = unknown'[j].kid => i = j
         /\ \A i \in DOMAIN unknown' : \E j \in DOMAIN unknown : unknown'[i] = unknown[j]
<1>1. CASE UNCHANGED unknown
  BY <1>1 DEF KeysTyped, MemoryInv
<1>2. ASSUME NEW d \in DOMAIN unknown, unknown' = Without(d)
      PROVE  /\ unknown' \in Seq(Refusals) /\ Len(unknown') <= MaxUnknown
             /\ \A i, j \in DOMAIN unknown' : unknown'[i].kid = unknown'[j].kid => i = j
             /\ \A i \in DOMAIN unknown' : \E j \in DOMAIN unknown : unknown'[i] = unknown[j]
  <2>1. /\ Len(unknown) \in Nat /\ DOMAIN unknown = 1..Len(unknown) /\ Len(unknown) <= MaxUnknown
        /\ \A i, j \in DOMAIN unknown : unknown[i].kid = unknown[j].kid => i = j
    BY LenProperties DEF KeysTyped, MemoryInv
  <2>2. /\ unknown' \in Seq(Refusals) /\ Len(unknown') = Len(unknown) - 1
        /\ \A j \in DOMAIN unknown' :
             /\ j \in DOMAIN unknown /\ j + 1 \in DOMAIN unknown
             /\ unknown'[j] = IF j < d THEN unknown[j] ELSE unknown[j + 1]
    BY <1>2, WithoutEffect DEF KeysTyped
  <2>3. ASSUME NEW i \in DOMAIN unknown', NEW j \in DOMAIN unknown', unknown'[i].kid = unknown'[j].kid
        PROVE  i = j
    <3>1. i \in Nat /\ j \in Nat /\ d \in Nat
      BY <2>1, <2>2
    <3>2. CASE i < d /\ j < d
      BY <2>1, <2>2, <2>3, <3>2
    <3>3. CASE ~(i < d) /\ ~(j < d)
      <4>1. i + 1 = j + 1
        BY <2>1, <2>2, <2>3, <3>3
      <4> QED BY <3>1, <4>1
    <3>4. CASE i < d /\ ~(j < d)
      <4>1. i = j + 1
        BY <2>1, <2>2, <2>3, <3>4
      <4> QED BY <3>1, <3>4, <4>1
    <3>5. CASE ~(i < d) /\ j < d
      <4>1. i + 1 = j
        BY <2>1, <2>2, <2>3, <3>5
      <4> QED BY <3>1, <3>5, <4>1
    <3> QED BY <3>2, <3>3, <3>4, <3>5
  <2> QED BY <2>1, <2>2, <2>3, Parameters
<1> QED BY <1>1, <1>2 DEF Forget, Remembered

LEMMA RememberEffect ==
  ASSUME KeysTyped, MemoryInv, NEW entry \in Refusals, Remember(entry)
  PROVE  /\ unknown' \in Seq(Refusals) /\ Len(unknown') <= MaxUnknown
         /\ \A i, j \in DOMAIN unknown' : unknown'[i].kid = unknown'[j].kid => i = j
         /\ \A i \in DOMAIN unknown' :
              unknown'[i] = entry \/ \E j \in DOMAIN unknown : unknown'[i] = unknown[j]
<1> DEFINE room == IF Len(unknown) >= MaxUnknown THEN Tail(unknown) ELSE unknown
           n == Len(room)
<1>1. /\ Len(unknown) \in Nat /\ DOMAIN unknown = 1..Len(unknown) /\ Len(unknown) <= MaxUnknown
      /\ unknown \in Seq(Refusals)
      /\ \A i, j \in DOMAIN unknown : unknown[i].kid = unknown[j].kid => i = j
  BY LenProperties DEF KeysTyped, MemoryInv
<1>2. /\ room \in Seq(Refusals) /\ n < MaxUnknown
      /\ \A i, j \in 1..n : room[i].kid = room[j].kid => i = j
      /\ \A i \in 1..n : \E j \in DOMAIN unknown : room[i] = unknown[j]
  <2>1. CASE Len(unknown) >= MaxUnknown
    <3>1. unknown # <<>> /\ room = Tail(unknown)
      BY <1>1, <2>1, Parameters, EmptySeq
    <3>2. /\ room \in Seq(Refusals) /\ n = Len(unknown) - 1
          /\ \A i \in 1..n : room[i] = unknown[i + 1]
      BY <1>1, <3>1, HeadTailProperties
    <3> HIDE DEF room
    <3>3. \A i \in 1..n : i + 1 \in DOMAIN unknown /\ room[i] = unknown[i + 1]
      BY <1>1, <3>2
    <3>4. ASSUME NEW i \in 1..n, NEW j \in 1..n, room[i].kid = room[j].kid
          PROVE  i = j
      <4>1. \A k, l \in DOMAIN unknown : unknown[k].kid = unknown[l].kid => k = l
        BY <1>1
      <4>2. i + 1 = j + 1
        BY <3>3, <3>4, <4>1
      <4>3. i \in Int /\ j \in Int
        OBVIOUS
      <4> QED BY <4>2, <4>3
    <3>5. n < MaxUnknown
      BY <1>1, <3>2, Parameters
    <3> QED BY <3>2, <3>3, <3>4, <3>5
  <2>2. CASE ~(Len(unknown) >= MaxUnknown)
    BY <1>1, <2>2, Parameters
  <2> QED BY <2>1, <2>2
<1>3. n \in Nat /\ DOMAIN room = 1..n /\ \A i \in 1..n : room[i] \in Refusals
  BY <1>2, LenProperties, ElementOfSeq
<1>4. unknown' = IF \E i \in DOMAIN room : room[i].kid = entry.kid
                   THEN [i \in DOMAIN room |-> IF room[i].kid = entry.kid THEN entry ELSE room[i]]
                   ELSE Append(room, entry)
  BY DEF Remember
<1> HIDE DEF n, room
<1>5. CASE \E i \in DOMAIN room : room[i].kid = entry.kid
  <2>1. unknown' = [i \in 1..n |-> IF room[i].kid = entry.kid THEN entry ELSE room[i]]
    BY <1>3, <1>4, <1>5
  <2>2. unknown' \in [1..n -> Refusals]
    BY <1>3, <2>1
  <2>3. unknown' \in Seq(Refusals) /\ Len(unknown') = n /\ DOMAIN unknown' = 1..n
    BY <1>3, <2>2
  <2>4. \A i \in 1..n : unknown'[i].kid = room[i].kid
    BY <1>3, <2>1
  <2>5. \A i \in 1..n : unknown'[i] = entry \/ unknown'[i] = room[i]
    BY <2>1
  <2> QED BY <1>2, <1>3, <2>3, <2>4, <2>5, Parameters
<1>6. CASE ~\E i \in DOMAIN room : room[i].kid = entry.kid
  <2>1. unknown' = Append(room, entry)
    BY <1>4, <1>6
  <2>2. /\ unknown' \in Seq(Refusals) /\ Len(unknown') = n + 1
        /\ \A i \in 1..n : unknown'[i] = room[i]
        /\ unknown'[n + 1] = entry
    BY <1>2, <2>1, AppendProperties DEF n
  <2>3. DOMAIN unknown' = 1..(n + 1)
    BY <2>2, LenProperties
  <2>4. \A i \in 1..(n + 1) : i = n + 1 \/ i \in 1..n
    BY <1>3
  <2> QED BY <1>2, <1>3, <1>6, <2>2, <2>3, <2>4, Parameters
<1> QED BY <1>5, <1>6

-----------------------------------------------------------------------------
(* Those who wait.                                                         *)

LEMMA AppendAmong ==
  ASSUME NEW S, NEW q \in Seq(S), NEW e \in S
  PROVE  /\ Append(q, e) \in Seq(S)
         /\ \A d : Among(Append(q, e), d) <=> d = e \/ Among(q, d)
         /\ Once(q) /\ ~Among(q, e) => Once(Append(q, e))
<1>1. /\ Append(q, e) \in Seq(S) /\ Len(Append(q, e)) = Len(q) + 1
      /\ \A i \in 1..Len(q) : Append(q, e)[i] = q[i]
      /\ Append(q, e)[Len(q) + 1] = e
  BY AppendProperties
<1>2. Len(q) \in Nat /\ DOMAIN q = 1..Len(q) /\ DOMAIN Append(q, e) = 1..(Len(q) + 1)
  BY <1>1, LenProperties
<1>3. \A i \in 1..(Len(q) + 1) : i = Len(q) + 1 \/ i \in 1..Len(q)
  BY <1>2
<1>4. \A d : Among(Append(q, e), d) <=> d = e \/ Among(q, d)
  <2> TAKE d
  <2>1. ASSUME Among(q, d) PROVE Among(Append(q, e), d)
    <3>1. PICK i \in DOMAIN q : q[i] = d
      BY <2>1 DEF Among
    <3>2. i \in DOMAIN Append(q, e) /\ Append(q, e)[i] = d
      BY <1>1, <1>2, <3>1
    <3> QED BY <3>2 DEF Among
  <2>2. Len(q) + 1 \in DOMAIN Append(q, e)
    BY <1>2
  <2>3. d = e => Among(Append(q, e), d)
    BY <1>1, <2>2 DEF Among
  <2>4. ASSUME Among(Append(q, e), d) PROVE d = e \/ Among(q, d)
    <3>1. PICK i \in DOMAIN Append(q, e) : Append(q, e)[i] = d
      BY <2>4 DEF Among
    <3> QED BY <1>1, <1>2, <1>3, <3>1 DEF Among
  <2> QED BY <2>1, <2>3, <2>4
<1>5. ASSUME Once(q), ~Among(q, e) PROVE Once(Append(q, e))
  <2>1. \A i \in 1..Len(q) : q[i] # e
    BY <1>2, <1>5 DEF Among
  <2> QED BY <1>1, <1>2, <1>3, <1>5, <2>1 DEF Once
<1> QED BY <1>1, <1>4, <1>5

LEMMA TailAmong ==
  ASSUME NEW S, NEW q \in Seq(S), q # <<>>
  PROVE  /\ Head(q) \in S /\ Tail(q) \in Seq(S)
         /\ \A d : Among(q, d) <=> d = Head(q) \/ Among(Tail(q), d)
         /\ Once(q) => Once(Tail(q)) /\ ~Among(Tail(q), Head(q))
<1>1. /\ Head(q) \in S /\ Tail(q) \in Seq(S) /\ Len(Tail(q)) = Len(q) - 1
      /\ \A i \in 1..Len(Tail(q)) : Tail(q)[i] = q[i + 1]
  BY HeadTailProperties
<1>2. Len(q) \in Nat /\ Len(q) > 0 /\ DOMAIN q = 1..Len(q) /\ DOMAIN Tail(q) = 1..(Len(q) - 1)
  BY <1>1, LenProperties, EmptySeq
<1>3. Head(q) = q[1]
  OBVIOUS
<1>4. \A d : Among(q, d) <=> d = Head(q) \/ Among(Tail(q), d)
  <2> TAKE d
  <2>1. ASSUME Among(q, d) PROVE d = Head(q) \/ Among(Tail(q), d)
    <3>1. PICK i \in 1..Len(q) : q[i] = d
      BY <1>2, <2>1 DEF Among
    <3>2. CASE i # 1
      <4>1. i - 1 \in DOMAIN Tail(q) /\ Tail(q)[i - 1] = d
        BY <1>1, <1>2, <3>1, <3>2
      <4> QED BY <4>1 DEF Among
    <3> QED BY <1>3, <3>1, <3>2
  <2>2. ASSUME Among(Tail(q), d) PROVE Among(q, d)
    <3>1. PICK i \in 1..(Len(q) - 1) : Tail(q)[i] = d
      BY <1>2, <2>2 DEF Among
    <3>2. i + 1 \in DOMAIN q /\ q[i + 1] = d
      BY <1>1, <1>2, <3>1
    <3> QED BY <3>2 DEF Among
  <2>3. 1 \in DOMAIN q
    BY <1>2
  <2> QED BY <1>3, <2>1, <2>2, <2>3 DEF Among
<1>5. ASSUME Once(q) PROVE Once(Tail(q)) /\ ~Among(Tail(q), Head(q))
  <2>1. \A i, j \in 1..Len(q) : q[i] = q[j] => i = j
    BY <1>2, <1>5 DEF Once
  <2>2. \A i \in 1..(Len(q) - 1) : i + 1 \in 1..Len(q) /\ i + 1 # 1 /\ Tail(q)[i] = q[i + 1]
    BY <1>1, <1>2
  <2>3. ASSUME NEW i \in 1..(Len(q) - 1), NEW j \in 1..(Len(q) - 1), Tail(q)[i] = Tail(q)[j]
        PROVE  i = j
    <3>1. i + 1 = j + 1
      BY <2>1, <2>2, <2>3
    <3> QED BY <3>1
  <2>4. 1 \in 1..Len(q)
    BY <1>2
  <2> QED BY <1>2, <1>3, <2>1, <2>2, <2>3, <2>4 DEF Once, Among
<1> QED BY <1>1, <1>4, <1>5

\* The two queues, one after the other, are the queue of Bookkept.
LEMMA QueueKept ==
  ASSUME KeysTyped, QueueInv
  PROVE  /\ \A c \in Lookups : lookup[c].stage = "waiting" <=> \E i \in DOMAIN Queue : Queue[i] = c
         /\ \A i, j \in DOMAIN Queue : Queue[i] = Queue[j] => i = j
<1> DEFINE m == Len(resumed)
           n == Len(Waits)
<1>1. resumed \in Seq(Lookups) /\ Waits \in Seq(Lookups) /\ Queue = resumed \o Waits
  BY EmptySeq DEF KeysTyped, Loads, Waits, Queue
<1>2. /\ m \in Nat /\ n \in Nat /\ DOMAIN resumed = 1..m /\ DOMAIN Waits = 1..n
      /\ \A i \in 1..m : resumed[i] \in Lookups
      /\ \A i \in 1..n : Waits[i] \in Lookups
  BY <1>1, LenProperties
<1>3. /\ Queue \in Seq(Lookups) /\ Len(Queue) = m + n
      /\ \A i \in 1..(m + n) : Queue[i] = IF i <= m THEN resumed[i] ELSE Waits[i - m]
  BY <1>1, ConcatProperties
<1>4. DOMAIN Queue = 1..(m + n)
  BY <1>3, LenProperties
<1> HIDE DEF m, n
<1>5. \A i \in 1..m : i \in DOMAIN Queue /\ Queue[i] = resumed[i]
  BY <1>2, <1>3, <1>4
<1>6. \A i \in 1..n : m + i \in DOMAIN Queue /\ Queue[m + i] = Waits[i]
  <2> TAKE i \in 1..n
  <2>1. m + i \in 1..(m + n) /\ ~(m + i <= m) /\ (m + i) - m = i
    BY <1>2
  <2> QED BY <1>3, <1>4, <2>1
<1>7. \A i \in DOMAIN Queue :
        \/ i \in 1..m /\ Queue[i] = resumed[i]
        \/ i \notin 1..m /\ i - m \in 1..n /\ Queue[i] = Waits[i - m]
  BY <1>2, <1>3, <1>4
<1>8. ASSUME NEW c \in Lookups
      PROVE  lookup[c].stage = "waiting" <=> \E i \in DOMAIN Queue : Queue[i] = c
  <2>1. lookup[c].stage = "waiting" <=> Among(resumed, c) \/ Among(Waits, c)
    BY DEF QueueInv
  <2>2. Among(resumed, c) => \E i \in DOMAIN Queue : Queue[i] = c
    BY <1>2, <1>5 DEF Among
  <2>3. Among(Waits, c) => \E i \in DOMAIN Queue : Queue[i] = c
    BY <1>2, <1>6 DEF Among
  <2>4. (\E i \in DOMAIN Queue : Queue[i] = c) => Among(resumed, c) \/ Among(Waits, c)
    BY <1>2, <1>7 DEF Among
  <2> QED BY <2>1, <2>2, <2>3, <2>4
<1>9. ASSUME NEW i \in DOMAIN Queue, NEW j \in DOMAIN Queue, Queue[i] = Queue[j]
      PROVE  i = j
  <2>1. \A c \in Lookups : ~(Among(resumed, c) /\ Among(Waits, c))
    BY DEF QueueInv
  <2>2. \A k \in 1..m, l \in 1..n : resumed[k] # Waits[l]
    BY <1>2, <2>1 DEF Among
  <2>3. /\ \A k, l \in 1..m : resumed[k] = resumed[l] => k = l
        /\ \A k, l \in 1..n : Waits[k] = Waits[l] => k = l
    BY <1>2 DEF QueueInv, Once
  <2>4. CASE i \in 1..m /\ j \in 1..m
    BY <1>5, <1>9, <2>3, <2>4
  <2>5. CASE i \notin 1..m /\ j \notin 1..m
    <3>1. i - m = j - m
      BY <1>7, <1>9, <2>3, <2>5
    <3> QED BY <1>2, <1>4, <3>1
  <2> QED BY <1>7, <1>9, <2>2, <2>4, <2>5
<1> QED BY <1>8, <1>9

LEMMA KeysInvSuffices ==
  ASSUME KeysInv
  PROVE  KeysHold
<1>1. KeysTypeOK
  <2>1. 0..now \subseteq Times /\ now \in Times
    BY Parameters DEF KeysInv, KeysTyped, Times
  <2>2. {born, gone} \subseteq [Kids -> Times \cup {Null}]
    BY <2>1 DEF KeysInv, KeysTyped
  <2>3. load = Null \/ load.start \in Times
    BY DEF KeysInv, KeysTyped, Loads
  <2> QED BY <2>1, <2>2, <2>3 DEF KeysInv, KeysTyped, KeysTypeOK, Documents, LookupStates
<1>2. AcceptedKeysAreRecent
  BY DEF KeysInv, VerdictStands, AcceptedKeysAreRecent
<1>3. RefusedKeysWereRecentlyAbsent
  BY DEF KeysInv, VerdictStands, RefusedKeysWereRecentlyAbsent, AbsentIn
<1>4. Bookkept
  BY QueueKept DEF KeysInv, MemoryInv, Bookkept
<1> QED BY <1>1, <1>2, <1>3, <1>4 DEF KeysHold

-----------------------------------------------------------------------------
(* What a step leaves as it was.                                           *)

LEMMA Clock ==
  ASSUME KeysTyped
  PROVE  now \in Nat /\ now \in Int /\ now <= Watched
BY Parameters DEF KeysTyped, Times

LEMMA CacheStays ==
  ASSUME KeysInv, KeysNext, UNCHANGED cache, now' \in Times, now <= now'
  PROVE  CacheInv'
<1> SUFFICES ASSUME cache # Null
             PROVE  cache.at <= now' /\ DocumentOf(cache.keys, cache.at - Patience, cache.at)'
  BY DEF CacheInv
<1>1. /\ cache.at \in Int /\ cache.at <= now /\ cache.at <= now'
      /\ cache.at - Patience \in Int
      /\ DocumentOf(cache.keys, cache.at - Patience, cache.at)
  BY Clock, Parameters DEF KeysInv, KeysTyped, CacheInv, Documents, Times
<1>2. \E t \in (cache.at - Patience)..cache.at :
        \A k \in Kids : IF k \in cache.keys THEN WasPublished(k, t)' ELSE WasAbsent(k, t)'
  BY <1>1, DocumentKept DEF KeysInv
<1> QED BY <1>1, <1>2 DEF DocumentOf, DocumentAt

\* An entry that was there is as true as it was.
LEMMA EntryStays ==
  ASSUME KeysInv, KeysNext, now' \in Times, now <= now',
         NEW j \in DOMAIN unknown, NEW e, e = unknown[j]
  PROVE  \E t \in (e.until - Ttl - Patience)..now' : WasAbsent(e.kid, t)'
<1>1. unknown[j] \in Refusals
  BY ElementOfSeq, LenProperties DEF KeysInv, KeysTyped
<1>2. /\ e.kid \in Kids /\ e.until - Ttl - Patience \in Int
      /\ AbsentIn(e.kid, e.until - Ttl - Patience, now)
  BY <1>1, Parameters DEF KeysInv, MemoryInv, Refusals
<1>3. PICK t \in (e.until - Ttl - Patience)..now : WasAbsent(e.kid, t)'
  BY <1>2, Clock, AbsenceKept DEF KeysInv
<1>4. t \in (e.until - Ttl - Patience)..now'
  BY <1>2, Clock DEF KeysInv, Times
<1> QED BY <1>3, <1>4

LEMMA MemoryStays ==
  ASSUME KeysInv, KeysNext, UNCHANGED unknown, now' \in Times, now <= now'
  PROVE  MemoryInv'
<1>1. ASSUME NEW i \in DOMAIN unknown
      PROVE  AbsentIn(unknown[i].kid, unknown[i].until - Ttl - Patience, now)'
  BY EntryStays DEF AbsentIn
<1> QED BY <1>1 DEF MemoryInv, KeysInv

LEMMA VerdictStays ==
  ASSUME KeysInv, KeysNext, UNCHANGED now, KeysTyped', NEW c \in Lookups,
         \/ lookup'[c].stage \notin {"accepted", "unknown"}
         \/ lookup'[c].stage = lookup[c].stage /\ lookup'[c].kid = lookup[c].kid
  PROVE  VerdictStands(c)'
<1> USE Parameters, Clock
<1>1. CASE lookup'[c].stage \notin {"accepted", "unknown"}
  BY <1>1 DEF VerdictStands
<1>2. CASE /\ lookup'[c].stage = lookup[c].stage /\ lookup'[c].kid = lookup[c].kid
           /\ lookup[c].stage \in {"accepted", "unknown"}
  <2>1. PICK k \in Kids : k = lookup[c].kid
    BY <1>2 DEF KeysInv, KeysTyped
  <2>2. CASE lookup[c].stage = "accepted"
    <3>1. PICK t \in (now - Floor - Patience + 1)..now : WasPublished(k, t)
      BY <2>1, <2>2 DEF KeysInv, VerdictStands
    <3>2. WasPublished(k, t)'
      BY <3>1, PastKept DEF KeysInv
    <3> QED BY <1>2, <2>1, <2>2, <3>1, <3>2 DEF VerdictStands, WasPublished
  <2>3. CASE lookup[c].stage = "unknown"
    <3>1. AbsentIn(k, now - Ttl - Patience + 1, now) /\ now \in Int
      BY <2>1, <2>3 DEF KeysInv, VerdictStands
    <3>2. PICK t \in (now - Ttl - Patience + 1)..now : WasAbsent(k, t)'
      BY <3>1, AbsenceKept DEF KeysInv
    <3> QED BY <1>2, <2>1, <2>3, <3>2 DEF VerdictStands, AbsentIn, WasAbsent
  <2> QED BY <1>2, <2>2, <2>3
<1> QED BY <1>1, <1>2

\* What the load under way has read, it goes on having read.
LEMMA LoadStays ==
  ASSUME KeysInv, KeysNext, KeysTyped', now <= now', load # Null, load' # Null,
         load'.start = load.start, load'.read = load.read, now' - load.start <= Patience,
         \A c \in Lookups :
           Among(load'.waiters, c) => lookup'[c].start - Patience <= load.start
  PROVE  LoadInv'
<1>1. /\ load.start \in Int /\ load.start <= now /\ now \in Int /\ now' \in Int
  BY Clock DEF KeysInv, KeysTyped, LoadInv, Loads, Times
<1>2. ASSUME load.read # Null
      PROVE  DocumentOf(load.read, load.start, now)'
  <2>1. DocumentOf(load.read, load.start, now)
    BY <1>2 DEF KeysInv, LoadInv
  <2>2. PICK t \in load.start..now :
          \A k \in Kids : IF k \in load.read THEN WasPublished(k, t)' ELSE WasAbsent(k, t)'
    BY <1>1, <2>1, DocumentKept DEF KeysInv
  <2>3. t \in load'.start..now'
    BY <1>1
  <2> QED BY <2>2, <2>3 DEF DocumentOf, DocumentAt
<1> QED BY <1>1, <1>2 DEF LoadInv

-----------------------------------------------------------------------------
(* One step of each kind.                                                  *)

LEMMA KeysBegin ==
  ASSUME KeysInit
  PROVE  KeysInv
<1> USE Parameters
<1>1. KeysTyped
  BY EmptySeq DEF KeysInit, KeysTyped, Times, NoLookup, Past, LookupStates
<1>2. QueueInv
  BY DEF KeysInit, QueueInv, Once, Among, Waits, NoLookup, Past
<1>3. CacheInv /\ LoadInv /\ ResumedInv
  BY DEF KeysInit, CacheInv, LoadInv, ResumedInv
<1>4. MemoryInv
  BY DEF KeysInit, MemoryInv
<1>5. \A c \in Lookups : VerdictStands(c)
  BY DEF KeysInit, VerdictStands, NoLookup, Past
<1> QED BY <1>1, <1>2, <1>3, <1>4, <1>5 DEF KeysInv

LEMMA RotationStep ==
  ASSUME KeysInv, KeysNext, resumed = <<>>, Publish \/ Retire
  PROVE  KeysInv'
<1> USE Parameters, Clock
<1>1. UNCHANGED <<now, cache, load, resumed, unknown, lookup>>
  BY DEF Publish, Retire
<1>2. KeysTyped'
  BY <1>1 DEF Publish, Retire, KeysInv, KeysTyped
<1>3. QueueInv'
  BY <1>1 DEF KeysInv, QueueInv, Waits
<1>4. CacheInv' /\ MemoryInv'
  BY <1>1, <1>2, CacheStays, MemoryStays DEF KeysTyped, KeysInv
<1>5. LoadInv'
  <2>1. CASE load = Null
    BY <1>1, <2>1 DEF LoadInv
  <2>2. CASE load # Null
    BY <1>1, <1>2, <2>2, LoadStays DEF KeysInv, LoadInv
  <2> QED BY <2>1, <2>2
<1>6. ResumedInv'
  BY <1>1 DEF ResumedInv
<1>7. \A c \in Lookups : VerdictStands(c)'
  BY <1>1, <1>2, VerdictStays
<1> QED BY <1>2, <1>3, <1>4, <1>5, <1>6, <1>7 DEF KeysInv

LEMMA TimeStep ==
  ASSUME KeysInv, KeysNext, resumed = <<>>, TimePasses
  PROVE  KeysInv'
<1> USE Parameters, Clock
<1>1. /\ UNCHANGED <<born, gone, cache, load, resumed, unknown>>
      /\ now' = now + 1 /\ now' \in Times
      /\ load # Null => now' - load.start <= Patience
      /\ lookup' = [c \in Lookups |->
                      IF lookup[c].stage = "waiting" THEN lookup[c] ELSE NoLookup]
  BY DEF TimePasses, KeysInv, KeysTyped, Loads, Times
<1>2. \A c \in Lookups :
        lookup'[c] = IF lookup[c].stage = "waiting" THEN lookup[c] ELSE NoLookup
  BY <1>1
<1>3. NoLookup \in LookupStates /\ NoLookup.stage = "idle"
  BY DEF NoLookup, Past, LookupStates
<1>4. KeysTyped'
  <2>1. lookup' \in [Lookups -> LookupStates]
    BY <1>1, <1>3 DEF KeysInv, KeysTyped
  <2>2. \A c \in Lookups : /\ lookup'[c].stage # "idle" => lookup'[c].kid \in Kids
                           /\ lookup'[c].stage = "waiting" => lookup'[c].start \in 0..now'
    BY <1>1, <1>2, <1>3 DEF KeysInv, KeysTyped
  <2> QED BY <1>1, <2>1, <2>2 DEF KeysInv, KeysTyped
<1>5. QueueInv'
  BY <1>1, <1>2, <1>3 DEF KeysInv, QueueInv, Waits
<1>6. CacheInv' /\ MemoryInv'
  BY <1>1, CacheStays, MemoryStays DEF KeysInv
<1>7. LoadInv'
  <2>1. CASE load = Null
    BY <1>1, <2>1 DEF LoadInv
  <2>2. CASE load # Null
    <3>1. ASSUME NEW c \in Lookups, Among(load.waiters, c)
          PROVE  lookup'[c].start - Patience <= load.start
      <4>1. lookup[c].stage = "waiting"
        BY <2>2, <3>1 DEF KeysInv, QueueInv, Waits
      <4> QED BY <1>2, <2>2, <3>1, <4>1 DEF KeysInv, LoadInv
    <3> QED BY <1>1, <1>4, <2>2, <3>1, LoadStays DEF KeysInv
  <2> QED BY <2>1, <2>2
<1>8. ResumedInv'
  BY <1>1 DEF ResumedInv
<1>9. \A c \in Lookups : VerdictStands(c)'
  BY <1>2, <1>3 DEF VerdictStands
<1> QED BY <1>4, <1>5, <1>6, <1>7, <1>8, <1>9 DEF KeysInv

\* A lookup joins a load, and one that comes to be begins with it.
LEMMA AwaitEffect ==
  ASSUME KeysInv, NEW c \in Lookups, Await(c)
  PROVE  /\ load' \in Loads /\ load' # Null /\ Waits' = Append(Waits, c)
         /\ load'.start = IF load = Null THEN now ELSE load.start
         /\ load'.read = IF load = Null THEN Null ELSE load.read
         /\ load'.waiters = Waits'
<1> USE Parameters
<1>1. CASE load = Null
  <2>1. load' = [start |-> now, read |-> Null, waiters |-> <<c>>]
    BY <1>1 DEF Await
  <2>2. <<c>> \in Seq(Lookups) /\ Append(<<>>, c) = <<c>>
    OBVIOUS
  <2>3. now \in Times
    BY DEF KeysInv, KeysTyped
  <2> DEFINE w == <<c>>
  <2> HIDE DEF w
  <2>4. w \in Seq(Lookups) /\ load' = [start |-> now, read |-> Null, waiters |-> w]
    BY <2>1, <2>2 DEF w
  <2>5. load' \in Loads
    BY <2>3, <2>4 DEF Loads
  <2>6. Waits' = w /\ Append(Waits, c) = w
    BY <1>1, <2>2, <2>4, <2>5 DEF Waits, w
  <2> QED BY <1>1, <2>4, <2>5, <2>6
<1>2. CASE load # Null
  <2>1. load \in Loads /\ load' = [load EXCEPT !.waiters = Append(@, c)]
    BY <1>2 DEF Await, KeysInv, KeysTyped
  <2>2. load.waiters \in Seq(Lookups) /\ Append(load.waiters, c) \in Seq(Lookups)
    BY <2>1, AppendProperties DEF Loads
  <2>3. load' \in Loads /\ load'.waiters = Append(load.waiters, c)
    BY <2>1, <2>2 DEF Loads
  <2> QED BY <1>2, <2>1, <2>3 DEF Loads, Waits
<1> QED BY <1>1, <1>2

\* Memory after an entry is forgotten.
LEMMA ForgetStays ==
  ASSUME KeysInv, KeysNext, NEW kid \in Kids, Forget(kid), UNCHANGED now
  PROVE  unknown' \in Seq(Refusals) /\ MemoryInv'
<1>1. /\ unknown' \in Seq(Refusals) /\ Len(unknown') <= MaxUnknown
      /\ \A i, j \in DOMAIN unknown' : unknown'[i].kid = unknown'[j].kid => i = j
      /\ \A i \in DOMAIN unknown' : \E j \in DOMAIN unknown : unknown'[i] = unknown[j]
  BY ForgetEffect DEF KeysInv
<1>2. ASSUME NEW i \in DOMAIN unknown'
      PROVE  AbsentIn(unknown[i].kid, unknown[i].until - Ttl - Patience, now)'
  <2>1. PICK j \in DOMAIN unknown : unknown'[i] = unknown[j]
    BY <1>1
  <2> QED BY <2>1, Clock, EntryStays DEF AbsentIn, KeysInv, KeysTyped
<1> QED BY <1>1, <1>2 DEF MemoryInv

LEMMA AskStep ==
  ASSUME KeysInv, KeysNext, resumed = <<>>, Ask
  PROVE  KeysInv'
<1> USE Parameters, Clock
<1>1. PICK c \in Lookups, kid \in Kids :
        /\ lookup[c].stage # "waiting"
        /\ Refuse(c, kid) \/ LookUp(c, kid)
        /\ UNCHANGED <<now, born, gone, cache, resumed>>
  BY DEF Ask
<1>2. ~Among(resumed, c) /\ ~Among(Waits, c)
  BY <1>1 DEF KeysInv, QueueInv
<1>3. CacheInv' /\ ResumedInv'
  BY <1>1, CacheStays DEF KeysInv, KeysTyped, ResumedInv
<1>4. ASSUME NEW verdict \in {"accepted", "unknown"}, Verdict(c, kid, verdict)
      PROVE  /\ lookup' \in [Lookups -> LookupStates]
             /\ lookup'[c].stage = verdict /\ lookup'[c].kid = kid
             /\ \A d \in Lookups \ {c} : lookup'[d] = lookup[d]
  <2>1. Past(verdict, kid) \in LookupStates
    BY DEF Past, LookupStates
  <2> QED BY <1>4, <2>1 DEF Verdict, KeysInv, KeysTyped, Past
<1>5. CASE Refuse(c, kid)
  <2>1. /\ \E i \in Remembered(kid) : now < unknown[i].until
        /\ Verdict(c, kid, "unknown") /\ UNCHANGED <<load, unknown>>
    BY <1>5 DEF Refuse
  <2>2. KeysTyped'
    BY <1>1, <1>4, <2>1 DEF KeysInv, KeysTyped
  <2>3. QueueInv'
    BY <1>1, <1>2, <1>4, <2>1 DEF KeysInv, QueueInv, Waits
  <2>4. MemoryInv'
    BY <1>1, <2>1, MemoryStays DEF KeysInv, KeysTyped
  <2>5. LoadInv'
    <3>1. ASSUME load # Null PROVE LoadInv'
      <4>1. ASSUME NEW d \in Lookups, Among(load.waiters, d)
            PROVE  lookup'[d].start - Patience <= load.start
        <5>1. d # c
          BY <1>2, <3>1, <4>1 DEF Waits
        <5> QED BY <1>4, <2>1, <3>1, <4>1, <5>1 DEF KeysInv, LoadInv
      <4> QED BY <1>1, <2>1, <2>2, <3>1, <4>1, LoadStays DEF KeysInv, LoadInv
    <3> QED BY <2>1, <3>1 DEF LoadInv
  <2>6. VerdictStands(c)'
    <3>1. PICK i \in DOMAIN unknown : unknown[i].kid = kid /\ now < unknown[i].until
      BY <2>1 DEF Remembered
    <3>2. unknown[i].until \in Nat
      <4>1. unknown[i] \in Refusals
        BY <3>1, ElementOfSeq, LenProperties DEF KeysInv, KeysTyped
      <4> QED BY <4>1 DEF Refusals
    <3>3. PICK t \in (unknown[i].until - Ttl - Patience)..now : WasAbsent(kid, t)
      BY <3>1 DEF KeysInv, MemoryInv, AbsentIn
    <3>4. t \in (now - Ttl - Patience + 1)..now
      BY <3>1, <3>2, <3>3 DEF KeysInv
    <3>5. lookup'[c].stage = "unknown" /\ lookup'[c].kid = kid
      BY <1>4, <2>1
    <3> QED BY <1>1, <3>3, <3>4, <3>5 DEF VerdictStands, AbsentIn, WasAbsent
  <2>7. \A d \in Lookups : VerdictStands(d)'
    BY <1>1, <1>4, <2>1, <2>2, <2>6, VerdictStays
  <2> QED BY <1>3, <2>2, <2>3, <2>4, <2>5, <2>7 DEF KeysInv
<1>6. CASE LookUp(c, kid)
  <2>1. unknown' \in Seq(Refusals) /\ MemoryInv'
    BY <1>1, <1>6, ForgetStays DEF LookUp
  <2>2. CASE IsFresh /\ kid \in cache.keys
    <3>1. Verdict(c, kid, "accepted") /\ UNCHANGED load
      BY <1>6, <2>2 DEF LookUp
    <3>2. KeysTyped'
      BY <1>1, <1>4, <2>1, <3>1 DEF KeysInv, KeysTyped
    <3>3. QueueInv'
      BY <1>1, <1>2, <1>4, <3>1 DEF KeysInv, QueueInv, Waits
    <3>4. LoadInv'
      <4>1. ASSUME load # Null PROVE LoadInv'
        <5>1. ASSUME NEW d \in Lookups, Among(load.waiters, d)
              PROVE  lookup'[d].start - Patience <= load.start
          <6>1. d # c
            BY <1>2, <4>1, <5>1 DEF Waits
          <6> QED BY <1>4, <3>1, <4>1, <5>1, <6>1 DEF KeysInv, LoadInv
        <5> QED BY <1>1, <3>1, <3>2, <4>1, <5>1, LoadStays DEF KeysInv, LoadInv
      <4> QED BY <3>1, <4>1 DEF LoadInv
    <3>5. VerdictStands(c)'
      <4>1. /\ cache.at \in Int /\ now - cache.at < Floor /\ cache.at <= now
            /\ DocumentOf(cache.keys, cache.at - Patience, cache.at)
        BY <2>2 DEF IsFresh, KeysInv, KeysTyped, CacheInv, Documents, Times
      <4>2. PICK t \in (cache.at - Patience)..cache.at : WasPublished(kid, t)
        BY <2>2, <4>1 DEF DocumentOf, DocumentAt
      <4>3. t \in (now - Floor - Patience + 1)..now
        BY <4>1, <4>2 DEF KeysInv
      <4>4. lookup'[c].stage = "accepted" /\ lookup'[c].kid = kid
        BY <1>4, <3>1
      <4> QED BY <1>1, <4>2, <4>3, <4>4 DEF VerdictStands, WasPublished
    <3>6. \A d \in Lookups : VerdictStands(d)'
      BY <1>1, <1>4, <3>1, <3>2, <3>5, VerdictStays
    <3> QED BY <1>3, <2>1, <3>2, <3>3, <3>4, <3>6 DEF KeysInv
  <2>3. CASE ~(IsFresh /\ kid \in cache.keys)
    <3>1. /\ Await(c)
          /\ lookup' = [lookup EXCEPT ![c] =
               [stage |-> "waiting", kid |-> kid, start |-> now, last |-> IsFresh]]
      BY <1>6, <2>3 DEF LookUp
    <3>2. /\ load' \in Loads /\ load' # Null /\ Waits' = Append(Waits, c)
          /\ load'.start = IF load = Null THEN now ELSE load.start
          /\ load'.read = IF load = Null THEN Null ELSE load.read
          /\ load'.waiters = Waits'
      BY <3>1, AwaitEffect
    <3>3. IsFresh \in BOOLEAN
      BY DEF IsFresh
    <3>4. [stage |-> "waiting", kid |-> kid, start |-> now, last |-> IsFresh] \in LookupStates
      BY <3>3 DEF LookupStates, KeysInv, KeysTyped
    <3>5. /\ lookup' \in [Lookups -> LookupStates]
          /\ lookup'[c].stage = "waiting" /\ lookup'[c].kid = kid /\ lookup'[c].start = now
          /\ \A d \in Lookups \ {c} : lookup'[d] = lookup[d]
      BY <3>1, <3>4 DEF KeysInv, KeysTyped
    <3>6. KeysTyped'
      <4>1. \A d \in Lookups : /\ lookup'[d].stage # "idle" => lookup'[d].kid \in Kids
                               /\ lookup'[d].stage = "waiting" => lookup'[d].start \in 0..now
        BY <3>5 DEF KeysInv, KeysTyped
      <4> QED BY <1>1, <2>1, <3>2, <3>5, <4>1 DEF KeysInv, KeysTyped
    <3>7. /\ Waits \in Seq(Lookups)
          /\ \A d : Among(Waits', d) <=> d = c \/ Among(Waits, d)
          /\ Once(Waits)'
      <4>1. Waits \in Seq(Lookups)
        BY EmptySeq DEF Waits, KeysInv, KeysTyped, Loads
      <4> QED BY <1>2, <3>2, <4>1, AppendAmong DEF KeysInv, QueueInv
    <3>8. QueueInv'
      BY <1>1, <1>2, <3>5, <3>7 DEF KeysInv, QueueInv
    <3>9. LoadInv'
      <4>1. ASSUME NEW d \in Lookups, Among(load'.waiters, d)
            PROVE  lookup'[d].start - Patience <= load'.start
        <5>1. CASE d = c
          BY <3>2, <3>5, <5>1 DEF KeysInv, LoadInv, KeysTyped, Loads, Times
        <5>2. CASE d # c
          <6>1. Among(Waits, d)
            BY <3>2, <3>7, <4>1, <5>2
          <6>2. load # Null
            BY <6>1 DEF Among, Waits
          <6>3. lookup[d].start - Patience <= load.start
            BY <6>1, <6>2 DEF KeysInv, LoadInv, Waits
          <6> QED BY <3>2, <3>5, <5>2, <6>2, <6>3
        <5> QED BY <5>1, <5>2
      <4>2. CASE load = Null
        BY <1>1, <3>2, <4>1, <4>2 DEF LoadInv, KeysInv
      <4>3. CASE load # Null
        BY <1>1, <3>2, <3>6, <4>1, <4>3, LoadStays DEF KeysInv, LoadInv
      <4> QED BY <4>2, <4>3
    <3>10. \A d \in Lookups : VerdictStands(d)'
      BY <1>1, <3>5, <3>6, VerdictStays
    <3> QED BY <1>3, <2>1, <3>6, <3>8, <3>9, <3>10 DEF KeysInv
  <2> QED BY <2>2, <2>3
<1> QED BY <1>1, <1>5, <1>6

LEMMA ReadStep ==
  ASSUME KeysInv, KeysNext, resumed = <<>>, ReadDocument
  PROVE  KeysInv'
<1> USE Parameters, Clock
<1>1. /\ load \in Loads /\ load' = [load EXCEPT !.read = Document]
      /\ UNCHANGED <<now, born, gone, cache, resumed, unknown, lookup>>
  BY DEF ReadDocument, KeysInv, KeysTyped
<1>2. Document \subseteq Kids
  BY DEF Document
<1>3. /\ load' \in Loads /\ load'.start = load.start /\ load'.waiters = load.waiters
      /\ load'.read = Document /\ load' # Null /\ load # Null
  BY <1>1, <1>2 DEF Loads
<1>4. KeysTyped' /\ UNCHANGED Waits
  BY <1>1, <1>3 DEF KeysInv, KeysTyped, Waits
<1>5. QueueInv'
  BY <1>1, <1>4 DEF KeysInv, QueueInv
<1>6. CacheInv' /\ MemoryInv' /\ ResumedInv'
  BY <1>1, CacheStays, MemoryStays DEF KeysInv, KeysTyped, ResumedInv
<1>7. LoadInv'
  <2>1. ASSUME NEW k \in Kids
        PROVE  IF k \in Document THEN WasPublished(k, now)' ELSE WasAbsent(k, now)'
    <3>1. born[k] \in 0..now \cup {Null} /\ gone[k] \in 0..now \cup {Null} /\ now \in Nat
      BY DEF KeysInv, KeysTyped
    <3> QED BY <1>1, <3>1 DEF Document, WasPublished, WasAbsent
  <2>2. now \in load'.start..now
    BY <1>3 DEF KeysInv, LoadInv, Loads, Times
  <2>3. DocumentOf(load.read, load.start, now)'
    BY <1>1, <1>3, <2>1, <2>2 DEF DocumentOf, DocumentAt, WasPublished, WasAbsent
  <2> QED BY <1>1, <1>3, <2>3 DEF KeysInv, LoadInv
<1>8. \A c \in Lookups : VerdictStands(c)'
  BY <1>1, <1>4, VerdictStays
<1> QED BY <1>4, <1>5, <1>6, <1>7, <1>8 DEF KeysInv

LEMMA ArriveStep ==
  ASSUME KeysInv, KeysNext, resumed = <<>>, Arrive
  PROVE  KeysInv'
<1> USE Parameters, Clock
<1>1. /\ load \in Loads /\ load # Null /\ load.read # Null
      /\ cache' = [keys |-> load.read, at |-> now] /\ load' = Null
      /\ resumed' = load.waiters
      /\ UNCHANGED <<now, born, gone, unknown, lookup>>
  BY DEF Arrive, KeysInv, KeysTyped
<1>2. load.start \in Int /\ load.read \subseteq Kids /\ load.waiters \in Seq(Lookups)
  <2>1. load.start \in Times /\ load.read \in SUBSET Kids /\ load.waiters \in Seq(Lookups)
    BY <1>1 DEF Loads
  <2> QED BY <2>1 DEF Times
<1>3. cache' \in Documents /\ cache'.keys = load.read /\ cache'.at = now
  BY <1>1, <1>2 DEF Documents, KeysInv, KeysTyped
<1>4. KeysTyped'
  BY <1>1, <1>2, <1>3 DEF KeysInv, KeysTyped
<1>5. Waits' = <<>> /\ resumed' = Waits
  BY <1>1 DEF Waits
<1>6. QueueInv'
  <2>1. \A c : ~Among(<<>>, c)
    BY DEF Among
  <2>2. Once(<<>>)
    BY DEF Once
  <2>3. \A c : ~Among(resumed, c)
    BY <2>1
  <2> QED BY <1>1, <1>5, <2>1, <2>2, <2>3 DEF KeysInv, QueueInv
<1>7. PICK t \in load.start..now :
        \A k \in Kids : IF k \in load.read THEN WasPublished(k, t)' ELSE WasAbsent(k, t)'
  BY <1>1, <1>2, DocumentKept DEF KeysInv, LoadInv
<1>8. load.start <= now /\ now - load.start <= Patience
  BY <1>1 DEF KeysInv, LoadInv
<1>9. t \in (now - Patience)..now
  BY <1>2, <1>7, <1>8 DEF KeysInv
<1>10. CacheInv'
  <2>1. DocumentOf(cache.keys, cache.at - Patience, cache.at)'
    BY <1>1, <1>3, <1>7, <1>9 DEF DocumentOf, DocumentAt
  <2> QED BY <1>1, <1>3, <2>1 DEF CacheInv, KeysInv
<1>11. LoadInv'
  BY <1>1 DEF LoadInv
<1>12. ResumedInv'
  <2>1. ASSUME NEW c \in Lookups, Among(load.waiters, c)
        PROVE  t \in (lookup[c].start - Patience)..now
    <3>1. lookup[c].stage = "waiting"
      BY <1>1, <2>1 DEF KeysInv, QueueInv, Waits
    <3>2. lookup[c].start \in Int
      BY <3>1 DEF KeysInv, KeysTyped
    <3>3. lookup[c].start - Patience <= load.start
      BY <1>1, <2>1 DEF KeysInv, LoadInv
    <3> QED BY <1>2, <1>7, <3>2, <3>3
  <2>2. DocumentOf(cache.keys, now - Patience, now)'
    BY <1>1, <1>3, <1>7, <1>9 DEF DocumentOf, DocumentAt
  <2>3. \A c \in Lookups :
          Among(resumed', c) => DocumentOf(cache.keys, lookup[c].start - Patience, now)'
    BY <1>1, <1>3, <1>7, <2>1 DEF DocumentOf, DocumentAt
  <2> QED BY <1>3, <2>2, <2>3 DEF ResumedInv
<1>13. MemoryInv'
  BY <1>1, MemoryStays DEF KeysInv, KeysTyped
<1>14. \A c \in Lookups : VerdictStands(c)'
  BY <1>1, <1>4, VerdictStays
<1> QED BY <1>4, <1>6, <1>10, <1>11, <1>12, <1>13, <1>14 DEF KeysInv

LEMMA FailStep ==
  ASSUME KeysInv, KeysNext, resumed = <<>>, LoadFails
  PROVE  KeysInv'
<1> USE Parameters, Clock
<1>1. /\ load' = Null /\ UNCHANGED <<now, born, gone, cache, resumed, unknown>>
      /\ lookup' = [c \in Lookups |->
           IF lookup[c].stage = "waiting" THEN Past("failed", lookup[c].kid) ELSE lookup[c]]
  BY DEF LoadFails
<1>2. \A c \in Lookups :
        /\ lookup'[c] \in LookupStates
        /\ lookup'[c].stage # "waiting" /\ (lookup'[c].stage # "idle" => lookup'[c].kid \in Kids)
        /\ \/ lookup'[c].stage \notin {"accepted", "unknown"}
           \/ lookup'[c].stage = lookup[c].stage /\ lookup'[c].kid = lookup[c].kid
  BY <1>1 DEF Past, LookupStates, KeysInv, KeysTyped
<1>3. KeysTyped'
  <2>1. lookup' \in [Lookups -> LookupStates]
    BY <1>1, <1>2
  <2> QED BY <1>1, <1>2, <2>1 DEF KeysInv, KeysTyped
<1>4. QueueInv'
  <2>1. Waits' = <<>> /\ resumed' = <<>>
    BY <1>1 DEF Waits
  <2> QED BY <1>2, <2>1 DEF QueueInv, Once, Among
<1>5. CacheInv' /\ MemoryInv' /\ LoadInv' /\ ResumedInv'
  BY <1>1, CacheStays, MemoryStays DEF KeysInv, KeysTyped, LoadInv, ResumedInv
<1>6. \A c \in Lookups : VerdictStands(c)'
  BY <1>1, <1>2, <1>3, VerdictStays
<1> QED BY <1>3, <1>4, <1>5, <1>6 DEF KeysInv

LEMMA GoOnStep ==
  ASSUME KeysInv, KeysNext, resumed # <<>>, GoOn
  PROVE  KeysInv'
<1> USE Parameters, Clock
<1>1. PICK c \in Lookups, kid \in Kids :
        /\ c = Head(resumed) /\ kid = lookup[c].kid
        /\ lookup[c].stage = "waiting" /\ lookup[c].start \in 0..now
        /\ ~Among(Waits, c) /\ Among(resumed, c)
        /\ \A d : Among(resumed, d) <=> d = c \/ Among(Tail(resumed), d)
        /\ Once(Tail(resumed)) /\ ~Among(Tail(resumed), c) /\ Tail(resumed) \in Seq(Lookups)
  <2>1. /\ Head(resumed) \in Lookups /\ Tail(resumed) \in Seq(Lookups)
        /\ \A d : Among(resumed, d) <=> d = Head(resumed) \/ Among(Tail(resumed), d)
        /\ Once(Tail(resumed)) /\ ~Among(Tail(resumed), Head(resumed))
    BY TailAmong DEF KeysInv, KeysTyped, QueueInv
  <2>2. PICK c \in Lookups : c = Head(resumed)
    BY <2>1
  <2>3. /\ lookup[c].stage = "waiting" /\ lookup[c].kid \in Kids /\ lookup[c].start \in 0..now
        /\ ~Among(Waits, c) /\ Among(resumed, c)
    BY <2>1, <2>2 DEF KeysInv, KeysTyped, QueueInv
  <2> QED BY <2>1, <2>2, <2>3
<1> DEFINE Accepts == /\ kid \in cache.keys
                      /\ Verdict(c, kid, "accepted")
                      /\ UNCHANGED <<load, unknown>>
           Again == /\ kid \notin cache.keys /\ ~lookup[c].last
                    /\ Await(c)
                    /\ lookup' = [lookup EXCEPT ![c].last = TRUE]
                    /\ UNCHANGED unknown
           Refuses == /\ kid \notin cache.keys /\ lookup[c].last
                      /\ Remember([kid |-> kid, until |-> lookup[c].start + Ttl])
                      /\ Verdict(c, kid, "unknown")
                      /\ UNCHANGED load
<1>2. /\ Accepts \/ Again \/ Refuses
      /\ UNCHANGED <<now, born, gone, cache>>
  BY <1>1 DEF GoOn
<1>3. /\ resumed' = Tail(resumed) /\ resumed' \in Seq(Lookups)
      /\ \A d : Among(resumed, d) <=> d = c \/ Among(resumed', d)
      /\ Once(resumed') /\ ~Among(resumed', c)
  BY <1>1 DEF GoOn
<1>4. /\ cache \in Documents /\ DocumentOf(cache.keys, now - Patience, now)
      /\ DocumentOf(cache.keys, lookup[c].start - Patience, now)
  BY <1>1, <1>3 DEF KeysInv, ResumedInv
<1>5. \A d \in Lookups \ {c} : lookup'[d] = lookup[d]
  BY <1>2, <1>1, <1>3 DEF Verdict, KeysInv, KeysTyped
<1>6. CacheInv'
  BY <1>2, CacheStays DEF KeysInv, KeysTyped
<1>7. ResumedInv'
  <2>1. ASSUME NEW lo \in Int, DocumentOf(cache.keys, lo, now)
        PROVE  \E t \in lo..now :
                 \A k \in Kids : IF k \in cache.keys THEN WasPublished(k, t)' ELSE WasAbsent(k, t)'
    BY <2>1, DocumentKept DEF KeysInv
  <2>2. DocumentOf(cache.keys, now - Patience, now)'
    <3>1. \E t \in (now - Patience)..now :
            \A k \in Kids : IF k \in cache.keys THEN WasPublished(k, t)' ELSE WasAbsent(k, t)'
      BY <1>4, <2>1 DEF KeysInv
    <3> QED BY <1>2, <3>1 DEF DocumentOf, DocumentAt
  <2>3. ASSUME NEW d \in Lookups, Among(resumed', d)
        PROVE  DocumentOf(cache.keys, lookup[d].start - Patience, now)'
    <3>1. d # c /\ Among(resumed, d) /\ lookup'[d] = lookup[d]
      BY <1>1, <1>3, <1>5, <2>3
    <3>2. lookup[d].stage = "waiting" /\ DocumentOf(cache.keys, lookup[d].start - Patience, now)
      BY <3>1 DEF KeysInv, QueueInv, ResumedInv
    <3>3. lookup[d].start - Patience \in Int
      BY <3>2 DEF KeysInv, KeysTyped
    <3>4. \E t \in (lookup[d].start - Patience)..now :
            \A k \in Kids : IF k \in cache.keys THEN WasPublished(k, t)' ELSE WasAbsent(k, t)'
      BY <2>1, <3>2, <3>3
    <3> QED BY <1>2, <3>1, <3>4 DEF DocumentOf, DocumentAt
  <2> QED BY <1>2, <1>4, <2>2, <2>3 DEF ResumedInv
<1>8. ASSUME NEW verdict \in {"accepted", "unknown"}, Verdict(c, kid, verdict), UNCHANGED load,
             unknown' \in Seq(Refusals)
      PROVE  /\ KeysTyped' /\ QueueInv' /\ LoadInv'
             /\ lookup'[c].stage = verdict /\ lookup'[c].kid = kid
  <2>1. Past(verdict, kid) \in LookupStates
    BY <1>1 DEF Past, LookupStates
  <2>2. /\ lookup' \in [Lookups -> LookupStates]
        /\ lookup'[c].stage = verdict /\ lookup'[c].kid = kid
    BY <1>1, <1>3, <1>8, <2>1 DEF Verdict, KeysInv, KeysTyped, Past
  <2>3. KeysTyped'
    BY <1>2, <1>1, <1>3, <1>5, <1>8, <2>2 DEF KeysInv, KeysTyped
  <2>4. QueueInv'
    BY <1>1, <1>3, <1>5, <1>8, <2>2 DEF KeysInv, QueueInv, Waits
  <2>5. ASSUME load # Null PROVE LoadInv'
    <3>1. ASSUME NEW d \in Lookups, Among(load.waiters, d)
          PROVE  lookup'[d].start - Patience <= load.start
      <4>1. d # c
        BY <1>1, <2>5, <3>1 DEF Waits
      <4> QED BY <1>5, <2>5, <3>1, <4>1 DEF KeysInv, LoadInv
    <3> QED BY <1>2, <1>8, <2>3, <2>5, <3>1, LoadStays DEF KeysInv, LoadInv
  <2> QED BY <1>8, <2>2, <2>3, <2>4, <2>5 DEF LoadInv
<1>9. CASE Accepts
  <2>1. /\ KeysTyped' /\ QueueInv' /\ LoadInv' /\ MemoryInv'
        /\ lookup'[c].stage = "accepted" /\ lookup'[c].kid = kid
    BY <1>2, <1>8, <1>9, MemoryStays DEF KeysInv, KeysTyped
  <2>2. VerdictStands(c)'
    <3>1. PICK t \in (now - Patience)..now : WasPublished(kid, t)
      BY <1>1, <1>4, <1>9 DEF DocumentOf, DocumentAt
    <3>2. t \in (now - Floor - Patience + 1)..now
      BY <3>1 DEF KeysInv
    <3> QED BY <1>2, <2>1, <3>1, <3>2 DEF VerdictStands, WasPublished
  <2>3. \A d \in Lookups : VerdictStands(d)'
    BY <1>2, <1>5, <2>1, <2>2, VerdictStays
  <2> QED BY <1>6, <1>7, <2>1, <2>3 DEF KeysInv
<1>10. CASE Refuses
  <2> DEFINE entry == [kid |-> kid, until |-> lookup[c].start + Ttl]
  <2>1. entry \in Refusals /\ Remember(entry)
    BY <1>1, <1>10 DEF Refusals, KeysInv
  <2>2. /\ unknown' \in Seq(Refusals) /\ Len(unknown') <= MaxUnknown
        /\ \A i, j \in DOMAIN unknown' : unknown'[i].kid = unknown'[j].kid => i = j
        /\ \A i \in DOMAIN unknown' :
             unknown'[i] = entry \/ \E j \in DOMAIN unknown : unknown'[i] = unknown[j]
    BY <2>1, RememberEffect DEF KeysInv
  <2>3. /\ KeysTyped' /\ QueueInv' /\ LoadInv'
        /\ lookup'[c].stage = "unknown" /\ lookup'[c].kid = kid
    BY <1>8, <1>10, <2>2
  <2>4. ASSUME NEW lo \in Int, DocumentOf(cache.keys, lo, now)
        PROVE  \E t \in lo..now : WasAbsent(kid, t)'
    BY <1>1, <1>10, <2>4, DocumentKept DEF KeysInv
  <2>5. ASSUME NEW i \in DOMAIN unknown'
        PROVE  AbsentIn(unknown[i].kid, unknown[i].until - Ttl - Patience, now)'
    <3>1. CASE unknown'[i] = entry
      <4>1. /\ unknown'[i].kid = kid /\ unknown'[i].until - Ttl - Patience = lookup[c].start - Patience
            /\ lookup[c].start - Patience \in Int
        BY <1>1, <3>1 DEF KeysInv
      <4>2. \E t \in (lookup[c].start - Patience)..now : WasAbsent(kid, t)'
        BY <1>4, <2>4, <4>1
      <4> QED BY <1>2, <4>1, <4>2 DEF AbsentIn
    <3>2. CASE \E j \in DOMAIN unknown : unknown'[i] = unknown[j]
      <4>1. PICK j \in DOMAIN unknown : unknown'[i] = unknown[j]
        BY <3>2
      <4> QED BY <1>2, <4>1, EntryStays DEF AbsentIn, KeysInv, KeysTyped
    <3> QED BY <2>2, <3>1, <3>2
  <2>6. MemoryInv'
    BY <2>2, <2>5 DEF MemoryInv
  <2>7. VerdictStands(c)'
    <3>1. PICK t \in (now - Patience)..now : WasAbsent(kid, t)'
      BY <1>4, <2>4 DEF KeysInv
    <3>2. t \in (now - Ttl - Patience + 1)..now
      BY <3>1 DEF KeysInv
    <3> QED BY <1>2, <2>3, <3>1, <3>2 DEF VerdictStands, AbsentIn, WasAbsent
  <2>8. \A d \in Lookups : VerdictStands(d)'
    BY <1>2, <1>5, <2>3, <2>7, VerdictStays
  <2> QED BY <1>6, <1>7, <2>3, <2>6, <2>8 DEF KeysInv
<1>11. CASE Again
  <2>1. /\ load' \in Loads /\ load' # Null /\ Waits' = Append(Waits, c)
        /\ load'.start = IF load = Null THEN now ELSE load.start
        /\ load'.read = IF load = Null THEN Null ELSE load.read
        /\ load'.waiters = Waits'
    BY <1>1, <1>3, <1>11, AwaitEffect
  <2>2. /\ lookup' \in [Lookups -> LookupStates]
        /\ lookup'[c].stage = "waiting" /\ lookup'[c].kid = kid /\ lookup'[c].start = lookup[c].start
    <3> DEFINE again == [lookup[c] EXCEPT !.last = TRUE]
    <3>1. lookup \in [Lookups -> LookupStates] /\ lookup[c] \in LookupStates
      BY DEF KeysInv, KeysTyped
    <3>2. /\ again \in LookupStates
          /\ again.stage = lookup[c].stage /\ again.kid = lookup[c].kid /\ again.start = lookup[c].start
      BY <3>1 DEF LookupStates
    <3>3. lookup' = [lookup EXCEPT ![c] = again]
      BY <1>11
    <3> HIDE DEF again
    <3> QED BY <1>1, <3>1, <3>2, <3>3
  <2>3. KeysTyped'
    <3>1. \A d \in Lookups : /\ lookup'[d].stage # "idle" => lookup'[d].kid \in Kids
                             /\ lookup'[d].stage = "waiting" => lookup'[d].start \in 0..now
      BY <1>1, <1>5, <2>2 DEF KeysInv, KeysTyped
    <3> QED BY <1>2, <1>1, <1>3, <1>11, <2>1, <2>2, <3>1 DEF KeysInv, KeysTyped
  <2>4. /\ \A d : Among(Waits', d) <=> d = c \/ Among(Waits, d)
        /\ Once(Waits)'
    <3>1. Waits \in Seq(Lookups)
      BY EmptySeq DEF Waits, KeysInv, KeysTyped, Loads
    <3> QED BY <1>1, <1>3, <2>1, <3>1, AppendAmong DEF KeysInv, QueueInv
  <2>5. QueueInv'
    BY <1>1, <1>3, <1>5, <2>2, <2>4 DEF KeysInv, QueueInv
  <2>6. LoadInv'
    <3>1. ASSUME NEW d \in Lookups, Among(load'.waiters, d)
          PROVE  lookup'[d].start - Patience <= load'.start
      <4>1. CASE d = c
        BY <1>1, <2>1, <2>2, <4>1 DEF KeysInv, LoadInv, KeysTyped, Loads, Times
      <4>2. CASE d # c
        <5>1. Among(Waits, d)
          BY <2>1, <2>4, <3>1, <4>2
        <5>2. load # Null
          BY <5>1 DEF Among, Waits
        <5>3. lookup[d].start - Patience <= load.start
          BY <5>1, <5>2 DEF KeysInv, LoadInv, Waits
        <5> QED BY <1>5, <2>1, <4>2, <5>2, <5>3
      <4> QED BY <4>1, <4>2
    <3>2. CASE load = Null
      BY <1>2, <2>1, <3>1, <3>2 DEF LoadInv, KeysInv
    <3>3. CASE load # Null
      BY <1>2, <2>1, <2>3, <3>1, <3>3, LoadStays DEF KeysInv, LoadInv
    <3> QED BY <3>2, <3>3
  <2>7. MemoryInv'
    BY <1>2, <1>11, MemoryStays DEF KeysInv, KeysTyped
  <2>8. \A d \in Lookups : VerdictStands(d)'
    BY <1>2, <1>5, <2>2, <2>3, VerdictStays
  <2> QED BY <1>6, <1>7, <2>3, <2>5, <2>6, <2>7, <2>8 DEF KeysInv
<1> QED BY <1>2, <1>9, <1>10, <1>11

LEMMA KeysStutter ==
  ASSUME KeysInv, UNCHANGED keyVars
  PROVE  KeysInv'
BY DEF KeysInv, keyVars, KeysTyped, QueueInv, Waits, CacheInv, LoadInv, ResumedInv, MemoryInv,
       VerdictStands, DocumentOf, DocumentAt, AbsentIn, WasPublished, WasAbsent

LEMMA KeysInvariance == KeysSpec => []KeysInv
<1>1. ASSUME KeysInv, KeysNext
      PROVE  KeysInv'
  BY <1>1, RotationStep, TimeStep, AskStep, ReadStep, ArriveStep, FailStep, GoOnStep DEF KeysNext
<1>2. KeysInv /\ [KeysNext]_keyVars => KeysInv'
  BY <1>1, KeysStutter
<1> QED BY <1>2, KeysBegin, PTL DEF KeysSpec

-----------------------------------------------------------------------------
(* Connections: consents, rows and the reader.                             *)

Stages == {"consent", "exchanged", "named", "done"}
Flows ==
  [email : Firefighters, provider : Providers, expires : Nat, key : 0..MaxRotations,
   stage : Stages, account : Accounts \cup {Blank}, at : Nat \cup {Blank}]
Readers ==
  [stage : {"idle", "listed", "nobody", "speaks", "seal_error"},
   provider : Providers \cup {Blank}, decider : People \cup {Blank},
   speaker : Firefighters \cup {Blank}, account : Accounts \cup {Blank},
   token : 0..MaxFlows \cup {Blank}, key : 0..MaxRotations \cup {Blank}, seen : SUBSET People]

ConnectionsTyped ==
  /\ clock \in 0..MaxClock /\ key \in 0..MaxRotations
  /\ flows \in Seq(Flows) /\ Len(flows) <= MaxFlows
  /\ connection = [x \in People \X Providers |-> connection[x]]
  /\ reader \in Readers

\* What was answered names an account, and was answered in time.
AnswersInTime ==
  \A i \in DOMAIN flows :
    flows[i].stage # "consent" =>
      flows[i].account \in Accounts /\ flows[i].at \in Nat /\ flows[i].at < flows[i].expires

\* The flow i is over, and granted p to e.
Granted(i, e, p) ==
  i \in DOMAIN flows /\ flows[i].stage = "done" /\ flows[i].email = e /\ flows[i].provider = p

\* The row of a fire-fighter is the grant of one of his own flows.
RowsAreGrants ==
  \A e \in Firefighters, p \in Providers :
    LET stored == connection[<<e, p>>]
    IN  stored # Blank =>
          /\ stored \in Rows /\ Granted(stored.token, e, p)
          /\ flows[stored.token].account = stored.account

\* Who is about to speak has a row, which is never taken away; who speaks has a grant.
ReaderIsBacked ==
  /\ reader.stage = "listed" =>
       /\ reader.speaker \in Firefighters /\ reader.provider \in Providers
       /\ connection[<<reader.speaker, reader.provider>>] # Blank
  /\ reader.stage = "speaks" =>
       /\ reader.speaker \in Firefighters
       /\ Granted(reader.token, reader.speaker, reader.provider)

ConnectionsInv ==
  /\ ConnectionsTyped /\ AnswersInTime /\ RowsAreGrants /\ ReaderIsBacked /\ SpeakerIsRightful

LEMMA Roster ==
  /\ StateTtl \in Nat \ {0} /\ MaxFlows \in Nat /\ MaxRotations \in Nat /\ MaxClock \in Nat
  /\ Len(Pool) \in Nat /\ DOMAIN Pool = 1..Len(Pool)
  /\ \A i \in DOMAIN Pool : Pool[i] \in Firefighters
  /\ \A e \in Firefighters : \E i \in DOMAIN Pool : Pool[i] = e
  /\ \A i, j \in DOMAIN Pool : Pool[i] = Pool[j] => i = j
  /\ Blank \notin Firefighters /\ Blank \notin Rows /\ Firefighters \subseteq People
<1>1. Len(Pool) \in Nat /\ DOMAIN Pool = 1..Len(Pool)
  BY ConnectionsAssumption, LenProperties
<1> QED BY <1>1, ConnectionsAssumption DEF Firefighters, People, Range, IsInjective

LEMMA SmallestIndex ==
  ASSUME NEW T, T \subseteq Nat, T # {}
  PROVE  \E i \in T : \A j \in T : i <= j
<1>1. IsWellFoundedOn(OpToRel(<, Nat), Nat)
  BY NatLessThanWellFounded
<1>2. PICK i \in T : \A j \in T : <<j, i>> \notin OpToRel(<, Nat)
  BY <1>1, WFMin
<1>3. \A j \in T : ~(j < i)
  BY <1>2 DEF OpToRel
<1> QED BY <1>3

\* The first of the roster who is connected.
LEMMA FirstOfRosterIs ==
  ASSUME NEW connected
  PROVE  LET who == FirstOfRoster(connected)
         IN  /\ who = Blank => connected \cap Firefighters = {}
             /\ who # Blank =>
                  /\ who \in connected \cap Firefighters
                  /\ \A i, j \in DOMAIN Pool : Pool[i] \in connected /\ Pool[j] = who => j <= i
<1> DEFINE eligible == {i \in DOMAIN Pool : Pool[i] \in connected}
           first == CHOOSE i \in eligible : \A j \in eligible : i <= j
<1>1. CASE eligible = {}
  <2>1. FirstOfRoster(connected) = Blank
    BY <1>1 DEF FirstOfRoster
  <2>2. connected \cap Firefighters = {}
    BY <1>1, Roster
  <2> QED BY <2>1, <2>2
<1>2. CASE eligible # {}
  <2>1. FirstOfRoster(connected) = Pool[first]
    BY <1>2 DEF FirstOfRoster
  <2>2. first \in eligible /\ \A j \in eligible : first <= j
    <3>1. eligible \subseteq Nat
      BY Roster
    <3>2. \E i \in eligible : \A j \in eligible : i <= j
      BY <1>2, <3>1, SmallestIndex
    <3> QED BY <3>2
  <2> HIDE DEF first
  <2>3. Pool[first] \in connected \cap Firefighters /\ Pool[first] # Blank
    BY <2>2, Roster
  <2>4. \A i, j \in DOMAIN Pool : Pool[i] \in connected /\ Pool[j] = Pool[first] => j <= i
    BY <2>2, Roster
  <2> QED BY <2>1, <2>3, <2>4
<1> QED BY <1>1, <1>2

LEMMA PickSpeakerIs ==
  ASSUME NEW connected, NEW decider
  PROVE  LET who == PickSpeaker(connected, decider)
             eligible == connected \cap Firefighters
         IN  /\ who = Blank => eligible = {}
             /\ who # Blank =>
                  /\ who \in eligible
                  /\ decider \in eligible => who = decider
                  /\ decider \notin eligible =>
                       \A i, j \in DOMAIN Pool : Pool[i] \in eligible /\ Pool[j] = who => j <= i
<1>1. CASE decider \in connected \cap Firefighters
  BY <1>1, Roster DEF PickSpeaker
<1>2. CASE decider \notin connected \cap Firefighters
  <2>1. PickSpeaker(connected, decider) = FirstOfRoster(connected)
    BY <1>2 DEF PickSpeaker
  <2> QED BY <1>2, <2>1, FirstOfRosterIs, Roster
<1> QED BY <1>1, <1>2

LEMMA ConnectionsInvSuffices ==
  ASSUME ConnectionsInv
  PROVE  ConnectionsHold
<1>1. ConnectionsTypeOK
  BY Roster DEF ConnectionsInv, ConnectionsTyped, ConnectionsTypeOK, Readers
<1>2. SpeaksWithOwnToken
  BY DEF ConnectionsInv, AnswersInTime, ReaderIsBacked, Granted, SpeaksWithOwnToken
<1>3. RowsAreOneExchange
  BY DEF ConnectionsInv, RowsAreGrants, Granted, RowsAreOneExchange
<1> QED BY <1>1, <1>2, <1>3 DEF ConnectionsInv, ConnectionsHold

LEMMA ConnectionsBegin ==
  ASSUME ConnectionsInit
  PROVE  ConnectionsInv
<1> USE Roster
<1>1. ConnectionsTyped
  <2>1. connection = [x \in People \X Providers |-> connection[x]]
    BY DEF ConnectionsInit
  <2>2. reader \in Readers
    BY DEF ConnectionsInit, Idle, Readers
  <2> QED BY <2>1, <2>2, EmptySeq DEF ConnectionsInit, ConnectionsTyped
<1>2. AnswersInTime
  BY DEF ConnectionsInit, AnswersInTime
<1>3. RowsAreGrants
  <2>1. ASSUME NEW e \in Firefighters, NEW p \in Providers
        PROVE  connection[<<e, p>>] = Blank
    BY <2>1, ConnectionsAssumption DEF ConnectionsInit
  <2> QED BY <2>1 DEF RowsAreGrants
<1>4. ReaderIsBacked /\ SpeakerIsRightful
  BY DEF ConnectionsInit, Idle, ReaderIsBacked, SpeakerIsRightful
<1> QED BY <1>1, <1>2, <1>3, <1>4 DEF ConnectionsInv

\* While no flow that is over changes and no row comes to be, what was granted is granted.
LEMMA GrantsStay ==
  ASSUME ConnectionsInv, flows' \in Seq(Flows), UNCHANGED connection,
         \A i \in DOMAIN flows : flows[i].stage = "done" => i \in DOMAIN flows' /\ flows'[i] = flows[i]
  PROVE  /\ RowsAreGrants'
         /\ \A i, e, p : Granted(i, e, p) => Granted(i, e, p)'
<1>1. \A i, e, p : Granted(i, e, p) => Granted(i, e, p)' /\ flows'[i] = flows[i]
  BY DEF Granted
<1> QED BY <1>1 DEF ConnectionsInv, RowsAreGrants

\* One flow goes on to another stage.
LEMMA FlowGoesOn ==
  ASSUME ConnectionsTyped, NEW i \in DOMAIN flows, NEW flow \in Flows,
         flows' = [flows EXCEPT ![i] = flow]
  PROVE  /\ flows' \in Seq(Flows) /\ Len(flows') = Len(flows) /\ DOMAIN flows' = DOMAIN flows
         /\ flows'[i] = flow
         /\ \A j \in DOMAIN flows \ {i} : flows'[j] = flows[j]
<1>1. DOMAIN flows = 1..Len(flows)
  BY LenProperties DEF ConnectionsTyped
<1>2. /\ flows' \in Seq(Flows) /\ Len(flows') = Len(flows)
      /\ \A j \in 1..Len(flows) : flows'[j] = IF j = i THEN flow ELSE flows[j]
  BY <1>1, ExceptSeq DEF ConnectionsTyped
<1> QED BY <1>1, <1>2, LenProperties

LEMMA FlowTyped ==
  ASSUME ConnectionsTyped, NEW i \in DOMAIN flows
  PROVE  flows[i] \in Flows /\ i \in 1..MaxFlows
BY Roster, LenProperties, ElementOfSeq DEF ConnectionsTyped

\* Exchange, NameAccount and ConnectFails: a flow that is not over goes on, in time.
LEMMA FlowStep ==
  ASSUME ConnectionsInv, NEW i \in DOMAIN flows, NEW flow \in Flows,
         flows[i].stage # "done", flows' = [flows EXCEPT ![i] = flow],
         flow.stage # "consent" =>
           flow.account \in Accounts /\ flow.at \in Nat /\ flow.at < flow.expires,
         UNCHANGED <<clock, key, connection, reader>>
  PROVE  ConnectionsInv'
<1>1. /\ flows' \in Seq(Flows) /\ Len(flows') = Len(flows) /\ DOMAIN flows' = DOMAIN flows
      /\ flows'[i] = flow
      /\ \A j \in DOMAIN flows \ {i} : flows'[j] = flows[j]
  BY FlowGoesOn DEF ConnectionsInv
<1>2. ConnectionsTyped'
  BY <1>1 DEF ConnectionsInv, ConnectionsTyped
<1>3. AnswersInTime'
  BY <1>1 DEF ConnectionsInv, AnswersInTime
<1>4. RowsAreGrants' /\ \A j, e, p : Granted(j, e, p) => Granted(j, e, p)'
  <2>1. \A j \in DOMAIN flows : flows[j].stage = "done" => j \in DOMAIN flows' /\ flows'[j] = flows[j]
    BY <1>1
  <2> QED BY <1>1, <2>1, GrantsStay
<1>5. ReaderIsBacked' /\ SpeakerIsRightful'
  BY <1>4 DEF ConnectionsInv, ReaderIsBacked, SpeakerIsRightful
<1> QED BY <1>2, <1>3, <1>4, <1>5 DEF ConnectionsInv

LEMMA ExchangeStep ==
  ASSUME ConnectionsInv, Exchange
  PROVE  ConnectionsInv'
<1>1. PICK i \in DOMAIN flows, p \in Providers, a \in Accounts :
        /\ flows[i].stage = "consent" /\ Verified(flows[i], p)
        /\ flows' = [flows EXCEPT ![i].stage = IF p = "slack" THEN "named" ELSE "exchanged",
                                  ![i].account = a, ![i].at = clock]
        /\ UNCHANGED <<clock, key, connection, reader>>
  BY DEF Exchange
<1> DEFINE flow == [flows[i] EXCEPT !.stage = IF p = "slack" THEN "named" ELSE "exchanged",
                                    !.account = a, !.at = clock]
<1>2. flows[i] \in Flows /\ clock \in Nat
  BY FlowTyped, Roster DEF ConnectionsInv, ConnectionsTyped
<1>3. flow \in Flows /\ flow.account = a /\ flow.at = clock /\ flow.expires = flows[i].expires
  BY <1>2 DEF Flows, Stages
<1>4. flows' = [flows EXCEPT ![i] = flow]
  BY <1>1
<1>5. clock < flows[i].expires
  BY <1>1 DEF Verified
<1> HIDE DEF flow
<1> QED BY <1>1, <1>2, <1>3, <1>4, <1>5, FlowStep

LEMMA NameAccountStep ==
  ASSUME ConnectionsInv, NameAccount
  PROVE  ConnectionsInv'
<1>1. PICK i \in DOMAIN flows :
        /\ flows[i].stage = "exchanged" /\ flows' = [flows EXCEPT ![i].stage = "named"]
        /\ UNCHANGED <<clock, key, connection, reader>>
  BY DEF NameAccount
<1> DEFINE flow == [flows[i] EXCEPT !.stage = "named"]
<1>2. flows[i] \in Flows
  BY FlowTyped DEF ConnectionsInv
<1>3. /\ flow \in Flows /\ flow.account = flows[i].account
      /\ flow.at = flows[i].at /\ flow.expires = flows[i].expires
  BY <1>2 DEF Flows, Stages
<1>4. flows' = [flows EXCEPT ![i] = flow]
  BY <1>1
<1>5. flows[i].account \in Accounts /\ flows[i].at \in Nat /\ flows[i].at < flows[i].expires
  BY <1>1 DEF ConnectionsInv, AnswersInTime
<1> HIDE DEF flow
<1> QED BY <1>1, <1>3, <1>4, <1>5, FlowStep

LEMMA ConnectFailsStep ==
  ASSUME ConnectionsInv, ConnectFails
  PROVE  ConnectionsInv'
<1>1. PICK i \in DOMAIN flows :
        /\ flows[i].stage \in {"exchanged", "named"}
        /\ flows' = [flows EXCEPT ![i].stage = "consent", ![i].account = Blank, ![i].at = Blank]
        /\ UNCHANGED <<clock, key, connection, reader>>
  BY DEF ConnectFails
<1> DEFINE flow == [flows[i] EXCEPT !.stage = "consent", !.account = Blank, !.at = Blank]
<1>2. flows[i] \in Flows
  BY FlowTyped DEF ConnectionsInv
<1>3. flow \in Flows /\ flow.stage = "consent"
  BY <1>2 DEF Flows, Stages
<1>4. flows' = [flows EXCEPT ![i] = flow]
  BY <1>1
<1> HIDE DEF flow
<1> QED BY <1>1, <1>3, <1>4, FlowStep

LEMMA StartStep ==
  ASSUME ConnectionsInv, Start
  PROVE  ConnectionsInv'
<1>1. PICK e \in Firefighters, p \in Providers :
        /\ Len(flows) < MaxFlows
        /\ flows' = Append(flows, [email |-> e, provider |-> p, expires |-> clock + StateTtl,
                                   key |-> key, stage |-> "consent", account |-> Blank,
                                   at |-> Blank])
        /\ UNCHANGED <<clock, key, connection, reader>>
  BY DEF Start
<1> DEFINE flow == [email |-> e, provider |-> p, expires |-> clock + StateTtl,
                    key |-> key, stage |-> "consent", account |-> Blank, at |-> Blank]
           n == Len(flows)
<1>2. flow \in Flows /\ flow.stage = "consent"
  BY Roster DEF Flows, Stages, ConnectionsInv, ConnectionsTyped
<1>3. n \in Nat /\ DOMAIN flows = 1..n /\ flows \in Seq(Flows)
  BY LenProperties DEF ConnectionsInv, ConnectionsTyped
<1>4. flows' = Append(flows, flow)
  BY <1>1
<1> HIDE DEF flow
<1>5. /\ flows' \in Seq(Flows) /\ Len(flows') = n + 1 /\ flows'[n + 1] = flow
      /\ \A j \in 1..n : flows'[j] = flows[j]
  BY <1>2, <1>3, <1>4, AppendProperties
<1>6. DOMAIN flows' = 1..(n + 1) /\ \A j \in 1..(n + 1) : j = n + 1 \/ j \in 1..n
  BY <1>3, <1>5, LenProperties
<1>7. ConnectionsTyped'
  BY <1>1, <1>3, <1>5, Roster DEF ConnectionsInv, ConnectionsTyped
<1>8. AnswersInTime'
  BY <1>2, <1>3, <1>5, <1>6 DEF ConnectionsInv, AnswersInTime
<1>9. RowsAreGrants' /\ \A j, g, q : Granted(j, g, q) => Granted(j, g, q)'
  <2>1. \A j \in DOMAIN flows : flows[j].stage = "done" => j \in DOMAIN flows' /\ flows'[j] = flows[j]
    BY <1>3, <1>5, <1>6
  <2> QED BY <1>1, <1>5, <2>1, GrantsStay
<1>10. ReaderIsBacked' /\ SpeakerIsRightful'
  BY <1>1, <1>9 DEF ConnectionsInv, ReaderIsBacked, SpeakerIsRightful
<1> QED BY <1>7, <1>8, <1>9, <1>10 DEF ConnectionsInv

LEMMA UpsertStep ==
  ASSUME ConnectionsInv, Upsert
  PROVE  ConnectionsInv'
<1>1. PICK i \in DOMAIN flows :
        /\ flows[i].stage = "named"
        /\ connection' = [connection EXCEPT ![<<flows[i].email, flows[i].provider>>] =
                            Row(flows[i].account, i, flows[i].key)]
        /\ flows' = [flows EXCEPT ![i].stage = "done"]
        /\ UNCHANGED <<clock, key, reader>>
  BY DEF Upsert
<1> DEFINE flow == [flows[i] EXCEPT !.stage = "done"]
           place == <<flows[i].email, flows[i].provider>>
           row == Row(flows[i].account, i, flows[i].key)
<1>2. flows[i] \in Flows /\ i \in 1..MaxFlows
  BY FlowTyped DEF ConnectionsInv
<1>3. /\ flow \in Flows /\ flow.at = flows[i].at /\ flow.expires = flows[i].expires
      /\ flow.stage = "done" /\ flow.email = flows[i].email /\ flow.provider = flows[i].provider
      /\ flow.account = flows[i].account
  BY <1>2 DEF Flows, Stages
<1>4. flows' = [flows EXCEPT ![i] = flow]
  BY <1>1
<1>5. flows[i].account \in Accounts /\ flows[i].at \in Nat /\ flows[i].at < flows[i].expires
  BY <1>1 DEF ConnectionsInv, AnswersInTime
<1>6. /\ place \in People \X Providers
      /\ flows[i].email \in Firefighters /\ flows[i].provider \in Providers
  BY <1>2, Roster DEF Flows
<1>7. /\ connection' = [x \in People \X Providers |-> connection'[x]]
      /\ connection'[place] = row
      /\ \A x \in People \X Providers : x # place => connection'[x] = connection[x]
  BY <1>1, <1>6 DEF ConnectionsInv, ConnectionsTyped
<1>8. row \in Rows /\ row.token = i /\ row.account = flows[i].account
  BY <1>2, <1>5, Roster DEF Row, Rows, Flows
<1> HIDE DEF flow, place, row
<1>9. /\ flows' \in Seq(Flows) /\ Len(flows') = Len(flows) /\ DOMAIN flows' = DOMAIN flows
      /\ flows'[i] = flow
      /\ \A j \in DOMAIN flows \ {i} : flows'[j] = flows[j]
  BY <1>3, <1>4, FlowGoesOn DEF ConnectionsInv
<1>10. ConnectionsTyped'
  BY <1>1, <1>7, <1>9 DEF ConnectionsInv, ConnectionsTyped
<1>11. AnswersInTime'
  BY <1>3, <1>5, <1>9 DEF ConnectionsInv, AnswersInTime
<1>12. \A j \in DOMAIN flows :
         flows[j].stage = "done" => j \in DOMAIN flows' /\ flows'[j] = flows[j]
  BY <1>1, <1>9
<1>13. RowsAreGrants'
  <2> SUFFICES ASSUME NEW e \in Firefighters, NEW p \in Providers, connection'[<<e, p>>] # Blank
               PROVE  /\ connection'[<<e, p>>] \in Rows
                      /\ Granted(connection[<<e, p>>].token, e, p)'
                      /\ flows'[connection'[<<e, p>>].token].account = connection'[<<e, p>>].account
    BY DEF RowsAreGrants
  <2>1. <<e, p>> \in People \X Providers
    BY Roster
  <2>2. CASE <<e, p>> = place
    <3>1. e = flows[i].email /\ p = flows[i].provider
      BY <2>2 DEF place
    <3> QED BY <1>3, <1>7, <1>8, <1>9, <2>2, <3>1 DEF Granted
  <2>3. CASE <<e, p>> # place
    <3>1. connection'[<<e, p>>] = connection[<<e, p>>]
      BY <1>7, <2>1, <2>3
    <3>2. /\ connection[<<e, p>>] \in Rows /\ Granted(connection[<<e, p>>].token, e, p)
          /\ flows[connection[<<e, p>>].token].account = connection[<<e, p>>].account
      BY <3>1 DEF ConnectionsInv, RowsAreGrants
    <3> QED BY <1>12, <3>1, <3>2 DEF Granted
  <2> QED BY <2>2, <2>3
<1>14. ReaderIsBacked'
  <2>1. ASSUME reader.stage = "listed"
        PROVE  /\ reader.speaker \in Firefighters /\ reader.provider \in Providers
               /\ connection'[<<reader.speaker, reader.provider>>] # Blank
    <3>1. /\ reader.speaker \in Firefighters /\ reader.provider \in Providers
          /\ connection[<<reader.speaker, reader.provider>>] # Blank
      BY <2>1 DEF ConnectionsInv, ReaderIsBacked
    <3>2. <<reader.speaker, reader.provider>> \in People \X Providers
      BY <3>1, Roster
    <3> QED BY <1>7, <1>8, <3>1, <3>2, Roster
  <2>2. ASSUME reader.stage = "speaks"
        PROVE  /\ reader.speaker \in Firefighters
               /\ Granted(reader.token, reader.speaker, reader.provider)'
    BY <1>1, <1>12, <2>2 DEF ConnectionsInv, ReaderIsBacked, Granted
  <2> QED BY <1>1, <2>1, <2>2 DEF ReaderIsBacked
<1>15. SpeakerIsRightful'
  BY <1>1 DEF ConnectionsInv, SpeakerIsRightful
<1> QED BY <1>10, <1>11, <1>13, <1>14, <1>15 DEF ConnectionsInv

\* The steps of the reader, and of the clock and the key, leave flows and rows alone.
LEMMA RowsStay ==
  ASSUME ConnectionsInv, UNCHANGED <<flows, connection>>,
         clock' \in 0..MaxClock, key' \in 0..MaxRotations, reader' \in Readers
  PROVE  ConnectionsTyped' /\ AnswersInTime' /\ RowsAreGrants'
BY DEF ConnectionsInv, ConnectionsTyped, AnswersInTime, RowsAreGrants, Granted

LEMMA SettingsStep ==
  ASSUME ConnectionsInv, ClockTicks \/ Rotate
  PROVE  ConnectionsInv'
<1>1. /\ UNCHANGED <<flows, connection, reader>>
      /\ clock' \in 0..MaxClock /\ key' \in 0..MaxRotations
  BY Roster DEF ClockTicks, Rotate, ConnectionsInv, ConnectionsTyped
<1>2. ReaderIsBacked' /\ SpeakerIsRightful'
  BY <1>1 DEF ConnectionsInv, ReaderIsBacked, SpeakerIsRightful, Granted
<1> QED BY <1>1, <1>2, RowsStay DEF ConnectionsInv, ConnectionsTyped

LEMMA ListStep ==
  ASSUME ConnectionsInv, List
  PROVE  ConnectionsInv'
<1>1. PICK p \in Providers, decider \in People \cup {Blank} :
        LET who == PickSpeaker(Connected(p), decider)
        IN  reader' = [Idle EXCEPT !.stage = IF who = Blank THEN "nobody" ELSE "listed",
                                   !.provider = p, !.decider = decider, !.speaker = who,
                                   !.account = IF who = Blank THEN Blank ELSE connection[<<who, p>>].account,
                                   !.key = key, !.seen = Connected(p)]
  BY DEF List
<1>2. UNCHANGED <<clock, key, flows, connection>>
  BY DEF List
<1> DEFINE who == PickSpeaker(Connected(p), decider)
           account == IF who = Blank THEN Blank ELSE connection[<<who, p>>].account
           eligible == Connected(p) \cap Firefighters
<1>3. /\ who = Blank => eligible = {}
      /\ who # Blank =>
           /\ who \in eligible
           /\ decider \in eligible => who = decider
           /\ decider \notin eligible =>
                \A i, j \in DOMAIN Pool : Pool[i] \in eligible /\ Pool[j] = who => j <= i
  BY PickSpeakerIs
<1> HIDE DEF who
<1>4. Connected(p) \in SUBSET People
  BY DEF Connected
<1>5. who # Blank => connection[<<who, p>>] # Blank /\ account \in Accounts
  BY <1>3 DEF Connected, ConnectionsInv, RowsAreGrants, Rows
<1> HIDE DEF account
<1>6. reader' = [stage |-> IF who = Blank THEN "nobody" ELSE "listed", provider |-> p,
                 decider |-> decider, speaker |-> who, account |-> account, token |-> Blank,
                 key |-> key, seen |-> Connected(p)]
  BY <1>1 DEF Idle, who, account
<1>7. account \in Accounts \cup {Blank} /\ who \in Firefighters \cup {Blank}
  BY <1>3, <1>5 DEF account
<1>8. reader' \in Readers
  BY <1>4, <1>6, <1>7 DEF Readers, ConnectionsInv, ConnectionsTyped
<1>9. ReaderIsBacked'
  BY <1>2, <1>3, <1>5, <1>6 DEF ReaderIsBacked
<1>10. SpeakerIsRightful'
  BY <1>3, <1>6 DEF SpeakerIsRightful
<1> QED BY <1>2, <1>8, <1>9, <1>10, RowsStay DEF ConnectionsInv, ConnectionsTyped

LEMMA OpenTokenStep ==
  ASSUME ConnectionsInv, OpenToken
  PROVE  ConnectionsInv'
<1> DEFINE stored == connection[<<reader.speaker, reader.provider>>]
<1>1. /\ reader.stage = "listed" /\ UNCHANGED <<clock, key, flows, connection>>
      /\ reader' = [reader EXCEPT
           !.stage = IF stored.sealedWith = reader.key THEN "speaks" ELSE "seal_error",
           !.token = IF stored.sealedWith = reader.key THEN stored.token ELSE Blank]
  BY DEF OpenToken
<1>2. /\ reader.speaker \in Firefighters /\ reader.provider \in Providers
      /\ stored \in Rows /\ Granted(stored.token, reader.speaker, reader.provider)
  BY <1>1 DEF ConnectionsInv, ReaderIsBacked, RowsAreGrants
<1>3. stored.token \in 0..MaxFlows
  BY <1>2 DEF Rows
<1> HIDE DEF stored
<1>4. reader \in Readers
  BY DEF ConnectionsInv, ConnectionsTyped
<1>5. /\ reader' \in Readers
      /\ reader'.stage \in {"speaks", "seal_error"}
      /\ reader'.stage = "speaks" => reader'.token = stored.token
      /\ reader'.speaker = reader.speaker /\ reader'.provider = reader.provider
      /\ reader'.decider = reader.decider /\ reader'.seen = reader.seen
  BY <1>1, <1>3, <1>4 DEF Readers
<1>6. ReaderIsBacked'
  BY <1>1, <1>2, <1>5 DEF ReaderIsBacked, Granted
<1>7. SpeakerIsRightful'
  BY <1>1, <1>5 DEF ConnectionsInv, SpeakerIsRightful
<1> QED BY <1>1, <1>5, <1>6, <1>7, RowsStay DEF ConnectionsInv, ConnectionsTyped

LEMMA FinishStep ==
  ASSUME ConnectionsInv, Finish
  PROVE  ConnectionsInv'
<1>1. reader' = Idle /\ UNCHANGED <<clock, key, flows, connection>>
  BY DEF Finish
<1>2. Idle \in Readers /\ Idle.stage = "idle"
  BY DEF Idle, Readers
<1>3. ReaderIsBacked' /\ SpeakerIsRightful'
  BY <1>1, <1>2 DEF ReaderIsBacked, SpeakerIsRightful
<1> QED BY <1>1, <1>2, <1>3, RowsStay DEF ConnectionsInv, ConnectionsTyped

LEMMA ConnectionsStutter ==
  ASSUME ConnectionsInv, UNCHANGED connectionVars
  PROVE  ConnectionsInv'
<1>1. UNCHANGED <<clock, key, flows, connection, reader>>
  BY DEF connectionVars
<1>2. ReaderIsBacked' /\ SpeakerIsRightful'
  BY <1>1 DEF ConnectionsInv, ReaderIsBacked, SpeakerIsRightful, Granted
<1> QED BY <1>1, <1>2, RowsStay DEF ConnectionsInv, ConnectionsTyped

LEMMA ConnectionsInvariance == ConnectionsSpec => []ConnectionsInv
<1>1. ASSUME ConnectionsInv, ConnectionsNext
      PROVE  ConnectionsInv'
  BY <1>1, SettingsStep, StartStep, ExchangeStep, NameAccountStep, ConnectFailsStep, UpsertStep,
     ListStep, OpenTokenStep, FinishStep DEF ConnectionsNext
<1>2. ConnectionsInv /\ [ConnectionsNext]_connectionVars => ConnectionsInv'
  BY <1>1, ConnectionsStutter
<1> QED BY <1>2, ConnectionsBegin, PTL DEF ConnectionsSpec

-----------------------------------------------------------------------------
(* A token is verified only with a key of late and refused only for want of *)
(* one of late, and nobody speaks but by his own right and with a token he   *)
(* was granted (verify and resolveKey; the OAuth callback and pickSpeaker).  *)
THEOREM Credentials == KeysSpec /\ ConnectionsSpec => []CredentialsHold
<1>1. KeysInv /\ ConnectionsInv => CredentialsHold
  BY KeysInvSuffices, ConnectionsInvSuffices DEF CredentialsHold
<1> QED BY <1>1, KeysInvariance, ConnectionsInvariance, PTL
=============================================================================
