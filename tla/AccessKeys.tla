------------------------------ MODULE AccessKeys ------------------------------
(* The keys that verify an Access token: one isolate's copy of the published *)
(* JWKS document, the load that callers share, and the memory of key ids it  *)
(* looked for in vain.  A lookup is one token's way through verify to its    *)
(* key; the claims of the token are not modelled.                            *)
EXTENDS Integers, Sequences

CONSTANTS
  Kids,       \* key ids a token may name
  Issued,     \* those that are ever a key of Access
  Lookups,    \* requests under way at the same time
  Floor,      \* JWKS_CACHE_FLOOR_MS
  Ttl,        \* UNKNOWN_KID_NEGATIVE_TTL_MS
  MaxUnknown, \* MAX_UNKNOWN_KIDS
  Patience,   \* how long a fetch may take (a bound)
  Watched,    \* how long the isolate is watched (a bound)
  Null        \* no cache, no load, no time

Times == 0..Watched
Loads == [start : Times, read : (SUBSET Kids) \cup {Null}, waiters : Seq(Lookups)]

ASSUME KeysAssumption ==
  /\ {Floor, Ttl, MaxUnknown} \subseteq Nat \ {0} /\ {Patience, Watched} \subseteq Nat
  /\ Null \notin Nat \cup Loads /\ Issued \subseteq Kids

VARIABLES
  now,
  born, gone, \* when Access published each key, and when it withdrew it
  cache,      \* the last document and when it arrived
  load,       \* the fetch under way and the lookups that await it, first come first
  resumed,    \* the lookups whose load has arrived and who go on next, in order
  unknown,    \* unknownKids, in insertion order
  lookup      \* where each lookup is

keyVars == <<now, born, gone, cache, load, resumed, unknown, lookup>>

\* A lookup that waits for no load; its verdict stands until time passes.
Past(stage, kid) == [stage |-> stage, kid |-> kid, start |-> Null, last |-> FALSE]
NoLookup == Past("idle", Null)

KeysInit ==
  /\ now = 0 /\ born \in [Kids -> {0, Null}] /\ \A k \in Kids \ Issued : born[k] = Null
  /\ gone = [k \in Kids |-> Null]
  /\ cache = Null /\ load = Null /\ resumed = <<>> /\ unknown = <<>>
  /\ lookup = [c \in Lookups |-> NoLookup]

-------------------------------------------------------------------- \* Access

\* A key is rotated in, and later out, for good.
Publish ==
  \E k \in Issued :
    /\ born[k] = Null /\ born' = [born EXCEPT ![k] = now]
    /\ UNCHANGED <<now, gone, cache, load, resumed, unknown, lookup>>

Retire ==
  \E k \in Issued :
    /\ born[k] # Null /\ gone[k] = Null /\ gone' = [gone EXCEPT ![k] = now]
    /\ UNCHANGED <<now, born, cache, load, resumed, unknown, lookup>>

Document == {k \in Kids : born[k] # Null /\ gone[k] = Null}

\* Time passes, but a fetch does not take longer than Patience.
TimePasses ==
  /\ now < Watched /\ (load # Null => now - load.start < Patience)
  /\ now' = now + 1
  /\ lookup' = [c \in Lookups |-> IF lookup[c].stage = "waiting" THEN lookup[c] ELSE NoLookup]
  /\ UNCHANGED <<born, gone, cache, load, resumed, unknown>>

\* Ghost readings of the rotation: k was, or was not, published at some moment of t.
WasPublished(k, t) == born[k] # Null /\ born[k] <= t /\ (gone[k] # Null => t <= gone[k])
WasAbsent(k, t) == born[k] = Null \/ t <= born[k] \/ (gone[k] # Null /\ t >= gone[k])

--------------------------------------------------------------- \* the verifier

\* Where unknownKids has an entry for kid, and unknownKids without its i-th entry.
Remembered(kid) == {i \in DOMAIN unknown : unknown[i].kid = kid}
Without(i) == SubSeq(unknown, 1, i - 1) \o SubSeq(unknown, i + 1, Len(unknown))

IsFresh == cache # Null /\ now - cache.at < Floor

\* loadJwks: who comes while a fetch is under way shares it.
Await(c) ==
  load' = IF load = Null THEN [start |-> now, read |-> Null, waiters |-> <<c>>]
          ELSE [load EXCEPT !.waiters = Append(@, c)]

Verdict(c, kid, verdict) == lookup' = [lookup EXCEPT ![c] = Past(verdict, kid)]

\* resolveKey: a kid remembered as unknown is refused.
Refuse(c, kid) ==
  /\ \E i \in Remembered(kid) : now < unknown[i].until
  /\ Verdict(c, kid, "unknown")
  /\ UNCHANGED <<load, unknown>>

\* An entry that expired is forgotten.
Forget(kid) ==
  \/ Remembered(kid) = {} /\ UNCHANGED unknown
  \/ \E i \in Remembered(kid) : now >= unknown[i].until /\ unknown' = Without(i)

\* A fresh cache that misses leaves one load, a stale one two.
LookUp(c, kid) ==
  /\ Forget(kid)
  /\ IF IsFresh /\ kid \in cache.keys
       THEN Verdict(c, kid, "accepted") /\ UNCHANGED load
       ELSE /\ Await(c)
            /\ lookup' = [lookup EXCEPT ![c] =
                 [stage |-> "waiting", kid |-> kid, start |-> now, last |-> IsFresh]]

\* resolveKey up to its first await.
Ask ==
  \E c \in Lookups, kid \in Kids :
    /\ lookup[c].stage # "waiting"
    /\ Refuse(c, kid) \/ LookUp(c, kid)
    /\ UNCHANGED <<now, born, gone, cache, resumed>>

\* The endpoint answers with the document of the moment.
ReadDocument ==
  /\ load # Null /\ load.read = Null
  /\ load' = [load EXCEPT !.read = Document]
  /\ UNCHANGED <<now, born, gone, cache, resumed, unknown, lookup>>

\* The document arrives: the load is over, and its waiters go on in the order they came.
Arrive ==
  /\ load # Null /\ load.read # Null
  /\ cache' = [keys |-> load.read, at |-> now]
  /\ load' = Null /\ resumed' = load.waiters
  /\ UNCHANGED <<now, born, gone, unknown, lookup>>

\* rememberUnknownKid: the oldest entry makes room, and an entry that is there keeps its place.
Remember(entry) ==
  LET room == IF Len(unknown) >= MaxUnknown THEN Tail(unknown) ELSE unknown
  IN  unknown' = IF \E i \in DOMAIN room : room[i].kid = entry.kid
                   THEN [i \in DOMAIN room |-> IF room[i].kid = entry.kid THEN entry ELSE room[i]]
                   ELSE Append(room, entry)

\* resolveKey after its await: the key is there, or it is looked for once more in a load
\* that is shared again, or it is unknown.
GoOn ==
  /\ LET c == Head(resumed)
         kid == lookup[c].kid
     IN  \/ /\ kid \in cache.keys
            /\ Verdict(c, kid, "accepted")
            /\ UNCHANGED <<load, unknown>>
         \/ /\ kid \notin cache.keys /\ ~lookup[c].last
            /\ Await(c)
            /\ lookup' = [lookup EXCEPT ![c].last = TRUE]
            /\ UNCHANGED unknown
         \/ /\ kid \notin cache.keys /\ lookup[c].last
            /\ Remember([kid |-> kid, until |-> lookup[c].start + Ttl])
            /\ Verdict(c, kid, "unknown")
            /\ UNCHANGED load
  /\ resumed' = Tail(resumed)
  /\ UNCHANGED <<now, born, gone, cache>>

\* The endpoint cannot be reached, or what it says cannot be used: everyone who waits fails,
\* and nothing is remembered.
LoadFails ==
  /\ load # Null /\ load' = Null
  /\ lookup' = [c \in Lookups |->
       IF lookup[c].stage = "waiting" THEN Past("failed", lookup[c].kid) ELSE lookup[c]]
  /\ UNCHANGED <<now, born, gone, cache, resumed, unknown>>

\* Nothing comes between the arrival of a document and what its waiters make of it.
KeysNext ==
  \/ resumed # <<>> /\ GoOn
  \/ /\ resumed = <<>>
     /\ Publish \/ Retire \/ TimePasses \/ Ask \/ ReadDocument \/ Arrive \/ LoadFails

KeysSpec == KeysInit /\ [][KeysNext]_keyVars

------------------------------------------------------------------ \* properties

\* Every variable has its type.
KeysTypeOK ==
  /\ now \in Times
  /\ {born, gone} \subseteq [Kids -> Times \cup {Null}]
  /\ cache = Null \/ (cache.keys \subseteq Kids /\ cache.at \in Times)
  /\ load = Null \/ load.start \in Times
  /\ \A c \in Lookups : lookup[c].stage \in {"idle", "waiting", "accepted", "unknown", "failed"}

\* A withdrawn key verifies nothing once the cache floor and one fetch have passed.
AcceptedKeysAreRecent ==
  \A c \in Lookups :
    lookup[c].stage = "accepted" =>
      \E t \in (now - Floor - Patience + 1)..now : WasPublished(lookup[c].kid, t)

\* A key that Access publishes is refused for no longer than the negative entry and one
\* fetch: no chain of shared loads, refreshed entries and evictions keeps it out.
RefusedKeysWereRecentlyAbsent ==
  \A c \in Lookups :
    lookup[c].stage = "unknown" =>
      \E t \in (now - Ttl - Patience + 1)..now : WasAbsent(lookup[c].kid, t)

\* Who waits is known to the load, or to the one that has just arrived, and is there once;
\* the memory of unknown kids keeps to its size with one entry per kid.
Queue == resumed \o (IF load = Null THEN <<>> ELSE load.waiters)

Bookkept ==
  /\ \A c \in Lookups : lookup[c].stage = "waiting" <=> \E i \in DOMAIN Queue : Queue[i] = c
  /\ \A i, j \in DOMAIN Queue : Queue[i] = Queue[j] => i = j
  /\ Len(unknown) <= MaxUnknown
  /\ \A i, j \in DOMAIN unknown : unknown[i].kid = unknown[j].kid => i = j

\* A token is verified only with a key of late, and refused only for want of one of late.
KeysHold ==
  KeysTypeOK /\ AcceptedKeysAreRecent /\ RefusedKeysWereRecentlyAbsent /\ Bookkept
=============================================================================
