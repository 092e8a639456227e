------------------------------- MODULE Composer -------------------------------
(* The question a teammate types into a browser, which opens a run: it is    *)
(* sent over a connection that fails before or after the worker took it, and *)
(* asked again.  The two applications share the rules; what the agent makes  *)
(* of the opening turn is RunTurns.                                          *)
EXTENDS Naturals

CONSTANTS
  Tabs,        \* mounted composers
  Owner,       \* the signed-in teammate of each
  Texts,       \* trimmed, not empty, within the limit
  MaxSubmits,  \* submissions (a bound)
  MaxRemounts, \* times a composer is mounted anew (a bound)
  Unasked      \* no id, no opening turn

ASSUME ComposerAssumption ==
  /\ {MaxSubmits, MaxRemounts} \subseteq Nat
  /\ DOMAIN Owner = Tabs /\ Unasked \notin Texts \cup Nat

VARIABLES
  mount,    \* how often each tab's composer was mounted anew
  idFor,    \* the starter's id of each text
  inFlight, \* texts of the starter whose POST is awaited
  posts,    \* POSTs that the tab awaits or the worker still has
  opening,  \* the runs: per key, the text of its opening turn, Unasked before it is submitted
  asked,    \* which question came to which run (history)
  shown,    \* for which question a tab was sent to which run
  minted,   \* how many ids each teammate's browsers minted
  submits

composerVars == <<mount, idFor, inFlight, posts, opening, asked, shown, minted, submits>>

ComposerInit ==
  /\ mount = [t \in Tabs |-> 0] /\ idFor = [t \in Tabs |-> [x \in Texts |-> Unasked]]
  /\ inFlight = [t \in Tabs |-> {}]
  /\ posts = {} /\ opening = <<>> /\ asked = {} /\ shown = {}
  /\ minted = [o \in {Owner[t] : t \in Tabs} |-> 0] /\ submits = 0

\* Fault: a retry gets an id of its own.
FreshId(t, x) == minted[Owner[t]]

\* The id that goes with a text: the one it has, for as long as the composer is mounted.  A
\* fresh one is new among the ids of its teammate, and may well be an id of another's.
IdFor(t, x) == IF idFor[t][x] = Unasked THEN minted[Owner[t]] ELSE idFor[t][x]

Question(p) == [tab |-> p.tab, mount |-> p.mount, text |-> p.text]
Came(p, key) == [question |-> Question(p), key |-> key]

\* makeChatStarter: a text in flight is joined, another waits for the field to be enabled.
SubmitQuestion ==
  \E t \in Tabs, x \in Texts :
    /\ submits < MaxSubmits /\ inFlight[t] = {}
    /\ idFor' = [idFor EXCEPT ![t][x] = IdFor(t, x)]
    /\ posts' = posts \cup {[tab |-> t, mount |-> mount[t], text |-> x, nr |-> submits,
                             id |-> IdFor(t, x), at |-> "sent", awaited |-> TRUE]}
    /\ inFlight' = [inFlight EXCEPT ![t] = {x}]
    /\ minted' = IF idFor[t][x] = Unasked THEN [minted EXCEPT ![Owner[t]] = @ + 1] ELSE minted
    /\ submits' = submits + 1
    /\ UNCHANGED <<mount, opening, asked, shown>>

\* chatKeyFor digests the teammate and the id.
ChatKey(p) == [owner |-> Owner[p.tab], id |-> p.id]

\* A post moves on, and is over when neither side has anything left to do for it.
Moved(p, q) == (posts \ {p}) \cup {r \in {q} : r.awaited \/ r.at \in {"sent", "created"}}

\* createOrGetRun: the key has one row.
Create ==
  \E p \in posts :
    /\ p.at = "sent"
    /\ opening' = IF ChatKey(p) \in DOMAIN opening THEN opening
                  ELSE [k \in DOMAIN opening \cup {ChatKey(p)} |->
                          IF k = ChatKey(p) THEN Unasked ELSE opening[k]]
    /\ asked' = asked \cup {Came(p, ChatKey(p))}
    /\ posts' = Moved(p, [p EXCEPT !.at = "created"])
    /\ UNCHANGED <<mount, idFor, inFlight, shown, minted, submits>>

\* submitTurn: the request id is the submission's idempotency key in the run.
SubmitTurn ==
  \E p \in posts :
    /\ p.at = "created"
    /\ opening' = [opening EXCEPT ![ChatKey(p)] = IF @ = Unasked THEN p.text ELSE @]
    /\ posts' = Moved(p, [p EXCEPT !.at = "done"])
    /\ UNCHANGED <<mount, idFor, inFlight, asked, shown, minted, submits>>

\* The invocation ends where it is.
PostDies ==
  \E p \in posts :
    /\ p.at \in {"sent", "created"}
    /\ posts' = Moved(p, [p EXCEPT !.at = "dead"])
    /\ UNCHANGED <<mount, idFor, inFlight, opening, asked, shown, minted, submits>>

Heard(p) ==
  /\ p.awaited /\ posts' = Moved(p, [p EXCEPT !.awaited = FALSE])
  /\ inFlight' = IF p.mount = mount[p.tab] THEN [inFlight EXCEPT ![p.tab] = @ \ {p.text}]
                 ELSE inFlight

\* 201: the tab goes to the run it is told of.
PostAnswered ==
  \E p \in posts :
    /\ p.at = "done" /\ Heard(p)
    /\ shown' = shown \cup {Came(p, ChatKey(p))}
    /\ UNCHANGED <<mount, idFor, opening, asked, minted, submits>>

\* The request fails for the browser, whatever the worker makes of it.
PostFails ==
  \E p \in posts : Heard(p) /\ UNCHANGED <<mount, idFor, opening, asked, shown, minted, submits>>

\* The page is left and returned to: what was awaited still comes, the starter is a new one.
Remount ==
  \E t \in Tabs :
    /\ mount[t] < MaxRemounts /\ mount' = [mount EXCEPT ![t] = @ + 1]
    /\ idFor' = [idFor EXCEPT ![t] = [x \in Texts |-> Unasked]]
    /\ inFlight' = [inFlight EXCEPT ![t] = {}]
    /\ UNCHANGED <<posts, opening, asked, shown, minted, submits>>

ComposerNext == SubmitQuestion \/ Create \/ SubmitTurn \/ PostDies \/ PostAnswered \/ PostFails \/ Remount

ComposerSpec == ComposerInit /\ [][ComposerNext]_composerVars

------------------------------------------------------------------ \* properties

\* Every variable has its type.
ComposerTypeOK ==
  /\ \A t \in Tabs : mount[t] \in 0..MaxRemounts
  /\ idFor \in [Tabs -> [Texts -> Nat \cup {Unasked}]] /\ inFlight \in [Tabs -> SUBSET Texts]
  /\ \A k \in DOMAIN opening : opening[k] \in Texts \cup {Unasked}
  /\ submits \in 0..MaxSubmits

\* However often a create is retried, and whenever an earlier attempt comes through, a
\* question asked in one mounted composer is one run and a run is one question; the run a tab
\* is sent to was opened with the question it asked.
OneRunPerQuestion ==
  /\ \A a, b \in asked : a.question = b.question <=> a.key = b.key
  /\ \A s \in shown : s \in asked /\ opening[s.key] = s.question.text
=============================================================================
