---------------------------- MODULE ApprovalQueue ----------------------------
(* The open approvals as one browser shows them: a polled list, and on top   *)
(* of it what this browser did about its cards.  DashboardQueue and WebQueue *)
(* are the two applications; the server's rows, the list it answers, the     *)
(* PATCH of a decision and the buttons of a card are the same for both.      *)
(* A render and its effects are one step with the event that caused them.    *)
EXTENDS Naturals, FiniteSets

CONSTANTS
  MaxCards,   \* cards, numbered by created_at
  ListLimit,  \* the page of listOpen
  MaxClicks,  \* clicks of this browser (a bound)
  MaxLost,    \* requests that fail on their way (a bound)
  Nothing        \* no state, no name, no list

ASSUME QueueAssumption ==
  /\ {MaxCards, ListLimit} \subseteq Nat \ {0}
  /\ {MaxClicks, MaxLost} \subseteq Nat

VARIABLES
  decision,   \* approvals.decision, "unborn" before the card exists
  winner,     \* approvals.decided_by: "me", "other", or Nothing
  rows,       \* the last good list, Nothing before the first
  poll,       \* the list request whose answer counts, Nothing when there is none
  local,      \* what this browser knows better than the list, per card
  timer,      \* the cards whose note expires
  request,    \* the PATCHes under way
  clicks, lost

queueVars == <<decision, winner, rows, poll, local, timer, request, clicks, lost>>

CardIds == 1..MaxCards
Verdicts == {"approved", "rejected"}
Endings == Verdicts \cup {"withdrawn"}
IsDecided(c) == decision[c] \in Endings

\* A list request, before and after it is answered.
Asked == [read |-> FALSE, list |-> {}]
Read(list) == [read |-> TRUE, list |-> list]

\* A note carries a decision, a name (or Nothing) and whether this browser claims it.
Entry(kind) == [kind |-> kind, decision |-> Nothing, name |-> Nothing, mine |-> FALSE]
Note(d, name, mine) == [kind |-> "resolved", decision |-> d, name |-> name, mine |-> mine]
Answer(status, d, name) == [status |-> status, decision |-> d, name |-> name]

Polls == {Asked} \cup {Read(list) : list \in SUBSET CardIds}
Entries == [kind : {"open", "deciding", "resolved"}, decision : Endings \cup {Nothing},
            name : {"me", "other", Nothing}, mine : BOOLEAN]
Replies == [status : {"decided", "already_decided", "error"}, decision : Endings \cup {Nothing},
            name : {"me", "other", Nothing}]
Requests == [id : 0..MaxClicks, card : CardIds, action : Verdicts, answer : Replies \cup {Nothing}]

ASSUME QueueNilAssumption ==
  /\ \A list \in SUBSET CardIds : Nothing # list
  /\ Nothing \notin Polls /\ Nothing \notin Entries /\ Nothing \notin Replies

QueueInit ==
  /\ decision = [c \in CardIds |-> "unborn"] /\ winner = [c \in CardIds |-> Nothing]
  /\ rows = Nothing /\ poll = Nothing
  /\ local = [c \in CardIds |-> Nothing] /\ timer = {}
  /\ request = {} /\ clicks = 0 /\ lost = 0

\* listOpen: the oldest pending rows, one page of them.
OpenList ==
  LET pending == {c \in CardIds : decision[c] = "pending"}
  IN  {c \in pending : Cardinality({d \in pending : d < c}) < ListLimit}

---------------------------------------------------------------- \* the server

\* The agent asks for one more approval.
Opened ==
  \E c \in CardIds :
    /\ decision[c] = "unborn" /\ \A d \in CardIds : d < c => decision[d] # "unborn"
    /\ decision' = [decision EXCEPT ![c] = "pending"]
    /\ UNCHANGED <<winner, rows, poll, local, timer, request, clicks, lost>>

\* A teammate decides, or the agent withdraws: no name is recorded for that.
DecidedElsewhere ==
  \E c \in CardIds, d \in Endings :
    /\ decision[c] = "pending"
    /\ decision' = [decision EXCEPT ![c] = d]
    /\ winner' = [winner EXCEPT ![c] = IF d = "withdrawn" THEN Nothing ELSE "other"]
    /\ UNCHANGED <<rows, poll, local, timer, request, clicks, lost>>

\* PATCH /api/approvals/:id: the first decision wins, a later one learns it.
Patch ==
  \E r \in request :
    /\ r.answer = Nothing
    /\ IF decision[r.card] = "pending"
         THEN /\ decision' = [decision EXCEPT ![r.card] = r.action]
              /\ winner' = [winner EXCEPT ![r.card] = "me"]
         ELSE UNCHANGED <<decision, winner>>
    /\ LET won == decision[r.card] = "pending"
           answer == IF won THEN Answer("decided", r.action, Nothing)
                     ELSE Answer("already_decided", decision[r.card], winner[r.card])
       IN  request' = (request \ {r}) \cup {[r EXCEPT !.answer = answer]}
    /\ UNCHANGED <<rows, poll, local, timer, clicks, lost>>

\* The request or its answer is lost, whether the server took it or not.
Lose ==
  \E r \in request :
    /\ lost < MaxLost
    /\ r.answer # Answer("error", Nothing, Nothing)
    /\ request' = (request \ {r}) \cup {[r EXCEPT !.answer = Answer("error", Nothing, Nothing)]}
    /\ lost' = lost + 1
    /\ UNCHANGED <<decision, winner, rows, poll, local, timer, clicks>>

\* GET /api/approvals?state=open is answered from the rows as they are.
PollRead ==
  /\ poll = Asked /\ poll' = Read(OpenList)
  /\ UNCHANGED <<decision, winner, rows, local, timer, request, clicks, lost>>

\* A failed poll keeps what is shown.
PollFails ==
  /\ poll # Nothing /\ poll' = Nothing
  /\ UNCHANGED <<decision, winner, rows, local, timer, request, clicks, lost>>

------------------------------------------------------------------- \* the page

\* Fault: the poll overrules what this browser knows.
ShownByPoll(c) ==
  IF rows # Nothing /\ c \in rows THEN "open"
  ELSE IF local[c] # Nothing THEN local[c].kind ELSE "absent"

\* The merged list: the local entry, or the row of the poll.
Shown(c) ==
  IF local[c] # Nothing THEN local[c].kind
  ELSE IF rows # Nothing /\ c \in rows THEN "open" ELSE "absent"

\* decideCard, behind a button that is there only on an open card.
DecideCard ==
  \E c \in CardIds, v \in Verdicts :
    /\ clicks < MaxClicks /\ Shown(c) = "open"
    /\ local' = [local EXCEPT ![c] = Entry("deciding")]
    /\ request' = request \cup {[id |-> clicks, card |-> c, action |-> v, answer |-> Nothing]}
    /\ clicks' = clicks + 1
    /\ UNCHANGED <<decision, winner, rows, poll, timer, lost>>

Answered(r) == r \in request /\ r.answer # Nothing

\* Fault: the countdown is not started.
ResolveUntimed(c, d, name, mine) ==
  /\ local' = [local EXCEPT ![c] = Note(d, name, mine)]
  /\ UNCHANGED timer

\* The card becomes a note, and its countdown starts over.
Resolve(c, d, name, mine) ==
  /\ local' = [local EXCEPT ![c] = Note(d, name, mine)]
  /\ timer' = timer \cup {c}

\* Back to open, with an error on the card.  No countdown is touched.
Fail(c) ==
  /\ local' = [local EXCEPT ![c] = Entry("open")]
  /\ UNCHANGED timer

\* RESOLVED_TTL_MS after it became a note, whatever it has become since.
Expire ==
  \E c \in timer :
    /\ timer' = timer \ {c}
    /\ local' = [local EXCEPT ![c] = Nothing]
    /\ UNCHANGED <<decision, winner, rows, poll, request, clicks, lost>>

------------------------------------------------------------------ \* properties

\* Every variable has its type.
QueueTypeOK ==
  /\ decision \in [CardIds -> {"unborn", "pending"} \cup Endings]
  /\ winner \in [CardIds -> {"me", "other", Nothing}]
  /\ rows # Nothing => rows \subseteq CardIds
  /\ poll \in Polls \cup {Nothing}
  /\ local \in [CardIds -> Entries \cup {Nothing}] /\ timer \subseteq CardIds
  /\ request \subseteq Requests
  /\ clicks \in 0..MaxClicks /\ lost \in 0..MaxLost

\* A decision under way is not submitted again: neither a countdown that outlives its note
\* nor a list read before the decision offers the buttons of a card whose PATCH is out.
OneRequestPerCard ==
  \A r, s \in request : r.card = s.card => r = s

\* A note says what the server recorded, names nobody but who decided, and claims for this
\* browser only what its own PATCH won.
Truthful(c) ==
  LET note == local[c]
  IN  /\ note.decision = decision[c]
      /\ note.name # Nothing => note.name = winner[c]
      /\ note.mine => winner[c] = "me"

IsNote(c) == local[c] # Nothing /\ local[c].kind = "resolved"
NotesAreTruthful == \A c \in CardIds : IsNote(c) => Truthful(c)

\* A decided card leaves the screen in the end: a countdown, the next list, or what became
\* of the card takes it away.  One that a failed PATCH put back to open stays, in the web
\* application, until it is clicked again; none stays as being decided or as noted.
DecidedCardsLeave ==
  \A c \in CardIds : IsDecided(c) ~> (Shown(c) = "absent" \/ (lost > 0 /\ Shown(c) = "open"))
=============================================================================
