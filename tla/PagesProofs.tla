----------------------------- MODULE PagesProofs -----------------------------
(***************************************************************************)
(* The safety of the approvals pages, for any number of cards, any page of  *)
(* the list, and any number of clicks and lost requests; and of what is     *)
(* looked at again later: a question sent twice, pages of a list that       *)
(* moves, and the two readers of the message log.                           *)
(***************************************************************************)
EXTENDS MCQueues, MCViews, FiniteSetTheorems, SequenceTheorems, WellFoundedInduction, TLAPS

PageTyped ==
  /\ QueueTypeOK
  /\ reconciled \subseteq CardIds /\ asking \subseteq reconciled /\ naming \subseteq CardIds
  /\ app = "web" => reconciled = {}

-----------------------------------------------------------------------------
(* What a list may hold.                                                   *)

InRows(c) == rows # Nothing /\ c \in rows
InPoll(c) == poll # Nothing /\ c \in poll.list

\* Cards are born in order, and a card this browser has heard of is born.
BornInv ==
  /\ \A c, d \in CardIds : d < c /\ decision[c] # "unborn" => decision[d] # "unborn"
  /\ \A c \in CardIds : local[c] # Nothing => decision[c] # "unborn"
  /\ \A r \in request : decision[r.card] # "unborn"

\* A card once listed is decided or still on the page, a later list misses none that is open,
\* and what was reconciled is decided and on no list.
ListInv ==
  /\ \A c \in CardIds : InRows(c) \/ InPoll(c) => IsDecided(c) \/ c \in OpenList
  /\ poll # Nothing /\ poll.read =>
       \A c \in CardIds : InRows(c) /\ ~InPoll(c) => IsDecided(c)
  /\ \A c \in reconciled : IsDecided(c) /\ ~InRows(c) /\ ~InPoll(c)

-----------------------------------------------------------------------------
(* What is known of a card while its PATCH is out, and after.              *)

\* An answer that is no error says what was recorded.
AnswerInv ==
  \A r \in request :
    r.answer # Nothing /\ r.answer.status # "error" =>
      /\ IsDecided(r.card) /\ r.answer.decision = decision[r.card]
      /\ r.answer.status = "decided" => winner[r.card] = "me"
      /\ r.answer.name # Nothing => r.answer.name = winner[r.card]

\* The buttons of a card are gone while its PATCH is out.
RequestInv ==
  /\ OneRequestPerCard
  /\ \A r \in request :
       IF r.card \in reconciled
         THEN local[r.card] # Nothing => local[r.card].kind # "open"
         ELSE local[r.card] # Nothing /\ local[r.card].kind = "deciding"

\* A countdown runs for a note, or for a card that no list brings back.
TimerInv == \A c \in timer \ reconciled : IsNote(c)

\* The note of a card whose fate was asked for in vain.
Vague(c) ==
  /\ c \in reconciled
  /\ local[c].name \in {Nothing, winner[c]}
  /\ local[c] = [Note("withdrawn", Nothing, FALSE) EXCEPT !.name = local[c].name]

NoteInv == \A c \in CardIds : IsNote(c) => IsDecided(c) /\ (Truthful(c) \/ Vague(c))

Inv ==
  PageTyped /\ BornInv /\ ListInv /\ AnswerInv /\ RequestInv /\ TimerInv /\ NoteInv

-----------------------------------------------------------------------------
(* The records of a page.                                                  *)

LEMMA NilApart ==
  /\ Nothing # Asked
  /\ \A list \in SUBSET CardIds : Nothing # list /\ Nothing # Read(list)
  /\ \A kind \in {"open", "deciding"} : Entry(kind) \in Entries /\ Entry(kind) # Nothing
  /\ \A d \in Endings, name \in {"me", "other", Nothing}, mine \in BOOLEAN :
       Note(d, name, mine) \in Entries /\ Note(d, name, mine) # Nothing
  /\ \A s \in {"decided", "already_decided", "error"}, d \in Endings \cup {Nothing},
        name \in {"me", "other", Nothing} :
       Answer(s, d, name) \in Replies /\ Answer(s, d, name) # Nothing
<1>1. Nothing # Asked /\ \A list \in SUBSET CardIds : Nothing # list /\ Nothing # Read(list)
  BY QueueNilAssumption DEF Polls
<1>2. \A kind \in {"open", "deciding"} : Entry(kind) \in Entries /\ Entry(kind) # Nothing
  <2>1. \A kind \in {"open", "deciding"} : Entry(kind) \in Entries
    BY DEF Entry, Entries
  <2> QED BY <2>1, QueueNilAssumption
<1>3. \A d \in Endings, name \in {"me", "other", Nothing}, mine \in BOOLEAN :
        Note(d, name, mine) \in Entries /\ Note(d, name, mine) # Nothing
  BY QueueNilAssumption DEF Note, Entries
<1>4. \A s \in {"decided", "already_decided", "error"}, d \in Endings \cup {Nothing},
         name \in {"me", "other", Nothing} :
        Answer(s, d, name) \in Replies /\ Answer(s, d, name) # Nothing
  BY QueueNilAssumption DEF Answer, Replies
<1> QED BY <1>1, <1>2, <1>3, <1>4

LEMMA EntryKinds ==
  /\ \A kind : Entry(kind).kind = kind
  /\ \A d, name, mine :
       /\ Note(d, name, mine).kind = "resolved" /\ Note(d, name, mine).decision = d
       /\ Note(d, name, mine).name = name /\ Note(d, name, mine).mine = mine
  /\ \A s, d, name :
       /\ Answer(s, d, name).status = s /\ Answer(s, d, name).decision = d
       /\ Answer(s, d, name).name = name
  /\ \A list : Read(list).read /\ Read(list).list = list
  /\ ~Asked.read /\ Asked.list = {}
BY DEF Entry, Note, Answer, Read, Asked

-----------------------------------------------------------------------------
(* The server's rows: a decision is for good, and so is a birth.           *)

\* What every step keeps of the rows.
Grows ==
  \A c \in CardIds :
    /\ IsDecided(c) => decision'[c] = decision[c] /\ winner'[c] = winner[c]
    /\ decision[c] # "unborn" => decision'[c] # "unborn"

LEMMA CardsGrow ==
  ASSUME PageTyped, Opened \/ DecidedElsewhere \/ Patch \/ UNCHANGED <<decision, winner>>
  PROVE  /\ Grows
         /\ decision' \in [CardIds -> {"unborn", "pending"} \cup Endings]
         /\ winner' \in [CardIds -> {"me", "other", Nothing}]
<1>1. CASE Opened
  BY <1>1 DEF PageTyped, QueueTypeOK, Opened, Grows, IsDecided, Endings, Verdicts
<1>2. CASE DecidedElsewhere
  BY <1>2 DEF PageTyped, QueueTypeOK, DecidedElsewhere, Grows, IsDecided, Endings, Verdicts
<1>3. CASE Patch
  BY <1>3 DEF PageTyped, QueueTypeOK, Patch, Requests, Grows, IsDecided, Endings, Verdicts
<1>4. CASE UNCHANGED <<decision, winner>>
  BY <1>4 DEF PageTyped, QueueTypeOK, Grows
<1> QED BY <1>1, <1>2, <1>3, <1>4

LEMMA DecidedStays ==
  ASSUME Grows, NEW c \in CardIds, IsDecided(c)
  PROVE  IsDecided(c)'
BY DEF Grows, IsDecided

\* An open card that is on the page of the list stays there: no older card comes.
LEMMA PageStays ==
  ASSUME PageTyped, BornInv, Grows, NEW c \in CardIds, c \in OpenList,
         decision' \in [CardIds -> {"unborn", "pending"} \cup Endings]
  PROVE  IsDecided(c)' \/ c \in OpenList'
<1> DEFINE Older(d) == decision[d] = "pending" /\ d < c
           OlderLater(d) == decision'[d] = "pending" /\ d < c
           before == {d \in CardIds : Older(d)}
           after == {d \in CardIds : OlderLater(d)}
<1>1. decision[c] = "pending" /\ Cardinality(before) < ListLimit
  <2>1. before = {d \in {e \in CardIds : decision[e] = "pending"} : d < c}
    OBVIOUS
  <2> QED BY <2>1 DEF OpenList
<1>2. after \subseteq before
  BY <1>1 DEF PageTyped, QueueTypeOK, BornInv, Grows, IsDecided, Endings, CardIds
<1>3. IsFiniteSet(before)
  <2>1. MaxCards \in Int
    BY QueueAssumption
  <2>2. IsFiniteSet(CardIds)
    BY <2>1, FS_Interval DEF CardIds
  <2>3. before \subseteq CardIds
    OBVIOUS
  <2> QED BY <2>2, <2>3, FS_Subset
<1>4. Cardinality(after) < ListLimit
  <2>1. Cardinality(after) \in Nat /\ Cardinality(before) \in Nat
    BY <1>2, <1>3, FS_Subset, FS_CardinalityType
  <2>2. Cardinality(after) <= Cardinality(before)
    BY <1>2, <1>3, FS_Subset
  <2> HIDE DEF after, before
  <2> QED BY <1>1, <2>1, <2>2, QueueAssumption
<1>5. after = {d \in {e \in CardIds : decision'[e] = "pending"} : d < c}
  OBVIOUS
<1>6. decision'[c] = "pending" => c \in OpenList'
  BY <1>4, <1>5 DEF OpenList
<1>7. decision'[c] = "pending" \/ IsDecided(c)'
  BY <1>1 DEF Grows, IsDecided
<1> QED BY <1>6, <1>7

-----------------------------------------------------------------------------
(* What a step keeps when it leaves alone what an invariant is about.      *)

LEMMA ListsKept ==
  ASSUME PageTyped, BornInv, ListInv, Grows,
         decision' \in [CardIds -> {"unborn", "pending"} \cup Endings],
         rows' = rows, poll' \in {poll, Nothing, Asked}, reconciled' = reconciled
  PROVE  ListInv'
<1>1. \A c \in CardIds : InRows(c)' = InRows(c)
  BY DEF InRows
<1>2. \A c \in CardIds : InPoll(c)' => InPoll(c) /\ poll' = poll
  BY EntryKinds DEF InPoll
<1>3. \A c \in CardIds : InRows(c)' \/ InPoll(c)' => IsDecided(c)' \/ c \in OpenList'
  BY <1>1, <1>2, PageStays, DecidedStays DEF ListInv
<1>4. poll' # Nothing /\ poll'.read =>
        \A c \in CardIds : InRows(c)' /\ ~InPoll(c)' => IsDecided(c)'
  <2>1. SUFFICES ASSUME poll' # Nothing, poll'.read, NEW c \in CardIds, InRows(c)', ~InPoll(c)'
                 PROVE  IsDecided(c)'
    OBVIOUS
  <2>2. poll' = poll
    BY <2>1, EntryKinds
  <2>3. InPoll(c)' = InPoll(c)
    BY <2>2 DEF InPoll
  <2> QED BY <1>1, <2>1, <2>2, <2>3, DecidedStays DEF ListInv
<1>5. \A c \in reconciled' : IsDecided(c)' /\ ~InRows(c)' /\ ~InPoll(c)'
  BY <1>1, <1>2, DecidedStays DEF ListInv, PageTyped
<1> QED BY <1>3, <1>4, <1>5 DEF ListInv

LEMMA AnswersKept ==
  ASSUME PageTyped, AnswerInv, Grows, \A r \in request' : r \in request \/ r.answer = Nothing
  PROVE  AnswerInv'
<1> SUFFICES ASSUME NEW r \in request', r.answer # Nothing, r.answer.status # "error"
             PROVE  /\ IsDecided(r.card)' /\ r.answer.decision = decision'[r.card]
                    /\ r.answer.status = "decided" => winner'[r.card] = "me"
                    /\ r.answer.name # Nothing => r.answer.name = winner'[r.card]
  BY DEF AnswerInv
<1>1. r \in request /\ r.card \in CardIds
  BY DEF PageTyped, QueueTypeOK, Requests
<1> QED BY <1>1, DecidedStays DEF AnswerInv, Grows

LEMMA RequestsKept ==
  ASSUME PageTyped, RequestInv, request' \subseteq request, UNCHANGED <<local, reconciled>>
  PROVE  RequestInv'
BY DEF RequestInv, OneRequestPerCard

LEMMA NotesKept ==
  ASSUME PageTyped, NoteInv, Grows, UNCHANGED <<local, reconciled>>
  PROVE  NoteInv'
<1> SUFFICES ASSUME NEW c \in CardIds, IsNote(c)'
             PROVE  IsDecided(c)' /\ (Truthful(c)' \/ Vague(c)')
  BY DEF NoteInv
<1>1. IsNote(c) /\ IsDecided(c)
  BY DEF NoteInv, IsNote
<1>2. decision'[c] = decision[c] /\ winner'[c] = winner[c]
  BY <1>1 DEF Grows
<1>3. Truthful(c) \/ Vague(c)
  BY <1>1 DEF NoteInv
<1> QED BY <1>1, <1>2, <1>3, DecidedStays DEF Truthful, Vague

LEMMA TimersKept ==
  ASSUME TimerInv, UNCHANGED <<local, reconciled, timer>>
  PROVE  TimerInv'
BY DEF TimerInv, IsNote

-----------------------------------------------------------------------------
(* The server's steps.                                                     *)

LEMMA InitSafe == DashboardInit /\ app \in Applications \cup {Nothing} => Inv
<1> SUFFICES ASSUME DashboardInit PROVE Inv
  OBVIOUS
<1>1. PageTyped
  <2>1. 0 \in 0..MaxClicks /\ 0 \in 0..MaxLost
    BY QueueAssumption
  <2> QED BY <2>1 DEF DashboardInit, QueueInit, PageTyped, QueueTypeOK
<1>2. BornInv /\ AnswerInv /\ RequestInv /\ TimerInv /\ NoteInv
  BY DEF DashboardInit, QueueInit, BornInv, AnswerInv, RequestInv, OneRequestPerCard, TimerInv,
         NoteInv, IsNote
<1>3. ListInv
  BY DEF DashboardInit, QueueInit, ListInv, InRows, InPoll
<1> QED BY <1>1, <1>2, <1>3 DEF Inv

LEMMA OpenedSafe ==
  ASSUME Inv, Opened, UNCHANGED <<app, Here>>
  PROVE  Inv'
<1>1. /\ Grows /\ UNCHANGED <<winner, rows, poll, local, timer, request, clicks, lost>>
      /\ decision' \in [CardIds -> {"unborn", "pending"} \cup Endings]
  BY CardsGrow DEF Opened, Inv
<1>2. PageTyped'
  BY <1>1 DEF Inv, PageTyped, QueueTypeOK, Here
<1>3. BornInv'
  <2>1. \A c, d \in CardIds : d < c /\ decision'[c] # "unborn" => decision'[d] # "unborn"
    BY DEF Opened, Inv, BornInv, PageTyped, QueueTypeOK
  <2> QED BY <1>1, <2>1 DEF Inv, BornInv, Grows, PageTyped, QueueTypeOK, Requests
<1>4. ListInv'
  BY <1>1, ListsKept DEF Inv, Here
<1>5. AnswerInv' /\ RequestInv' /\ NoteInv' /\ TimerInv'
  BY <1>1, AnswersKept, RequestsKept, NotesKept, TimersKept DEF Inv, Here
<1> QED BY <1>2, <1>3, <1>4, <1>5 DEF Inv

LEMMA DecidedElsewhereSafe ==
  ASSUME Inv, DecidedElsewhere, UNCHANGED <<app, Here>>
  PROVE  Inv'
<1>1. /\ Grows /\ UNCHANGED <<rows, poll, local, timer, request, clicks, lost>>
      /\ decision' \in [CardIds -> {"unborn", "pending"} \cup Endings]
      /\ winner' \in [CardIds -> {"me", "other", Nothing}]
  BY CardsGrow DEF DecidedElsewhere, Inv
<1>2. PageTyped'
  BY <1>1 DEF Inv, PageTyped, QueueTypeOK, Here
<1>3. \A c \in CardIds : decision'[c] # "unborn" => decision[c] # "unborn"
  BY DEF DecidedElsewhere, Inv, PageTyped, QueueTypeOK
<1>4. BornInv'
  BY <1>1, <1>3 DEF Inv, BornInv, Grows, PageTyped, QueueTypeOK, Requests
<1>5. ListInv'
  BY <1>1, ListsKept DEF Inv, Here
<1>6. AnswerInv' /\ RequestInv' /\ NoteInv' /\ TimerInv'
  BY <1>1, AnswersKept, RequestsKept, NotesKept, TimersKept DEF Inv, Here
<1> QED BY <1>2, <1>4, <1>5, <1>6 DEF Inv

\* An answer comes to a request, or is lost: it is still the one request of its card.
LEMMA Reanswered ==
  ASSUME PageTyped, RequestInv, NEW r \in request, NEW a \in Replies \cup {Nothing},
         request' = (request \ {r}) \cup {[r EXCEPT !.answer = a]},
         UNCHANGED <<local, reconciled>>
  PROVE  /\ request' \subseteq Requests /\ RequestInv'
         /\ \A s \in request' : s \in request \/ s = [r EXCEPT !.answer = a]
<1> DEFINE new == [r EXCEPT !.answer = a]
<1>1. r \in Requests
  BY DEF PageTyped, QueueTypeOK
<1>2. new \in Requests /\ new.card = r.card /\ new.answer = a
  BY <1>1 DEF Requests
<1> HIDE DEF new
<1>3. request' = (request \ {r}) \cup {new}
  BY DEF new
<1>4. request' \subseteq Requests
  BY <1>2, <1>3 DEF PageTyped, QueueTypeOK
<1>5. \A s \in request' : \E q \in request : q.card = s.card /\ (s # q => q = r /\ s = new)
  BY <1>2, <1>3
<1>6. OneRequestPerCard'
  BY <1>2, <1>3 DEF RequestInv, OneRequestPerCard
<1>7. RequestInv'
  BY <1>5, <1>6 DEF RequestInv
<1> QED BY <1>3, <1>4, <1>7 DEF new

LEMMA PatchSafe ==
  ASSUME Inv, Patch, UNCHANGED <<app, Here>>
  PROVE  Inv'
<1>1. /\ Grows /\ UNCHANGED <<rows, poll, local, timer, clicks, lost>>
      /\ decision' \in [CardIds -> {"unborn", "pending"} \cup Endings]
      /\ winner' \in [CardIds -> {"me", "other", Nothing}]
  BY CardsGrow DEF Patch, Inv
<1>2. PICK r \in request :
        /\ r.answer = Nothing
        /\ IF decision[r.card] = "pending"
             THEN /\ decision' = [decision EXCEPT ![r.card] = r.action]
                  /\ winner' = [winner EXCEPT ![r.card] = "me"]
             ELSE UNCHANGED <<decision, winner>>
        /\ LET won == decision[r.card] = "pending"
               answer == IF won THEN Answer("decided", r.action, Nothing)
                         ELSE Answer("already_decided", decision[r.card], winner[r.card])
           IN  request' = (request \ {r}) \cup {[r EXCEPT !.answer = answer]}
  BY DEF Patch
<1> DEFINE won == decision[r.card] = "pending"
           a == IF won THEN Answer("decided", r.action, Nothing)
                ELSE Answer("already_decided", decision[r.card], winner[r.card])
           new == [r EXCEPT !.answer = a]
<1>3. r \in Requests /\ r.card \in CardIds /\ r.action \in Verdicts
  BY DEF Inv, PageTyped, QueueTypeOK, Requests
<1>4. won \/ IsDecided(r.card)
  BY <1>3 DEF Inv, BornInv, PageTyped, QueueTypeOK, IsDecided
<1>5. won => /\ a = Answer("decided", r.action, Nothing) /\ decision'[r.card] = r.action
             /\ winner'[r.card] = "me"
  BY <1>2, <1>3 DEF Inv, PageTyped, QueueTypeOK
<1>6. ~won => /\ a = Answer("already_decided", decision[r.card], winner[r.card])
              /\ decision' = decision /\ winner' = winner
  BY <1>2
<1>7. a \in Replies
  <2>1. decision[r.card] \in Endings \/ won
    BY <1>4 DEF IsDecided
  <2>2. winner[r.card] \in {"me", "other", Nothing} /\ r.action \in Endings
    BY <1>3 DEF Inv, PageTyped, QueueTypeOK, Endings
  <2> QED BY <1>5, <1>6, <2>1, <2>2, NilApart
<1>8. /\ IsDecided(r.card)' /\ a.decision = decision'[r.card]
      /\ a.status = "decided" => winner'[r.card] = "me"
      /\ a.name # Nothing => a.name = winner'[r.card]
  <2>1. CASE won
    BY <1>3, <1>5, <2>1, EntryKinds DEF IsDecided, Endings
  <2>2. CASE ~won
    BY <1>4, <1>6, <2>2, EntryKinds DEF IsDecided
  <2> QED BY <2>1, <2>2
<1>9. new.card = r.card /\ new.answer = a
  BY <1>3 DEF Requests
<1>10. request' = (request \ {r}) \cup {[r EXCEPT !.answer = a]}
  BY <1>2
<1> HIDE DEF a, won
<1>11. /\ request' \subseteq Requests /\ RequestInv'
       /\ \A s \in request' : s \in request \/ s = new
  BY <1>1, <1>2, <1>7, <1>10, Reanswered DEF Inv, Here
<1> HIDE DEF new
<1>12. AnswerInv'
  <2> SUFFICES ASSUME NEW s \in request', s.answer # Nothing, s.answer.status # "error"
               PROVE  /\ IsDecided(s.card)' /\ s.answer.decision = decision'[s.card]
                      /\ s.answer.status = "decided" => winner'[s.card] = "me"
                      /\ s.answer.name # Nothing => s.answer.name = winner'[s.card]
    BY DEF AnswerInv
  <2>1. CASE s = new
    BY <1>8, <1>9, <2>1
  <2>2. CASE s \in request
    <3>1. s.card \in CardIds
      BY <2>2 DEF Inv, PageTyped, QueueTypeOK, Requests
    <3> QED BY <1>1, <2>2, <3>1, DecidedStays DEF Inv, AnswerInv, Grows
  <2> QED BY <1>11, <2>1, <2>2
<1>13. PageTyped'
  BY <1>1, <1>11 DEF Inv, PageTyped, QueueTypeOK, Here
<1>14. \A c \in CardIds : decision'[c] # "unborn" => decision[c] # "unborn"
  BY <1>2, <1>3 DEF Inv, PageTyped, QueueTypeOK
<1>15. BornInv'
  <2>1. \A s \in request' : decision'[s.card] # "unborn"
    <3>1. SUFFICES ASSUME NEW s \in request' PROVE decision'[s.card] # "unborn"
      OBVIOUS
    <3>2. PICK q \in request : q.card = s.card
      BY <1>9, <1>11
    <3>3. q.card \in CardIds
      BY DEF Inv, PageTyped, QueueTypeOK, Requests
    <3> QED BY <1>1, <3>2, <3>3 DEF Inv, BornInv, Grows
  <2> QED BY <1>1, <1>14, <2>1 DEF Inv, BornInv, Grows
<1>16. ListInv' /\ NoteInv' /\ TimerInv'
  BY <1>1, ListsKept, NotesKept, TimersKept DEF Inv, Here
<1> QED BY <1>11, <1>12, <1>13, <1>15, <1>16 DEF Inv

LEMMA LoseSafe ==
  ASSUME Inv, Lose, UNCHANGED <<app, Here>>
  PROVE  Inv'
<1> DEFINE a == Answer("error", Nothing, Nothing)
<1>1. PICK r \in request :
        /\ lost < MaxLost /\ lost' = lost + 1
        /\ request' = (request \ {r}) \cup {[r EXCEPT !.answer = a]}
        /\ UNCHANGED <<decision, winner, rows, poll, local, timer, clicks>>
  BY DEF Lose
<1>2. a \in Replies /\ a # Nothing /\ a.status = "error"
  BY NilApart, EntryKinds
<1>3. r \in Requests
  BY DEF Inv, PageTyped, QueueTypeOK
<1>4. [r EXCEPT !.answer = a].answer = a /\ [r EXCEPT !.answer = a].card = r.card
  BY <1>3 DEF Requests
<1> HIDE DEF a
<1>5. /\ request' \subseteq Requests /\ RequestInv'
      /\ \A s \in request' : s \in request \/ s = [r EXCEPT !.answer = a]
  BY <1>1, <1>2, Reanswered DEF Inv, Here
<1>6. Grows /\ decision' \in [CardIds -> {"unborn", "pending"} \cup Endings]
  BY <1>1, CardsGrow DEF Inv
<1>7. PageTyped'
  <2>1. lost' \in 0..MaxLost
    BY <1>1, QueueAssumption DEF Inv, PageTyped, QueueTypeOK
  <2> QED BY <1>1, <1>5, <2>1 DEF Inv, PageTyped, QueueTypeOK, Here
<1>8. BornInv'
  BY <1>1, <1>4, <1>5 DEF Inv, BornInv
<1>9. AnswerInv'
  BY <1>1, <1>2, <1>4, <1>5 DEF Inv, AnswerInv, IsDecided
<1>10. ListInv' /\ NoteInv' /\ TimerInv'
  BY <1>1, <1>6, ListsKept, NotesKept, TimersKept DEF Inv, Here
<1> QED BY <1>5, <1>7, <1>8, <1>9, <1>10 DEF Inv

-----------------------------------------------------------------------------
(* The list.                                                               *)

\* A poll that starts over or ends shows nothing yet.
LEMMA PollDroppedSafe ==
  ASSUME Inv, poll' \in {Nothing, Asked},
         UNCHANGED <<decision, winner, rows, local, timer, request, clicks, lost, app, Here>>
  PROVE  Inv'
<1>1. Grows /\ decision' \in [CardIds -> {"unborn", "pending"} \cup Endings]
  BY CardsGrow DEF Inv
<1>2. PageTyped'
  BY DEF Inv, PageTyped, QueueTypeOK, Polls, Here
<1>3. BornInv' /\ AnswerInv'
  BY DEF Inv, BornInv, AnswerInv, IsDecided
<1>4. ListInv' /\ RequestInv' /\ NoteInv' /\ TimerInv'
  BY <1>1, ListsKept, RequestsKept, NotesKept, TimersKept DEF Inv, Here
<1> QED BY <1>2, <1>3, <1>4 DEF Inv

LEMMA PollReadSafe ==
  ASSUME Inv, PollRead, UNCHANGED <<app, Here>>
  PROVE  Inv'
<1>1. /\ poll' = Read(OpenList)
      /\ UNCHANGED <<decision, winner, rows, local, timer, request, clicks, lost>>
  BY DEF PollRead
<1>2. OpenList \subseteq CardIds /\ \A c \in OpenList : decision[c] = "pending"
  BY DEF OpenList
<1>3. /\ poll' \in Polls /\ poll' # Nothing /\ poll'.read
      /\ \A c : InPoll(c)' <=> c \in OpenList
  BY <1>1, <1>2, NilApart, EntryKinds DEF Polls, InPoll
<1>4. \A c : InRows(c)' = InRows(c) /\ IsDecided(c)' = IsDecided(c)
  BY <1>1 DEF InRows, IsDecided
<1>5. OpenList' = OpenList
  BY <1>1 DEF OpenList
<1>6. PageTyped'
  BY <1>1, <1>3 DEF Inv, PageTyped, QueueTypeOK, Here
<1>7. BornInv' /\ AnswerInv'
  BY <1>1 DEF Inv, BornInv, AnswerInv, IsDecided
<1>8. RequestInv' /\ NoteInv' /\ TimerInv'
  <2>1. Grows
    BY <1>1, CardsGrow DEF Inv
  <2> QED BY <1>1, <2>1, RequestsKept, NotesKept, TimersKept DEF Inv, Here
<1>9. \A c \in reconciled : c \notin OpenList
  BY <1>2 DEF Inv, ListInv, IsDecided, Endings, Verdicts
<1>10. ListInv'
  <2>1. reconciled' = reconciled
    BY DEF Here
  <2> QED BY <1>3, <1>4, <1>5, <1>9, <2>1 DEF Inv, ListInv
<1> QED BY <1>6, <1>7, <1>8, <1>10 DEF Inv

\* The list replaces the rows, and what it misses is decided.
LEMMA ListReplaced ==
  ASSUME Inv, poll \notin {Nothing, Asked}, rows' = poll.list, poll' = Nothing,
         UNCHANGED <<decision, winner>>,
         reconciled' \subseteq reconciled \cup {c \in CardIds : InRows(c) /\ c \notin poll.list}
  PROVE  /\ ListInv' /\ (rows' # Nothing => rows' \subseteq CardIds)
         /\ \A c \in CardIds : InRows(c) /\ c \notin poll.list => IsDecided(c)
<1>1. PICK list \in SUBSET CardIds : poll = Read(list)
  BY DEF Inv, PageTyped, QueueTypeOK, Polls
<1>2. poll.list = list /\ poll.read /\ list # Nothing
  BY <1>1, EntryKinds, NilApart
<1>3. \A c : ~InPoll(c)' /\ (InRows(c)' <=> c \in list) /\ (InPoll(c) <=> c \in list)
  BY <1>2 DEF InRows, InPoll
<1>4. \A c : IsDecided(c)' = IsDecided(c)
  BY DEF IsDecided
<1>5. OpenList' = OpenList
  BY DEF OpenList
<1>6. \A c \in CardIds : InRows(c) /\ c \notin list => IsDecided(c)
  BY <1>2, <1>3 DEF Inv, ListInv
<1>7. \A c \in reconciled' : IsDecided(c) /\ c \notin list
  BY <1>2, <1>3, <1>6 DEF Inv, ListInv
<1> QED BY <1>1, <1>2, <1>3, <1>4, <1>5, <1>6, <1>7 DEF Inv, ListInv

LEMMA QueryArrivesSafe ==
  ASSUME Inv, QueryArrives, UNCHANGED <<app, Here>>
  PROVE  Inv'
<1>1. /\ poll \notin {Nothing, Asked} /\ rows' = poll.list /\ poll' = Nothing
      /\ UNCHANGED <<decision, winner, local, timer, request, clicks, lost>>
  BY DEF QueryArrives
<1>2. ListInv' /\ (rows' # Nothing => rows' \subseteq CardIds)
  BY <1>1, ListReplaced DEF Here
<1>3. PageTyped'
  BY <1>1, <1>2 DEF Inv, PageTyped, QueueTypeOK, Here
<1>4. BornInv' /\ AnswerInv'
  BY <1>1 DEF Inv, BornInv, AnswerInv, IsDecided
<1>5. RequestInv' /\ NoteInv' /\ TimerInv'
  <2>1. Grows
    BY <1>1, CardsGrow DEF Inv
  <2> QED BY <1>1, <2>1, RequestsKept, NotesKept, TimersKept DEF Inv, Here
<1> QED BY <1>2, <1>3, <1>4, <1>5 DEF Inv

LEMMA PollArrivesSafe ==
  ASSUME Inv, PollArrives, app # "web", UNCHANGED app
  PROVE  Inv'
<1> DEFINE vanished == Vanished(poll.list)
<1>1. /\ poll \notin {Nothing, Asked} /\ rows' = poll.list /\ poll' = Nothing
      /\ reconciled' = reconciled \cup vanished /\ asking' = asking \cup vanished
      /\ local' = [c \in CardIds |->
           IF c \in vanished /\ local[c] = Nothing THEN Entry("open") ELSE local[c]]
      /\ UNCHANGED <<decision, winner, timer, request, clicks, lost, naming>>
  BY DEF PollArrives
<1>2. \A c \in vanished :
        /\ c \in CardIds /\ InRows(c) /\ c \notin poll.list /\ c \notin reconciled
        /\ local[c] # Nothing => local[c].kind = "open"
  BY DEF Vanished, InRows, Inv, PageTyped, QueueTypeOK
<1> HIDE DEF vanished
<1>3. /\ ListInv' /\ (rows' # Nothing => rows' \subseteq CardIds)
      /\ \A c \in vanished : IsDecided(c)
  BY <1>1, <1>2, ListReplaced
<1>4. local' \in [CardIds -> Entries \cup {Nothing}]
  BY <1>1, NilApart DEF Inv, PageTyped, QueueTypeOK
<1>5. PageTyped'
  BY <1>1, <1>2, <1>3, <1>4 DEF Inv, PageTyped, QueueTypeOK
<1>6. \A c \in CardIds : c \notin vanished => local'[c] = local[c]
  BY <1>1
<1>7. \A c \in vanished : local'[c] # Nothing /\ local'[c].kind = "open"
  BY <1>1, <1>2, NilApart, EntryKinds
<1>8. BornInv'
  BY <1>1, <1>3, <1>6 DEF Inv, BornInv, IsDecided, Endings, Verdicts
<1>9. AnswerInv'
  BY <1>1 DEF Inv, AnswerInv, IsDecided
<1>10. \A r \in request : r.card \in CardIds /\ r.card \notin vanished
  BY <1>2 DEF Inv, RequestInv, PageTyped, QueueTypeOK, Requests
<1>11. RequestInv'
  BY <1>1, <1>6, <1>10 DEF Inv, RequestInv, OneRequestPerCard
<1>12. \A c \in CardIds : IsNote(c)' => c \notin vanished /\ IsNote(c)
  BY <1>6, <1>7 DEF IsNote
<1>13. NoteInv'
  BY <1>1, <1>6, <1>12 DEF Inv, NoteInv, IsDecided, Truthful, Vague
<1>14. TimerInv'
  BY <1>1, <1>6 DEF Inv, TimerInv, IsNote, PageTyped, QueueTypeOK
<1> QED BY <1>3, <1>5, <1>8, <1>9, <1>11, <1>13, <1>14 DEF Inv

-----------------------------------------------------------------------------
(* What this browser does about a card.                                    *)

LEMMA DecideCardSafe ==
  ASSUME Inv, DecideCard, UNCHANGED <<app, Here>>
  PROVE  Inv'
<1>1. PICK c \in CardIds, v \in Verdicts :
        /\ clicks < MaxClicks /\ Shown(c) = "open" /\ clicks' = clicks + 1
        /\ local' = [local EXCEPT ![c] = Entry("deciding")]
        /\ request' = request \cup {[id |-> clicks, card |-> c, action |-> v, answer |-> Nothing]}
        /\ UNCHANGED <<decision, winner, rows, poll, timer, lost>>
  BY DEF DecideCard
<1> DEFINE new == [id |-> clicks, card |-> c, action |-> v, answer |-> Nothing]
<1>2. clicks \in 0..MaxClicks /\ clicks' \in 0..MaxClicks
  BY <1>1, QueueAssumption DEF Inv, PageTyped, QueueTypeOK
<1>3. new \in Requests /\ new.card = c /\ new.answer = Nothing
  BY <1>2 DEF Requests
<1> HIDE DEF new
<1>4. request' = request \cup {new}
  BY <1>1 DEF new
<1>5. /\ local' \in [CardIds -> Entries \cup {Nothing}]
      /\ local'[c] # Nothing /\ local'[c].kind = "deciding"
      /\ \A d \in CardIds : d # c => local'[d] = local[d]
  BY <1>1, NilApart, EntryKinds DEF Inv, PageTyped, QueueTypeOK
<1>6. \/ local[c] # Nothing /\ local[c].kind = "open"
      \/ local[c] = Nothing /\ InRows(c)
  BY <1>1 DEF Shown, InRows
<1>7. \A r \in request : r.card # c
  <2>1. SUFFICES ASSUME NEW r \in request, r.card = c PROVE FALSE
    OBVIOUS
  <2>2. CASE c \in reconciled
    BY <1>6, <2>1, <2>2 DEF Inv, RequestInv, ListInv
  <2>3. CASE c \notin reconciled
    BY <1>6, <2>1, <2>3 DEF Inv, RequestInv
  <2> QED BY <2>2, <2>3
<1>8. ~IsNote(c)
  BY <1>6 DEF IsNote
<1>9. decision[c] # "unborn"
  BY <1>6 DEF Inv, BornInv, ListInv, IsDecided, Endings, Verdicts, OpenList
<1>10. PageTyped'
  BY <1>1, <1>2, <1>3, <1>4, <1>5 DEF Inv, PageTyped, QueueTypeOK, Here
<1>11. BornInv'
  BY <1>1, <1>3, <1>4, <1>5, <1>9 DEF Inv, BornInv
<1>12. ListInv' /\ AnswerInv'
  <2>1. Grows /\ decision' \in [CardIds -> {"unborn", "pending"} \cup Endings]
    BY <1>1, CardsGrow DEF Inv
  <2> QED BY <1>1, <1>3, <1>4, <2>1, ListsKept, AnswersKept DEF Inv, Here
<1>13. RequestInv'
  <2>1. OneRequestPerCard'
    BY <1>3, <1>4, <1>7 DEF Inv, RequestInv, OneRequestPerCard
  <2>2. \A r \in request : r.card \in CardIds /\ local'[r.card] = local[r.card]
    BY <1>5, <1>7 DEF Inv, PageTyped, QueueTypeOK, Requests
  <2> QED BY <1>3, <1>4, <1>5, <2>1, <2>2 DEF Inv, RequestInv, Here
<1>14. NoteInv'
  <2>1. \A d \in CardIds : IsNote(d)' => d # c /\ IsNote(d)
    BY <1>5 DEF IsNote
  <2> QED BY <1>1, <1>5, <2>1 DEF Inv, NoteInv, IsDecided, Truthful, Vague, Here
<1>15. TimerInv'
  BY <1>1, <1>5, <1>8 DEF Inv, TimerInv, IsNote, PageTyped, QueueTypeOK, Here
<1> QED BY <1>10, <1>11, <1>12, <1>13, <1>14, <1>15 DEF Inv

\* A note about a decided card whose PATCH, if one is out, no longer matters to its buttons.
LEMMA ResolveSafe ==
  ASSUME Inv, NEW c \in CardIds, NEW d \in Endings, NEW name \in {"me", "other", Nothing},
         NEW mine \in BOOLEAN, Resolve(c, d, name, mine), IsDecided(c),
         \/ /\ d = decision[c] /\ (name # Nothing => name = winner[c])
            /\ mine => winner[c] = "me"
         \/ c \in reconciled /\ d = "withdrawn" /\ name = Nothing /\ mine = FALSE,
         request' \subseteq request, \A r \in request' : r.card = c => c \in reconciled,
         poll' \in {poll, Nothing, Asked}, asking' \subseteq reconciled, naming' \subseteq CardIds,
         lost' \in 0..MaxLost, UNCHANGED <<decision, winner, rows, clicks, reconciled, app>>
  PROVE  Inv'
<1> DEFINE note == Note(d, name, mine)
<1>1. local' = [local EXCEPT ![c] = note] /\ timer' = timer \cup {c}
  BY DEF Resolve
<1>2. /\ note \in Entries /\ note # Nothing /\ note.kind = "resolved"
      /\ note.decision = d /\ note.name = name /\ note.mine = mine
  BY NilApart, EntryKinds
<1>3. d = "withdrawn" /\ name = Nothing /\ mine = FALSE =>
        note = [Note("withdrawn", Nothing, FALSE) EXCEPT !.name = note.name]
  BY DEF Note
<1> HIDE DEF note
<1>4. /\ local' \in [CardIds -> Entries \cup {Nothing}] /\ local'[c] = note
      /\ \A e \in CardIds : e # c => local'[e] = local[e]
  BY <1>1, <1>2 DEF Inv, PageTyped, QueueTypeOK
<1>5. PageTyped'
  BY <1>1, <1>4 DEF Inv, PageTyped, QueueTypeOK, Polls
<1>6. BornInv'
  BY <1>4 DEF Inv, BornInv, IsDecided, Endings, Verdicts
<1>7. ListInv' /\ AnswerInv'
  <2>1. Grows /\ decision' \in [CardIds -> {"unborn", "pending"} \cup Endings]
    BY CardsGrow DEF Inv
  <2> QED BY <2>1, ListsKept, AnswersKept DEF Inv
<1>8. RequestInv'
  <2>1. \A r \in request' : r.card \in CardIds
    BY DEF Inv, PageTyped, QueueTypeOK, Requests
  <2> QED BY <1>2, <1>4, <2>1 DEF Inv, RequestInv, OneRequestPerCard
<1>9. NoteInv'
  <2>1. \A e \in CardIds : e # c /\ IsNote(e)' => IsNote(e)
    BY <1>4 DEF IsNote
  <2>2. Truthful(c)' \/ Vague(c)'
    BY <1>2, <1>3, <1>4 DEF Truthful, Vague
  <2> QED BY <1>4, <2>1, <2>2 DEF Inv, NoteInv, IsDecided, Truthful, Vague
<1>10. TimerInv'
  BY <1>1, <1>2, <1>4 DEF Inv, TimerInv, IsNote, PageTyped, QueueTypeOK
<1> QED BY <1>5, <1>6, <1>7, <1>8, <1>9, <1>10 DEF Inv

\* What an answer to this browser's PATCH allows it to note.
LEMMA AnswerTold ==
  ASSUME Inv, NEW r \in request, Answered(r), r.answer.status # "error"
  PROVE  /\ r.card \in CardIds /\ IsDecided(r.card) /\ r.answer.decision = decision[r.card]
         /\ r.answer.decision \in Endings /\ r.answer.name \in {"me", "other", Nothing}
         /\ r.answer.status = "decided" => winner[r.card] = "me"
         /\ r.answer.name # Nothing => r.answer.name = winner[r.card]
         /\ \A s \in request \ {r} : s.card # r.card
<1>1. r \in Requests /\ r.answer # Nothing
  BY DEF Inv, PageTyped, QueueTypeOK, Answered
<1>2. r.card \in CardIds /\ r.answer \in Replies
  BY <1>1 DEF Requests
<1>3. r.answer.name \in {"me", "other", Nothing}
  BY <1>2 DEF Replies
<1>4. \A s \in request \ {r} : s.card # r.card
  BY DEF Inv, RequestInv, OneRequestPerCard
<1> QED BY <1>1, <1>2, <1>3, <1>4 DEF Inv, AnswerInv, IsDecided

LEMMA LearnedSafe ==
  ASSUME Inv, Learned, app # "web", UNCHANGED app
  PROVE  Inv'
<1>1. PICK r \in request :
        /\ Answered(r) /\ r.answer.status # "error"
        /\ Resolve(r.card, r.answer.decision, Nothing, r.answer.status = "decided")
        /\ naming' = IF r.answer.status = "decided" THEN naming ELSE naming \cup {r.card}
        /\ request' = request \ {r}
        /\ UNCHANGED <<decision, winner, rows, poll, clicks, lost, reconciled, asking>>
  BY DEF Learned
<1>2. /\ r.card \in CardIds /\ IsDecided(r.card) /\ r.answer.decision = decision[r.card]
      /\ r.answer.decision \in Endings
      /\ r.answer.status = "decided" => winner[r.card] = "me"
      /\ \A s \in request' : s.card # r.card
  BY <1>1, AnswerTold
<1>3. naming' \subseteq CardIds /\ asking' \subseteq reconciled /\ lost' \in 0..MaxLost
  BY <1>1, <1>2 DEF Inv, PageTyped, QueueTypeOK
<1>4. (r.answer.status = "decided") \in BOOLEAN
  OBVIOUS
<1> QED BY <1>1, <1>2, <1>3, <1>4, ResolveSafe

LEMMA DecideLearnedSafe ==
  ASSUME Inv, DecideLearned, UNCHANGED <<app, Here>>
  PROVE  Inv'
<1>1. PICK r \in request :
        /\ Answered(r) /\ r.answer.status # "error"
        /\ Resolve(r.card, r.answer.decision,
                   IF r.answer.status = "decided" THEN Nothing ELSE r.answer.name,
                   r.answer.status = "decided")
        /\ request' = request \ {r} /\ poll' = Asked
        /\ UNCHANGED <<decision, winner, rows, clicks, lost>>
  BY DEF DecideLearned
<1> DEFINE name == IF r.answer.status = "decided" THEN Nothing ELSE r.answer.name
<1>2. /\ r.card \in CardIds /\ IsDecided(r.card) /\ r.answer.decision = decision[r.card]
      /\ r.answer.decision \in Endings /\ name \in {"me", "other", Nothing}
      /\ r.answer.status = "decided" => winner[r.card] = "me"
      /\ name # Nothing => name = winner[r.card]
      /\ \A s \in request' : s.card # r.card
  BY <1>1, AnswerTold
<1>3. naming' \subseteq CardIds /\ asking' \subseteq reconciled /\ lost' \in 0..MaxLost
  BY <1>1 DEF Inv, PageTyped, QueueTypeOK, Here
<1>4. (r.answer.status = "decided") \in BOOLEAN /\ UNCHANGED reconciled
  BY DEF Here
<1> HIDE DEF name
<1>5. Resolve(r.card, r.answer.decision, name, r.answer.status = "decided")
  BY <1>1 DEF name
<1> QED BY <1>1, <1>2, <1>3, <1>4, <1>5, ResolveSafe

\* A card goes back to what a list or a button shows, when its PATCH is over or its
\* countdown is.
LEMMA PutBackSafe ==
  ASSUME Inv, NEW c \in CardIds, NEW entry \in {Nothing, Entry("open")},
         local' = [local EXCEPT ![c] = entry], entry # Nothing => decision[c] # "unborn",
         request' \subseteq request, timer' \subseteq timer,
         \/ \A r \in request' : r.card # c
         \/ entry = Nothing /\ c \in reconciled,
         \/ c \notin timer' \/ c \in reconciled
         \/ ~IsNote(c) /\ timer' = timer,
         UNCHANGED <<decision, winner, rows, poll, clicks, lost, app, Here>>
  PROVE  Inv'
<1>1. entry \in Entries \cup {Nothing} /\ (entry # Nothing => entry.kind = "open")
  BY NilApart, EntryKinds
<1>2. /\ local' \in [CardIds -> Entries \cup {Nothing}] /\ local'[c] = entry
      /\ \A e \in CardIds : e # c => local'[e] = local[e]
  BY <1>1 DEF Inv, PageTyped, QueueTypeOK
<1>3. PageTyped'
  BY <1>2 DEF Inv, PageTyped, QueueTypeOK, Here
<1>4. BornInv'
  BY <1>2 DEF Inv, BornInv
<1>5. ListInv' /\ AnswerInv'
  <2>1. Grows /\ decision' \in [CardIds -> {"unborn", "pending"} \cup Endings]
    BY CardsGrow DEF Inv
  <2> QED BY <2>1, ListsKept, AnswersKept DEF Inv, Here
<1>6. RequestInv'
  <2>1. \A r \in request' : r.card \in CardIds
    BY DEF Inv, PageTyped, QueueTypeOK, Requests
  <2> QED BY <1>2, <2>1 DEF Inv, RequestInv, OneRequestPerCard, Here
<1>7. \A e \in CardIds : IsNote(e)' => e # c /\ IsNote(e)
  BY <1>1, <1>2 DEF IsNote
<1>8. NoteInv'
  BY <1>2, <1>7 DEF Inv, NoteInv, IsDecided, Truthful, Vague, Here
<1>9. TimerInv'
  <2>1. \A e \in timer' \ reconciled : e # c
    BY DEF Inv, TimerInv, PageTyped, QueueTypeOK
  <2> QED BY <1>2, <2>1 DEF Inv, TimerInv, IsNote, PageTyped, QueueTypeOK, Here
<1> QED BY <1>3, <1>4, <1>5, <1>6, <1>8, <1>9 DEF Inv

\* The request of a card that is no note: its countdown is none, or the card's that was
\* reconciled.
LEMMA FailSafe ==
  ASSUME Inv, NEW r \in request, Fail(r.card), request' = request \ {r},
         UNCHANGED <<decision, winner, rows, poll, clicks, lost, app, Here>>
  PROVE  Inv'
<1>1. r.card \in CardIds /\ decision[r.card] # "unborn"
  BY DEF Inv, BornInv, PageTyped, QueueTypeOK, Requests
<1>2. \A s \in request' : s.card # r.card
  BY DEF Inv, RequestInv, OneRequestPerCard
<1>3. local' = [local EXCEPT ![r.card] = Entry("open")] /\ timer' = timer
  BY DEF Fail
<1>4. r.card \in reconciled \/ ~IsNote(r.card)
  BY DEF Inv, RequestInv, IsNote
<1> QED BY <1>1, <1>2, <1>3, <1>4, PutBackSafe

LEMMA ExpireSafe ==
  ASSUME Inv, Expire, UNCHANGED <<app, Here>>
  PROVE  Inv'
<1>1. PICK c \in timer :
        /\ timer' = timer \ {c} /\ local' = [local EXCEPT ![c] = Nothing]
        /\ UNCHANGED <<decision, winner, rows, poll, request, clicks, lost>>
  BY DEF Expire
<1>2. c \in CardIds
  BY DEF Inv, PageTyped, QueueTypeOK
<1>3. c \in reconciled \/ \A r \in request' : r.card # c
  BY <1>1 DEF Inv, TimerInv, RequestInv, IsNote
<1> QED BY <1>1, <1>2, <1>3, PutBackSafe

LEMMA ReconcileSafe ==
  ASSUME Inv, ReconcileCard \/ ReconcileFails, UNCHANGED app
  PROVE  Inv'
<1>1. PICK c \in asking :
        /\ \/ Resolve(c, decision[c], winner[c], FALSE) /\ UNCHANGED lost
           \/ lost < MaxLost /\ lost' = lost + 1 /\ Resolve(c, "withdrawn", Nothing, FALSE)
        /\ asking' = asking \ {c}
        /\ UNCHANGED <<decision, winner, rows, poll, request, clicks, reconciled, naming>>
  BY DEF ReconcileCard, ReconcileFails
<1>2. c \in CardIds /\ c \in reconciled /\ IsDecided(c) /\ decision[c] \in Endings
  BY DEF Inv, ListInv, PageTyped, IsDecided
<1>3. winner[c] \in {"me", "other", Nothing} /\ "withdrawn" \in Endings
  BY <1>2 DEF Inv, PageTyped, QueueTypeOK, Endings
<1>4. asking' \subseteq reconciled /\ naming' \subseteq CardIds /\ lost' \in 0..MaxLost
  <2>1. lost' = lost \/ (lost < MaxLost /\ lost' = lost + 1)
    BY <1>1
  <2>2. lost' \in 0..MaxLost
    BY <2>1, QueueAssumption DEF Inv, PageTyped, QueueTypeOK
  <2> QED BY <1>1, <2>2 DEF Inv, PageTyped, QueueTypeOK
<1>5. CASE Resolve(c, decision[c], winner[c], FALSE)
  BY <1>1, <1>2, <1>3, <1>4, <1>5, ResolveSafe
<1>6. CASE Resolve(c, "withdrawn", Nothing, FALSE)
  BY <1>1, <1>2, <1>3, <1>4, <1>6, ResolveSafe
<1> QED BY <1>1, <1>5, <1>6

\* The name of the winner goes on a note that has none, and nowhere else.
LEMMA NameArrivesSafe ==
  ASSUME Inv, NameArrives, app # "web", UNCHANGED app
  PROVE  Inv'
<1>1. PICK c \in naming, failed \in BOOLEAN :
        /\ naming' = naming \ {c}
        /\ local' = IF ~failed /\ winner[c] # Nothing /\ IsNote(c) /\ local[c].name = Nothing
                      THEN [local EXCEPT ![c].name = winner[c]] ELSE local
        /\ UNCHANGED <<decision, winner, rows, poll, timer, request, clicks, lost, reconciled,
                       asking>>
  BY DEF NameArrives
<1> DEFINE named == [local[c] EXCEPT !.name = winner[c]]
<1>2. c \in CardIds
  BY DEF Inv, PageTyped
<1>3. Grows /\ decision' \in [CardIds -> {"unborn", "pending"} \cup Endings]
  BY <1>1, CardsGrow DEF Inv
<1>4. CASE local' = local
  <2>1. PageTyped'
    BY <1>1, <1>4 DEF Inv, PageTyped, QueueTypeOK
  <2>2. BornInv' /\ AnswerInv'
    BY <1>1, <1>4 DEF Inv, BornInv, AnswerInv, IsDecided
  <2>3. ListInv' /\ RequestInv' /\ NoteInv' /\ TimerInv'
    BY <1>1, <1>3, <1>4, ListsKept, RequestsKept, NotesKept, TimersKept DEF Inv
  <2> QED BY <2>1, <2>2, <2>3 DEF Inv
<1>5. CASE local' # local
  <2>1. local' = [local EXCEPT ![c] = named] /\ IsNote(c)
    BY <1>1, <1>5
  <2>2. local[c] \in Entries
    BY <1>2, <2>1 DEF Inv, PageTyped, QueueTypeOK, IsNote
  <2>3. /\ named \in Entries /\ named # Nothing /\ named.kind = "resolved"
        /\ named.decision = local[c].decision /\ named.mine = local[c].mine
        /\ named.name = winner[c]
    BY <1>2, <2>1, <2>2, QueueNilAssumption DEF Inv, PageTyped, QueueTypeOK, Entries, IsNote
  <2>4. Vague(c) => named = [Note("withdrawn", Nothing, FALSE) EXCEPT !.name = winner[c]]
    BY DEF Vague, Note
  <2> HIDE DEF named
  <2>5. /\ local' \in [CardIds -> Entries \cup {Nothing}] /\ local'[c] = named
        /\ \A e \in CardIds : e # c => local'[e] = local[e]
    BY <1>2, <2>1, <2>3 DEF Inv, PageTyped, QueueTypeOK
  <2>6. \A e \in CardIds : IsNote(e)' = IsNote(e)
    BY <2>1, <2>3, <2>5 DEF IsNote
  <2>7. PageTyped'
    BY <1>1, <2>5 DEF Inv, PageTyped, QueueTypeOK
  <2>8. BornInv' /\ AnswerInv'
    BY <1>1, <2>1, <2>5 DEF Inv, BornInv, AnswerInv, IsDecided, IsNote
  <2>9. ListInv'
    BY <1>1, <1>3, ListsKept DEF Inv
  <2>10. RequestInv'
    <3>1. \A r \in request : r.card \in CardIds
      BY DEF Inv, PageTyped, QueueTypeOK, Requests
    <3> QED BY <1>1, <2>1, <2>3, <2>5, <3>1 DEF Inv, RequestInv, OneRequestPerCard, IsNote
  <2>11. NoteInv'
    <3>1. Truthful(c)' \/ Vague(c)'
      <4>1. Truthful(c) \/ Vague(c)
        BY <1>2, <2>1 DEF Inv, NoteInv
      <4>2. CASE Truthful(c)
        BY <1>1, <2>3, <2>5, <4>2 DEF Truthful
      <4>3. CASE Vague(c)
        BY <1>1, <2>3, <2>4, <2>5, <4>3 DEF Vague
      <4> QED BY <4>1, <4>2, <4>3
    <3> QED BY <1>1, <2>5, <2>6, <3>1 DEF Inv, NoteInv, IsDecided, Truthful, Vague
  <2>12. TimerInv'
    BY <1>1, <2>6 DEF Inv, TimerInv, PageTyped, QueueTypeOK
  <2> QED BY <2>7, <2>8, <2>9, <2>10, <2>11, <2>12 DEF Inv
<1> QED BY <1>4, <1>5

-----------------------------------------------------------------------------
(* The theorem.                                                            *)

LEMMA SharedSafe ==
  ASSUME Inv, UNCHANGED <<app, Here>>,
         \/ Opened \/ DecidedElsewhere \/ Patch \/ Lose \/ PollRead \/ PollFails
         \/ DecideCard \/ Expire
  PROVE  Inv'
<1>1. CASE PollFails
  BY <1>1, PollDroppedSafe DEF PollFails
<1> QED BY <1>1, OpenedSafe, DecidedElsewhereSafe, PatchSafe, LoseSafe, PollReadSafe,
           DecideCardSafe, ExpireSafe

LEMMA DashboardSafe == Inv /\ DashboardNext /\ app # "web" /\ UNCHANGED app => Inv'
<1> SUFFICES ASSUME Inv, DashboardNext, app # "web", UNCHANGED app PROVE Inv'
  OBVIOUS
<1>1. CASE Shared /\ UNCHANGED Here
  BY <1>1, SharedSafe DEF Shared
<1>2. CASE Poll
  BY <1>2, PollDroppedSafe DEF Poll
<1>3. CASE Failed
  BY <1>3, FailSafe DEF Failed
<1> QED BY <1>1, <1>2, <1>3, PollArrivesSafe, ReconcileSafe, LearnedSafe, NameArrivesSafe
        DEF DashboardNext

LEMMA WebSafe == Inv /\ WebNext /\ UNCHANGED <<app, Here>> => Inv'
<1> SUFFICES ASSUME Inv, WebNext, UNCHANGED <<app, Here>> PROVE Inv'
  OBVIOUS
<1>1. CASE Refetch
  BY <1>1, PollDroppedSafe DEF Refetch
<1>2. CASE DecideFailed
  BY <1>2, FailSafe DEF DecideFailed
<1> QED BY <1>1, <1>2, SharedSafe, QueryArrivesSafe, DecideLearnedSafe DEF WebNext

LEMMA StutterSafe == Inv /\ UNCHANGED <<app, dashboardVars>> => Inv'
<1> SUFFICES ASSUME Inv, UNCHANGED <<app, dashboardVars>> PROVE Inv'
  OBVIOUS
<1>1. /\ UNCHANGED <<decision, winner, rows, poll, local, timer, request, clicks, lost>>
      /\ UNCHANGED <<reconciled, asking, naming>>
  BY DEF dashboardVars, queueVars
<1>2. PageTyped' /\ BornInv' /\ AnswerInv'
  BY <1>1 DEF Inv, PageTyped, QueueTypeOK, BornInv, AnswerInv, IsDecided
<1>3. Grows /\ decision' \in [CardIds -> {"unborn", "pending"} \cup Endings]
  BY <1>1, CardsGrow DEF Inv
<1>4. ListInv' /\ RequestInv' /\ NoteInv' /\ TimerInv'
  BY <1>1, <1>3, ListsKept, RequestsKept, NotesKept, TimersKept DEF Inv
<1> QED BY <1>2, <1>4 DEF Inv

\* The invariant holds of both pages.
THEOREM Invariance == QueuesSpec => []Inv
<1>1. QueuesInit => Inv
  BY InitSafe DEF QueuesInit
<1>2. Inv /\ [QueuesNext]_<<app, dashboardVars>> => Inv'
  BY DashboardSafe, WebSafe, StutterSafe DEF QueuesNext
<1> QED BY <1>1, <1>2, PTL DEF QueuesSpec

\* use-approvals.ts, approvals-overlay.ts: no decision of a browser is submitted twice, and no
\* note says what the server did not record, names anybody else, or claims what it did not win.
THEOREM SafeQueues == QueuesSpec => []QueuesSafe
<1>1. Inv => QueuesSafe
  <2>1. SUFFICES ASSUME Inv PROVE QueuesSafe
    OBVIOUS
  <2>2. app = "web" => NotesAreTruthful
    BY <2>1 DEF Inv, NoteInv, NotesAreTruthful, Vague, PageTyped
  <2>3. NotesAreTruthfulOrVague
    BY <2>1 DEF Inv, NoteInv, NotesAreTruthfulOrVague, Vague
  <2> QED BY <2>1, <2>2, <2>3 DEF Inv, PageTyped, RequestInv, QueuesSafe
<1> QED BY <1>1, Invariance, PTL

-----------------------------------------------------------------------------
(* Questions asked again.                                                  *)

Owners == {Owner[t] : t \in Tabs}
Questions == [tab : Tabs, mount : Nat, text : Texts]
ChatKeys == [owner : Owners, id : Nat]
Posts ==
  [tab : Tabs, mount : Nat, text : Texts, nr : Nat, id : Nat,
   at : {"sent", "created", "done", "dead"}, awaited : BOOLEAN]

ComposerTyped ==
  /\ mount \in [Tabs -> 0..MaxRemounts] /\ submits \in 0..MaxSubmits
  /\ idFor \in [Tabs -> [Texts -> Nat \cup {Unasked}]] /\ inFlight \in [Tabs -> SUBSET Texts]
  /\ posts \subseteq Posts /\ minted \in [Owners -> Nat]
  /\ opening \in [DOMAIN opening -> Texts \cup {Unasked}]
  /\ asked \subseteq [question : Questions, key : ChatKeys]
  /\ shown \subseteq asked

\* The question of a tab's composer as it is mounted, with the key it would be sent with.
HasId(t, x, q, k) ==
  /\ idFor[t][x] # Unasked
  /\ q = [tab |-> t, mount |-> mount[t], text |-> x]
  /\ k = [owner |-> Owner[t], id |-> idFor[t][x]]

\* A question goes with a key: in a composer, on its way, or in the history.
GoesWith(q, k) ==
  \/ \E t \in Tabs, x \in Texts : HasId(t, x, q, k)
  \/ \E p \in posts : q = Question(p) /\ k = ChatKey(p)
  \/ \E a \in asked : q = a.question /\ k = a.key

\* An id was minted for the teammate, and the composer knows those of its questions.
IdKnown(q, k) ==
  /\ k.id < minted[k.owner] /\ k.owner = Owner[q.tab] /\ q.mount <= mount[q.tab]
  /\ q.mount = mount[q.tab] => idFor[q.tab][q.text] = k.id

IdsInv ==
  /\ \A q \in Questions, k \in ChatKeys : GoesWith(q, k) => IdKnown(q, k)
  /\ \A q, r \in Questions, k, l \in ChatKeys :
       GoesWith(q, k) /\ GoesWith(r, l) => (q = r <=> k = l)

\* A run was opened with a question that came to it, and a POST with its question.
OpeningInv ==
  /\ \A p \in posts :
       /\ p.at \in {"created", "done"} => Came(p, ChatKey(p)) \in asked
       /\ p.at = "done" => opening[ChatKey(p)] = p.text
  /\ \A a \in asked :
       /\ a.key \in DOMAIN opening
       /\ opening[a.key] # Unasked => opening[a.key] = a.question.text
  /\ \A k \in DOMAIN opening : \E a \in asked : a.key = k
  /\ \A s \in shown : opening[s.key] = s.question.text

ComposerInv == ComposerTyped /\ IdsInv /\ OpeningInv

LEMMA PostFields ==
  ASSUME NEW p \in Posts
  PROVE  /\ Question(p) \in Questions /\ ChatKey(p) \in ChatKeys
         /\ Question(p).tab = p.tab /\ Question(p).mount = p.mount /\ Question(p).text = p.text
         /\ ChatKey(p).owner = Owner[p.tab] /\ ChatKey(p).id = p.id
         /\ Came(p, ChatKey(p)) \in [question : Questions, key : ChatKeys]
         /\ Came(p, ChatKey(p)).question = Question(p) /\ Came(p, ChatKey(p)).key = ChatKey(p)
BY DEF Posts, Question, ChatKey, Questions, ChatKeys, Came, Owners

LEMMA ComposerSafe ==
  ASSUME ComposerInv
  PROVE  ComposerTypeOK /\ OneRunPerQuestion
<1>1. ComposerTyped /\ IdsInv /\ OpeningInv
  BY DEF ComposerInv
<1>2. ComposerTypeOK
  BY <1>1 DEF ComposerTyped, ComposerTypeOK
<1>3. ASSUME NEW a \in asked, NEW b \in asked
      PROVE  a.question = b.question <=> a.key = b.key
  <2>1. /\ a.question \in Questions /\ b.question \in Questions
        /\ a.key \in ChatKeys /\ b.key \in ChatKeys
    BY <1>1 DEF ComposerTyped
  <2>2. GoesWith(a.question, a.key) /\ GoesWith(b.question, b.key)
    BY DEF GoesWith
  <2> QED
    BY <1>1, <2>1, <2>2 DEF IdsInv
<1>4. \A s \in shown : s \in asked /\ opening[s.key] = s.question.text
  BY <1>1 DEF ComposerTyped, OpeningInv
<1> QED
  BY <1>2, <1>3, <1>4 DEF OneRunPerQuestion

LEMMA ComposerBegins ==
  ASSUME ComposerInit
  PROVE  ComposerInv
<1> USE DEF ComposerInit
<1>1. ComposerTyped
  <2>1. opening \in [DOMAIN opening -> Texts \cup {Unasked}]
    OBVIOUS
  <2>2. mount \in [Tabs -> 0..MaxRemounts] /\ submits \in 0..MaxSubmits
    BY ComposerAssumption
  <2>3. idFor \in [Tabs -> [Texts -> Nat \cup {Unasked}]] /\ inFlight \in [Tabs -> SUBSET Texts]
    OBVIOUS
  <2>4. minted \in [Owners -> Nat]
    BY DEF Owners
  <2> QED
    BY <2>1, <2>2, <2>3, <2>4 DEF ComposerTyped
<1>2. \A q, k : ~GoesWith(q, k)
  BY DEF GoesWith, HasId
<1>3. IdsInv
  BY <1>2 DEF IdsInv
<1> QED
  BY <1>1, <1>3 DEF ComposerInv, OpeningInv

\* A step after which no more questions go with keys.
LEMMA NothingNew ==
  ASSUME IdsInv, UNCHANGED <<mount, idFor, minted>>,
         \A q \in Questions, k \in ChatKeys : GoesWith(q, k)' => GoesWith(q, k)
  PROVE  IdsInv'
BY DEF IdsInv, IdKnown

LEMMA SubmitQuestionKeeps ==
  ASSUME ComposerInv, SubmitQuestion
  PROVE  ComposerInv'
<1> USE DEF SubmitQuestion
<1>1. ComposerTyped /\ IdsInv /\ OpeningInv
  BY DEF ComposerInv
<1>2. PICK t \in Tabs, x \in Texts :
        /\ submits < MaxSubmits /\ inFlight[t] = {}
        /\ idFor' = [idFor EXCEPT ![t][x] = IdFor(t, x)]
        /\ posts' = posts \cup {[tab |-> t, mount |-> mount[t], text |-> x, nr |-> submits,
                                 id |-> IdFor(t, x), at |-> "sent", awaited |-> TRUE]}
        /\ inFlight' = [inFlight EXCEPT ![t] = {x}]
        /\ minted' = IF idFor[t][x] = Unasked THEN [minted EXCEPT ![Owner[t]] = @ + 1] ELSE minted
        /\ submits' = submits + 1
        /\ UNCHANGED <<mount, opening, asked, shown>>
  OBVIOUS
<1>3. PICK id \in Nat : id = IdFor(t, x)
  <2>1. Owner[t] \in Owners /\ minted[Owner[t]] \in Nat /\ idFor[t][x] \in Nat \cup {Unasked}
    BY <1>1 DEF ComposerTyped, Owners
  <2> QED
    BY <2>1 DEF IdFor
<1>4. PICK m \in Nat : m = mount[t]
  BY <1>1 DEF ComposerTyped
<1>5. PICK p : p = [tab |-> t, mount |-> m, text |-> x, nr |-> submits,
                    id |-> id, at |-> "sent", awaited |-> TRUE]
  OBVIOUS
<1>6. p \in Posts /\ posts' = posts \cup {p} /\ p.at = "sent"
  BY <1>1, <1>2, <1>3, <1>4, <1>5 DEF Posts, ComposerTyped
<1>7. PICK own \in Owners, count \in Nat : own = Owner[t] /\ count = minted[own]
  <2>1. Owner[t] \in Owners
    BY DEF Owners
  <2>2. minted[Owner[t]] \in Nat
    BY <1>1, <2>1 DEF ComposerTyped
  <2> QED
    BY <2>1, <2>2
<1>8. PICK q \in Questions : q = [tab |-> t, mount |-> m, text |-> x] /\ q = Question(p)
  BY <1>5 DEF Questions, Question
<1>9. PICK k \in ChatKeys : k = [owner |-> own, id |-> id] /\ k = ChatKey(p)
  BY <1>5, <1>7 DEF ChatKeys, ChatKey
<1>10. /\ idFor'[t][x] = id
       /\ \A u \in Tabs, y \in Texts : u # t \/ y # x => idFor'[u][y] = idFor[u][y]
       /\ idFor' \in [Tabs -> [Texts -> Nat \cup {Unasked}]]
  BY <1>1, <1>2, <1>3 DEF ComposerTyped
<1>11. /\ minted' \in [Owners -> Nat] /\ \A o \in Owners : minted[o] <= minted'[o]
       /\ idFor[t][x] = Unasked => id = count /\ minted'[own] = count + 1
  <2>1. CASE idFor[t][x] = Unasked
    <3>1. minted' = [minted EXCEPT ![own] = count + 1] /\ id = count
      BY <1>2, <1>3, <1>7, <2>1 DEF IdFor
    <3>2. minted \in [Owners -> Nat]
      BY <1>1 DEF ComposerTyped
    <3> QED
      BY <1>7, <3>1, <3>2
  <2>2. CASE idFor[t][x] # Unasked
    <3>1. minted' = minted
      BY <1>2, <2>2
    <3>2. minted \in [Owners -> Nat] /\ \A o \in Owners : minted[o] \in Nat
      BY <1>1 DEF ComposerTyped
    <3>3. \A o \in Owners : minted[o] <= minted[o]
      BY <3>2
    <3> QED
      BY <2>2, <3>1, <3>2, <3>3
  <2> QED
    BY <2>1, <2>2
<1>12. ComposerTyped'
  <2>1. submits' \in 0..MaxSubmits
    BY <1>1, <1>2, ComposerAssumption DEF ComposerTyped
  <2>2. inFlight' \in [Tabs -> SUBSET Texts]
    BY <1>1, <1>2 DEF ComposerTyped
  <2> QED
    BY <1>1, <1>2, <1>6, <1>10, <1>11, <2>1, <2>2 DEF ComposerTyped
<1>13. ASSUME NEW r \in Questions, NEW l \in ChatKeys, GoesWith(r, l)'
       PROVE  GoesWith(r, l) \/ (r = q /\ l = k)
  <2>1. ASSUME NEW u \in Tabs, NEW y \in Texts, HasId(u, y, r, l)'
        PROVE  GoesWith(r, l) \/ (r = q /\ l = k)
    <3>1. CASE u = t /\ y = x
      BY <1>2, <1>4, <1>7, <1>8, <1>9, <1>10, <2>1, <3>1 DEF HasId
    <3>2. CASE ~(u = t /\ y = x)
      <4>1. HasId(u, y, r, l)
        BY <1>2, <1>10, <2>1, <3>2 DEF HasId
      <4> QED
        BY <4>1 DEF GoesWith
    <3> QED
      BY <3>1, <3>2
  <2>2. ASSUME NEW s \in posts', r = Question(s), l = ChatKey(s)
        PROVE  GoesWith(r, l) \/ (r = q /\ l = k)
    BY <1>6, <1>8, <1>9, <2>2 DEF GoesWith
  <2>3. ASSUME NEW a \in asked', r = a.question, l = a.key
        PROVE  GoesWith(r, l)
    BY <1>2, <2>3 DEF GoesWith
  <2>4. /\ (\E s \in posts' : r = Question(s) /\ l = ChatKey(s)) = (\E s \in posts : r = Question(s) /\ l = ChatKey(s))'
    BY DEF Question, ChatKey
  <2> QED
    BY <1>13, <2>1, <2>2, <2>3 DEF GoesWith, Question, ChatKey
<1>14. CASE idFor[t][x] # Unasked
  <2>1. HasId(t, x, q, k)
    BY <1>3, <1>4, <1>7, <1>8, <1>9, <1>14 DEF HasId, IdFor
  <2>2. \A r \in Questions, l \in ChatKeys : GoesWith(r, l)' => GoesWith(r, l)
    BY <1>13, <2>1 DEF GoesWith
  <2>3. idFor' = idFor /\ minted' = minted /\ mount' = mount
    <3>1. \A u \in Tabs, y \in Texts : idFor'[u][y] = idFor[u][y]
      BY <1>3, <1>10, <1>14 DEF IdFor
    <3>2. \A u \in Tabs : idFor'[u] = idFor[u]
      BY <1>1, <1>10, <3>1 DEF ComposerTyped
    <3> QED
      BY <1>1, <1>2, <1>10, <1>14, <3>2 DEF ComposerTyped
  <2>4. IdsInv'
    BY <1>1, <2>2, <2>3, NothingNew
  <2> QED
    BY <1>1, <1>2, <1>6, <1>12, <2>4 DEF ComposerInv, OpeningInv, Came, Question, ChatKey
<1>15. CASE idFor[t][x] = Unasked
  <2>1. k.id = count /\ k.owner = own /\ q.tab = t /\ q.mount = m /\ q.text = x
    BY <1>8, <1>9, <1>11, <1>15
  <2>2. ASSUME NEW r \in Questions, NEW l \in ChatKeys, GoesWith(r, l)
        PROVE  /\ r # q /\ l # k
               /\ IdKnown(r, l)'
    <3>1. IdKnown(r, l)
      BY <1>1, <2>2 DEF IdsInv
    <3>2. l.id \in Nat /\ l.owner \in Owners /\ r.tab \in Tabs /\ r.text \in Texts
      BY DEF ChatKeys, Questions
    <3>3. l # k
      BY <1>7, <2>1, <3>1, <3>2 DEF IdKnown
    <3>4. r # q
      <4>1. SUFFICES ASSUME r = q PROVE FALSE
        OBVIOUS
      <4>2. idFor[t][x] = l.id
        BY <1>4, <2>1, <3>1, <4>1 DEF IdKnown
      <4> QED
        BY <1>15, <3>2, <4>2, ComposerAssumption
    <3>5. l.id < minted'[l.owner]
      BY <1>1, <1>11, <3>1, <3>2 DEF IdKnown, ComposerTyped
    <3>6. r.mount = mount[r.tab] => r.tab # t \/ r.text # x
      <4>1. SUFFICES ASSUME r.mount = mount[r.tab], r.tab = t, r.text = x PROVE FALSE
        OBVIOUS
      <4> QED
        BY <1>4, <1>8, <3>4, <4>1 DEF Questions
    <3> QED
      BY <1>2, <1>10, <3>1, <3>2, <3>3, <3>4, <3>5, <3>6 DEF IdKnown
  <2>3. IdKnown(q, k)'
    BY <1>2, <1>4, <1>7, <1>10, <1>11, <1>15, <2>1 DEF IdKnown
  <2>4. IdsInv'
    BY <1>1, <1>13, <2>2, <2>3 DEF IdsInv
  <2> QED
    BY <1>1, <1>2, <1>6, <1>12, <2>4 DEF ComposerInv, OpeningInv, Came, Question, ChatKey
<1> QED
  BY <1>14, <1>15


\* A POST that moves on goes with the key it went with.
LEMMA PostMovesOn ==
  ASSUME ComposerTyped, IdsInv, UNCHANGED <<mount, idFor, minted>>,
         NEW p \in posts, NEW q, Question(q) = Question(p), ChatKey(q) = ChatKey(p),
         posts' \subseteq posts \cup {q}, asked' \subseteq asked \cup {Came(p, ChatKey(p))}
  PROVE  IdsInv'
<1>1. p \in Posts
  BY DEF ComposerTyped
<1>2. ASSUME NEW r \in Questions, NEW l \in ChatKeys, GoesWith(r, l)'
      PROVE  GoesWith(r, l)
  <2>1. ASSUME NEW u \in Tabs, NEW y \in Texts, HasId(u, y, r, l)'
        PROVE  GoesWith(r, l)
    <3>1. HasId(u, y, r, l)
      BY <2>1 DEF HasId
    <3> QED
      BY <3>1 DEF GoesWith
  <2>2. ASSUME NEW s \in posts', r = Question(s), l = ChatKey(s)
        PROVE  GoesWith(r, l)
    BY <2>2 DEF GoesWith
  <2>3. ASSUME NEW a \in asked', r = a.question, l = a.key
        PROVE  GoesWith(r, l)
    BY <1>1, <2>3, PostFields DEF GoesWith
  <2> QED
    BY <1>2, <2>1, <2>2, <2>3 DEF GoesWith, Question, ChatKey
<1> QED
  BY <1>2, NothingNew

\* What Moved makes of the POSTs.
LEMMA MovedPosts ==
  ASSUME NEW p \in Posts, NEW at \in {"sent", "created", "done", "dead"}, NEW w \in BOOLEAN,
         NEW q, q = [[p EXCEPT !.at = at] EXCEPT !.awaited = w], ComposerTyped,
         posts' = Moved(p, q)
  PROVE  /\ q \in Posts /\ q.at = at /\ q.text = p.text
         /\ Question(q) = Question(p) /\ ChatKey(q) = ChatKey(p)
         /\ posts' \subseteq posts \cup {q} /\ posts' \subseteq Posts
<1>1. /\ q \in Posts /\ q.at = at /\ q.text = p.text
      /\ Question(q) = Question(p) /\ ChatKey(q) = ChatKey(p)
  BY DEF Posts, Question, ChatKey
<1>2. posts' \subseteq posts \cup {q} /\ posts' \subseteq Posts
  BY <1>1 DEF Moved, ComposerTyped
<1> QED
  BY <1>1, <1>2

\* A POST and what came with its key ask the same question.
LEMMA OneQuestion ==
  ASSUME ComposerTyped, IdsInv, NEW p \in posts, NEW a \in asked, a.key = ChatKey(p)
  PROVE  a.question = Question(p) /\ a.question.text = p.text
<1>1. p \in Posts /\ a.question \in Questions /\ a.key \in ChatKeys
  BY DEF ComposerTyped
<1>2. Question(p) \in Questions /\ ChatKey(p) \in ChatKeys /\ Question(p).text = p.text
  BY <1>1, PostFields
<1>3. GoesWith(a.question, a.key) /\ GoesWith(Question(p), ChatKey(p))
  BY DEF GoesWith
<1> QED
  BY <1>1, <1>2, <1>3 DEF IdsInv

LEMMA CreateKeeps ==
  ASSUME ComposerInv, Create
  PROVE  ComposerInv'
<1>1. ComposerTyped /\ IdsInv /\ OpeningInv
  BY DEF ComposerInv
<1>2. PICK p \in posts :
        /\ p.at = "sent"
        /\ opening' = IF ChatKey(p) \in DOMAIN opening THEN opening
                      ELSE [k \in DOMAIN opening \cup {ChatKey(p)} |->
                              IF k = ChatKey(p) THEN Unasked ELSE opening[k]]
        /\ asked' = asked \cup {Came(p, ChatKey(p))}
        /\ posts' = Moved(p, [p EXCEPT !.at = "created"])
        /\ UNCHANGED <<mount, idFor, inFlight, shown, minted, submits>>
  BY DEF Create
<1>3. p \in Posts /\ p.awaited \in BOOLEAN
  BY <1>1 DEF ComposerTyped, Posts
<1>4. PICK q : q = [p EXCEPT !.at = "created"] /\ q = [[p EXCEPT !.at = "created"] EXCEPT !.awaited = p.awaited]
  BY <1>3 DEF Posts
<1>5. /\ q \in Posts /\ q.at = "created" /\ q.text = p.text
      /\ Question(q) = Question(p) /\ ChatKey(q) = ChatKey(p)
      /\ posts' \subseteq posts \cup {q} /\ posts' \subseteq Posts
  BY <1>1, <1>2, <1>3, <1>4, MovedPosts
<1>6. PICK c : c = Came(p, ChatKey(p))
  OBVIOUS
<1>7. /\ c \in [question : Questions, key : ChatKeys] /\ c.question.text = p.text
      /\ c.key = ChatKey(p) /\ asked' = asked \cup {c} /\ c = Came(q, ChatKey(q))
  BY <1>2, <1>3, <1>5, <1>6, PostFields DEF Came
<1>8. IdsInv'
  BY <1>1, <1>2, <1>5, PostMovesOn
<1>9. PICK key : key = ChatKey(p)
  OBVIOUS
<1>10. /\ DOMAIN opening' = DOMAIN opening \cup {key}
       /\ \A k \in DOMAIN opening : opening'[k] = opening[k]
       /\ key \in DOMAIN opening \/ opening'[key] = Unasked
       /\ opening' \in [DOMAIN opening' -> Texts \cup {Unasked}]
  BY <1>1, <1>2, <1>9 DEF ComposerTyped
<1>11. ComposerTyped'
  BY <1>1, <1>2, <1>5, <1>7, <1>10 DEF ComposerTyped
<1>12. opening'[key] # Unasked => opening'[key] = p.text
  BY <1>1, <1>2, <1>9, <1>10, OneQuestion DEF OpeningInv
<1>13. OpeningInv'
  <2>1. ASSUME NEW r \in posts'
        PROVE  /\ r.at \in {"created", "done"} => Came(r, ChatKey(r)) \in asked'
               /\ r.at = "done" => opening'[ChatKey(r)] = r.text
    <3>1. CASE r = q
      BY <1>5, <1>7, <3>1
    <3>2. CASE r \in posts
      <4>1. r.at \in {"created", "done"} => Came(r, ChatKey(r)) \in asked'
        BY <1>1, <1>2, <3>2 DEF OpeningInv
      <4>2. r \in Posts
        BY <1>1, <3>2 DEF ComposerTyped
      <4>3. r.at = "done" => ChatKey(r) \in DOMAIN opening
        BY <1>1, <3>2, <4>2, PostFields DEF OpeningInv
      <4> QED
        BY <1>1, <1>10, <3>2, <4>1, <4>3 DEF OpeningInv
    <3> QED
      BY <1>5, <3>1, <3>2
  <2>2. ASSUME NEW a \in asked'
        PROVE  /\ a.key \in DOMAIN opening'
               /\ opening'[a.key] # Unasked => opening'[a.key] = a.question.text
    BY <1>1, <1>7, <1>9, <1>10, <1>12 DEF OpeningInv
  <2>3. \A k \in DOMAIN opening' : \E a \in asked' : a.key = k
    BY <1>1, <1>7, <1>9, <1>10 DEF OpeningInv
  <2>4. \A s \in shown' : opening'[s.key] = s.question.text
    BY <1>1, <1>2, <1>10 DEF OpeningInv, ComposerTyped
  <2> QED
    BY <2>1, <2>2, <2>3, <2>4 DEF OpeningInv, Came, ChatKey, Question
<1> QED
  BY <1>8, <1>11, <1>13 DEF ComposerInv

LEMMA SubmitTurnKeeps ==
  ASSUME ComposerInv, SubmitTurn
  PROVE  ComposerInv'
<1>1. ComposerTyped /\ IdsInv /\ OpeningInv
  BY DEF ComposerInv
<1>2. PICK p \in posts :
        /\ p.at = "created"
        /\ opening' = [opening EXCEPT ![ChatKey(p)] = IF @ = Unasked THEN p.text ELSE @]
        /\ posts' = Moved(p, [p EXCEPT !.at = "done"])
        /\ UNCHANGED <<mount, idFor, inFlight, asked, shown, minted, submits>>
  BY DEF SubmitTurn
<1>3. p \in Posts /\ p.awaited \in BOOLEAN /\ p.text \in Texts
  BY <1>1 DEF ComposerTyped, Posts
<1>4. PICK q : q = [p EXCEPT !.at = "done"] /\ q = [[p EXCEPT !.at = "done"] EXCEPT !.awaited = p.awaited]
  BY <1>3 DEF Posts
<1>5. /\ q \in Posts /\ q.at = "done" /\ q.text = p.text
      /\ Question(q) = Question(p) /\ ChatKey(q) = ChatKey(p)
      /\ posts' \subseteq posts \cup {q} /\ posts' \subseteq Posts
  BY <1>1, <1>2, <1>3, <1>4, MovedPosts
<1>6. PICK key : key = ChatKey(p)
  OBVIOUS
<1>7. PICK c \in asked : c = Came(p, ChatKey(p)) /\ c.key = key /\ c.question.text = p.text /\ c = Came(q, ChatKey(q))
  BY <1>1, <1>2, <1>3, <1>5, <1>6, PostFields DEF OpeningInv, Came
<1>8. IdsInv'
  BY <1>1, <1>2, <1>5, PostMovesOn
<1>9. /\ key \in DOMAIN opening
      /\ opening[key] # Unasked => opening[key] = p.text
  BY <1>1, <1>7 DEF OpeningInv
<1>10. /\ DOMAIN opening' = DOMAIN opening /\ opening'[key] = p.text
       /\ \A k \in DOMAIN opening : opening[k] # Unasked \/ k # key => opening'[k] = opening[k]
       /\ opening' \in [DOMAIN opening' -> Texts \cup {Unasked}]
  BY <1>1, <1>2, <1>3, <1>6, <1>9 DEF ComposerTyped
<1>11. ComposerTyped'
  BY <1>1, <1>2, <1>5, <1>10 DEF ComposerTyped
<1>12. OpeningInv'
  <2>1. ASSUME NEW r \in posts'
        PROVE  /\ r.at \in {"created", "done"} => Came(r, ChatKey(r)) \in asked'
               /\ r.at = "done" => opening'[ChatKey(r)] = r.text
    <3>1. CASE r = q
      BY <1>2, <1>5, <1>6, <1>7, <1>10, <3>1
    <3>2. CASE r \in posts
      <4>1. r.at \in {"created", "done"} => Came(r, ChatKey(r)) \in asked'
        BY <1>1, <1>2, <3>2 DEF OpeningInv
      <4>2. r \in Posts /\ r.text \in Texts
        BY <1>1, <3>2 DEF ComposerTyped, Posts
      <4>3. r.at = "done" => ChatKey(r) \in DOMAIN opening
        BY <1>1, <3>2, <4>2, PostFields DEF OpeningInv
      <4>4. r.at = "done" => opening[ChatKey(r)] = r.text /\ r.text # Unasked
        BY <1>1, <3>2, <4>2, ComposerAssumption DEF OpeningInv
      <4> QED
        BY <1>10, <4>1, <4>3, <4>4
    <3> QED
      BY <1>5, <3>1, <3>2
  <2>2. ASSUME NEW a \in asked'
        PROVE  /\ a.key \in DOMAIN opening'
               /\ opening'[a.key] # Unasked => opening'[a.key] = a.question.text
    <3>1. CASE a.key = key
      <4>1. a.question.text = p.text
        BY <1>1, <1>2, <1>6, <3>1, OneQuestion
      <4> QED
        BY <1>9, <1>10, <3>1, <4>1
    <3>2. CASE a.key # key
      BY <1>1, <1>2, <1>10, <3>2 DEF OpeningInv
    <3> QED
      BY <3>1, <3>2
  <2>3. \A k \in DOMAIN opening' : \E a \in asked' : a.key = k
    BY <1>1, <1>2, <1>10 DEF OpeningInv
  <2>4. ASSUME NEW s \in shown'
        PROVE  opening'[s.key] = s.question.text
    <3>1. s \in asked /\ opening[s.key] = s.question.text
      BY <1>1, <1>2 DEF ComposerTyped, OpeningInv
    <3>2. s.question.text \in Texts /\ s.key \in DOMAIN opening
      BY <1>1, <3>1 DEF ComposerTyped, Questions, OpeningInv
    <3>3. s.question.text # Unasked
      BY <3>2, ComposerAssumption
    <3> QED
      BY <1>10, <3>1, <3>2, <3>3
  <2> QED
    BY <2>1, <2>2, <2>3, <2>4 DEF OpeningInv, Came, ChatKey, Question
<1> QED
  BY <1>8, <1>11, <1>12 DEF ComposerInv


\* A POST that moves on, and is over for the worker as far as it was.
LEMMA PostEnds ==
  ASSUME ComposerInv, NEW p \in posts, NEW q \in Posts, q.at = p.at \/ q.at = "dead",
         q.text = p.text, Question(q) = Question(p), ChatKey(q) = ChatKey(p),
         posts' \subseteq posts \cup {q}, posts' \subseteq Posts,
         inFlight' \in [Tabs -> SUBSET Texts],
         UNCHANGED <<mount, idFor, opening, asked, minted, submits>>,
         shown' = shown \/ (p.at = "done" /\ shown' = shown \cup {Came(p, ChatKey(p))})
  PROVE  ComposerInv'
<1>1. ComposerTyped /\ IdsInv /\ OpeningInv
  BY DEF ComposerInv
<1>2. p \in Posts
  BY <1>1 DEF ComposerTyped
<1>5. IdsInv'
  BY <1>1, PostMovesOn
<1>6. p.at = "done" => Came(p, ChatKey(p)) \in asked /\ opening[ChatKey(p)] = p.text
  BY <1>1 DEF OpeningInv
<1>7. /\ Came(p, ChatKey(p)).question.text = p.text /\ Came(p, ChatKey(p)).key = ChatKey(p)
      /\ Came(q, ChatKey(q)) = Came(p, ChatKey(p))
  BY <1>2, PostFields DEF Came
<1>8. ComposerTyped'
  BY <1>1, <1>6 DEF ComposerTyped
<1>9. OpeningInv'
  <2>1. ASSUME NEW r \in posts'
        PROVE  /\ r.at \in {"created", "done"} => Came(r, ChatKey(r)) \in asked'
               /\ r.at = "done" => opening'[ChatKey(r)] = r.text
    <3>1. CASE r = q
      BY <1>1, <1>7, <3>1 DEF OpeningInv
    <3>2. CASE r \in posts
      BY <1>1, <3>2 DEF OpeningInv
    <3> QED
      BY <3>1, <3>2
  <2>2. \A s \in shown' : opening'[s.key] = s.question.text
    BY <1>1, <1>6, <1>7 DEF OpeningInv
  <2> QED
    BY <1>1, <2>1, <2>2 DEF OpeningInv, Came, ChatKey, Question
<1> QED
  BY <1>5, <1>8, <1>9 DEF ComposerInv

LEMMA PostStepKeeps ==
  ASSUME ComposerInv, PostDies \/ PostAnswered \/ PostFails
  PROVE  ComposerInv'
<1>1. ComposerTyped
  BY DEF ComposerInv
<1>2. ASSUME NEW p \in posts, p.at \in {"sent", "created"},
             posts' = Moved(p, [p EXCEPT !.at = "dead"]),
             UNCHANGED <<mount, idFor, inFlight, opening, asked, shown, minted, submits>>
      PROVE  ComposerInv'
  <2>1. p \in Posts /\ p.awaited \in BOOLEAN
    BY <1>1 DEF ComposerTyped, Posts
  <2>2. [p EXCEPT !.at = "dead"] = [[p EXCEPT !.at = "dead"] EXCEPT !.awaited = p.awaited]
    BY <2>1 DEF Posts
  <2>3. inFlight' \in [Tabs -> SUBSET Texts]
    BY <1>1, <1>2 DEF ComposerTyped
  <2>4. PICK q : /\ q = [p EXCEPT !.at = "dead"]
                 /\ q = [[p EXCEPT !.at = "dead"] EXCEPT !.awaited = p.awaited]
    BY <2>2
  <2>5. /\ q \in Posts /\ q.at = "dead" /\ q.text = p.text
        /\ Question(q) = Question(p) /\ ChatKey(q) = ChatKey(p)
        /\ posts' \subseteq posts \cup {q} /\ posts' \subseteq Posts
    BY <1>1, <1>2, <2>1, <2>4, MovedPosts
  <2> QED
    BY <1>2, <2>3, <2>5, PostEnds
<1>3. ASSUME NEW p \in posts, Heard(p),
             UNCHANGED <<mount, idFor, opening, asked, minted, submits>>,
             shown' = shown \/ (p.at = "done" /\ shown' = shown \cup {Came(p, ChatKey(p))})
      PROVE  ComposerInv'
  <2>1. p \in Posts
    BY <1>1 DEF ComposerTyped, Posts
  <2>3. inFlight' \in [Tabs -> SUBSET Texts]
    <3>1. inFlight[p.tab] \subseteq Texts
      BY <1>1, <2>1 DEF ComposerTyped, Posts
    <3> QED
      BY <1>1, <1>3, <2>1, <3>1 DEF ComposerTyped, Heard
  <2>4. posts' = Moved(p, [p EXCEPT !.awaited = FALSE])
    BY <1>3 DEF Heard
  <2>5. PICK q : q = [p EXCEPT !.awaited = FALSE]
    OBVIOUS
  <2>6. /\ q \in Posts /\ q.at = p.at /\ q.text = p.text
        /\ Question(q) = Question(p) /\ ChatKey(q) = ChatKey(p)
    BY <2>1, <2>5 DEF Posts, Question, ChatKey
  <2>7. posts' \subseteq posts \cup {q} /\ posts' \subseteq Posts
    BY <1>1, <2>4, <2>5, <2>6 DEF Moved, ComposerTyped
  <2> QED
    BY <1>3, <2>3, <2>6, <2>7, PostEnds
<1> QED
  BY <1>2, <1>3 DEF PostDies, PostAnswered, PostFails

LEMMA RemountKeeps ==
  ASSUME ComposerInv, Remount
  PROVE  ComposerInv'
<1>1. ComposerTyped /\ IdsInv /\ OpeningInv
  BY DEF ComposerInv
<1>2. PICK t \in Tabs :
        /\ mount[t] < MaxRemounts /\ mount' = [mount EXCEPT ![t] = @ + 1]
        /\ idFor' = [idFor EXCEPT ![t] = [x \in Texts |-> Unasked]]
        /\ inFlight' = [inFlight EXCEPT ![t] = {}]
        /\ UNCHANGED <<posts, opening, asked, shown, minted, submits>>
  BY DEF Remount
<1>3. PICK m \in Nat : m = mount[t] /\ m < MaxRemounts
  BY <1>1, <1>2 DEF ComposerTyped
<1>4. /\ mount' = [mount EXCEPT ![t] = m + 1] /\ m + 1 \in 0..MaxRemounts
      /\ mount'[t] = m + 1 /\ \A u \in Tabs : u # t => mount'[u] = mount[u]
  BY <1>1, <1>2, <1>3, ComposerAssumption DEF ComposerTyped
<1>5. /\ \A y \in Texts : idFor'[t][y] = Unasked
      /\ \A u \in Tabs : u # t => idFor'[u] = idFor[u]
      /\ idFor' \in [Tabs -> [Texts -> Nat \cup {Unasked}]]
  BY <1>1, <1>2 DEF ComposerTyped
<1>6. ComposerTyped'
  <2>1. mount' \in [Tabs -> 0..MaxRemounts]
    BY <1>1, <1>4 DEF ComposerTyped
  <2>2. inFlight' \in [Tabs -> SUBSET Texts]
    BY <1>1, <1>2 DEF ComposerTyped
  <2> QED
    BY <1>1, <1>2, <1>5, <2>1, <2>2 DEF ComposerTyped
<1>7. ASSUME NEW r \in Questions, NEW l \in ChatKeys, GoesWith(r, l)'
      PROVE  GoesWith(r, l)
  <2>1. ASSUME NEW u \in Tabs, NEW y \in Texts, HasId(u, y, r, l)'
        PROVE  GoesWith(r, l)
    <3>1. u # t
      BY <1>5, <2>1 DEF HasId
    <3>2. HasId(u, y, r, l)
      BY <1>4, <1>5, <2>1, <3>1 DEF HasId
    <3> QED
      BY <3>2 DEF GoesWith
  <2> QED
    BY <1>2, <1>7, <2>1 DEF GoesWith, Question, ChatKey
<1>8. ASSUME NEW r \in Questions, NEW l \in ChatKeys, GoesWith(r, l)
      PROVE  IdKnown(r, l)'
  <2>1. IdKnown(r, l)
    BY <1>1, <1>8 DEF IdsInv
  <2>2. r.tab \in Tabs /\ r.mount \in Nat
    BY DEF Questions
  <2>3. CASE r.tab = t
    BY <1>2, <1>3, <1>4, <2>1, <2>2, <2>3 DEF IdKnown
  <2>4. CASE r.tab # t
    BY <1>2, <1>4, <1>5, <2>1, <2>2, <2>4 DEF IdKnown
  <2> QED
    BY <2>3, <2>4
<1>9. IdsInv'
  BY <1>1, <1>7, <1>8 DEF IdsInv
<1> QED
  BY <1>1, <1>2, <1>6, <1>9 DEF ComposerInv, OpeningInv, Came, Question, ChatKey

LEMMA ComposerStaysInv ==
  ASSUME ComposerInv, [ComposerNext]_composerVars
  PROVE  ComposerInv'
<1>1. CASE ComposerNext
  BY <1>1, SubmitQuestionKeeps, CreateKeeps, SubmitTurnKeeps, PostStepKeeps, RemountKeeps
     DEF ComposerNext
<1>2. CASE UNCHANGED composerVars
  BY <1>2 DEF composerVars, ComposerInv, ComposerTyped, IdsInv, OpeningInv, GoesWith, HasId, IdKnown,
     Question, ChatKey, Came
<1> QED
  BY <1>1, <1>2

-----------------------------------------------------------------------------
(* Pages of a list that moves.                                             *)

Items == [at : Nat, id : Runs]
RowsAt(now) == [Runs -> [at : 0..now, listed : BOOLEAN] \cup {Missing}]
PageRecords == [runs : SUBSET Items, next : Items \cup {Missing}]

RunsTyped ==
  /\ moment \in 0..MaxMoments /\ writes \in 0..MaxWrites /\ runRow \in RowsAt(moment)

\* A page sorts before the next, and no run is on two.
Sorted(list) ==
  \A m, n \in DOMAIN list : m < n =>
    \A i \in list[m].runs, j \in list[n].runs : Precedes(i, j) /\ i.id # j.id

OnList(i, list) == \E n \in DOMAIN list : i \in list[n].runs

\* Nothing shown is below the end of the list.
Within(cursor, i) == cursor = Missing \/ i = cursor \/ Precedes(i, cursor)

\* A row has not moved down since it was read.
NotAbove(i) == runRow[i.id] # Missing /\ i.at <= runRow[i.id].at

\* A run that was not written since is on the list exactly if it is not below the end.
WholeBut(list, moved) ==
  list # <<>> =>
    \A r \in Runs \ moved :
      runRow[r] # Missing =>
        (runRow[r].listed /\ Within(Cursor(list), Item(r)) <=> OnList(Item(r), list))

OneListInv(list, moved) ==
  /\ list \in Seq(PageRecords) /\ moved \subseteq Runs
  /\ Sorted(list) /\ WholeBut(list, moved)
  /\ \A i \in Items : OnList(i, list) => NotAbove(i) /\ Within(Cursor(list), i)

PagesInv ==
  /\ RunsTyped
  /\ pages = [list |-> pages.list, moved |-> pages.moved] /\ OneListInv(pages.list, pages.moved)
  /\ fetch # Missing =>
       /\ fetch = [list |-> fetch.list, moved |-> fetch.moved, grows |-> fetch.grows, left |-> fetch.left]
       /\ fetch.left \in Nat \ {0} /\ OneListInv(fetch.list, fetch.moved)
       /\ fetch.list # <<>> => Cursor(fetch.list) # Missing

\* The order of the list is total.
LEMMA TheOrder ==
  ASSUME NEW i \in Items, NEW j \in Items
  PROVE  /\ ~Precedes(i, i) /\ ~(Precedes(i, j) /\ Precedes(j, i))
         /\ i = j \/ Precedes(i, j) \/ Precedes(j, i)
         /\ \A k \in Items : Precedes(i, j) /\ Precedes(j, k) => Precedes(i, k)
<1>1. /\ i.at \in Nat /\ i.id \in Nat /\ j.at \in Nat /\ j.id \in Nat
      /\ i.at = j.at /\ i.id = j.id => i = j
  BY PageAssumption DEF Items, Runs
<1>2. \A k \in Items : k.at \in Nat /\ k.id \in Nat
  BY PageAssumption DEF Items, Runs
<1> QED
  BY <1>1, <1>2 DEF Precedes

LEMMA ItemType ==
  ASSUME RunsTyped, NEW r \in Runs, runRow[r] # Missing
  PROVE  /\ Item(r) \in Items /\ Item(r).id = r /\ Item(r).at = runRow[r].at
         /\ Item(r) # Missing /\ runRow[r].at \in 0..moment /\ moment \in Nat
         /\ runRow[r].listed \in BOOLEAN
<1>1. runRow[r] \in [at : 0..moment, listed : BOOLEAN] /\ moment \in Nat
  BY DEF RunsTyped, RowsAt
<1>2. runRow[r].at \in Nat /\ r \in Nat
  BY <1>1, PageAssumption DEF Runs
<1>3. Item(r) \in [at : Nat, id : Nat]
  BY <1>2 DEF Item
<1> QED
  BY <1>1, <1>2, <1>3, PageAssumption DEF Item, Items

LEMMA LeastOf ==
  ASSUME NEW T, T \subseteq Nat, T # {}
  PROVE  \E i \in T : \A j \in T : i <= j
<1>1. IsWellFoundedOn(OpToRel(<, Nat), Nat)
  BY NatLessThanWellFounded
<1>2. PICK i \in T : \A j \in T : <<j, i>> \notin OpToRel(<, Nat)
  BY <1>1, WFMin
<1>3. \A j \in T : ~(j < i)
  BY <1>2 DEF OpToRel
<1> QED
  BY <1>3

\* Some runs of the order have a last, and a first.
LEMMA LastRun ==
  ASSUME RunsTyped, NEW S, S \subseteq {r \in Runs : runRow[r] # Missing}, S # {}
  PROVE  \E r \in S : \A s \in S : s = r \/ Precedes(Item(s), Item(r))
<1>1. \A r \in S : /\ r \in Nat /\ runRow[r].at \in Nat
                    /\ Item(r).id = r /\ Item(r).at = runRow[r].at
  BY ItemType, PageAssumption DEF Runs
<1>2. PICK least \in {runRow[r].at : r \in S} : \A at \in {runRow[r].at : r \in S} : least <= at
  <2>1. {runRow[r].at : r \in S} \subseteq Nat /\ {runRow[r].at : r \in S} # {}
    BY <1>1
  <2> QED
    BY <2>1, LeastOf
<1>3. PICK r \in {s \in S : runRow[s].at = least} : \A s \in {t \in S : runRow[t].at = least} : r <= s
  <2>1. {s \in S : runRow[s].at = least} \subseteq Nat /\ {s \in S : runRow[s].at = least} # {}
    BY <1>1, <1>2
  <2> QED
    BY <2>1, LeastOf
<1>4. ASSUME NEW s \in S
      PROVE  s = r \/ Precedes(Item(s), Item(r))
  <2>1. least <= runRow[s].at
    BY <1>2
  <2>2. runRow[s].at = least => r <= s
    BY <1>3
  <2> QED
    BY <1>1, <1>3, <2>1, <2>2 DEF Precedes
<1> QED
  BY <1>3, <1>4

LEMMA FirstRun ==
  ASSUME RunsTyped, NEW S, S \subseteq {r \in Runs : runRow[r] # Missing}, S # {}
  PROVE  \E r \in S : \A s \in S : s = r \/ Precedes(Item(r), Item(s))
<1>1. \A r \in S : /\ r \in 1..MaxRuns /\ runRow[r].at \in 0..moment
                    /\ Item(r).id = r /\ Item(r).at = runRow[r].at
  BY ItemType DEF Runs
<1>2. moment \in Nat /\ MaxRuns \in Nat
  BY PageAssumption DEF RunsTyped
<1>3. PICK least \in {moment - runRow[r].at : r \in S} :
        \A at \in {moment - runRow[r].at : r \in S} : least <= at
  <2>1. {moment - runRow[r].at : r \in S} # {}
    OBVIOUS
  <2>2. \A at \in {moment - runRow[r].at : r \in S} : at \in Nat
    BY <1>1, <1>2
  <2>3. {moment - runRow[r].at : r \in S} \subseteq Nat
    BY <2>2
  <2> QED
    BY <2>1, <2>3, LeastOf
<1>4. PICK top \in {MaxRuns - r : r \in {s \in S : moment - runRow[s].at = least}} :
        \A n \in {MaxRuns - r : r \in {s \in S : moment - runRow[s].at = least}} : top <= n
  <2>1. {MaxRuns - r : r \in {s \in S : moment - runRow[s].at = least}} # {}
    BY <1>3
  <2>2. \A n \in {MaxRuns - r : r \in {s \in S : moment - runRow[s].at = least}} : n \in Nat
    BY <1>1, <1>2
  <2>3. {MaxRuns - r : r \in {s \in S : moment - runRow[s].at = least}} \subseteq Nat
    BY <2>2
  <2> QED
    BY <2>1, <2>3, LeastOf
<1>5. PICK r \in S : moment - runRow[r].at = least /\ top = MaxRuns - r
  BY <1>4
<1>6. ASSUME NEW s \in S
      PROVE  s = r \/ Precedes(Item(r), Item(s))
  <2>1. least <= moment - runRow[s].at
    BY <1>3
  <2>2. moment - runRow[s].at = least => top <= MaxRuns - s
    BY <1>4
  <2>3. runRow[r].at > runRow[s].at \/ (runRow[r].at = runRow[s].at /\ r >= s)
    BY <1>1, <1>2, <1>5, <2>1, <2>2
  <2> QED
    BY <1>1, <2>3 DEF Precedes
<1> QED
  BY <1>6

\* What the worker serves: with a cursor to go on from, all that is not below it.
LEMMA PageServed ==
  ASSUME RunsTyped, NEW cursor \in Items \cup {Missing}
  PROVE  /\ Page(cursor) \in PageRecords
         /\ Served(cursor) \subseteq Below(cursor)
         /\ \A r \in Below(cursor) : r \in Served(cursor) <=> Within(Page(cursor).next, Item(r))
         /\ Page(cursor).next # Missing =>
              \E r \in Below(cursor) : Page(cursor).next = Item(r)
<1> DEFINE B == Below(cursor)  S == Served(cursor)
<1>1. /\ B \subseteq {r \in Runs : runRow[r] # Missing} /\ S \subseteq B
      /\ \A r \in S : Cardinality(Ahead(r, cursor)) < PageLimit
      /\ \A r \in B : Cardinality(Ahead(r, cursor)) < PageLimit => r \in S
  BY DEF Below, Served
<1>2. \A r \in B : Item(r) \in Items /\ Item(r).id = r /\ Item(r) # Missing
  BY <1>1, ItemType
<1>3. IsFiniteSet(B) /\ Cardinality(B) \in Nat
  <2>1. IsFiniteSet(Runs)
    BY FS_Interval, PageAssumption DEF Runs
  <2>2. B \in SUBSET Runs
    BY <1>1
  <2> HIDE DEF B
  <2>3. IsFiniteSet(B)
    BY <2>1, <2>2, FS_Subset
  <2> QED
    BY <2>3, FS_CardinalityType
<1>4. ASSUME NEW r \in B
      PROVE  /\ Ahead(r, cursor) \in SUBSET B /\ r \notin Ahead(r, cursor)
             /\ IsFiniteSet(Ahead(r, cursor)) /\ Cardinality(Ahead(r, cursor)) \in Nat
             /\ Cardinality(Ahead(r, cursor)) < Cardinality(B)
  <2>1. Ahead(r, cursor) \in SUBSET B /\ r \notin Ahead(r, cursor)
    BY <1>2, TheOrder DEF Ahead
  <2> DEFINE A == Ahead(r, cursor)
  <2> HIDE DEF A, B
  <2>2. A \in SUBSET B /\ A # B
    BY <2>1 DEF A
  <2>3. IsFiniteSet(A) /\ Cardinality(A) <= Cardinality(B) /\ Cardinality(A) # Cardinality(B)
    BY <1>3, <2>2, FS_Subset
  <2>4. Cardinality(A) \in Nat
    BY <2>3, FS_CardinalityType
  <2> QED
    BY <1>3, <2>1, <2>3, <2>4 DEF A
<1>5. ASSUME NEW r \in S, NEW s \in B, Precedes(Item(s), Item(r))
      PROVE  s \in S
  <2>1. Ahead(s, cursor) \in SUBSET Ahead(r, cursor)
    BY <1>1, <1>2, <1>5, TheOrder DEF Ahead
  <2>2. r \in B
    BY <1>1
  <2>3. Cardinality(Ahead(s, cursor)) <= Cardinality(Ahead(r, cursor))
    BY <1>4, <2>1, <2>2, FS_Subset
  <2>4. Cardinality(Ahead(s, cursor)) < PageLimit
    BY <1>1, <1>4, <2>2, <2>3, PageAssumption
  <2> QED
    BY <1>1, <2>4
<1>6. CASE Cardinality(B) <= PageLimit
  <2>1. Page(cursor).next = Missing
    BY <1>3, <1>6, PageAssumption DEF Page
  <2>2. \A r \in B : r \in S
    BY <1>1, <1>3, <1>4, <1>6, PageAssumption
  <2>3. Page(cursor) \in PageRecords
    BY <1>1, <1>2, <2>1 DEF Page, PageRecords
  <2> QED
    BY <1>1, <2>1, <2>2, <2>3 DEF Within
<1>7. CASE Cardinality(B) > PageLimit
  <2>1. B # {}
    BY <1>7, FS_EmptySet, PageAssumption
  <2>2. PICK first \in B : \A s \in B : s = first \/ Precedes(Item(first), Item(s))
    BY <1>1, <2>1, FirstRun
  <2>3. Ahead(first, cursor) = {}
    BY <1>2, <2>2, TheOrder DEF Ahead
  <2>4. first \in S
    <3>1. Cardinality(Ahead(first, cursor)) = 0
      BY <2>3, FS_EmptySet
    <3>2. Cardinality(Ahead(first, cursor)) < PageLimit
      BY <3>1, PageAssumption
    <3> QED
      BY <1>1, <3>2
  <2> DEFINE last == CHOOSE r \in S : \A s \in S : s = r \/ Precedes(Item(s), Item(r))
  <2>5. last \in S /\ \A s \in S : s = last \/ Precedes(Item(s), Item(last))
    BY <1>1, <2>4, LastRun
  <2>6. Page(cursor).next = Item(last)
    BY <1>7 DEF Page
  <2> HIDE DEF last
  <2>7. last \in B /\ Item(last) # Missing
    BY <1>1, <1>2, <2>5
  <2>8. Page(cursor) \in PageRecords
    BY <1>1, <1>2, <2>6, <2>7 DEF Page, PageRecords
  <2>9. ASSUME NEW r \in B
        PROVE  r \in S <=> Within(Item(last), Item(r))
    <3>1. r \in S => Within(Item(last), Item(r))
      BY <2>5 DEF Within
    <3>2. Item(r) = Item(last) => r = last
      BY <1>2, <2>7
    <3>3. Within(Item(last), Item(r)) => r \in S
      BY <1>5, <2>5, <2>7, <3>2 DEF Within
    <3> QED
      BY <3>1, <3>3
  <2> QED
    BY <1>1, <2>6, <2>7, <2>8, <2>9
<1> QED
  BY <1>3, <1>6, <1>7, PageAssumption


LEMMA PagesSafe ==
  ASSUME PagesInv
  PROVE  PagesTypeOK /\ OneList
<1>1. RunsTyped /\ OneListInv(pages.list, pages.moved)
  BY DEF PagesInv
<1>2. PagesTypeOK
  BY <1>1 DEF PagesInv, PagesTypeOK, RunsTyped, RowsAt, OneListInv
<1> DEFINE End == Cursor(pages.list)
<1>3. pages.list # <<>> => End \in Items \cup {Missing}
  <2>1. pages.list \in Seq(PageRecords)
    BY <1>1 DEF OneListInv
  <2>2. pages.list # <<>> => pages.list[Len(pages.list)] \in PageRecords
    BY <2>1, EmptySeq, ElementOfSeq
  <2> QED
    BY <2>2 DEF Cursor, PageRecords
<1>4. ASSUME NEW r \in Runs \ pages.moved, runRow[r] # Missing, pages.list # <<>>
      PROVE  (runRow[r].listed /\ (End = Missing \/ ~Precedes(End, Item(r))))
                <=> Item(r) \in UNION {pages.list[n].runs : n \in DOMAIN pages.list}
  <2>1. Item(r) \in Items
    BY <1>1, <1>4, ItemType
  <2>2. Within(End, Item(r)) <=> (End = Missing \/ ~Precedes(End, Item(r)))
    BY <1>3, <1>4, <2>1, TheOrder DEF Within
  <2>3. OnList(Item(r), pages.list) <=> Item(r) \in UNION {pages.list[n].runs : n \in DOMAIN pages.list}
    BY DEF OnList
  <2> QED
    BY <1>1, <1>4, <2>2, <2>3 DEF OneListInv, WholeBut
<1>5. Sorted(pages.list)
  BY <1>1 DEF OneListInv
<1> QED
  BY <1>2, <1>4, <1>5 DEF OneList, Sorted

LEMMA EmptyList ==
  ASSUME NEW moved, moved \subseteq Runs
  PROVE  OneListInv(<<>>, moved)
<1>1. <<>> \in Seq(PageRecords) /\ DOMAIN <<>> = {}
  BY EmptySeq
<1> QED
  BY <1>1 DEF OneListInv, Sorted, WholeBut, OnList

LEMMA PagesBeginWell ==
  ASSUME PagesInit
  PROVE  PagesInv
<1>1. PICK old \in SUBSET Runs : PagesBegin(old)
  BY DEF PagesInit
<1>2. RunsTyped
  <2>1. moment = 0 /\ writes = 0 /\ MaxMoments \in Nat /\ MaxWrites \in Nat
    BY <1>1, PageAssumption DEF PagesBegin
  <2>2. runRow \in RowsAt(0)
    BY <1>1 DEF PagesBegin, RowsAt
  <2> QED
    BY <2>1, <2>2 DEF RunsTyped
<1>3. pages = [list |-> <<>>, moved |-> {}] /\ fetch = Missing
  BY <1>1 DEF PagesBegin, NoPages
<1>4. OneListInv(<<>>, {})
  BY EmptyList
<1> QED
  BY <1>2, <1>3, <1>4 DEF PagesInv

\* A write moves one run up, if at all.
WrittenOnly(r) ==
  /\ \A s \in Runs \ {r} : runRow'[s] = runRow[s]
  /\ runRow[r] # Missing => runRow'[r] # Missing /\ runRow[r].at <= runRow'[r].at

LEMMA ListOutlivesWrites ==
  ASSUME RunsTyped, RunsTyped', NEW r \in Runs, WrittenOnly(r),
         NEW list, NEW moved, OneListInv(list, moved)
  PROVE  OneListInv(list, moved \cup {r})'
<1>1. /\ list \in Seq(PageRecords) /\ moved \subseteq Runs
      /\ Sorted(list) /\ WholeBut(list, moved)
      /\ \A i \in Items : OnList(i, list) => NotAbove(i) /\ Within(Cursor(list), i)
  BY DEF OneListInv
<1>2. ASSUME NEW i \in Items, NotAbove(i)
      PROVE  NotAbove(i)'
  <2>1. i.id \in Runs /\ i.at \in Nat
    BY DEF Items
  <2>2. CASE i.id = r
    <3>1. runRow[r].at \in Nat /\ runRow'[r].at \in Nat /\ runRow'[r] # Missing
      <4>1. runRow[r] # Missing /\ runRow'[r] # Missing
        BY <1>2, <2>2 DEF WrittenOnly, NotAbove
      <4>2. runRow[r] \in [at : 0..moment, listed : BOOLEAN] /\ runRow'[r] \in [at : 0..moment', listed : BOOLEAN]
        BY <4>1 DEF RunsTyped, RowsAt
      <4> QED
        BY <4>1, <4>2
    <3> QED
      BY <1>2, <2>1, <2>2, <3>1 DEF WrittenOnly, NotAbove
  <2>3. CASE i.id # r
    BY <1>2, <2>1, <2>3 DEF WrittenOnly, NotAbove
  <2> QED
    BY <2>2, <2>3
<1>3. WholeBut(list, moved \cup {r})'
  <2>1. SUFFICES ASSUME list # <<>>, NEW s \in Runs \ (moved \cup {r}), runRow'[s] # Missing
                 PROVE  runRow'[s].listed /\ Within(Cursor(list), Item(s)') <=> OnList(Item(s)', list)
    BY DEF WholeBut, Within, OnList, Cursor, Precedes
  <2>2. runRow'[s] = runRow[s] /\ Item(s)' = Item(s)
    BY <2>1 DEF WrittenOnly, Item
  <2> QED
    BY <1>1, <2>1, <2>2 DEF WholeBut
<1> QED
  BY <1>1, <1>2, <1>3 DEF OneListInv, Sorted, OnList, Within, Cursor, Precedes

LEMMA TouchedPages ==
  ASSUME PagesInv, RunsTyped', NEW r \in Runs, WrittenOnly(r), Touches(r)
  PROVE  PagesInv'
<1>1. RunsTyped
  BY DEF PagesInv
<1>2. PICK list, moved : pages = [list |-> list, moved |-> moved] /\ OneListInv(list, moved)
  BY DEF PagesInv
<1>3. pages' = [list |-> list, moved |-> moved \cup {r}]
  BY <1>2 DEF Touches
<1>4. OneListInv(list, moved \cup {r})'
  BY <1>1, <1>2, ListOutlivesWrites
<1>5. pages' = [list |-> pages'.list, moved |-> pages'.moved] /\ OneListInv(pages.list, pages.moved)'
  BY <1>3, <1>4
<1>6. ASSUME fetch' # Missing
      PROVE  /\ fetch' = [list |-> fetch'.list, moved |-> fetch'.moved, grows |-> fetch'.grows, left |-> fetch'.left]
             /\ fetch'.left \in Nat \ {0} /\ OneListInv(fetch.list, fetch.moved)'
             /\ fetch'.list # <<>> => Cursor(fetch'.list) # Missing
  <2>1. fetch # Missing /\ fetch' = [fetch EXCEPT !.moved = @ \cup {r}]
    BY <1>6 DEF Touches
  <2>2. PICK other, gone, grows, left :
          /\ fetch = [list |-> other, moved |-> gone, grows |-> grows, left |-> left]
          /\ left \in Nat \ {0} /\ OneListInv(other, gone)
          /\ other # <<>> => Cursor(other) # Missing
    BY <2>1 DEF PagesInv
  <2>3. fetch' = [list |-> other, moved |-> gone \cup {r}, grows |-> grows, left |-> left]
    BY <2>1, <2>2
  <2>4. OneListInv(other, gone \cup {r})'
    BY <1>1, <2>2, ListOutlivesWrites
  <2> QED
    BY <2>2, <2>3, <2>4
<1> QED
  BY <1>5, <1>6 DEF PagesInv

LEMMA WriteKeeps ==
  ASSUME PagesInv, CreateRun \/ Project
  PROVE  PagesInv'
<1>1. RunsTyped /\ moment \in Nat /\ MaxMoments \in Nat
  BY PageAssumption DEF PagesInv, RunsTyped
<1>2. ASSUME NEW r \in Runs, NEW at \in 0..moment, NEW listed \in BOOLEAN, Touches(r),
             runRow' = [runRow EXCEPT ![r] = [at |-> at, listed |-> listed]],
             runRow[r] # Missing => runRow[r].at <= at
      PROVE  PagesInv'
  <2>1. [at |-> at, listed |-> listed] # Missing
    <3>1. [at |-> at, listed |-> listed] \in [at : Nat, listed : BOOLEAN]
      BY <1>1
    <3> QED
      BY <3>1, PageAssumption
  <2>2. runRow' \in RowsAt(moment) /\ moment' = moment /\ writes' = writes + 1 /\ writes < MaxWrites
    BY <1>1, <1>2 DEF RunsTyped, RowsAt, Touches
  <2>3. RunsTyped'
    BY <1>1, <2>2, PageAssumption DEF RunsTyped, RowsAt
  <2>4. WrittenOnly(r)
    BY <1>1, <1>2, <2>1 DEF WrittenOnly, RunsTyped, RowsAt
  <2> QED
    BY <1>2, <2>3, <2>4, TouchedPages
<1>3. CASE CreateRun
  <2>1. PICK r \in Runs :
          /\ runRow[r] = Missing
          /\ runRow' = [runRow EXCEPT ![r] = [at |-> moment, listed |-> TRUE]]
          /\ Touches(r)
    BY <1>3 DEF CreateRun
  <2>2. PICK at \in 0..moment : at = moment
    BY <1>1
  <2>3. runRow' = [runRow EXCEPT ![r] = [at |-> at, listed |-> TRUE]]
    BY <2>1, <2>2
  <2> QED
    BY <1>2, <2>1, <2>3
<1>4. CASE Project
  <2>1. PICK r \in Runs, at \in 0..moment, listed \in BOOLEAN :
          /\ runRow[r] # Missing
          /\ runRow' = [runRow EXCEPT ![r] = [at |-> Recency(r, at), listed |-> listed]]
          /\ Touches(r)
    BY <1>4 DEF Project
  <2>2. runRow[r].at \in 0..moment
    BY <1>1, <2>1, ItemType
  <2>3. Recency(r, at) \in 0..moment /\ runRow[r].at <= Recency(r, at)
    BY <1>1, <2>2 DEF Recency
  <2> QED
    BY <1>2, <2>1, <2>3
<1> QED
  BY <1>3, <1>4

\* The next page of a list makes it longer, and it is one list still.
LEMMA ReadOn ==
  ASSUME RunsTyped, NEW list, NEW moved, OneListInv(list, moved),
         list # <<>> => Cursor(list) # Missing,
         NEW page, page = Page(Cursor(list)),
         NEW gone, gone = IF list = <<>> THEN {} ELSE moved
  PROVE  OneListInv(Append(list, page), gone) /\ Append(list, page) # <<>>
         /\ Cursor(Append(list, page)) = page.next
<1>1. /\ list \in Seq(PageRecords) /\ moved \subseteq Runs
      /\ Sorted(list) /\ WholeBut(list, moved)
      /\ \A i \in Items : OnList(i, list) => NotAbove(i) /\ Within(Cursor(list), i)
  BY DEF OneListInv
<1>2. PICK cursor : cursor = Cursor(list)
  OBVIOUS
<1>3. cursor \in Items \cup {Missing} /\ (list = <<>> <=> cursor = Missing)
  <2>1. list # <<>> => list[Len(list)] \in PageRecords
    BY <1>1, EmptySeq, ElementOfSeq
  <2> QED
    BY <1>2, <2>1 DEF Cursor, PageRecords
<1>4. /\ page \in PageRecords /\ Served(cursor) \subseteq Below(cursor)
      /\ \A r \in Below(cursor) : r \in Served(cursor) <=> Within(page.next, Item(r))
      /\ page.next # Missing => \E r \in Below(cursor) : page.next = Item(r)
      /\ page.runs = {Item(r) : r \in Served(cursor)}
  BY <1>2, <1>3, PageServed DEF Page
<1>5. \A r \in Below(cursor) :
        /\ r \in Runs /\ runRow[r] # Missing /\ runRow[r].listed
        /\ cursor = Missing \/ Precedes(cursor, Item(r))
        /\ Item(r) \in Items /\ Item(r).id = r /\ Item(r).at = runRow[r].at
  BY ItemType DEF Below
<1> DEFINE new == Append(list, page)
<1>6. /\ new \in Seq(PageRecords) /\ new # <<>> /\ Len(list) \in Nat
      /\ DOMAIN new = 1..Len(list) + 1 /\ DOMAIN list = 1..Len(list) /\ Len(new) = Len(list) + 1
      /\ \A n \in DOMAIN list : new[n] = list[n] /\ n # Len(list) + 1
      /\ new[Len(list) + 1] = page
  BY <1>1, <1>4, AppendProperties, LenProperties
<1>7. Cursor(new) = page.next
  BY <1>6 DEF Cursor
<1> HIDE DEF new
<1>8. \A i : OnList(i, new) <=> OnList(i, list) \/ i \in page.runs
  BY <1>6 DEF OnList
<1>9. ASSUME NEW i \in Items, NEW r \in Served(cursor), OnList(i, list)
      PROVE  Precedes(i, Item(r)) /\ i.id # r
  <2>1. list # <<>> /\ cursor \in Items /\ Within(cursor, i) /\ cursor # Missing /\ NotAbove(i)
    BY <1>1, <1>2, <1>3, <1>9 DEF OnList
  <2>2. r \in Below(cursor)
    BY <1>4
  <2>3. Precedes(i, Item(r))
    BY <1>5, <2>1, <2>2, TheOrder DEF Within
  <2>4. i.id # r
    <3>1. SUFFICES ASSUME i.id = r PROVE FALSE
      OBVIOUS
    <3>2. i.at <= Item(r).at /\ Item(r).id = i.id
      BY <1>5, <2>1, <2>2, <3>1 DEF NotAbove
    <3>3. i.at \in Nat /\ Item(r).at \in Nat /\ i.id \in Nat
      BY <1>5, <2>2, PageAssumption DEF Items, Runs
    <3> QED
      BY <2>3, <3>2, <3>3 DEF Precedes
  <2> QED
    BY <2>3, <2>4
<1>10. Sorted(new)
  <2>1. SUFFICES ASSUME NEW m \in DOMAIN new, NEW n \in DOMAIN new, m < n,
                        NEW i \in new[m].runs, NEW j \in new[n].runs
                 PROVE  Precedes(i, j) /\ i.id # j.id
    BY DEF Sorted
  <2>2. m \in DOMAIN list /\ i \in list[m].runs
    BY <1>6, <2>1
  <2>3. list[m] \in PageRecords
    BY <1>1, <1>6, <2>2, ElementOfSeq
  <2>4. CASE n \in DOMAIN list
    BY <1>1, <1>6, <2>1, <2>2, <2>4 DEF Sorted
  <2>5. CASE n = Len(list) + 1
    <3>1. PICK r \in Served(cursor) : j = Item(r)
      BY <1>4, <1>6, <2>5
    <3>2. i \in Items /\ OnList(i, list)
      BY <2>2, <2>3 DEF PageRecords, OnList
    <3>3. j.id = r
      BY <1>4, <1>5, <3>1
    <3> QED
      BY <1>9, <3>1, <3>2, <3>3
  <2> QED
    BY <1>6, <2>4, <2>5
<1>11. ASSUME NEW i \in Items, OnList(i, new)
       PROVE  NotAbove(i) /\ Within(page.next, i)
  <2>1. CASE OnList(i, list)
    <3>1. NotAbove(i) /\ Within(cursor, i) /\ list # <<>>
      BY <1>1, <1>2, <2>1 DEF OnList
    <3>2. page.next = Missing \/ Precedes(i, page.next)
      <4>1. SUFFICES ASSUME page.next # Missing PROVE Precedes(i, page.next)
        OBVIOUS
      <4>2. PICK r \in Below(cursor) : page.next = Item(r)
        BY <1>4, <4>1
      <4>3. r \in Served(cursor)
        BY <1>4, <4>2 DEF Within
      <4> QED
        BY <1>9, <2>1, <4>2, <4>3
    <3> QED
      BY <3>1, <3>2 DEF Within
  <2>2. CASE i \in page.runs
    <3>1. PICK r \in Served(cursor) : i = Item(r)
      BY <1>4, <2>2
    <3>2. r \in Below(cursor)
      BY <1>4
    <3>3. runRow[r].at \in Nat
      BY <1>5, <3>2 DEF Items
    <3> QED
      BY <1>4, <1>5, <3>1, <3>2, <3>3 DEF NotAbove
  <2> QED
    BY <1>8, <1>11, <2>1, <2>2
<1>12. WholeBut(new, gone)
  <2>1. SUFFICES ASSUME NEW r \in Runs \ gone, runRow[r] # Missing
                 PROVE  runRow[r].listed /\ Within(page.next, Item(r)) <=> OnList(Item(r), new)
    BY <1>7 DEF WholeBut
  <2>2. Item(r) \in Items /\ Item(r).id = r /\ Item(r) # Missing
    BY <2>1, ItemType
  <2>3. Item(r) \in page.runs <=> r \in Served(cursor)
    BY <1>4, <1>5, <2>2
  <2>4. r \in Below(cursor) <=> runRow[r].listed /\ (cursor = Missing \/ Precedes(cursor, Item(r)))
    BY <2>1 DEF Below
  <2>5. CASE r \in Below(cursor)
    BY <1>4, <1>5, <1>8, <1>9, <2>2, <2>3, <2>5, <1>11
  <2>6. CASE r \notin Below(cursor)
    <3>1. CASE list = <<>>
      <4>1. ~OnList(Item(r), list)
        BY <1>6, <3>1 DEF OnList
      <4> QED
        BY <1>3, <1>4, <1>8, <2>3, <2>4, <2>6, <3>1, <4>1
    <3>2. CASE list # <<>>
      <4>1. runRow[r].listed /\ Within(cursor, Item(r)) <=> OnList(Item(r), list)
        BY <1>1, <1>2, <2>1, <3>2 DEF WholeBut
      <4>2. OnList(Item(r), new) <=> OnList(Item(r), list)
        BY <1>4, <1>8, <2>3, <2>6
      <4>3. cursor \in Items /\ cursor # Missing
        BY <1>3, <3>2
      <4>4. runRow[r].listed => Within(cursor, Item(r))
        BY <2>2, <2>4, <2>6, <4>3, TheOrder DEF Within
      <4> QED
        BY <1>11, <2>2, <4>1, <4>2, <4>4
    <3> QED
      BY <3>1, <3>2
  <2> QED
    BY <2>5, <2>6
<1>13. gone \subseteq Runs
  BY <1>1
<1>14. OneListInv(new, gone)
  BY <1>6, <1>7, <1>10, <1>11, <1>12, <1>13 DEF OneListInv
<1> QED
  BY <1>6, <1>7, <1>14 DEF new


LEMMA ReadPageKeeps ==
  ASSUME PagesInv, ReadPage
  PROVE  PagesInv'
<1>1. RunsTyped
  BY DEF PagesInv
<1>2. PICK list, moved, grows, left :
        /\ fetch = [list |-> list, moved |-> moved, grows |-> grows, left |-> left]
        /\ left \in Nat \ {0} /\ OneListInv(list, moved)
        /\ list # <<>> => Cursor(list) # Missing
  BY DEF PagesInv, ReadPage
<1>3. PICK page : page = Page(Cursor(list))
  OBVIOUS
<1>4. PICK gone : gone = IF list = <<>> THEN {} ELSE moved
  OBVIOUS
<1>5. PICK new : new = Append(list, page)
  OBVIOUS
<1>6. OneListInv(new, gone) /\ new # <<>> /\ Cursor(new) = page.next
  BY <1>1, <1>2, <1>3, <1>4, <1>5, ReadOn
<1>7. /\ IF left = 1 \/ page.next = Missing
           THEN pages' = [list |-> new, moved |-> gone] /\ fetch' = Missing
           ELSE fetch' = [fetch EXCEPT !.list = new, !.moved = gone, !.left = left - 1] /\ UNCHANGED pages
      /\ UNCHANGED <<moment, runRow, writes>>
  BY <1>2, <1>3, <1>4, <1>5 DEF ReadPage
<1>8. OneListInv(new, gone)'
  BY <1>6, <1>7 DEF OneListInv, Sorted, WholeBut, OnList, NotAbove, Within, Cursor, Precedes, Item
<1>9. RunsTyped'
  BY <1>1, <1>7 DEF RunsTyped
<1>10. CASE left = 1 \/ page.next = Missing
  BY <1>7, <1>8, <1>9, <1>10 DEF PagesInv
<1>11. CASE ~(left = 1 \/ page.next = Missing)
  <2>1. /\ fetch' = [list |-> new, moved |-> gone, grows |-> grows, left |-> left - 1]
        /\ left - 1 \in Nat \ {0}
    <3>1. fetch' = [[list |-> list, moved |-> moved, grows |-> grows, left |-> left]
                      EXCEPT !.list = new, !.moved = gone, !.left = left - 1]
      BY <1>2, <1>7, <1>11
    <3>2. fetch' = [list |-> new, moved |-> gone, grows |-> grows, left |-> left - 1]
      BY <3>1
    <3> QED
      BY <1>2, <1>11, <3>2
  <2>2. pages' = [list |-> pages'.list, moved |-> pages'.moved] /\ OneListInv(pages.list, pages.moved)'
    BY <1>7, <1>11 DEF PagesInv, OneListInv, Sorted, WholeBut, OnList, NotAbove, Within, Cursor, Precedes, Item
  <2> QED
    BY <1>6, <1>8, <1>9, <1>11, <2>1, <2>2 DEF PagesInv, Cursor
<1> QED
  BY <1>10, <1>11

LEMMA FetchKeeps ==
  ASSUME PagesInv, MomentPasses \/ RefetchPages \/ FetchNext \/ FetchFails \/ UNCHANGED pageVars
  PROVE  PagesInv'
<1>1. PICK list, moved : pages = [list |-> list, moved |-> moved] /\ OneListInv(list, moved)
  BY DEF PagesInv
<1>2. runRow' = runRow /\ writes' = writes /\ pages' = pages
  BY DEF MomentPasses, RefetchPages, FetchNext, FetchFails, pageVars
<1>3. RunsTyped'
  <2>1. moment' \in 0..MaxMoments /\ moment' \in Nat /\ moment \in Nat /\ moment <= moment'
    BY PageAssumption DEF PagesInv, RunsTyped, MomentPasses, RefetchPages, FetchNext, FetchFails, pageVars
  <2>2. 0..moment \subseteq 0..moment'
    BY <2>1
  <2>3. runRow \in RowsAt(moment')
    BY <2>2 DEF PagesInv, RunsTyped, RowsAt
  <2> QED
    BY <1>2, <2>1, <2>3 DEF PagesInv, RunsTyped
<1>4. \A l, m : OneListInv(l, m) => OneListInv(l, m)'
  BY <1>2 DEF OneListInv, Sorted, WholeBut, OnList, NotAbove, Within, Cursor, Precedes, Item
<1>5. pages' = [list |-> pages'.list, moved |-> pages'.moved] /\ OneListInv(pages.list, pages.moved)'
  BY <1>1, <1>2, <1>4
<1>6. CASE fetch' = fetch
  <2>1. fetch # Missing => OneListInv(fetch.list, fetch.moved)'
    BY <1>4, <1>6 DEF PagesInv
  <2> QED
    BY <1>3, <1>5, <1>6, <2>1 DEF PagesInv, Cursor
<1>7. CASE RefetchPages
  <2>1. PICK left : left = IF list = <<>> THEN 1 ELSE Len(list)
    OBVIOUS
  <2>2. left \in Nat \ {0}
    BY <1>1, <2>1, EmptySeq DEF OneListInv
  <2>3. fetch' = [list |-> <<>>, moved |-> {}, grows |-> FALSE, left |-> left]
    BY <1>1, <1>7, <2>1 DEF RefetchPages
  <2>4. OneListInv(<<>>, {})'
    BY <1>4, EmptyList
  <2> QED
    BY <1>3, <1>5, <2>2, <2>3, <2>4 DEF PagesInv
<1>8. CASE FetchNext
  <2>1. fetch' = [list |-> list, moved |-> moved, grows |-> TRUE, left |-> 1]
    BY <1>1, <1>8 DEF FetchNext
  <2>2. OneListInv(list, moved)' /\ Cursor(list) # Missing
    BY <1>1, <1>4, <1>8 DEF FetchNext
  <2> QED
    BY <1>3, <1>5, <2>1, <2>2 DEF PagesInv, Cursor
<1>9. CASE fetch' = Missing
  BY <1>3, <1>5, <1>9 DEF PagesInv
<1> QED
  BY <1>6, <1>7, <1>8, <1>9 DEF MomentPasses, FetchFails, pageVars

LEMMA PagesStayInv ==
  ASSUME PagesInv, [PagesNext]_pageVars
  PROVE  PagesInv'
BY WriteKeeps, ReadPageKeeps, FetchKeeps DEF PagesNext

-----------------------------------------------------------------------------
(* The message log, read again.                                            *)

\* A row bears the time of its message.
LandedInTime ==
  \A m \in ThreadReplies :
    /\ received[m] # Nobody => received[m] <= age
    /\ landed[m] # Nobody => received[m] # Nobody /\ received[m] <= landed[m] /\ landed[m] <= age

\* Someone connected again, too late for the window.
ConnectedAgain(window) == \E c \in consents : c.again /\ ~BeforeWindow(c.at, window)

\* A voice is of a window that has begun and shows what is, and will be, known of it.
VoiceHolds(v) ==
  /\ v.window * Day <= age
  /\ v.speaker = Speaker(v.window) \/ ConnectedAgain(v.window)
  /\ v.speaker = Nobody => v.samples = {} /\ v.memoized
  /\ v.speaker # Nobody =>
       /\ Frozen(v.speaker, v.window) => v.account = identity[v.speaker].account
       /\ v.memoized => /\ v.samples \subseteq Samples(v.account, v.window)
                        /\ \A m \in Samples(v.account, v.window) \ v.samples : LandedLate(m, v.window)

VoicesHold ==
  /\ \A i \in Isolates : voice[i] # Nobody => VoiceHolds(voice[i])
  /\ \A i, j \in Isolates :
       voice[i] # Nobody /\ voice[j] # Nobody /\ voice[i].window = voice[j].window
         /\ voice[i].speaker = voice[j].speaker /\ voice[i].speaker # Nobody
           => voice[i].account = voice[j].account

\* A reply that makes an engagement.
Counts(m) == ByHuman(m) /\ Author[m] # "customer" /\ InItsDay(m)

\* A score knows the replies that landed before it.
ScoresHold ==
  \A s \in scores :
    /\ Day <= s.at /\ s.at <= age
    /\ s.engaged => \E m \in ThreadReplies : Counts(m) /\ landed[m] <= s.at
    /\ ~s.engaged => \A m \in ThreadReplies : Counts(m) => s.at <= landed[m]

ReadersInv == ReadersTypeOK /\ LandedInTime /\ VoicesHold /\ ScoresHold

LEMMA BeginsInTime ==
  ASSUME NEW t \in Nat
  PROVE  (t \div Day) \in Nat /\ (t \div Day) * Day <= t
BY ReadersAssumption

LEMMA WindowType ==
  ASSUME NEW w \in Nat
  PROVE  w * Day \in Nat /\ Grace \in Nat /\ Day \in Nat
<1>1. Day \in Nat /\ Grace \in Nat
  BY ReadersAssumption
<1> QED
  BY <1>1

LEMMA TheSpeaker ==
  ASSUME NEW window, Speaker(window) # Nobody
  PROVE  Speaker(window) \in Engineers /\ Frozen(Speaker(window), window)
<1> DEFINE eligible == {n \in DOMAIN EngineerRoster : Frozen(EngineerRoster[n], window)}
<1>1. eligible # {}
  BY DEF Speaker
<1>2. eligible \subseteq Nat
  BY ReadersAssumption
<1>3. PICK n \in eligible : \A k \in eligible : n <= k
  <2> HIDE DEF eligible
  <2> QED
    BY <1>1, <1>2, LeastOf
<1> DEFINE first == CHOOSE m \in eligible : \A k \in eligible : m <= k
<1>4. first \in eligible
  BY <1>3
<1>5. Speaker(window) = EngineerRoster[first]
  BY <1>1 DEF Speaker
<1> QED
  BY <1>4, <1>5 DEF Engineers, Range

\* Who may speak decides who does.
LEMMA SameSpeaker ==
  ASSUME NEW window, \A p \in Engineers : Frozen(p, window)' <=> Frozen(p, window)
  PROVE  Speaker(window)' = Speaker(window)
<1> DEFINE eligible == {n \in DOMAIN EngineerRoster : Frozen(EngineerRoster[n], window)}
           First(T) == IF T = {} THEN Nobody
                       ELSE EngineerRoster[CHOOSE n \in T : \A k \in T : n <= k]
<1>1. \A n \in DOMAIN EngineerRoster : EngineerRoster[n] \in Engineers
  BY DEF Engineers, Range
<1>2. eligible' = eligible
  BY <1>1
<1>3. Speaker(window) = First(eligible) /\ Speaker(window)' = First(eligible')
  BY DEF Speaker
<1> HIDE DEF eligible, First
<1> QED
  BY <1>2, <1>3

LEMMA ReadersSafe ==
  ASSUME ReadersInv
  PROVE  ReadersTypeOK /\ VoiceIsFrozenButForConsents /\ ScoresChangeForLateRepliesOnly
<1>1. ReadersTypeOK /\ LandedInTime /\ VoicesHold /\ ScoresHold
  BY DEF ReadersInv
<1>2. ASSUME NEW v \in Voices
      PROVE  \E i \in Isolates : v = voice[i] /\ v # Nobody /\ VoiceHolds(v) /\ v.memoized
  BY <1>1 DEF Voices, VoicesHold
<1>3. ASSUME NEW v \in Voices, NEW w \in Voices, v.window = w.window
      PROVE  IF v.speaker = w.speaker THEN \A m \in v.samples \ w.samples : LandedLate(m, v.window)
             ELSE \E c \in consents : c.again /\ ~BeforeWindow(c.at, v.window)
  <2>1. PICK i \in Isolates : v = voice[i] /\ v # Nobody /\ VoiceHolds(v) /\ v.memoized
    BY <1>2
  <2>2. PICK j \in Isolates : w = voice[j] /\ w # Nobody /\ VoiceHolds(w) /\ w.memoized
    BY <1>2
  <2>3. CASE v.speaker = w.speaker /\ v.speaker = Nobody
    BY <2>1, <2>2, <2>3 DEF VoiceHolds
  <2>4. CASE v.speaker = w.speaker /\ v.speaker # Nobody
    <3>1. v.account = w.account
      BY <1>1, <1>3, <2>1, <2>2, <2>4 DEF VoicesHold
    <3> QED
      BY <1>3, <2>1, <2>2, <2>4, <3>1 DEF VoiceHolds
  <2>5. CASE v.speaker # w.speaker
    BY <1>3, <2>1, <2>2, <2>5 DEF VoiceHolds, ConnectedAgain
  <2> QED
    BY <2>3, <2>4, <2>5
<1>4. ASSUME NEW v \in Voices
      PROVE  v.samples \cap OwnSend = {}
  BY <1>2 DEF VoiceHolds, Samples, ByHuman
<1>5. VoiceIsFrozenButForConsents
  BY <1>3, <1>4 DEF VoiceIsFrozenButForConsents
<1>6. ASSUME NEW s \in scores, NEW t \in scores, ~s.engaged, t.engaged
      PROVE  /\ s.at <= t.at
             /\ \E m \in ThreadReplies : InItsDay(m) /\ landed[m] # Nobody /\ landed[m] >= Day
  <2>1. PICK m \in ThreadReplies : Counts(m) /\ landed[m] <= t.at
    BY <1>1, <1>6 DEF ScoresHold
  <2>2. s.at <= landed[m] /\ Day <= s.at
    BY <1>1, <1>6, <2>1 DEF ScoresHold
  <2>3. landed[m] # Nobody /\ InItsDay(m)
    BY <2>1 DEF Counts, ByHuman
  <2>4. landed[m] \in Nat /\ s.at \in Nat /\ t.at \in Nat /\ Day \in Nat
    BY <1>1, <2>3, ReadersAssumption DEF ReadersTypeOK, Instants
  <2> QED
    BY <2>1, <2>2, <2>3, <2>4
<1>7. ASSUME NEW s \in scores, s.engaged
      PROVE  \E m \in ThreadReplies \ OwnSend : Author[m] # "customer" /\ InItsDay(m)
  BY <1>1, <1>7 DEF ScoresHold, Counts, ByHuman
<1> QED
  BY <1>1, <1>5, <1>6, <1>7 DEF ScoresChangeForLateRepliesOnly

LEMMA ReadersBeginWell ==
  ASSUME ReadersInit
  PROVE  ReadersInv
<1>1. PICK account \in [Engineers -> SlackAccounts \cup {Nobody}] : ReadersBegin(account)
  BY DEF ReadersInit
<1>2. 0 \in Instants
  BY ReadersAssumption DEF Instants
<1>3. ReadersTypeOK
  <2>1. \A p \in Engineers : identity[p] \in [account : SlackAccounts, at : Instants] \cup {Nobody}
    <3>1. SUFFICES ASSUME NEW p \in Engineers, account[p] # Nobody
                   PROVE  [account |-> account[p], at |-> 0] \in [account : SlackAccounts, at : Instants]
      BY <1>1 DEF ReadersBegin
    <3>2. account[p] \in SlackAccounts
      BY <3>1
    <3> QED
      BY <1>2, <3>2
  <2>2. identity \in [Engineers -> [account : SlackAccounts, at : Instants] \cup {Nobody}]
    BY <1>1, <2>1 DEF ReadersBegin
  <2> QED
    BY <1>1, <1>2, <2>2 DEF ReadersBegin, ReadersTypeOK
<1>4. LandedInTime
  BY <1>1 DEF ReadersBegin, LandedInTime
<1> QED
  BY <1>1, <1>3, <1>4 DEF ReadersBegin, ReadersInv, VoicesHold, ScoresHold

\* A message older than the window that lands once the window has begun was in flight for
\* longer than the grace, so that all else that is shown of a window is known from its beginning.
LEMMA LandsLate ==
  ASSUME ReadersInv, NEW w \in Nat, w * Day <= age,
         NEW m \in ThreadReplies, received[m] # Nobody, BeforeWindow(received[m], w),
         received'[m] = received[m], landed'[m] = age
  PROVE  LandedLate(m, w)'
<1>1. received[m] \in Nat /\ age \in Nat /\ Nobody \notin Nat
  BY ReadersAssumption DEF ReadersInv, ReadersTypeOK, Instants
<1>2. w * Day \in Nat /\ Grace \in Nat
  BY WindowType
<1>3. received[m] + Grace < w * Day
  BY DEF BeforeWindow
<1>4. received[m] + Grace < age
  BY <1>1, <1>2, <1>3
<1> QED
  BY <1>1, <1>4 DEF LandedLate

\* Of what a window shows nothing goes, and only late rows come.
MoreSamples(w) ==
  /\ \A m \in ThreadReplies : LandedLate(m, w) => LandedLate(m, w)'
  /\ \A a : /\ Samples(a, w) \subseteq Samples(a, w)'
            /\ \A m \in Samples(a, w)' \ Samples(a, w) : LandedLate(m, w)'

\* A voice holds on, as long as its speaker and its samples do.
LEMMA VoiceHoldsOn ==
  ASSUME ReadersInv, NEW v, VoiceHolds(v),
         age' \in Nat, age <= age', v.window \in Nat,
         \A p \in Engineers : Frozen(p, v.window)' => Frozen(p, v.window) /\ identity'[p] = identity[p],
         Speaker(v.window)' = Speaker(v.window) \/ ConnectedAgain(v.window)',
         consents \subseteq consents',
         MoreSamples(v.window),
         v.speaker \in Engineers \cup {Nobody}
  PROVE  VoiceHolds(v)'
<1>1. v.window * Day <= age'
  <2>1. v.window * Day \in Nat /\ age \in Nat
    BY WindowType DEF ReadersInv, ReadersTypeOK, Instants
  <2> QED
    BY <2>1 DEF VoiceHolds
<1>2. ConnectedAgain(v.window) => ConnectedAgain(v.window)'
  BY DEF ConnectedAgain, BeforeWindow
<1>3. v.speaker = Speaker(v.window)' \/ ConnectedAgain(v.window)'
  BY <1>2 DEF VoiceHolds
<1>4. ASSUME v.speaker # Nobody, v.memoized
      PROVE  /\ v.samples \subseteq Samples(v.account, v.window)'
             /\ \A m \in Samples(v.account, v.window)' \ v.samples : LandedLate(m, v.window)'
  <2>1. \A m \in Samples(v.account, v.window) \ v.samples : m \in ThreadReplies /\ LandedLate(m, v.window)
    BY <1>4 DEF VoiceHolds, Samples
  <2>2. v.samples \subseteq Samples(v.account, v.window)
    BY <1>4 DEF VoiceHolds
  <2> QED
    BY <2>1, <2>2 DEF MoreSamples
<1>5. v.speaker # Nobody /\ Frozen(v.speaker, v.window)' => v.account = identity'[v.speaker].account
  BY DEF VoiceHolds
<1> QED
  BY <1>1, <1>3, <1>4, <1>5 DEF VoiceHolds

\* What is known of the windows that have begun.
Settled(w) ==
  /\ \A p \in Engineers : Frozen(p, w)' => Frozen(p, w) /\ identity'[p] = identity[p]
  /\ Speaker(w)' = Speaker(w) \/ ConnectedAgain(w)'
  /\ MoreSamples(w)

LEMMA VoicesHoldOn ==
  ASSUME ReadersInv, UNCHANGED voice, age' \in Nat, age <= age', consents \subseteq consents',
         \A w \in Nat : w * Day <= age => Settled(w)
  PROVE  VoicesHold'
<1>1. ReadersTypeOK /\ VoicesHold
  BY DEF ReadersInv
<1>2. ASSUME NEW i \in Isolates, voice'[i] # Nobody
      PROVE  VoiceHolds(voice[i])'
  <2>1. PICK v : v = voice[i]
    OBVIOUS
  <2>2. VoiceHolds(v) /\ v = voice'[i] /\ v # Nobody
    BY <1>1, <1>2, <2>1 DEF VoicesHold
  <2>3. v \in VoiceRecords
    BY <1>1, <2>1, <2>2 DEF ReadersTypeOK
  <2>4. v.window \in Nat /\ v.speaker \in Engineers \cup {Nobody}
    BY <2>3 DEF VoiceRecords
  <2>5. Settled(v.window)
    BY <2>2, <2>4 DEF VoiceHolds
  <2>6. VoiceHolds(v)'
    BY <2>2, <2>4, <2>5, VoiceHoldsOn DEF Settled
  <2> QED
    BY <2>2, <2>6
<1> QED
  BY <1>1, <1>2 DEF VoicesHold

\* Neither consents nor rows: what is known stays as it is.
LEMMA SettledAnyway ==
  ASSUME UNCHANGED <<identity, received, landed>>, NEW w
  PROVE  Settled(w)
<1>1. \A p \in Engineers : Frozen(p, w)' = Frozen(p, w)
  BY DEF Frozen, BeforeWindow
<1>2. Speaker(w)' = Speaker(w)
  BY <1>1, SameSpeaker
<1>3. MoreSamples(w)
  BY DEF MoreSamples, LandedLate, Samples, ByHuman, BeforeWindow
<1> QED
  BY <1>1, <1>2, <1>3 DEF Settled

LEMMA AgePassesKeeps ==
  ASSUME ReadersInv, AgePasses
  PROVE  ReadersInv'
<1>1. /\ ReadersTypeOK /\ LandedInTime /\ ScoresHold
      /\ age \in 0..MaxAge /\ MaxAge \in Nat /\ Day \in Nat
  BY ReadersAssumption DEF ReadersInv, ReadersTypeOK, Instants
<1>2. age' = age + 1 /\ age < MaxAge /\ UNCHANGED <<received, landed, identity, consents, voice, scores>>
  BY DEF AgePasses
<1>3. ReadersTypeOK'
  BY <1>1, <1>2 DEF ReadersTypeOK, Instants
<1>4. LandedInTime'
  <2>1. ASSUME NEW m \in ThreadReplies
        PROVE  /\ received[m] # Nobody => received[m] <= age'
               /\ landed[m] # Nobody => received[m] # Nobody /\ received[m] <= landed[m] /\ landed[m] <= age'
    <3>1. received[m] \in Nat \cup {Nobody} /\ landed[m] \in Nat \cup {Nobody}
      BY <1>1 DEF ReadersTypeOK, Instants
    <3> QED
      BY <1>1, <1>2, <3>1 DEF LandedInTime
  <2> QED
    BY <1>2, <2>1 DEF LandedInTime
<1>5. VoicesHold'
  <2>1. \A w \in Nat : w * Day <= age => Settled(w)
    BY <1>2, SettledAnyway
  <2> QED
    BY <1>1, <1>2, <2>1, VoicesHoldOn
<1>6. ScoresHold'
  <2>1. \A s \in scores : s.at \in Nat
    BY <1>1 DEF ReadersTypeOK, Instants
  <2>2. \A m : Counts(m)' = Counts(m)
    BY <1>2 DEF Counts, ByHuman, InItsDay
  <2> QED
    BY <1>1, <1>2, <2>1, <2>2 DEF ScoresHold
<1> QED
  BY <1>3, <1>4, <1>5, <1>6 DEF ReadersInv

LEMMA ReceiveKeeps ==
  ASSUME ReadersInv, Receive
  PROVE  ReadersInv'
<1>1. /\ ReadersTypeOK /\ LandedInTime /\ ScoresHold
      /\ age \in 0..MaxAge /\ age \in Nat
  BY ReadersAssumption DEF ReadersInv, ReadersTypeOK, Instants
<1>2. PICK m \in ThreadReplies :
        /\ received[m] = Nobody /\ received' = [received EXCEPT ![m] = age]
        /\ UNCHANGED <<age, landed, identity, consents, voice, scores>>
  BY DEF Receive
<1>3. /\ received'[m] = age /\ landed[m] = Nobody
      /\ \A n \in ThreadReplies : n # m => received'[n] = received[n]
      /\ received' \in [ThreadReplies -> Instants \cup {Nobody}]
  BY <1>1, <1>2 DEF ReadersTypeOK, LandedInTime, Instants
<1>4. ReadersTypeOK'
  BY <1>1, <1>2, <1>3 DEF ReadersTypeOK
<1>5. LandedInTime'
  BY <1>1, <1>2, <1>3 DEF LandedInTime
<1>6. VoicesHold'
  <2>1. ASSUME NEW w
        PROVE  Settled(w)
    <3>1. \A p \in Engineers : Frozen(p, w)' = Frozen(p, w)
      BY <1>2 DEF Frozen, BeforeWindow
    <3>2. Speaker(w)' = Speaker(w)
      BY <3>1, SameSpeaker
    <3>3. MoreSamples(w)
      <4>1. \A n \in ThreadReplies : LandedLate(n, w) => LandedLate(n, w)'
        BY <1>2, <1>3 DEF LandedLate
      <4>2. \A a : Samples(a, w)' = Samples(a, w)
        BY <1>2, <1>3 DEF Samples, ByHuman, BeforeWindow
      <4> QED
        BY <4>1, <4>2 DEF MoreSamples
    <3> QED
      BY <1>2, <3>1, <3>2, <3>3 DEF Settled
  <2> QED
    BY <1>1, <1>2, <2>1, VoicesHoldOn
<1>7. ScoresHold'
  <2>1. \A n \in ThreadReplies : Counts(n)' = Counts(n)
    BY <1>2, <1>3 DEF Counts, ByHuman, InItsDay
  <2> QED
    BY <1>1, <1>2, <2>1 DEF ScoresHold
<1> QED
  BY <1>4, <1>5, <1>6, <1>7 DEF ReadersInv

LEMMA LandKeeps ==
  ASSUME ReadersInv, Land
  PROVE  ReadersInv'
<1>1. /\ ReadersTypeOK /\ LandedInTime /\ ScoresHold
      /\ age \in 0..MaxAge /\ age \in Nat /\ Nobody \notin Nat
  BY ReadersAssumption DEF ReadersInv, ReadersTypeOK, Instants
<1>2. PICK m \in ThreadReplies :
        /\ received[m] # Nobody /\ landed[m] = Nobody /\ landed' = [landed EXCEPT ![m] = age]
        /\ UNCHANGED <<age, received, identity, consents, voice, scores>>
  BY DEF Land
<1>3. /\ landed'[m] = age /\ received[m] <= age
      /\ \A n \in ThreadReplies : n # m => landed'[n] = landed[n]
      /\ landed' \in [ThreadReplies -> Instants \cup {Nobody}]
  BY <1>1, <1>2 DEF ReadersTypeOK, LandedInTime, Instants
<1>4. ReadersTypeOK'
  BY <1>1, <1>2, <1>3 DEF ReadersTypeOK
<1>5. LandedInTime'
  BY <1>1, <1>2, <1>3 DEF LandedInTime
<1>6. VoicesHold'
  <2>1. ASSUME NEW w \in Nat, w * Day <= age
        PROVE  Settled(w)
    <3>1. \A p \in Engineers : Frozen(p, w)' = Frozen(p, w)
      BY <1>2 DEF Frozen, BeforeWindow
    <3>2. Speaker(w)' = Speaker(w)
      BY <3>1, SameSpeaker
    <3>3. BeforeWindow(received[m], w) => LandedLate(m, w)'
      BY <1>2, <1>3, <2>1, LandsLate
    <3>4. MoreSamples(w)
      <4>1. \A n \in ThreadReplies : LandedLate(n, w) => LandedLate(n, w)'
        BY <1>2, <1>3 DEF LandedLate
      <4>2. ASSUME NEW a
            PROVE  Samples(a, w) \subseteq Samples(a, w)'
        BY <1>2, <1>3 DEF Samples, ByHuman, BeforeWindow
      <4>3. ASSUME NEW a, NEW n \in Samples(a, w)' \ Samples(a, w)
            PROVE  LandedLate(n, w)'
        <5>1. n = m /\ BeforeWindow(received[m], w)
          BY <1>2, <1>3, <4>3 DEF Samples, ByHuman, BeforeWindow
        <5> QED
          BY <3>3, <5>1
      <4> QED
        BY <4>1, <4>2, <4>3 DEF MoreSamples
    <3> QED
      BY <1>2, <3>1, <3>2, <3>4 DEF Settled
  <2> QED
    BY <1>1, <1>2, <2>1, VoicesHoldOn
<1>7. ScoresHold'
  <2>1. \A n \in ThreadReplies : n # m => Counts(n)' = Counts(n)
    BY <1>2, <1>3 DEF Counts, ByHuman, InItsDay
  <2>2. ~Counts(m)
    BY <1>2 DEF Counts, ByHuman
  <2> QED
    BY <1>1, <1>2, <1>3, <2>1, <2>2 DEF ScoresHold
<1> QED
  BY <1>4, <1>5, <1>6, <1>7 DEF ReadersInv

LEMMA ConsentKeeps ==
  ASSUME ReadersInv, Consent
  PROVE  ReadersInv'
<1>1. /\ ReadersTypeOK /\ LandedInTime /\ ScoresHold
      /\ age \in 0..MaxAge /\ age \in Nat
  BY ReadersAssumption DEF ReadersInv, ReadersTypeOK, Instants
<1>2. PICK p \in Engineers, a \in SlackAccounts :
        /\ identity' = [identity EXCEPT ![p] = [account |-> a, at |-> age]]
        /\ consents' = consents \cup {[person |-> p, at |-> age, again |-> identity[p] # Nobody]}
        /\ UNCHANGED <<age, received, landed, voice, scores>>
  BY DEF Consent
<1>3. PICK again \in BOOLEAN : again = (identity[p] # Nobody)
  OBVIOUS
<1>4. PICK c : c = [person |-> p, at |-> age, again |-> again]
  OBVIOUS
<1>5. /\ c \in [person : Engineers, at : Instants, again : BOOLEAN] /\ c.at = age
      /\ identity[p] # Nobody => c.again
      /\ consents' = consents \cup {c}
  BY <1>1, <1>2, <1>3, <1>4 DEF Instants
<1>6. ReadersTypeOK'
  <2>1. identity' \in [Engineers -> [account : SlackAccounts, at : Instants] \cup {Nobody}]
    BY <1>1, <1>2 DEF ReadersTypeOK, Instants
  <2> QED
    BY <1>1, <1>2, <1>5, <2>1 DEF ReadersTypeOK
<1>7. LandedInTime'
  BY <1>1, <1>2 DEF LandedInTime
<1>8. ASSUME NEW w \in Nat, w * Day <= age
      PROVE  Settled(w)
  <2>1. ~BeforeWindow(age, w)
    <3>1. w * Day \in Nat /\ Grace \in Nat
      BY WindowType
    <3> QED
      BY <1>1, <1>8, <3>1 DEF BeforeWindow
  <2>2. /\ \A q \in Engineers : q # p => identity'[q] = identity[q]
        /\ identity'[p].at = age
    BY <1>1, <1>2 DEF ReadersTypeOK
  <2>3. ~Frozen(p, w)'
    BY <2>1, <2>2 DEF Frozen, BeforeWindow
  <2>4. \A q \in Engineers : q # p => Frozen(q, w)' = Frozen(q, w)
    BY <2>2 DEF Frozen, BeforeWindow
  <2>5. \A q \in Engineers : Frozen(q, w)' => Frozen(q, w) /\ identity'[q] = identity[q]
    BY <2>2, <2>3, <2>4
  <2>6. Speaker(w)' = Speaker(w) \/ ConnectedAgain(w)'
    <3>1. CASE identity[p] = Nobody
      <4>1. ~Frozen(p, w)
        BY <3>1 DEF Frozen
      <4>2. \A q \in Engineers : Frozen(q, w)' <=> Frozen(q, w)
        BY <2>3, <2>4, <4>1
      <4> QED
        BY <4>2, SameSpeaker
    <3>2. CASE identity[p] # Nobody
      BY <1>5, <2>1, <3>2 DEF ConnectedAgain, BeforeWindow
    <3> QED
      BY <3>1, <3>2
  <2>7. MoreSamples(w)
    BY <1>2 DEF MoreSamples, LandedLate, Samples, ByHuman, BeforeWindow
  <2> QED
    BY <2>5, <2>6, <2>7 DEF Settled
<1>9. VoicesHold'
  BY <1>1, <1>2, <1>8, VoicesHoldOn
<1>10. ScoresHold'
  BY <1>1, <1>2 DEF ScoresHold, Counts, ByHuman, InItsDay
<1> QED
  BY <1>6, <1>7, <1>9, <1>10 DEF ReadersInv

LEMMA NameSpeakerKeeps ==
  ASSUME ReadersInv, NameSpeaker
  PROVE  ReadersInv'
<1>1. /\ ReadersTypeOK /\ LandedInTime /\ VoicesHold /\ ScoresHold
      /\ age \in Nat
  BY ReadersAssumption DEF ReadersInv, ReadersTypeOK, Instants
<1>2. PICK who : who = Speaker(Window)
  OBVIOUS
<1>3. PICK window \in Nat : window = Window /\ window * Day <= age
  BY <1>1, BeginsInTime DEF Window
<1>4. PICK account : account = IF who = Nobody THEN Nobody ELSE identity[who].account
  OBVIOUS
<1>5. PICK memoized \in BOOLEAN : memoized = (who = Nobody)
  OBVIOUS
<1>6. PICK v : v = [window |-> window, speaker |-> who, memoized |-> memoized, samples |-> {},
                    account |-> account]
  OBVIOUS
<1>7. PICK i \in Isolates :
        voice' = [voice EXCEPT ![i] = v] /\ UNCHANGED <<age, received, landed, identity, consents, scores>>
  BY <1>2, <1>3, <1>4, <1>5, <1>6 DEF NameSpeaker
<1>8. who # Nobody => who \in Engineers /\ Frozen(who, window)
  BY <1>2, <1>3, TheSpeaker
<1>9. account \in SlackAccounts \cup {Nobody}
  BY <1>1, <1>4, <1>8 DEF ReadersTypeOK, Frozen
<1>10. /\ v \in VoiceRecords /\ v.window = window /\ v.speaker = who /\ v.account = account
       /\ v.samples = {} /\ (v.memoized <=> who = Nobody)
  BY <1>5, <1>6, <1>8, <1>9 DEF VoiceRecords
<1>11. /\ voice'[i] = v /\ \A j \in Isolates : j # i => voice'[j] = voice[j]
       /\ voice' \in [Isolates -> VoiceRecords \cup {Nobody}]
  BY <1>1, <1>7, <1>10 DEF ReadersTypeOK
<1>12. ReadersTypeOK'
  BY <1>1, <1>7, <1>11 DEF ReadersTypeOK
<1>13. LandedInTime' /\ ScoresHold'
  BY <1>1, <1>7 DEF LandedInTime, ScoresHold, Counts, ByHuman, InItsDay
<1>14. VoiceHolds(v)
  <2>1. who = Speaker(window)
    BY <1>2, <1>3
  <2> QED
    BY <1>3, <1>4, <1>10, <2>1 DEF VoiceHolds
<1>15. \A u : VoiceHolds(u) => VoiceHolds(u)'
  BY <1>7 DEF VoiceHolds, Speaker, Frozen, ConnectedAgain, BeforeWindow, Samples, ByHuman, LandedLate
<1>16. ASSUME NEW j \in Isolates, voice'[j] # Nobody
       PROVE  VoiceHolds(voice[j])'
  <2>1. PICK u : u = voice'[j]
    OBVIOUS
  <2>2. VoiceHolds(u)
    BY <1>1, <1>11, <1>14, <1>16, <2>1 DEF VoicesHold
  <2> QED
    BY <1>15, <2>1, <2>2
<1>17. ASSUME NEW j \in Isolates, j # i, voice[j] # Nobody, voice[j].window = window,
              voice[j].speaker = who, who # Nobody
       PROVE  voice[j].account = account
  BY <1>1, <1>4, <1>8, <1>17 DEF VoicesHold, VoiceHolds
<1>18. VoicesHold'
  BY <1>1, <1>10, <1>11, <1>16, <1>17 DEF VoicesHold
<1> QED
  BY <1>12, <1>13, <1>18 DEF ReadersInv

LEMMA SampleVoiceKeeps ==
  ASSUME ReadersInv, SampleVoice
  PROVE  ReadersInv'
<1>1. ReadersTypeOK /\ LandedInTime /\ VoicesHold /\ ScoresHold
  BY DEF ReadersInv
<1>2. PICK i \in Isolates :
        /\ voice[i] # Nobody
        /\ voice' = [voice EXCEPT ![i].memoized = TRUE,
                                 ![i].samples = Samples(voice[i].account, voice[i].window)]
        /\ ~voice[i].memoized
        /\ UNCHANGED <<age, received, landed, identity, consents, scores>>
  BY DEF SampleVoice
<1>3. PICK v \in VoiceRecords : v = voice[i]
  BY <1>1, <1>2 DEF ReadersTypeOK
<1>4. PICK seen : seen = Samples(v.account, v.window)
  OBVIOUS
<1>5. seen \subseteq ThreadReplies
  BY <1>4 DEF Samples
<1>6. PICK u : u = [v EXCEPT !.memoized = TRUE, !.samples = seen]
  OBVIOUS
<1>7. /\ u \in VoiceRecords /\ u.window = v.window /\ u.speaker = v.speaker /\ u.account = v.account
      /\ u.samples = seen
  BY <1>5, <1>6 DEF VoiceRecords
<1>8. /\ voice'[i] = u /\ \A j \in Isolates : j # i => voice'[j] = voice[j]
      /\ voice' \in [Isolates -> VoiceRecords \cup {Nobody}]
  <2>1. voice' = [voice EXCEPT ![i] = u]
    BY <1>1, <1>2, <1>3, <1>4, <1>6 DEF ReadersTypeOK
  <2> QED
    BY <1>1, <1>7, <2>1 DEF ReadersTypeOK
<1>9. ReadersTypeOK'
  BY <1>1, <1>2, <1>8 DEF ReadersTypeOK
<1>10. LandedInTime' /\ ScoresHold'
  BY <1>1, <1>2 DEF LandedInTime, ScoresHold, Counts, ByHuman, InItsDay
<1>11. v.speaker # Nobody
  BY <1>1, <1>2, <1>3 DEF ReadersInv, VoicesHold, VoiceHolds
<1>12. VoiceHolds(u)
  BY <1>1, <1>2, <1>3, <1>4, <1>7, <1>11 DEF VoicesHold, VoiceHolds
<1>13. \A w : VoiceHolds(w) => VoiceHolds(w)'
  BY <1>2 DEF VoiceHolds, Speaker, Frozen, ConnectedAgain, BeforeWindow, Samples, ByHuman, LandedLate
<1>14. ASSUME NEW j \in Isolates, voice'[j] # Nobody
       PROVE  VoiceHolds(voice[j])'
  <2>1. PICK w : w = voice'[j]
    OBVIOUS
  <2>2. VoiceHolds(w)
    BY <1>1, <1>8, <1>12, <1>14, <2>1 DEF VoicesHold
  <2> QED
    BY <1>13, <2>1, <2>2
<1>15. \A j \in Isolates : voice'[j] # Nobody =>
         /\ voice[j] # Nobody /\ voice'[j].window = voice[j].window
         /\ voice'[j].speaker = voice[j].speaker /\ voice'[j].account = voice[j].account
  BY <1>2, <1>3, <1>7, <1>8
<1>16. VoicesHold'
  BY <1>1, <1>14, <1>15 DEF VoicesHold
<1> QED
  BY <1>9, <1>10, <1>16 DEF ReadersInv

LEMMA ScoreKeeps ==
  ASSUME ReadersInv, Score
  PROVE  ReadersInv'
<1>1. ReadersTypeOK /\ LandedInTime /\ ScoresHold /\ age \in Nat /\ age \in Instants
  BY ReadersAssumption DEF ReadersInv, ReadersTypeOK, Instants
<1>2. PICK engaged \in BOOLEAN : engaged = Engaged
  BY DEF Engaged
<1>3. PICK s : s = [engaged |-> engaged, at |-> age]
  OBVIOUS
<1>4. /\ s \in [engaged : BOOLEAN, at : Instants] /\ s.at = age /\ (s.engaged <=> Engaged)
      /\ scores' = scores \cup {s} /\ Day <= age
      /\ UNCHANGED <<age, received, landed, identity, consents, voice>>
  BY <1>1, <1>2, <1>3 DEF Score, Ripe
<1>5. ReadersTypeOK'
  BY <1>1, <1>4 DEF ReadersTypeOK
<1>6. LandedInTime'
  BY <1>1, <1>4 DEF LandedInTime
<1>7. VoicesHold'
  BY <1>1, <1>4, SettledAnyway, VoicesHoldOn
<1>8. ScoresHold'
  <2>1. \A m \in ThreadReplies : Counts(m) => landed[m] <= age
    BY <1>1 DEF Counts, ByHuman, LandedInTime
  <2>2. Engaged <=> \E m \in ThreadReplies : Counts(m)
    BY DEF Engaged, Counts
  <2>3. \A m \in ThreadReplies : Counts(m)' = Counts(m)
    BY <1>4 DEF Counts, ByHuman, InItsDay
  <2> QED
    BY <1>1, <1>4, <2>1, <2>2, <2>3 DEF ScoresHold
<1> QED
  BY <1>5, <1>6, <1>7, <1>8 DEF ReadersInv

LEMMA ReadersStayInv ==
  ASSUME ReadersInv, [ReadersNext]_readerVars
  PROVE  ReadersInv'
<1>1. CASE ReadersNext
  BY <1>1, AgePassesKeeps, ReceiveKeeps, LandKeeps, ConsentKeeps, NameSpeakerKeeps,
     SampleVoiceKeeps, ScoreKeeps DEF ReadersNext
<1>2. CASE UNCHANGED readerVars
  <2>1. UNCHANGED <<age, received, landed, identity, consents, voice, scores>>
    BY <1>2 DEF readerVars
  <2>2. ReadersTypeOK' /\ LandedInTime' /\ ScoresHold' /\ age \in Nat
    BY <2>1, ReadersAssumption DEF ReadersInv, ReadersTypeOK, Instants, LandedInTime, ScoresHold, Counts, ByHuman, InItsDay
  <2>3. VoicesHold'
    BY <2>1, <2>2, SettledAnyway, VoicesHoldOn
  <2> QED
    BY <2>2, <2>3 DEF ReadersInv
<1> QED
  BY <1>1, <1>2

-----------------------------------------------------------------------------
\* Whatever is asked again, read on or scored anew agrees with what was told before: for any
\* composers, teammates, runs, page sizes, writes, replies, isolates and engineers, given
\* that the grace of the voice covers the lag of the queue.
THEOREM LaterLooks == ComposerSpec /\ PagesSpec /\ ReadersSpec => []LaterLooksAgree
<1>1. ComposerInit => ComposerInv
  BY ComposerBegins
<1>2. ComposerInv /\ [ComposerNext]_composerVars => ComposerInv'
  BY ComposerStaysInv
<1>3. PagesInit => PagesInv
  BY PagesBeginWell
<1>4. PagesInv /\ [PagesNext]_pageVars => PagesInv'
  BY PagesStayInv
<1>5. ReadersInit => ReadersInv
  BY ReadersBeginWell
<1>6. ReadersInv /\ [ReadersNext]_readerVars => ReadersInv'
  BY ReadersStayInv
<1>7. ComposerInv /\ PagesInv /\ ReadersInv => LaterLooksAgree
  BY ComposerSafe, PagesSafe, ReadersSafe DEF LaterLooksAgree
<1> QED
  BY <1>1, <1>2, <1>3, <1>4, <1>5, <1>6, <1>7, PTL DEF ComposerSpec, PagesSpec, ReadersSpec
=============================================================================
