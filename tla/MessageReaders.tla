---------------------------- MODULE MessageReaders ----------------------------
(* Two readers of the message log that want the same answer later: the voice *)
(* of the engineer, frozen for a day in every isolate, and the score of a    *)
(* triage decision, by who answered within a day.  A row bears the time of   *)
(* the webhook and lands when the queue gets to it.                          *)
EXTENDS Naturals, Sequences, FiniteSets, Functions

CONSTANTS
  EngineerRoster, \* FIREFIGHTERS, in order
  SlackAccounts,  \* Slack accounts of the roster
  ThreadReplies,  \* messages in the thread after the customer's
  Author,         \* the account each is sent with, or the customer
  OwnSend,        \* those that the agent sent with an engineer's token
  Isolates,
  Day,            \* the voice's window, and the score's
  Grace,          \* ENGINEER_VOICE_FREEZE_GRACE_MS
  MaxLag,         \* how long the queue holds a message (a bound)
  MaxAge,         \* a bound
  MaxConsents,    \* consents (a bound)
  MaxScores,      \* scores that are looked at (a bound)
  Nobody          \* no time, no row, no voice, nobody

Engineers == Range(EngineerRoster)

ASSUME ReadersAssumption ==
  /\ {Day, Grace} \subseteq Nat \ {0} /\ {MaxLag, MaxAge, MaxConsents, MaxScores} \subseteq Nat
  /\ EngineerRoster \in Seq(Engineers) /\ IsInjective(EngineerRoster)
  /\ OwnSend \subseteq ThreadReplies /\ Author \in [ThreadReplies -> SlackAccounts \cup {"customer"}]
  /\ Nobody \notin Nat \cup SlackAccounts \cup Engineers

VARIABLES
  age,        \* time since the customer's message
  received,   \* when the webhook took each reply
  landed,     \* when its row appeared
  identity,   \* the Slack rows of identities: the account and when it was connected
  consents,   \* when who consented anew (history)
  voice,      \* the memo of each isolate, or what it has read for it, and Nobody at first
  scores      \* what was ever scored of the customer's message (history)

readerVars == <<age, received, landed, identity, consents, voice, scores>>

\* Who is connected has been for long.
ReadersBegin(account) ==
  /\ age = 0
  /\ received = [m \in ThreadReplies |-> Nobody] /\ landed = [m \in ThreadReplies |-> Nobody]
  /\ identity = [p \in Engineers |-> IF account[p] = Nobody THEN Nobody
                                    ELSE [account |-> account[p], at |-> 0]]
  /\ consents = {} /\ voice = [i \in Isolates |-> Nobody] /\ scores = {}

ReadersInit == \E account \in [Engineers -> SlackAccounts \cup {Nobody}] : ReadersBegin(account)

\* The queue does not hold a message longer than MaxLag.
AgePasses ==
  /\ age < MaxAge
  /\ \A m \in ThreadReplies :
       received[m] # Nobody /\ landed[m] = Nobody => age - received[m] < MaxLag
  /\ age' = age + 1
  /\ UNCHANGED <<received, landed, identity, consents, voice, scores>>

\* The webhook stamps a message, which an isolate's queue consumer inserts later.
Receive ==
  \E m \in ThreadReplies :
    /\ received[m] = Nobody /\ received' = [received EXCEPT ![m] = age]
    /\ UNCHANGED <<age, landed, identity, consents, voice, scores>>

Land ==
  \E m \in ThreadReplies :
    /\ received[m] # Nobody /\ landed[m] = Nobody /\ landed' = [landed EXCEPT ![m] = age]
    /\ UNCHANGED <<age, received, identity, consents, voice, scores>>

\* A person connects, for the first time or again, perhaps another account.
Consent ==
  \E p \in Engineers, a \in SlackAccounts :
    /\ Cardinality(consents) < MaxConsents
    /\ identity' = [identity EXCEPT ![p] = [account |-> a, at |-> age]]
    /\ consents' = consents \cup {[person |-> p, at |-> age, again |-> identity[p] # Nobody]}
    /\ UNCHANGED <<age, received, landed, voice, scores>>

-------------------------------------------------------------------- \* the voice

Window == age \div Day
BeforeWindow(t, window) == t + Grace < window * Day

\* The identities are taken if their row is older than the bound, and pickSpeaker takes the
\* first of the roster among them.
Frozen(p, window) == identity[p] # Nobody /\ BeforeWindow(identity[p].at, window)

Speaker(window) ==
  LET eligible == {n \in DOMAIN EngineerRoster : Frozen(EngineerRoster[n], window)}
  IN  IF eligible = {} THEN Nobody
      ELSE EngineerRoster[CHOOSE n \in eligible : \A k \in eligible : n <= k]

\* The rows that a person sent: the agent's own sends bear the same user.
ByHuman(m) == landed[m] # Nobody /\ m \notin OwnSend

Samples(account, window) ==
  {m \in ThreadReplies : ByHuman(m) /\ Author[m] = account /\ BeforeWindow(received[m], window)}

\* resolveEngineerVoice on an isolate that has no memo of this window: who speaks, and with
\* which account.
NameSpeaker ==
  \E i \in Isolates :
    /\ voice[i] # Nobody => voice[i].memoized /\ voice[i].window # Window
    /\ LET who == Speaker(Window)
       IN  voice' = [voice EXCEPT ![i] =
             [window |-> Window, speaker |-> who, memoized |-> who = Nobody, samples |-> {},
              account |-> IF who = Nobody THEN Nobody ELSE identity[who].account]]
    /\ UNCHANGED <<age, received, landed, identity, consents, scores>>

\* Then what that account wrote, in a read of its own.
SampleVoice ==
  \E i \in Isolates :
    /\ voice[i] # Nobody /\ ~voice[i].memoized
    /\ voice' = [voice EXCEPT ![i].memoized = TRUE,
                             ![i].samples = Samples(voice[i].account, voice[i].window)]
    /\ UNCHANGED <<age, received, landed, identity, consents, scores>>

-------------------------------------------------------------------- \* the score

\* The decision's message is a day old.
Ripe == Day <= age

\* Someone other than the customer answered in the day after the message.
InItsDay(m) == received[m] # Nobody /\ received[m] <= Day
Engaged == \E m \in ThreadReplies : ByHuman(m) /\ Author[m] # "customer" /\ InItsDay(m)

\* GET /api/eval/triage
Score ==
  /\ Ripe /\ Cardinality(scores) < MaxScores
  /\ scores' = scores \cup {[engaged |-> Engaged, at |-> age]}
  /\ UNCHANGED <<age, received, landed, identity, consents, voice>>

ReadersNext == AgePasses \/ Receive \/ Land \/ Consent \/ NameSpeaker \/ SampleVoice \/ Score

ReadersSpec == ReadersInit /\ [][ReadersNext]_readerVars

------------------------------------------------------------------ \* properties

Instants == 0..MaxAge
VoiceRecords ==
  [window : Nat, speaker : Engineers \cup {Nobody}, account : SlackAccounts \cup {Nobody},
   samples : SUBSET ThreadReplies, memoized : BOOLEAN]

\* Every variable has its type.
ReadersTypeOK ==
  /\ age \in Instants
  /\ {received, landed} \subseteq [ThreadReplies -> Instants \cup {Nobody}]
  /\ identity \in [Engineers -> [account : SlackAccounts, at : Instants] \cup {Nobody}]
  /\ consents \subseteq [person : Engineers, at : Instants, again : BOOLEAN]
  /\ scores \subseteq [engaged : BOOLEAN, at : Instants]
  /\ voice \in [Isolates -> VoiceRecords \cup {Nobody}]

Voices == {v \in {voice[i] : i \in Isolates} \ {Nobody} : v.memoized}

\* The row appeared when the window had begun, of a message in flight for longer than the grace.
LandedLate(m, window) ==
  landed[m] # Nobody /\ window * Day <= landed[m] /\ received[m] + Grace < landed[m]

\* The voice is one for a day: isolates that name the same speaker show the same samples,
\* whoever connects meanwhile, but for messages that were in flight for longer than the
\* grace; none of them is the agent's own; they name another speaker only after someone
\* connected again that day or in the grace before.
VoiceIsFrozenButForConsents ==
  /\ \A v, w \in Voices :
       v.window = w.window =>
         IF v.speaker = w.speaker THEN \A m \in v.samples \ w.samples : LandedLate(m, v.window)
         ELSE \E c \in consents : c.again /\ ~BeforeWindow(c.at, v.window)
  /\ \A v \in Voices : v.samples \cap OwnSend = {}

\* A score changes only because a reply of that day landed after it, and only for the
\* better; the agent's own sends and the customer's next words are not an engagement.
ScoresChangeForLateRepliesOnly ==
  /\ \A s, t \in scores :
       ~s.engaged /\ t.engaged =>
         /\ s.at <= t.at
         /\ \E m \in ThreadReplies : InItsDay(m) /\ landed[m] # Nobody /\ landed[m] >= Day
  /\ \A s \in scores :
       s.engaged => \E m \in ThreadReplies \ OwnSend : Author[m] # "customer" /\ InItsDay(m)
=============================================================================
