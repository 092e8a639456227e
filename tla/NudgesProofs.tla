----------------------------- MODULE NudgesProofs -----------------------------
(***************************************************************************)
(* The safety properties of Nudges, for any number of sweeps and failures. *)
(***************************************************************************)
EXTENDS Nudges, SequenceTheorems, TLAPS

Posts == [landed : BOOLEAN, confirmed : BOOLEAN, button : BOOLEAN]

SenderPCs == {"idle", "target", "claim", "open", "post", "record", "release"}

SenderRecords == [pc : SenderPCs, message : Nat \cup {None}]

NudgeTyped ==
  /\ row \in [pending : BOOLEAN, nudged : BOOLEAN, ts : Nat \cup {None}]
  /\ sender \in [Senders -> SenderRecords]
  /\ messages \in Seq(Posts)
  /\ editor \in [pc : {"none", "update", "done"}, ts : Nat \cup {None}]
  /\ failures \in Nat /\ blurred \in BOOLEAN
  /\ \A s \in Senders : sender[s].pc = "idle" => sender[s] = Idle
  /\ row.ts # None => row.ts \in DOMAIN messages
  /\ editor.ts # None => editor.ts \in DOMAIN messages

-----------------------------------------------------------------------------
(* The claim: who posts holds it, and whoever posted leaves it.            *)

Holds(s) == sender[s].pc \in {"open", "post", "record", "release"}

\* Before its post was confirmed.
Trying(s) == sender[s].pc \in {"open", "post", "release"}

ClaimInv ==
  /\ \A s \in Senders : Holds(s) => row.nudged
  /\ \A s, t \in Senders : Holds(s) /\ Holds(t) => s = t
  /\ NoPageAfterConfirmed
  /\ \A i \in DOMAIN messages : messages[i].confirmed =>
       row.nudged /\ \A s \in Senders : ~Trying(s)
  /\ \A s \in Senders : sender[s].pc = "record" =>
       /\ sender[s].message = Len(messages) /\ messages # <<>>
       /\ messages[Len(messages)].confirmed
  /\ row.ts # None => messages[row.ts].confirmed

-----------------------------------------------------------------------------
(* The link, as long as nothing happened that rewriting cannot survive.    *)

LinkInv ==
  ~blurred =>
    /\ \A i \in DOMAIN messages :
         /\ messages[i].confirmed
         /\ row.ts = i \/ \E s \in Senders : sender[s].pc = "record"
    /\ ~row.pending => \A s \in Senders : sender[s] = Idle
    /\ editor.pc # "none" => ~row.pending
    /\ editor.pc = "update" => editor.ts = row.ts
    /\ editor.pc = "done" /\ row.ts # None => ~messages[row.ts].button

Inv == NudgeTyped /\ ClaimInv /\ LinkInv

-----------------------------------------------------------------------------
(* Types.                                                                  *)

LEMMA RecordsTyped ==
  /\ Idle \in SenderRecords /\ Idle.pc = "idle"
  /\ \A pc \in SenderPCs : At(pc) \in SenderRecords /\ At(pc).pc = pc
BY DEF Idle, At, SenderRecords, SenderPCs

\* A sender that goes on is typed, and only one that returns is idle.
LEMMA BecomesTyped ==
  ASSUME NudgeTyped, NEW s \in Senders, NEW state \in SenderRecords, Becomes(s, state),
         state.pc = "idle" => state = Idle
  PROVE  /\ sender' \in [Senders -> SenderRecords]
         /\ \A t \in Senders : sender'[t].pc = "idle" => sender'[t] = Idle
BY DEF NudgeTyped, Becomes

LEMMA FailTyped ==
  ASSUME NudgeTyped, Fail \/ UNCHANGED failures
  PROVE  failures' \in Nat
BY DEF NudgeTyped, Fail

LEMMA AppendTyped ==
  ASSUME NudgeTyped, NEW post \in Posts, messages' = Append(messages, post)
  PROVE  /\ messages' \in Seq(Posts) /\ Len(messages') = Len(messages) + 1
         /\ DOMAIN messages' = 1..(Len(messages) + 1)
         /\ messages'[Len(messages) + 1] = post
         /\ \A i \in DOMAIN messages : i \in DOMAIN messages' /\ messages'[i] = messages[i]
         /\ \A i \in DOMAIN messages' : i \in DOMAIN messages \/ i = Len(messages) + 1
BY AppendProperties DEF NudgeTyped

\* chat.update takes the button off one message and changes nothing else.
LEMMA ButtonOff ==
  ASSUME NudgeTyped, NEW k \in DOMAIN messages,
         messages' = [messages EXCEPT ![k].button = FALSE]
  PROVE  /\ messages' \in Seq(Posts) /\ Len(messages') = Len(messages)
         /\ DOMAIN messages' = DOMAIN messages
         /\ ~messages'[k].button
         /\ \A i \in DOMAIN messages : messages'[i].confirmed = messages[i].confirmed
<1> DEFINE post == [messages[k] EXCEPT !.button = FALSE]
<1>1. messages \in Seq(Posts) /\ k \in 1..Len(messages) /\ messages[k] \in Posts
  BY DEF NudgeTyped
<1>2. post \in Posts /\ ~post.button /\ post.confirmed = messages[k].confirmed
  BY <1>1 DEF Posts
<1>3. messages' = [messages EXCEPT ![k] = post]
  OBVIOUS
<1>4. messages[k].confirmed = messages'[k].confirmed /\ messages'[k] = post
  BY <1>1, <1>2, <1>3
<1> HIDE DEF post
<1>5. /\ messages' \in Seq(Posts) /\ Len(messages') = Len(messages)
      /\ \A i \in DOMAIN messages : i # k => messages'[i] = messages[i]
  <2> DEFINE new == [messages EXCEPT ![k] = post]
  <2>1. /\ new \in Seq(Posts) /\ Len(new) = Len(messages)
        /\ \A i \in 1..Len(messages) : new[i] = IF i = k THEN post ELSE messages[i]
    BY <1>1, <1>2, ExceptSeq
  <2>2. DOMAIN messages = 1..Len(messages)
    BY <1>1, LenProperties
  <2> HIDE DEF new
  <2> QED BY <1>3, <2>1, <2>2 DEF new
<1>6. DOMAIN messages' = DOMAIN messages
  BY <1>1, <1>5, LenProperties
<1> QED BY <1>2, <1>4, <1>5, <1>6

LEMMA InitTyped == NudgeInit => NudgeTyped
<1> SUFFICES ASSUME NudgeInit PROVE NudgeTyped
  OBVIOUS
<1>1. messages \in Seq(Posts) /\ sender \in [Senders -> SenderRecords]
  BY RecordsTyped, EmptySeq DEF NudgeInit
<1>2. \A s \in Senders : sender[s] = Idle
  BY DEF NudgeInit
<1>3. /\ row \in [pending : BOOLEAN, nudged : BOOLEAN, ts : Nat \cup {None}] /\ row.ts = None
      /\ editor \in [pc : {"none", "update", "done"}, ts : Nat \cup {None}] /\ editor.ts = None
  BY DEF NudgeInit
<1> QED BY <1>1, <1>2, <1>3 DEF NudgeInit, NudgeTyped

LEMMA SenderKeepsTyped ==
  ASSUME NudgeTyped, ClaimInv, NEW s \in Senders, SenderStep(s)
  PROVE  NudgeTyped'
<1> USE RecordsTyped, BecomesTyped, FailTyped DEF SenderPCs
<1>1. CASE ResolveTarget(s)
  BY <1>1 DEF ResolveTarget, Returns, NudgeTyped
<1>2. CASE ClaimNudge(s)
  <2>1. row' \in [pending : BOOLEAN, nudged : BOOLEAN, ts : Nat \cup {None}] /\ row'.ts = row.ts
    BY <1>2 DEF ClaimNudge, Claimable, NudgeTyped
  <2> QED BY <1>2, <2>1 DEF ClaimNudge, Returns, NudgeTyped
<1>3. CASE OpenConversation(s)
  BY <1>3 DEF OpenConversation, NudgeTyped
<1>4. CASE PostMessage(s)
  <2>1. \/ messages' = messages
        \/ \E post \in Posts : messages' = Append(messages, post)
    <3>1. \A landed, confirmed \in BOOLEAN :
            [landed |-> landed, confirmed |-> confirmed, button |-> TRUE] \in Posts
      BY DEF Posts
    <3> QED BY <1>4, <3>1 DEF PostMessage
  <2>2. messages' \in Seq(Posts) /\ \A i \in DOMAIN messages : i \in DOMAIN messages'
    BY <2>1, AppendTyped DEF NudgeTyped
  <2>3. [pc |-> "record", message |-> Len(messages) + 1] \in SenderRecords
    BY DEF SenderRecords, NudgeTyped
  <2>4. /\ sender' \in [Senders -> SenderRecords]
        /\ \A t \in Senders : sender'[t].pc = "idle" => sender'[t] = Idle
    BY <1>4, <2>3 DEF PostMessage
  <2>5. failures' \in Nat /\ blurred' \in BOOLEAN
    BY <1>4 DEF PostMessage, NudgeTyped
  <2> QED BY <1>4, <2>2, <2>4, <2>5 DEF PostMessage, NudgeTyped
<1>5. CASE Release(s)
  BY <1>5 DEF Release, Returns, Released, NudgeTyped
<1>6. CASE RecordNudgeMessage(s)
  <2>1. sender[s].message \in DOMAIN messages /\ sender[s].message \in Nat
    BY <1>6 DEF RecordNudgeMessage, ClaimInv, NudgeTyped
  <2>2. row' = [row EXCEPT !.ts = sender[s].message] \/ row' = row
    BY <1>6 DEF RecordNudgeMessage
  <2>3. /\ row' \in [pending : BOOLEAN, nudged : BOOLEAN, ts : Nat \cup {None}]
        /\ row'.ts # None => row'.ts \in DOMAIN messages
    BY <2>1, <2>2 DEF NudgeTyped
  <2> QED BY <1>6, <2>3 DEF RecordNudgeMessage, KeepUnrecorded, Returns, NudgeTyped
<1> QED BY <1>1, <1>2, <1>3, <1>4, <1>5, <1>6 DEF SenderStep

LEMMA NextKeepsTyped ==
  ASSUME NudgeTyped, ClaimInv, [NudgeNext]_nudgeVars
  PROVE  NudgeTyped'
<1> USE RecordsTyped, BecomesTyped, FailTyped DEF SenderPCs
<1>1. CASE AlarmFires
  <2>1. Alarm \in Senders
    BY DEF Senders
  <2> QED BY <1>1, <2>1 DEF AlarmFires, Returns, NudgeTyped
<1>2. CASE SettleCard
  <2>1. /\ row' \in [pending : BOOLEAN, nudged : BOOLEAN, ts : Nat \cup {None}]
        /\ row'.ts = row.ts /\ blurred' \in BOOLEAN
    BY <1>2 DEF SettleCard, NudgeTyped
  <2> QED BY <1>2, <2>1 DEF SettleCard, NudgeTyped
<1>3. CASE UpdateNudge
  <2>1. editor' = [editor EXCEPT !.pc = "done"]
        /\ (messages' = messages
             \/ (editor.ts # None /\ messages' = [messages EXCEPT ![editor.ts].button = FALSE]))
    BY <1>3 DEF UpdateNudge
  <2>2. messages' \in Seq(Posts) /\ DOMAIN messages' = DOMAIN messages
    BY <2>1, ButtonOff DEF NudgeTyped
  <2> QED BY <1>3, <2>1, <2>2 DEF UpdateNudge, NudgeTyped
<1>4. CASE ReadSettled \/ EditorDies
  <2>1. /\ editor' \in [pc : {"none", "update", "done"}, ts : Nat \cup {None}]
        /\ editor'.ts \in {None, row.ts, editor.ts} /\ blurred' \in BOOLEAN
    <3>1. \/ editor' = [pc |-> "update", ts |-> row.ts]
          \/ editor' = [pc |-> "none", ts |-> None]
          \/ editor' = [editor EXCEPT !.pc = "done"]
      BY <1>4 DEF ReadSettled, EditorDies
    <3>2. blurred' \in BOOLEAN
      BY <1>4 DEF ReadSettled, EditorDies, NudgeTyped
    <3> QED BY <3>1, <3>2 DEF NudgeTyped
  <2>2. UNCHANGED <<row, sender, messages>> /\ failures' \in Nat
    BY <1>4 DEF ReadSettled, EditorDies
  <2> QED BY <2>1, <2>2 DEF NudgeTyped
<1>5. ASSUME NEW s \in Senders, Sweep(s) \/ Dies(s) PROVE NudgeTyped'
  BY <1>5 DEF Sweep, Dies, NudgeTyped
<1>6. CASE UNCHANGED nudgeVars
  BY <1>6 DEF nudgeVars, NudgeTyped
<1> QED BY <1>1, <1>2, <1>3, <1>4, <1>5, <1>6, SenderKeepsTyped DEF NudgeNext

-----------------------------------------------------------------------------
(* The claim.                                                              *)

\* Steps that post nothing, release nothing and claim nothing: the senders that hold the
\* claim hold on to it or are gone.
LEMMA HoldingKeepsClaim ==
  ASSUME NudgeTyped, ClaimInv,
         messages' = messages, row'.nudged = row.nudged, row'.ts = row.ts,
         \A s \in Senders :
           /\ Holds(s)' => Holds(s)
           /\ Trying(s)' => Trying(s)
           /\ sender'[s].pc = "record" => sender'[s] = sender[s]
  PROVE  ClaimInv'
BY DEF ClaimInv, NoPageAfterConfirmed

LEMMA SenderKeepsClaim ==
  ASSUME NudgeTyped, ClaimInv, NEW s \in Senders, SenderStep(s)
  PROVE  ClaimInv'
<1> USE RecordsTyped DEF SenderPCs
<1>0. \A state : Becomes(s, state) =>
        sender'[s] = state /\ \A t \in Senders \ {s} : sender'[t] = sender[t]
  BY DEF Becomes, NudgeTyped
<1>1. CASE ResolveTarget(s) \/ OpenConversation(s)
  BY <1>0, <1>1, HoldingKeepsClaim
     DEF ResolveTarget, OpenConversation, Returns, Holds, Trying
<1>2. CASE ClaimNudge(s)
  <2>1. CASE row.nudged
    <3>1. sender'[s] = Idle /\ row' = row /\ messages' = messages
      BY <1>0, <1>2, <2>1 DEF ClaimNudge, Returns, Claimable, NudgeTyped
    <3> QED BY <1>0, <1>2, <3>1, HoldingKeepsClaim DEF ClaimNudge, Returns, Holds, Trying
  <2>2. CASE ~row.nudged
    <3>1. /\ \A t \in Senders : ~Holds(t)
          /\ \A i \in DOMAIN messages : ~messages[i].confirmed
          /\ row.ts = None /\ messages' = messages /\ row'.ts = row.ts
      BY <1>2, <2>2 DEF ClaimNudge, Claimable, ClaimInv, NudgeTyped
    <3>2. \/ sender'[s].pc = "open" /\ row' = [row EXCEPT !.nudged = TRUE]
          \/ sender'[s].pc = "idle"
      BY <1>0, <1>2, <2>2 DEF ClaimNudge, Returns, Claimable
    <3>3. \A t \in Senders \ {s} : sender'[t] = sender[t]
      BY <1>0, <1>2 DEF ClaimNudge, Returns
    <3>4. \A t \in Senders : sender'[t].pc # "record" /\ (Holds(t)' => t = s)
      BY <3>1, <3>2, <3>3 DEF Holds
    <3>5. Holds(s)' => row'.nudged
      BY <3>2 DEF Holds, NudgeTyped
    <3> QED BY <3>1, <3>4, <3>5 DEF ClaimInv, NoPageAfterConfirmed
  <2> QED BY <2>1, <2>2 DEF NudgeTyped
<1>3. CASE PostMessage(s)
  <2>1. /\ row' = row /\ row.nudged /\ Holds(s) /\ Trying(s)
        /\ \A i \in DOMAIN messages : ~messages[i].confirmed
        /\ row.ts = None
        /\ \A t \in Senders : Holds(t)' => t = s
        /\ \A t \in Senders \ {s} : sender'[t].pc # "record"
    BY <1>0, <1>3 DEF PostMessage, ClaimInv, Holds, Trying, NudgeTyped
  <2>2. CASE messages' = messages
    <3>1. CASE sender'[s].pc = "release"
      BY <2>1, <2>2, <3>1 DEF ClaimInv, NoPageAfterConfirmed, Holds
    <3>2. CASE sender'[s].pc # "release"
      BY <1>0, <1>3, <2>2, <3>2, AppendTyped DEF PostMessage
    <3> QED BY <3>1, <3>2
  <2>3. ASSUME NEW landed \in BOOLEAN, Becomes(s, At("release")),
               messages' = Append(messages, [landed |-> landed, confirmed |-> FALSE, button |-> TRUE])
        PROVE  ClaimInv'
    <3> DEFINE post == [landed |-> landed, confirmed |-> FALSE, button |-> TRUE]
    <3>1. post \in Posts /\ ~post.confirmed
      BY DEF Posts
    <3> HIDE DEF post
    <3>2. \A i \in DOMAIN messages' : ~messages'[i].confirmed
      BY <2>1, <2>3, <3>1, AppendTyped DEF post
    <3>3. sender'[s].pc = "release"
      BY <1>0, <2>3
    <3> QED BY <2>1, <3>2, <3>3 DEF ClaimInv, NoPageAfterConfirmed
  <2>4. ASSUME Becomes(s, [pc |-> "record", message |-> Len(messages) + 1]),
               messages' = Append(messages, [landed |-> TRUE, confirmed |-> TRUE, button |-> TRUE])
        PROVE  ClaimInv'
    <3> DEFINE post == [landed |-> TRUE, confirmed |-> TRUE, button |-> TRUE]
    <3>1. post \in Posts /\ post.confirmed
      BY DEF Posts
    <3> HIDE DEF post
    <3>2. /\ Len(messages') = Len(messages) + 1 /\ messages'[Len(messages')].confirmed
          /\ messages' # <<>>
          /\ \A i \in DOMAIN messages' : messages'[i].confirmed => i = Len(messages')
      BY <2>1, <2>4, <3>1, AppendTyped DEF post
    <3>3. sender'[s].pc = "record" /\ sender'[s].message = Len(messages')
      BY <1>0, <2>4, <3>2
    <3>4. \A t \in Senders : ~Trying(t)'
      BY <2>1, <3>3 DEF Trying, Holds
    <3> QED BY <2>1, <3>2, <3>3, <3>4 DEF ClaimInv, NoPageAfterConfirmed
  <2> QED BY <1>3, <2>2, <2>3, <2>4 DEF PostMessage
<1>4. CASE RecordNudgeMessage(s)
  <2>1. /\ sender'[s] = Idle /\ messages' = messages /\ row'.nudged = row.nudged
        /\ row'.ts = row.ts \/ row'.ts = sender[s].message
        /\ sender[s].pc = "record"
    BY <1>0, <1>4 DEF RecordNudgeMessage, KeepUnrecorded, Returns, NudgeTyped
  <2>2. /\ \A t \in Senders : Holds(t)' => Holds(t) /\ t # s
        /\ \A t \in Senders : Trying(t)' => Trying(t)
        /\ \A t \in Senders : sender'[t].pc = "record" => sender'[t] = sender[t]
    <3>1. \A t \in Senders \ {s} : sender'[t] = sender[t]
      BY <1>0, <1>4 DEF RecordNudgeMessage, KeepUnrecorded, Returns
    <3> QED BY <2>1, <3>1 DEF Holds, Trying
  <2> QED BY <2>1, <2>2 DEF ClaimInv, NoPageAfterConfirmed
<1>5. CASE Release(s)
  <2>1. /\ sender'[s] = Idle /\ messages' = messages /\ row'.ts = row.ts
        /\ \A i \in DOMAIN messages : ~messages[i].confirmed
        /\ \A t \in Senders : Holds(t) => t = s
    BY <1>0, <1>5 DEF Release, Returns, Released, ClaimInv, Trying, Holds, NudgeTyped
  <2>2. \A t \in Senders : ~Holds(t)' /\ sender'[t].pc # "record"
    BY <1>0, <1>5, <2>1 DEF Holds, Release, Returns
  <2>3. row.ts = None
    BY <2>1 DEF ClaimInv, NudgeTyped
  <2> QED BY <2>1, <2>2, <2>3 DEF ClaimInv, NoPageAfterConfirmed, Trying, Holds
<1> QED BY <1>1, <1>2, <1>3, <1>4, <1>5 DEF SenderStep

LEMMA NextKeepsClaim ==
  ASSUME NudgeTyped, ClaimInv, [NudgeNext]_nudgeVars
  PROVE  ClaimInv'
<1> USE RecordsTyped DEF SenderPCs
<1>1. CASE AlarmFires
  <2>1. /\ UNCHANGED <<row, messages>> /\ Alarm \in Senders
        /\ sender'[Alarm].pc \in {"target", "idle"}
        /\ \A t \in Senders \ {Alarm} : sender'[t] = sender[t]
    BY <1>1 DEF AlarmFires, Returns, Becomes, NudgeTyped, Senders
  <2> QED BY <2>1, HoldingKeepsClaim DEF Holds, Trying
<1>2. CASE SettleCard \/ ReadSettled \/ EditorDies \/ UNCHANGED nudgeVars
  <2>1. messages' = messages /\ row'.nudged = row.nudged /\ row'.ts = row.ts /\ sender' = sender
    BY <1>2 DEF SettleCard, ReadSettled, EditorDies, nudgeVars, NudgeTyped
  <2> QED BY <2>1, HoldingKeepsClaim DEF Holds, Trying
<1>3. CASE UpdateNudge
  <2>1. UNCHANGED <<row, sender>> /\ Len(messages') = Len(messages)
        /\ DOMAIN messages' = DOMAIN messages
        /\ \A i \in DOMAIN messages : messages'[i].confirmed = messages[i].confirmed
    <3>1. \/ messages' = messages
          \/ editor.ts # None /\ messages' = [messages EXCEPT ![editor.ts].button = FALSE]
      BY <1>3 DEF UpdateNudge
    <3>2. UNCHANGED <<row, sender>>
      BY <1>3 DEF UpdateNudge
    <3> QED BY <3>1, <3>2, ButtonOff DEF NudgeTyped
  <2>2. messages # <<>> => messages' # <<>>
    BY <2>1 DEF NudgeTyped
  <2>3. messages # <<>> => Len(messages) \in DOMAIN messages
    BY DEF NudgeTyped
  <2> QED BY <2>1, <2>2, <2>3 DEF ClaimInv, NoPageAfterConfirmed, Holds, Trying, NudgeTyped
<1>4. ASSUME NEW s \in Senders, Sweep(s) \/ Dies(s) PROVE ClaimInv'
  <2>1. /\ UNCHANGED <<row, messages>>
        /\ sender'[s].pc \in {"target", "idle"}
        /\ \A t \in Senders \ {s} : sender'[t] = sender[t]
    BY <1>4 DEF Sweep, Dies, Becomes, NudgeTyped
  <2> QED BY <2>1, HoldingKeepsClaim DEF Holds, Trying
<1> QED BY <1>1, <1>2, <1>3, <1>4, SenderKeepsClaim DEF NudgeNext

-----------------------------------------------------------------------------
(* The link.                                                               *)

\* A sender that goes on without a post while the card waits.
LEMMA WaitingKeepsLink ==
  ASSUME NudgeTyped, LinkInv, UNCHANGED <<row, messages, editor>>, row.pending,
         ~blurred' => ~blurred,
         \A s \in Senders : sender[s].pc = "record" => sender'[s].pc = "record"
  PROVE  LinkInv'
BY DEF LinkInv

\* While nothing is blurred, a sender at work means that the card waits, and that nobody
\* has begun to rewrite its message.
LEMMA WorkMeansWaiting ==
  ASSUME NudgeTyped, LinkInv, ~blurred, NEW s \in Senders, sender[s] # Idle
  PROVE  row.pending /\ editor.pc = "none"
BY DEF LinkInv, NudgeTyped

LEMMA SenderKeepsLink ==
  ASSUME NudgeTyped, ClaimInv, LinkInv, NEW s \in Senders, SenderStep(s)
  PROVE  LinkInv'
<1> USE RecordsTyped DEF SenderPCs
<1> SUFFICES ASSUME ~blurred' PROVE LinkInv'
  BY DEF LinkInv
<1>0. /\ \A state : Becomes(s, state) =>
           sender'[s] = state /\ \A t \in Senders \ {s} : sender'[t] = sender[t]
      /\ ~blurred /\ sender[s] # Idle /\ editor' = editor
  BY DEF Becomes, NudgeTyped, SenderStep, ResolveTarget, ClaimNudge, OpenConversation,
         PostMessage, RecordNudgeMessage, Release
<1>1. row.pending /\ editor.pc = "none"
  BY <1>0, WorkMeansWaiting
<1>2. CASE ResolveTarget(s) \/ OpenConversation(s)
  BY <1>0, <1>1, <1>2, WaitingKeepsLink DEF ResolveTarget, OpenConversation, Returns
<1>3. CASE ClaimNudge(s) \/ Release(s)
  <2>1. /\ row'.ts = row.ts /\ row'.pending = row.pending /\ messages' = messages
        /\ sender[s].pc # "record"
        /\ \A t \in Senders \ {s} : sender'[t] = sender[t]
    BY <1>0, <1>3 DEF ClaimNudge, Release, Returns, Released, NudgeTyped
  <2> QED BY <1>0, <1>1, <2>1 DEF LinkInv
<1>4. CASE PostMessage(s)
  <2>1. /\ row' = row /\ sender[s].pc = "post"
        /\ \A i \in DOMAIN messages : ~messages[i].confirmed
    BY <1>4 DEF PostMessage, ClaimInv, Trying
  <2>2. DOMAIN messages = {}
    BY <1>0, <2>1 DEF LinkInv
  <2>3. CASE messages' = messages
    BY <1>0, <1>1, <2>1, <2>2, <2>3 DEF LinkInv
  <2>4. CASE messages' # messages
    <3> DEFINE post == [landed |-> TRUE, confirmed |-> TRUE, button |-> TRUE]
    <3>1. messages' = Append(messages, post) /\ sender'[s].pc = "record"
      BY <1>0, <1>4, <2>4 DEF PostMessage
    <3>2. post \in Posts /\ post.confirmed
      BY DEF Posts
    <3> HIDE DEF post
    <3>3. \A i \in DOMAIN messages' : messages'[i].confirmed
      BY <2>2, <3>1, <3>2, AppendTyped
    <3> QED BY <1>0, <1>1, <2>1, <3>1, <3>3 DEF LinkInv
  <2> QED BY <2>3, <2>4
<1>5. CASE RecordNudgeMessage(s)
  <2>1. /\ row' = [row EXCEPT !.ts = Len(messages)] /\ messages' = messages
        /\ sender[s].pc = "record"
    BY <1>0, <1>5 DEF RecordNudgeMessage, ClaimInv
  <2>2. row'.ts = Len(messages) /\ row'.pending
    BY <1>1, <2>1 DEF NudgeTyped
  <2>3. \A i \in DOMAIN messages : messages[i].confirmed /\ i = Len(messages)
    BY <1>0 DEF LinkInv, ClaimInv, NoPageAfterConfirmed
  <2> QED BY <1>0, <1>1, <2>1, <2>2, <2>3 DEF LinkInv
<1> QED BY <1>2, <1>3, <1>4, <1>5 DEF SenderStep

LEMMA NextKeepsLink ==
  ASSUME NudgeTyped, ClaimInv, LinkInv, [NudgeNext]_nudgeVars
  PROVE  LinkInv'
<1> USE RecordsTyped DEF SenderPCs
<1> SUFFICES ASSUME ~blurred' PROVE LinkInv'
  BY DEF LinkInv
<1>1. CASE AlarmFires
  <2>1. /\ UNCHANGED <<row, messages, editor, blurred>> /\ Alarm \in Senders
        /\ sender[Alarm] = Idle
        /\ sender'[Alarm] = IF row.pending THEN At("target") ELSE Idle
        /\ \A t \in Senders \ {Alarm} : sender'[t] = sender[t]
    BY <1>1 DEF AlarmFires, Pending, Returns, Becomes, NudgeTyped, Senders
  <2>2. \A t \in Senders :
          /\ sender[t].pc = "record" => sender'[t].pc = "record"
          /\ ~row.pending /\ sender[t] = Idle => sender'[t] = Idle
    BY <2>1
  <2> QED BY <2>1, <2>2 DEF LinkInv
<1>2. CASE SettleCard
  <2>1. /\ row' = [row EXCEPT !.pending = FALSE] /\ UNCHANGED <<sender, messages, editor>>
        /\ row.pending /\ ~blurred /\ \A t \in Senders : sender[t] = Idle
    BY <1>2 DEF SettleCard
  <2>2. row'.ts = row.ts
    BY <2>1 DEF NudgeTyped
  <2> QED BY <2>1, <2>2 DEF LinkInv, NudgeTyped
<1>3. CASE ReadSettled
  <2>1. editor'.pc = "update" /\ editor'.ts = row.ts /\ ~row.pending
    BY <1>3 DEF ReadSettled
  <2> QED BY <1>3, <2>1 DEF ReadSettled, LinkInv
<1>4. CASE UpdateNudge
  <2>1. /\ UNCHANGED <<row, sender, blurred>> /\ editor.pc = "update" /\ editor'.pc = "done"
        /\ \/ editor.ts = None /\ messages' = messages
           \/ editor.ts # None /\ messages' = [messages EXCEPT ![editor.ts].button = FALSE]
    BY <1>4 DEF UpdateNudge, NudgeTyped
  <2>2. editor.ts = row.ts /\ ~row.pending
    BY <2>1 DEF LinkInv
  <2>3. CASE editor.ts = None
    BY <2>1, <2>2, <2>3 DEF LinkInv
  <2>4. CASE editor.ts # None
    <3>1. /\ DOMAIN messages' = DOMAIN messages /\ ~messages'[row.ts].button
          /\ \A i \in DOMAIN messages : messages'[i].confirmed = messages[i].confirmed
      BY <2>1, <2>2, <2>4, ButtonOff DEF NudgeTyped
    <3> QED BY <2>1, <2>2, <3>1 DEF LinkInv
  <2> QED BY <2>3, <2>4
<1>5. CASE EditorDies
  <2>1. editor'.pc = "none" /\ UNCHANGED <<row, sender, messages, blurred>>
    BY <1>5 DEF EditorDies
  <2> QED BY <2>1 DEF LinkInv
<1>6. ASSUME NEW s \in Senders, Sweep(s) PROVE LinkInv'
  <2>1. /\ UNCHANGED <<row, messages, editor, blurred>> /\ row.pending /\ sender[s].pc = "idle"
        /\ \A t \in Senders \ {s} : sender'[t] = sender[t]
    BY <1>6 DEF Sweep, Pending, Becomes, NudgeTyped
  <2> QED BY <2>1, WaitingKeepsLink
<1>7. ASSUME NEW s \in Senders, Dies(s) PROVE LinkInv'
  <2>1. /\ UNCHANGED <<row, messages, editor, blurred>> /\ sender[s].pc # "record"
        /\ sender'[s] = Idle
        /\ \A t \in Senders \ {s} : sender'[t] = sender[t]
    BY <1>7 DEF Dies, Becomes, NudgeTyped
  <2>2. \A t \in Senders :
          /\ sender[t].pc = "record" => sender'[t].pc = "record"
          /\ sender[t] = Idle => sender'[t] = Idle
    BY <2>1
  <2> QED BY <2>1, <2>2 DEF LinkInv
<1>8. CASE UNCHANGED nudgeVars
  BY <1>8 DEF nudgeVars, LinkInv
<1> QED BY <1>1, <1>2, <1>3, <1>4, <1>5, <1>6, <1>7, <1>8, SenderKeepsLink DEF NudgeNext

-----------------------------------------------------------------------------
(* The invariant and its consequences.                                     *)

\* Every reachable state satisfies the invariant.
THEOREM Invariance == NudgeSpec => []Inv
<1>1. NudgeInit => Inv
  <2> SUFFICES ASSUME NudgeInit PROVE ClaimInv /\ LinkInv
    BY InitTyped DEF Inv
  <2>1. DOMAIN messages = {} /\ (\A s \in Senders : sender[s] = Idle) /\ editor.pc = "none"
        /\ row.ts = None
    BY DEF NudgeInit
  <2> QED BY <2>1, RecordsTyped
             DEF ClaimInv, LinkInv, NoPageAfterConfirmed, Holds, Trying
<1>2. Inv /\ [NudgeNext]_nudgeVars => Inv'
  BY NextKeepsTyped, NextKeepsClaim, NextKeepsLink DEF Inv
<1> QED BY <1>1, <1>2, PTL DEF NudgeSpec

\* However many sweeps overlap with the alarm and wherever they die: after a confirmed
\* post nobody posts again, the row names the confirmed message only, and no button
\* outlives its card without a step that no rewriting can survive (sendNudge, updateNudge).
THEOREM SafeNudges == NudgeSpec => []NudgesSafe
<1>1. Inv => NoPageAfterConfirmed
  BY DEF Inv, ClaimInv
<1>2. Inv => RowNamesMessage
  BY DEF Inv, ClaimInv, NudgeTyped, RowNamesMessage
<1>3. Inv => NoDeadLink
  <2> SUFFICES ASSUME Inv, editor.pc = "done", ~blurred, NEW i \in DOMAIN messages
               PROVE  ~messages[i].button
    BY DEF NoDeadLink
  <2>1. \A s \in Senders : sender[s] = Idle
    BY DEF Inv, LinkInv
  <2>2. row.ts = i
    BY <2>1, RecordsTyped DEF Inv, LinkInv
  <2> QED BY <2>2, NoneAssumption DEF Inv, LinkInv, NudgeTyped
<1> QED BY <1>1, <1>2, <1>3, Invariance, PTL DEF NudgesSafe

===============================================================================
