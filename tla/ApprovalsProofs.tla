--------------------------- MODULE ApprovalsProofs ---------------------------
(***************************************************************************)
(* The safety properties of Approvals, for any number of cards, wakes,     *)
(* invocations, calls and failures.                                        *)
(***************************************************************************)
EXTENDS Approvals, TLAPS

\* Where an invocation that carries a resolution may be.
Carrying == {"notify", "claim", "suppress", "doubt", "send", "settle",
             "unpark", "mark"}

Resolved(c) ==
  \/ card[c].decision = "rejected"
  \/ card[c].decision \in Sendable /\ card[c].delivery \in Settled

\* What an invocation knows of its card at each of its steps.
JobInv(w) ==
  LET j == job[w] IN
  /\ j.pc \in Carrying => j.turn \in Cards
  /\ j.pc \in {"note", "submit"} => j.turn \in Turns
  /\ j.pc = "notify" => card[j.turn].decision \in Decided
  /\ j.pc \in {"claim", "suppress", "doubt", "send", "settle"} =>
       card[j.turn].decision \in Sendable
  /\ j.pc \in {"claim", "send", "settle"} => ~card[j.turn].shadow
  /\ j.pc = "doubt" => card[j.turn].delivery # "none"
  /\ j.pc \in {"send", "settle"} =>
       card[j.turn].delivery \in {"sending", "in_doubt", "suppressed"}
  /\ j.pc = "send" => posts[j.turn] = 0
  /\ j.pc = "settle" =>
       /\ j.out \in Outcomes
       /\ posts[j.turn] \in {0, 1}
       /\ j.out = "sent" => posts[j.turn] = 1
       /\ j.out = "blocked" => posts[j.turn] = 0
  /\ j.pc \in {"unpark", "note", "submit", "mark"} /\ j.turn \in Cards =>
       Resolved(j.turn)
  /\ j.pc = "mark" => turn[j.turn] # "absent"

\* At most one invocation is between winning the claim and recording its outcome.
OneSender ==
  \A v, w \in Workers :
    /\ job[v].pc \in {"send", "settle"} /\ job[w].pc \in {"send", "settle"}
    /\ job[v].turn = job[w].turn
    => v = w

\* Delivery starts only after a verdict that allows it.
CardInv(c) ==
  /\ card[c].delivery # "none" => card[c].decision \in Sendable
  /\ posts[c] \in {0, 1}
  /\ posts[c] = 1 => card[c].decision \in Sendable /\ ~card[c].shadow

CallInv(k) ==
  /\ call[k].pc # "idle" => call[k].card \in Cards
  /\ call[k].pc = "insert" => card[call[k].card].decision = "absent"
  /\ call[k].pc = "park" => card[call[k].card].decision # "absent"

\* No two calls are about to insert the same fresh id.
FreshIds ==
  \A j, k \in Calls :
    call[j].pc = "insert" /\ call[k].pc = "insert" /\ call[j].card = call[k].card
    => j = k

ExpiryInv(c) == expiry[c].pc = "retract" => expiry[c].card \in Cards

Inv ==
  /\ TypeOK
  /\ \A w \in Workers : JobInv(w)
  /\ OneSender
  /\ \A c \in Cards : CardInv(c)
  /\ \A k \in Calls : CallInv(k)
  /\ FreshIds
  /\ \A c \in Cards : ExpiryInv(c)
  /\ OneOpenCard
  /\ DeliveryIsTruthful
  /\ ResolutionAfterOutcome
  /\ MarkedOnlyIfResumed
  /\ ParkedOnRealCard

-----------------------------------------------------------------------------
(* What the helpers of the actions change, record by record.               *)

LEMMA GotoEffect ==
  ASSUME NEW w \in Workers, NEW pc \in JobPCs,
         job \in [Workers -> JobRecords], Goto(w, pc)
  PROVE  /\ job' \in [Workers -> JobRecords]
         /\ job'[w].pc = pc
         /\ job'[w].turn = job[w].turn
         /\ job'[w].out = job[w].out
         /\ \A v \in Workers : v # w => job'[v] = job[v]
BY DEF Goto, JobRecords

LEMMA StartEffect ==
  ASSUME NEW w \in Workers, NEW pc \in JobPCs, NEW t \in Turns,
         job \in [Workers -> JobRecords], Start(w, pc, t)
  PROVE  /\ job' \in [Workers -> JobRecords]
         /\ job[w].pc = "idle"
         /\ job'[w].pc = pc
         /\ job'[w].turn = t
         /\ \A v \in Workers : v # w => job'[v] = job[v]
BY DEF Start, JobRecords, IdleJob

LEMMA FinishEffect ==
  ASSUME NEW w \in Workers, job \in [Workers -> JobRecords], Finish(w)
  PROVE  /\ job' \in [Workers -> JobRecords]
         /\ job'[w].pc = "idle"
         /\ \A v \in Workers : v # w => job'[v] = job[v]
BY DEF Finish, JobRecords, IdleJob, JobPCs

LEMMA SetDeliveryEffect ==
  ASSUME NEW c \in Cards, NEW from, NEW to \in Deliveries,
         card \in [Cards -> Rows], SetDelivery(c, from, to)
  PROVE  /\ card' \in [Cards -> Rows]
         /\ \A d \in Cards : d # c => card'[d] = card[d]
         /\ card'[c].decision = card[c].decision
         /\ card'[c].shadow = card[c].shadow
         /\ card'[c].marked = card[c].marked
         /\ card'[c].delivery = IF card[c].delivery \in from THEN to
                                ELSE card[c].delivery
BY DEF SetDelivery, Rows

LEMMA ConcludeEffect ==
  ASSUME NEW c \in Cards, NEW v \in Decisions,
         card \in [Cards -> Rows], Conclude(c, v)
  PROVE  /\ card' \in [Cards -> Rows]
         /\ \A d \in Cards : d # c => card'[d] = card[d]
         /\ card'[c].delivery = card[c].delivery
         /\ card'[c].shadow = card[c].shadow
         /\ card'[c].marked = card[c].marked
         /\ card'[c].decision = IF card[c].decision = "pending" THEN v
                                ELSE card[c].decision
BY DEF Conclude, Rows

LEMMA ToCallEffect ==
  ASSUME NEW k \in Calls, NEW pc \in CallPCs,
         call \in [Calls -> CallRecords], ToCall(k, pc)
  PROVE  /\ call' \in [Calls -> CallRecords]
         /\ call'[k].pc = pc
         /\ call'[k].card = call[k].card
         /\ \A j \in Calls : j # k => call'[j] = call[j]
BY DEF ToCall, CallRecords

LEMMA StartCallEffect ==
  ASSUME NEW k \in Calls, NEW pc \in CallPCs, NEW c \in Cards \cup {None},
         call \in [Calls -> CallRecords], StartCall(k, pc, c)
  PROVE  /\ call' \in [Calls -> CallRecords]
         /\ call'[k].pc = pc
         /\ call'[k].card = c
         /\ \A j \in Calls : j # k => call'[j] = call[j]
<1> DEFINE r == [pc |-> pc, card |-> c, shadow |-> (program = "shadow")]
<1>1. r \in CallRecords /\ r.pc = pc /\ r.card = c
  BY DEF CallRecords
<1>2. call' = [call EXCEPT ![k] = r]
  BY DEF StartCall
<1> HIDE DEF r
<1> QED BY <1>1, <1>2

LEMMA EndCallEffect ==
  ASSUME NEW k \in Calls, call \in [Calls -> CallRecords], EndCall(k)
  PROVE  /\ call' \in [Calls -> CallRecords]
         /\ call'[k].pc = "idle"
         /\ \A j \in Calls : j # k => call'[j] = call[j]
BY DEF EndCall, CallRecords, IdleCall, CallPCs

-----------------------------------------------------------------------------
(* What holds of the parts of the invariant an action leaves alone.        *)

LEMMA RowsUntouched ==
  ASSUME Inv, UNCHANGED <<card, posts>>
  PROVE  (\A d \in Cards : CardInv(d)') /\ OneOpenCard' /\ DeliveryIsTruthful'
BY DEF Inv, CardInv, OneOpenCard, HoldsSlot, DeliveryIsTruthful

LEMMA CallsUntouched ==
  ASSUME Inv, UNCHANGED <<call, expiry>>,
         \A d \in Cards : card'[d].decision = "absent" <=> card[d].decision = "absent"
  PROVE  (\A k \in Calls : CallInv(k)') /\ FreshIds' /\ (\A d \in Cards : ExpiryInv(d)')
BY DEF Inv, CallInv, FreshIds, ExpiryInv

LEMMA TurnsUntouched ==
  ASSUME Inv, UNCHANGED card, \A d \in Cards : turn'[d] = "absent" <=> turn[d] = "absent"
  PROVE  ResolutionAfterOutcome' /\ MarkedOnlyIfResumed'
BY DEF Inv, ResolutionAfterOutcome, MarkedOnlyIfResumed

LEMMA JobsUntouched ==
  ASSUME Inv, UNCHANGED <<job, posts>>,
         \A d \in Cards : card[d].decision \in Decided => card'[d] = card[d],
         \A t \in Turns : turn'[t] = "absent" <=> turn[t] = "absent"
  PROVE  (\A v \in Workers : JobInv(v)') /\ OneSender'
BY DEF Inv, JobInv, OneSender, Resolved, Decided, Sendable, Carrying, TypeOK, Turns

-----------------------------------------------------------------------------
(* Worker invocations: one lemma for each step that writes a row or posts, *)
(* one for those that do neither.                                          *)

\* The four steps that move the delivery of a card, as one.
LEMMA DeliveryMoves ==
  ASSUME Inv, NEW w \in Workers, NEW c \in Cards,
         NEW from \in SUBSET {"none", "sending"},
         NEW to \in Settled \cup {"sending"}, NEW pc \in JobPCs,
         job[w].pc \in {"claim", "suppress", "doubt", "settle"}, job[w].turn = c,
         SetDelivery(c, from, to), Goto(w, pc),
         UNCHANGED <<runShadow, posts, agent, failures>>,
         JobInv(w)', OneSender',
         to = "sent" => posts[c] = 1,
         to = "blocked" => posts[c] = 0,
         to \in {"sent", "blocked"} => job[w].pc = "settle"
  PROVE  Inv'
<1>1. UNCHANGED <<runShadow, posts, openId, turn, current, program, call, expiry, failures>>
  BY DEF agent
<1>2. /\ job' \in [Workers -> JobRecords]
      /\ \A v \in Workers : v # w => job'[v] = job[v]
  BY GotoEffect DEF Inv, TypeOK
<1>3. /\ card' \in [Cards -> Rows]
      /\ \A d \in Cards : d # c => card'[d] = card[d]
      /\ card'[c].decision = card[c].decision
      /\ card'[c].shadow = card[c].shadow
      /\ card'[c].marked = card[c].marked
      /\ card'[c].delivery = IF card[c].delivery \in from THEN to ELSE card[c].delivery
  BY SetDeliveryEffect DEF Inv, TypeOK, Deliveries
<1>4. card[c].delivery \in Deliveries /\ card[c].decision \in Sendable
  BY DEF Inv, TypeOK, Rows, JobInv
<1>5. TypeOK'
  BY <1>1, <1>2, <1>3 DEF Inv, TypeOK
<1>6. ASSUME NEW v \in Workers PROVE JobInv(v)'
  BY <1>1, <1>2, <1>3, <1>4
     DEF Inv, JobInv, OneSender, Resolved, Settled, Outcomes, Sendable, Carrying
<1>7. \A d \in Cards : CardInv(d)'
  BY <1>1, <1>3, <1>4 DEF Inv, CardInv
<1>8. (\A k \in Calls : CallInv(k)') /\ FreshIds' /\ (\A d \in Cards : ExpiryInv(d)')
  BY <1>1, <1>3, CallsUntouched
<1>9. OneOpenCard'
  BY <1>1, <1>3, <1>4 DEF Inv, OneOpenCard, HoldsSlot, Freeing, Sendable
<1>10. DeliveryIsTruthful'
  BY <1>1, <1>3 DEF Inv, DeliveryIsTruthful, Settled
<1>11. ResolutionAfterOutcome' /\ MarkedOnlyIfResumed' /\ ParkedOnRealCard'
  BY <1>1, <1>3, <1>4
     DEF Inv, ResolutionAfterOutcome, MarkedOnlyIfResumed, ParkedOnRealCard, TypeOK,
         Settled, Sendable
<1> QED BY <1>5, <1>6, <1>7, <1>8, <1>9, <1>10, <1>11 DEF Inv

LEMMA ClaimKeepsInv ==
  ASSUME Inv, NEW w \in Workers, NEW c \in Cards, Claim(w, c)
  PROVE  Inv'
<1> DEFINE to == "sending"
           pc == IF card[c].delivery = "none" THEN "send" ELSE "doubt"
<1>1. /\ job[w].pc = "claim" /\ job[w].turn = c
      /\ SetDelivery(c, {"none"}, to) /\ Goto(w, pc)
      /\ UNCHANGED <<runShadow, posts, agent, failures>>
  BY DEF Claim, At
<1>2. /\ to \in Settled \cup {"sending"} /\ pc \in JobPCs
      /\ to = "sent" => posts[c] = 1
      /\ to = "blocked" => posts[c] = 0
      /\ to \in {"sent", "blocked"} => job[w].pc = "settle"
  BY <1>1 DEF Inv, JobInv, Settled, Outcomes, JobPCs
<1>3. /\ job'[w].pc = pc /\ job'[w].turn = c
      /\ \A v \in Workers : v # w => job'[v] = job[v]
      /\ card'[c].decision = card[c].decision /\ card'[c].shadow = card[c].shadow
      /\ card'[c].delivery = IF card[c].delivery \in {"none"} THEN to ELSE card[c].delivery
  BY <1>1, <1>2, GotoEffect, SetDeliveryEffect DEF Inv, TypeOK, Deliveries
<1>4. JobInv(w)'
  BY <1>1, <1>2, <1>3 DEF Inv, JobInv, CardInv, DeliveryIsTruthful, TypeOK, Rows, Deliveries,
     Settled, Outcomes, Resolved, Carrying, Turns
<1>5. OneSender'
  BY <1>1, <1>3 DEF Inv, OneSender, JobInv
<1> QED BY <1>1, <1>2, <1>4, <1>5, DeliveryMoves DEF agent

LEMMA SettleKeepsInv ==
  ASSUME Inv, NEW w \in Workers, NEW c \in Cards, Settle(w, c)
  PROVE  Inv'
<1> DEFINE to == job[w].out
           pc == "unpark"
<1>1. /\ job[w].pc = "settle" /\ job[w].turn = c
      /\ SetDelivery(c, {"sending"}, to) /\ Goto(w, pc)
      /\ UNCHANGED <<runShadow, posts, agent, failures>>
  BY DEF Settle, At
<1>2. /\ to \in Settled \cup {"sending"} /\ pc \in JobPCs
      /\ to = "sent" => posts[c] = 1
      /\ to = "blocked" => posts[c] = 0
      /\ to \in {"sent", "blocked"} => job[w].pc = "settle"
  BY <1>1 DEF Inv, JobInv, Settled, Outcomes, JobPCs
<1>3. /\ job'[w].pc = pc /\ job'[w].turn = c
      /\ \A v \in Workers : v # w => job'[v] = job[v]
      /\ card'[c].decision = card[c].decision /\ card'[c].shadow = card[c].shadow
      /\ card'[c].delivery = IF card[c].delivery \in {"sending"} THEN to ELSE card[c].delivery
  BY <1>1, <1>2, GotoEffect, SetDeliveryEffect DEF Inv, TypeOK, Deliveries
<1>4. JobInv(w)'
  BY <1>1, <1>2, <1>3 DEF Inv, JobInv, CardInv, DeliveryIsTruthful, TypeOK, Rows, Deliveries,
     Settled, Outcomes, Resolved, Carrying, Turns
<1>5. OneSender'
  BY <1>1, <1>3 DEF Inv, OneSender, JobInv
<1> QED BY <1>1, <1>2, <1>4, <1>5, DeliveryMoves DEF agent

LEMMA SuppressKeepsInv ==
  ASSUME Inv, NEW w \in Workers, NEW c \in Cards, Suppress(w, c)
  PROVE  Inv'
<1> DEFINE to == "suppressed"
           pc == "unpark"
<1>1. /\ job[w].pc = "suppress" /\ job[w].turn = c
      /\ SetDelivery(c, {"none", "sending"}, to) /\ Goto(w, pc)
      /\ UNCHANGED <<runShadow, posts, agent, failures>>
  BY DEF Suppress, At
<1>2. /\ to \in Settled \cup {"sending"} /\ pc \in JobPCs
      /\ to = "sent" => posts[c] = 1
      /\ to = "blocked" => posts[c] = 0
      /\ to \in {"sent", "blocked"} => job[w].pc = "settle"
  BY <1>1 DEF Inv, JobInv, Settled, Outcomes, JobPCs
<1>3. /\ job'[w].pc = pc /\ job'[w].turn = c
      /\ \A v \in Workers : v # w => job'[v] = job[v]
      /\ card'[c].decision = card[c].decision /\ card'[c].shadow = card[c].shadow
      /\ card'[c].delivery = IF card[c].delivery \in {"none", "sending"} THEN to ELSE card[c].delivery
  BY <1>1, <1>2, GotoEffect, SetDeliveryEffect DEF Inv, TypeOK, Deliveries
<1>4. JobInv(w)'
  BY <1>1, <1>2, <1>3 DEF Inv, JobInv, CardInv, DeliveryIsTruthful, TypeOK, Rows, Deliveries,
     Settled, Outcomes, Resolved, Carrying, Turns
<1>5. OneSender'
  BY <1>1, <1>3 DEF Inv, OneSender, JobInv
<1> QED BY <1>1, <1>2, <1>4, <1>5, DeliveryMoves DEF agent

LEMMA DoubtKeepsInv ==
  ASSUME Inv, NEW w \in Workers, NEW c \in Cards, Doubt(w, c)
  PROVE  Inv'
<1> DEFINE to == "in_doubt"
           pc == "unpark"
<1>1. /\ job[w].pc = "doubt" /\ job[w].turn = c
      /\ SetDelivery(c, {"sending"}, to) /\ Goto(w, pc)
      /\ UNCHANGED <<runShadow, posts, agent, failures>>
  BY DEF Doubt, At
<1>2. /\ to \in Settled \cup {"sending"} /\ pc \in JobPCs
      /\ to = "sent" => posts[c] = 1
      /\ to = "blocked" => posts[c] = 0
      /\ to \in {"sent", "blocked"} => job[w].pc = "settle"
  BY <1>1 DEF Inv, JobInv, Settled, Outcomes, JobPCs
<1>3. /\ job'[w].pc = pc /\ job'[w].turn = c
      /\ \A v \in Workers : v # w => job'[v] = job[v]
      /\ card'[c].decision = card[c].decision /\ card'[c].shadow = card[c].shadow
      /\ card'[c].delivery = IF card[c].delivery \in {"sending"} THEN to ELSE card[c].delivery
  BY <1>1, <1>2, GotoEffect, SetDeliveryEffect DEF Inv, TypeOK, Deliveries
<1>4. JobInv(w)'
  BY <1>1, <1>2, <1>3 DEF Inv, JobInv, CardInv, DeliveryIsTruthful, TypeOK, Rows, Deliveries,
     Settled, Outcomes, Resolved, Carrying, Turns
<1>5. OneSender'
  BY <1>1, <1>3 DEF Inv, OneSender, JobInv
<1> QED BY <1>1, <1>2, <1>4, <1>5, DeliveryMoves DEF agent

\* The remaining steps of an invocation: none of them moves a delivery.
LEMMA DecideKeepsInv ==
  ASSUME Inv, NEW w \in Workers, NEW c \in Cards, NEW d \in Decided, Decide(w, c, d)
  PROVE  Inv'
<1>1. /\ card[c].decision = "pending" /\ d \in Decisions
      /\ UNCHANGED <<runShadow, posts, openId, turn, current, program, call, expiry, failures>>
  BY DEF Decide, agent, Decisions
<1>2. /\ job' \in [Workers -> JobRecords]
      /\ job[w].pc = "idle" /\ job'[w].pc = "notify" /\ job'[w].turn = c
      /\ \A v \in Workers : v # w => job'[v] = job[v]
  BY StartEffect DEF Decide, Inv, TypeOK, JobPCs, Turns
<1>3. /\ card' \in [Cards -> Rows]
      /\ \A e \in Cards : e # c => card'[e] = card[e]
      /\ card'[c].decision = d
      /\ card'[c].delivery = card[c].delivery
      /\ card'[c].shadow = card[c].shadow
      /\ card'[c].marked = card[c].marked
  BY <1>1, ConcludeEffect DEF Decide, Inv, TypeOK
<1>4. card[c].delivery = "none" /\ posts[c] = 0 /\ turn[c] = "absent"
  BY <1>1 DEF Inv, CardInv, TypeOK, Turns, Sendable, DeliveryIsTruthful, ResolutionAfterOutcome
<1>5. TypeOK'
  BY <1>1, <1>2, <1>3 DEF Inv, TypeOK
<1>6. (\A v \in Workers : JobInv(v)') /\ OneSender'
  BY <1>1, <1>2, <1>3
     DEF Inv, JobInv, OneSender, Resolved, Decided, Sendable, Carrying, Turns
<1>7. (\A e \in Cards : CardInv(e)') /\ DeliveryIsTruthful'
  BY <1>1, <1>3, <1>4 DEF Inv, CardInv, DeliveryIsTruthful
<1>8. (\A k \in Calls : CallInv(k)') /\ FreshIds' /\ (\A e \in Cards : ExpiryInv(e)')
  BY <1>1, <1>3, CallsUntouched DEF Decided
<1>9. OneOpenCard'
  BY <1>1, <1>3, <1>4 DEF Inv, OneOpenCard, HoldsSlot, Decided
<1>10. ResolutionAfterOutcome' /\ MarkedOnlyIfResumed' /\ ParkedOnRealCard'
  BY <1>1, <1>3, <1>4
     DEF Inv, ResolutionAfterOutcome, MarkedOnlyIfResumed, ParkedOnRealCard, TypeOK, Decided
<1> QED BY <1>5, <1>6, <1>7, <1>8, <1>9, <1>10 DEF Inv

LEMMA SendKeepsInv ==
  ASSUME Inv, NEW w \in Workers, NEW c \in Cards, Send(w, c)
  PROVE  Inv'
<1>1. /\ job[w].pc = "send" /\ job[w].turn = c /\ posts[c] = 0
      /\ UNCHANGED <<card, runShadow, openId, turn, current, program, call, expiry, failures>>
  BY DEF Send, At, Inv, JobInv, d1, agent
<1>2. PICK out \in Outcomes, n \in 0..1 :
         /\ out = "sent" => n = 1
         /\ out = "blocked" => n = 0
         /\ posts' = [posts EXCEPT ![c] = @ + n]
         /\ job' = [job EXCEPT ![w].pc = "settle", ![w].out = out]
  BY DEF Send
<1>3. /\ job' \in [Workers -> JobRecords]
      /\ job'[w].pc = "settle" /\ job'[w].turn = c /\ job'[w].out = out
      /\ \A v \in Workers : v # w => job'[v] = job[v]
  BY <1>1, <1>2 DEF Inv, TypeOK, JobRecords, JobPCs
<1>4. /\ posts' \in [Cards -> Nat]
      /\ posts'[c] = n
      /\ \A d \in Cards : d # c => posts'[d] = posts[d]
  BY <1>1, <1>2 DEF Inv, TypeOK
<1>5. TypeOK'
  BY <1>1, <1>3, <1>4 DEF Inv, TypeOK
<1>6. ASSUME NEW v \in Workers PROVE JobInv(v)'
  <2>1. CASE v = w
    BY <2>1, <1>1, <1>2, <1>3, <1>4 DEF Inv, JobInv, Carrying
  <2>2. CASE v # w
    BY <2>2, <1>1, <1>3, <1>4 DEF Inv, JobInv, OneSender, Resolved, Carrying
  <2> QED BY <2>1, <2>2
<1>7. OneSender'
  BY <1>1, <1>3 DEF Inv, OneSender
<1>8. (\A d \in Cards : CardInv(d)') /\ OneOpenCard' /\ DeliveryIsTruthful'
  BY <1>1, <1>2, <1>4
     DEF Inv, CardInv, JobInv, OneOpenCard, HoldsSlot, DeliveryIsTruthful
<1>9. (\A k \in Calls : CallInv(k)') /\ FreshIds' /\ (\A d \in Cards : ExpiryInv(d)')
  BY <1>1, CallsUntouched
<1>10. ResolutionAfterOutcome' /\ MarkedOnlyIfResumed' /\ ParkedOnRealCard'
  BY <1>1, TurnsUntouched DEF Inv, ParkedOnRealCard
<1> QED BY <1>5, <1>6, <1>7, <1>8, <1>9, <1>10 DEF Inv

LEMMA MarkKeepsInv ==
  ASSUME Inv, NEW w \in Workers, NEW c \in Cards, Mark(w, c)
  PROVE  Inv'
<1>1. /\ job[w].pc = "mark" /\ job[w].turn = c
      /\ turn[c] # "absent" /\ Resolved(c)
      /\ UNCHANGED <<runShadow, posts, openId, turn, current, program, call, expiry, failures>>
  BY DEF Mark, At, Inv, JobInv, agent
<1>2. /\ job' \in [Workers -> JobRecords]
      /\ job'[w].pc = "idle"
      /\ \A v \in Workers : v # w => job'[v] = job[v]
  BY FinishEffect DEF Mark, Inv, TypeOK
<1>3. /\ card' \in [Cards -> Rows]
      /\ \A d \in Cards : d # c => card'[d] = card[d]
      /\ card'[c].decision = card[c].decision
      /\ card'[c].delivery = card[c].delivery
      /\ card'[c].shadow = card[c].shadow
  BY DEF Mark, Inv, TypeOK, Rows
<1>4. TypeOK'
  BY <1>1, <1>2, <1>3 DEF Inv, TypeOK
<1>5. (\A v \in Workers : JobInv(v)') /\ OneSender'
  BY <1>1, <1>2, <1>3 DEF Inv, JobInv, OneSender, Resolved, Carrying
<1>6. (\A d \in Cards : CardInv(d)') /\ OneOpenCard' /\ DeliveryIsTruthful'
  BY <1>1, <1>3 DEF Inv, CardInv, OneOpenCard, HoldsSlot, DeliveryIsTruthful
<1>7. (\A k \in Calls : CallInv(k)') /\ FreshIds' /\ (\A d \in Cards : ExpiryInv(d)')
  BY <1>1, <1>3, CallsUntouched
<1>8. ResolutionAfterOutcome' /\ MarkedOnlyIfResumed' /\ ParkedOnRealCard'
  BY <1>1, <1>3
     DEF Inv, ResolutionAfterOutcome, MarkedOnlyIfResumed, ParkedOnRealCard, TypeOK
<1> QED BY <1>4, <1>5, <1>6, <1>7, <1>8 DEF Inv

\* The steps of an invocation that touch neither a row nor the thread.
LEMMA OtherJobStepsKeepInv ==
  ASSUME Inv, NEW w \in Workers,
         \/ \E c \in Cards : Sweep(w, c) \/ ReadCard(w, c) \/ Unpark(w, c)
         \/ \E k \in Wakes : Wake(w, k)
         \/ \E t \in Turns : NoteInput(w, t) \/ Submit(w, t)
         \/ Abandon(w)
  PROVE  Inv'
<1>1. UNCHANGED <<card, posts, program, call, expiry>>
  BY DEF Sweep, ReadCard, Unpark, Wake, NoteInput, Submit, Abandon, d1, agent
<1>2. openId' \in {openId, None}
  BY DEF Sweep, ReadCard, Unpark, Wake, NoteInput, Submit, Abandon, agent
<1>3. \A t \in Turns : turn[t] # "absent" => turn'[t] = turn[t]
  BY DEF Sweep, ReadCard, Unpark, Wake, NoteInput, Submit, Abandon, agent, Inv, TypeOK
<1> DEFINE Moved == /\ TypeOK'
                    /\ \A v \in Workers : v # w => job'[v] = job[v]
                    /\ JobInv(w)'
                    /\ job'[w].pc \notin {"send", "settle"}
                    /\ \A c \in Cards : turn'[c] # "absent" => turn[c] # "absent" \/ Resolved(c)
<1>4. ASSUME NEW c \in Cards, Sweep(w, c) PROVE Moved
  BY <1>4, StartEffect
     DEF Sweep, Undelivered, Inv, TypeOK, JobInv, JobPCs, Turns, Carrying, Resolved, d1, agent
<1>5. ASSUME NEW c \in Cards, ReadCard(w, c) PROVE Moved
  <2> DEFINE pc == IF card[c].decision = "rejected" THEN "unpark"
                   ELSE IF card[c].shadow \/ runShadow THEN "suppress"
                   ELSE "claim"
  <2>1. /\ pc \in JobPCs /\ Goto(w, pc)
        /\ job[w].pc = "notify" /\ job[w].turn = c /\ card[c].decision \in Decided
        /\ UNCHANGED <<card, runShadow, posts, openId, turn, current, program, call, expiry, failures>>
    BY <1>5 DEF ReadCard, At, JobPCs, Inv, JobInv, d1, agent
  <2>2. /\ job' \in [Workers -> JobRecords]
        /\ job'[w].pc = pc /\ job'[w].turn = c
        /\ \A v \in Workers : v # w => job'[v] = job[v]
    BY <2>1, GotoEffect DEF Inv, TypeOK
  <2> HIDE DEF pc
  <2>3. TypeOK'
    BY <2>1, <2>2 DEF Inv, TypeOK
  <2>4. JobInv(w)' /\ pc \notin {"send", "settle"}
    BY <2>1, <2>2 DEF pc, JobInv, Carrying, Turns, Resolved, Decided, Sendable
  <2> QED BY <2>1, <2>2, <2>3, <2>4
<1>6. ASSUME NEW c \in Cards, Unpark(w, c) PROVE Moved
  BY <1>6, GotoEffect
     DEF Unpark, At, Inv, TypeOK, JobInv, JobPCs, Turns, Carrying, Resolved, d1, agent
<1>7. ASSUME NEW k \in Wakes, Wake(w, k) PROVE Moved
  BY <1>7, StartEffect, IdsAssumption
     DEF Wake, Inv, TypeOK, JobInv, JobPCs, Turns, Carrying, Resolved, d1, agent
<1>8. ASSUME NEW t \in Turns, NoteInput(w, t) PROVE Moved
  BY <1>8, GotoEffect
     DEF NoteInput, At, Inv, TypeOK, JobInv, JobPCs, Carrying, Resolved, d1, agent
<1>9. ASSUME NEW t \in Turns, Submit(w, t) PROVE Moved
  <2>1. /\ job[w].pc = "submit" /\ job[w].turn = t
        /\ t \in Cards => Resolved(t)
        /\ UNCHANGED <<card, runShadow, posts, openId, program, call, expiry, failures>>
    BY <1>9 DEF Submit, At, Inv, JobInv, d1, agent
  <2>2. /\ turn' \in [Turns -> {"absent", "queued", "running", "ended"}]
        /\ turn'[t] # "absent"
        /\ \A u \in Turns : u # t => turn'[u] = turn[u]
        /\ current' \subseteq Turns \cup Workers
    BY <1>9 DEF Submit, Inv, TypeOK
  <2>3. CASE t \in Cards
    BY <1>9, <2>1, <2>2, <2>3, GotoEffect
       DEF Submit, Inv, TypeOK, JobInv, JobPCs, Carrying, Resolved, Turns
  <2>4. CASE t \notin Cards
    BY <1>9, <2>1, <2>2, <2>4, FinishEffect
       DEF Submit, Inv, TypeOK, JobInv, Carrying, Turns
  <2> QED BY <2>3, <2>4
<1>10. ASSUME Abandon(w) PROVE Moved
  BY <1>10, FinishEffect DEF Abandon, Inv, TypeOK, JobInv, Carrying, d1
<1>11. Moved
  BY <1>4, <1>5, <1>6, <1>7, <1>8, <1>9, <1>10
<1>12. (\A v \in Workers : JobInv(v)') /\ OneSender'
  BY <1>1, <1>3, <1>11 DEF Inv, JobInv, OneSender, Resolved, Carrying, Turns, TypeOK
<1>13. (\A c \in Cards : CardInv(c)') /\ OneOpenCard' /\ DeliveryIsTruthful'
  BY <1>1, RowsUntouched
<1>14. (\A k \in Calls : CallInv(k)') /\ FreshIds' /\ (\A c \in Cards : ExpiryInv(c)')
  BY <1>1, CallsUntouched
<1>15. ResolutionAfterOutcome' /\ MarkedOnlyIfResumed' /\ ParkedOnRealCard'
  BY <1>1, <1>2, <1>3, <1>11
     DEF Inv, ResolutionAfterOutcome, MarkedOnlyIfResumed, ParkedOnRealCard, Resolved, Turns
<1> QED BY <1>11, <1>12, <1>13, <1>14, <1>15 DEF Inv

-----------------------------------------------------------------------------
(* Turns, the program and its calls, the expiry alarm, eviction.           *)

\* Steps that leave every row, the thread and the invocations alone.
LEMMA AgentStepsKeepInv ==
  ASSUME Inv,
         \/ \E t \in Turns : StartTurn(t) \/ EndTurn(t)
         \/ StartProgram \/ EndProgram
         \/ \E k \in Calls : Withdraw(k)
         \/ \E k \in Calls, c \in Cards : Escalate(k, c) \/ Park(k, c) \/ Arm(k, c)
         \/ \E c \in Cards : ExpiryFires(c) \/ ExpiryWithdraws(c)
         \/ Evict
  PROVE  Inv'
<1>1. UNCHANGED <<card, runShadow, posts, job>>
  BY DEF StartTurn, EndTurn, StartProgram, EndProgram, Withdraw, Escalate, Park, Arm,
         ExpiryFires, ExpiryWithdraws, Evict, d1, agent
<1>2. \A t \in Turns : turn'[t] = "absent" <=> turn[t] = "absent"
  BY DEF StartTurn, EndTurn, StartProgram, EndProgram, Withdraw, Escalate, Park, Arm,
         ExpiryFires, ExpiryWithdraws, Evict, Inv, TypeOK
<1> DEFINE Moved == /\ TypeOK'
                    /\ \A k \in Calls : CallInv(k)'
                    /\ FreshIds'
                    /\ \A c \in Cards : ExpiryInv(c)'
                    /\ ParkedOnRealCard'
<1>3. ASSUME NEW t \in Turns, StartTurn(t) \/ EndTurn(t) PROVE Moved
  BY <1>3 DEF StartTurn, EndTurn, Inv, TypeOK, CallInv, FreshIds, ExpiryInv, ParkedOnRealCard, d1
<1>4. ASSUME StartProgram \/ EndProgram PROVE Moved
  BY <1>4 DEF StartProgram, EndProgram, Inv, TypeOK, CallInv, FreshIds, ExpiryInv, ParkedOnRealCard, d1
<1>5. ASSUME NEW k \in Calls, Withdraw(k) PROVE Moved
  BY <1>5, StartCallEffect DEF Withdraw, CallPCs, Inv, TypeOK, CallInv, FreshIds, ExpiryInv, ParkedOnRealCard, d1
<1>6. ASSUME NEW k \in Calls, NEW c \in Cards, Escalate(k, c) PROVE Moved
  BY <1>6, StartCallEffect DEF Escalate, CallPCs, Inv, TypeOK, CallInv, FreshIds, ExpiryInv, ParkedOnRealCard, d1
<1>7. ASSUME NEW k \in Calls, NEW c \in Cards, Park(k, c) PROVE Moved
  BY <1>7, ToCallEffect DEF Park, AtCall, CallPCs, Inv, TypeOK, CallInv, FreshIds, ExpiryInv, ParkedOnRealCard, d1
<1>8. ASSUME NEW k \in Calls, NEW c \in Cards, Arm(k, c) PROVE Moved
  <2>1. /\ expiry' \in [Cards -> ExpiryRecords]
        /\ \A d \in Cards : d # c => expiry'[d] = expiry[d]
        /\ expiry'[c].pc = "armed"
    BY <1>8 DEF Arm, Inv, TypeOK, ExpiryRecords, ExpiryPCs
  <2>2. /\ call' \in [Calls -> CallRecords]
        /\ call'[k].pc = "idle"
        /\ \A j \in Calls : j # k => call'[j] = call[j]
    BY <1>8, EndCallEffect DEF Arm, Inv, TypeOK, CallPCs
  <2>3. UNCHANGED <<card, runShadow, posts, openId, turn, current, program, job, failures>>
    BY <1>8 DEF Arm, d1
  <2> QED BY <2>1, <2>2, <2>3 DEF Inv, TypeOK, CallInv, FreshIds, ExpiryInv, ParkedOnRealCard
<1>9. ASSUME NEW c \in Cards, ExpiryFires(c) PROVE Moved
  BY <1>9 DEF ExpiryFires, ExpiryPCs, ExpiryRecords, Inv, TypeOK, CallInv, FreshIds, ExpiryInv, ParkedOnRealCard, d1
<1>10. ASSUME NEW c \in Cards, ExpiryWithdraws(c) PROVE Moved
  BY <1>10 DEF ExpiryWithdraws, ExpiryPCs, ExpiryRecords, Inv, TypeOK, CallInv, FreshIds, ExpiryInv, ParkedOnRealCard, d1
<1>11. ASSUME Evict PROVE Moved
  BY <1>11 DEF Evict, IdleCall, CallPCs, CallRecords, ExpiryPCs, ExpiryRecords, Inv, TypeOK, CallInv, FreshIds, ExpiryInv, ParkedOnRealCard, d1
<1>12. Moved
  BY <1>3, <1>4, <1>5, <1>6, <1>7, <1>8, <1>9, <1>10, <1>11
<1>13. (\A v \in Workers : JobInv(v)') /\ OneSender'
  BY <1>1, <1>2, JobsUntouched
<1>14. (\A c \in Cards : CardInv(c)') /\ OneOpenCard' /\ DeliveryIsTruthful'
  BY <1>1, RowsUntouched
<1>15. ResolutionAfterOutcome' /\ MarkedOnlyIfResumed'
  BY <1>1, <1>2, TurnsUntouched DEF Turns
<1> QED BY <1>12, <1>13, <1>14, <1>15 DEF Inv

\* The two ways a pending card is withdrawn.
LEMMA WithdrawnKeepsInv ==
  ASSUME Inv, NEW c \in Cards, Conclude(c, "withdrawn"),
         UNCHANGED <<runShadow, posts, openId, turn, current, program, job, failures>>,
         call' \in [Calls -> CallRecords], expiry' \in [Cards -> ExpiryRecords],
         \A k \in Calls : call'[k] = call[k] \/ call'[k].pc = "idle",
         \A d \in Cards : expiry'[d] = expiry[d] \/ expiry'[d].pc = "done"
  PROVE  Inv'
<1>1. /\ card' \in [Cards -> Rows]
      /\ \A d \in Cards : d # c => card'[d] = card[d]
      /\ card'[c].delivery = card[c].delivery
      /\ card'[c].shadow = card[c].shadow
      /\ card'[c].marked = card[c].marked
      /\ card'[c].decision = IF card[c].decision = "pending" THEN "withdrawn"
                             ELSE card[c].decision
      /\ card[c].decision # "pending" => card'[c] = card[c]
  BY ConcludeEffect DEF Inv, TypeOK, Decisions, Conclude
<1>2. \A d \in Cards : card[d].decision \in Decided => card'[d] = card[d]
  BY <1>1 DEF Decided
<1>3. TypeOK'
  BY <1>1 DEF Inv, TypeOK
<1>4. (\A v \in Workers : JobInv(v)') /\ OneSender'
  BY <1>2, JobsUntouched
<1>5. (\A d \in Cards : CardInv(d)') /\ OneOpenCard' /\ DeliveryIsTruthful'
  BY <1>1 DEF Inv, CardInv, OneOpenCard, HoldsSlot, DeliveryIsTruthful, Sendable
<1>6. (\A k \in Calls : CallInv(k)') /\ FreshIds' /\ (\A d \in Cards : ExpiryInv(d)')
  BY <1>1 DEF Inv, CallInv, FreshIds, ExpiryInv
<1>7. ResolutionAfterOutcome' /\ MarkedOnlyIfResumed' /\ ParkedOnRealCard'
  BY <1>1 DEF Inv, ResolutionAfterOutcome, MarkedOnlyIfResumed, ParkedOnRealCard, TypeOK, Sendable
<1> QED BY <1>3, <1>4, <1>5, <1>6, <1>7 DEF Inv

LEMMA InsertKeepsInv ==
  ASSUME Inv, NEW k \in Calls, NEW c \in Cards, InsertCard(k, c)
  PROVE  Inv'
<1>1. /\ call[k].pc = "insert" /\ call[k].card = c /\ card[c].decision = "absent"
      /\ UNCHANGED <<runShadow, posts, openId, turn, current, program, expiry, job, failures>>
  BY DEF InsertCard, AtCall, Inv, CallInv
<1>2. CASE \E d \in Cards : HoldsSlot(d)
  <2>1. /\ card' = card
        /\ call' \in [Calls -> CallRecords]
        /\ call'[k].pc = "idle"
        /\ \A j \in Calls : j # k => call'[j] = call[j]
    BY <1>2, EndCallEffect DEF InsertCard, Inv, TypeOK, CallPCs
  <2>2. TypeOK' /\ (\A j \in Calls : CallInv(j)') /\ FreshIds' /\ (\A d \in Cards : ExpiryInv(d)')
    BY <1>1, <2>1 DEF Inv, TypeOK, CallInv, FreshIds, ExpiryInv
  <2>3. ParkedOnRealCard'
    BY <1>1, <2>1 DEF Inv, ParkedOnRealCard
  <2> QED BY <1>1, <2>1, <2>2, <2>3, JobsUntouched, RowsUntouched, TurnsUntouched DEF Inv
<1>3. CASE ~\E d \in Cards : HoldsSlot(d)
  <2>1. /\ call' \in [Calls -> CallRecords]
        /\ call'[k].pc = "park" /\ call'[k].card = c
        /\ \A j \in Calls : j # k => call'[j] = call[j]
    BY <1>1, <1>3, ToCallEffect DEF InsertCard, Inv, TypeOK, CallPCs
  <2>2. /\ card' \in [Cards -> Rows]
        /\ \A d \in Cards : d # c => card'[d] = card[d]
        /\ card'[c].decision = "pending" /\ card'[c].delivery = "none"
        /\ ~card'[c].marked
    <3> DEFINE r == [decision |-> "pending", delivery |-> "none",
                     shadow |-> call[k].shadow, marked |-> FALSE]
    <3>1. r \in Rows /\ r.decision = "pending" /\ r.delivery = "none" /\ ~r.marked
      BY DEF Rows, Decisions, Deliveries, Inv, TypeOK, CallRecords
    <3>2. card' = [card EXCEPT ![c] = r]
      BY <1>3 DEF InsertCard, NoRow
    <3> HIDE DEF r
    <3> QED BY <3>1, <3>2 DEF Inv, TypeOK
  <2>3. posts[c] = 0 /\ turn[c] = "absent"
    BY <1>1 DEF Inv, CardInv, ResolutionAfterOutcome, Sendable
  <2>4. \A d \in Cards : card[d].decision \in Decided => card'[d] = card[d]
    BY <1>1, <2>2 DEF Decided
  <2>5. TypeOK'
    BY <1>1, <2>1, <2>2 DEF Inv, TypeOK
  <2>6. (\A v \in Workers : JobInv(v)') /\ OneSender'
    BY <1>1, <2>4, JobsUntouched
  <2>7. (\A d \in Cards : CardInv(d)') /\ DeliveryIsTruthful'
    BY <1>1, <2>2, <2>3 DEF Inv, CardInv, DeliveryIsTruthful
  <2>8. OneOpenCard'
    BY <1>3, <2>2 DEF OneOpenCard, HoldsSlot
  <2>9. (\A j \in Calls : CallInv(j)') /\ FreshIds' /\ (\A d \in Cards : ExpiryInv(d)')
    BY <1>1, <2>1, <2>2 DEF Inv, CallInv, FreshIds, ExpiryInv
  <2>10. ResolutionAfterOutcome' /\ MarkedOnlyIfResumed' /\ ParkedOnRealCard'
    BY <1>1, <2>2, <2>3
       DEF Inv, ResolutionAfterOutcome, MarkedOnlyIfResumed, ParkedOnRealCard, TypeOK
  <2> QED BY <2>5, <2>6, <2>7, <2>8, <2>9, <2>10 DEF Inv
<1> QED BY <1>2, <1>3

-----------------------------------------------------------------------------
(* The theorems.                                                           *)

LEMMA InitInv == Init => Inv
<1> SUFFICES ASSUME Init PROVE Inv
  OBVIOUS
<1>1. TypeOK
  <2>1. NoRow \in Rows
    BY DEF NoRow, Rows, Decisions, Deliveries
  <2>2. IdleCall \in CallRecords
    BY DEF IdleCall, CallRecords, CallPCs
  <2>3. IdleJob \in JobRecords
    BY DEF IdleJob, JobRecords, JobPCs
  <2> QED BY <2>1, <2>2, <2>3 DEF Init, TypeOK, ExpiryRecords, ExpiryPCs
<1>2. (\A w \in Workers : JobInv(w)) /\ OneSender
  BY DEF Init, JobInv, OneSender, IdleJob, Carrying
<1>3. (\A c \in Cards : CardInv(c)) /\ OneOpenCard /\ DeliveryIsTruthful
  BY DEF Init, CardInv, OneOpenCard, HoldsSlot, DeliveryIsTruthful, NoRow, Sendable
<1>4. (\A k \in Calls : CallInv(k)) /\ FreshIds /\ (\A c \in Cards : ExpiryInv(c))
  BY DEF Init, CallInv, FreshIds, ExpiryInv, IdleCall
<1>5. ResolutionAfterOutcome /\ MarkedOnlyIfResumed /\ ParkedOnRealCard
  BY DEF Init, ResolutionAfterOutcome, MarkedOnlyIfResumed, ParkedOnRealCard, NoRow, Turns
<1> QED BY <1>1, <1>2, <1>3, <1>4, <1>5 DEF Inv

LEMMA WorkerKeepsInv ==
  ASSUME Inv, NEW w \in Workers, WorkerNext(w)
  PROVE  Inv'
<1>1. CASE \E c \in Cards : Suppress(w, c) \/ Claim(w, c) \/ Doubt(w, c) \/ Settle(w, c)
  BY <1>1, SuppressKeepsInv, ClaimKeepsInv, DoubtKeepsInv, SettleKeepsInv
<1>2. CASE \E c \in Cards : Send(w, c) \/ Mark(w, c)
  BY <1>2, SendKeepsInv, MarkKeepsInv
<1>3. CASE \E c \in Cards : \E d \in Decided : Decide(w, c, d)
  BY <1>3, DecideKeepsInv
<1>4. CASE \/ \E c \in Cards : Sweep(w, c) \/ ReadCard(w, c) \/ Unpark(w, c)
           \/ \E k \in Wakes : Wake(w, k)
           \/ \E t \in Turns : NoteInput(w, t) \/ Submit(w, t)
           \/ Abandon(w)
  BY <1>4, OtherJobStepsKeepInv
<1> QED BY <1>1, <1>2, <1>3, <1>4 DEF WorkerNext, JobStep

LEMMA RetractsKeepInv ==
  ASSUME Inv,
         \/ \E k \in Calls, c \in Cards : Retract(k, c)
         \/ \E c \in Cards : ExpiryRetracts(c)
  PROVE  Inv'
<1>1. ASSUME NEW k \in Calls, NEW c \in Cards, Retract(k, c) PROVE Inv'
  <2>1. /\ call' \in [Calls -> CallRecords]
        /\ call'[k].pc = "idle"
        /\ \A j \in Calls : j # k => call'[j] = call[j]
    BY <1>1, EndCallEffect DEF Retract, Inv, TypeOK, CallPCs
  <2> QED BY <1>1, <2>1, WithdrawnKeepsInv DEF Retract, Inv, TypeOK
<1>2. ASSUME NEW c \in Cards, ExpiryRetracts(c) PROVE Inv'
  <2>1. /\ expiry' \in [Cards -> ExpiryRecords]
        /\ \A d \in Cards : expiry'[d] = expiry[d] \/ expiry'[d].pc = "done"
    BY <1>2 DEF ExpiryRetracts, Inv, TypeOK, ExpiryRecords, ExpiryPCs
  <2>2. expiry[c].card \in Cards
    BY <1>2 DEF ExpiryRetracts, Inv, ExpiryInv
  <2> QED BY <1>2, <2>1, <2>2, WithdrawnKeepsInv DEF ExpiryRetracts, Inv, TypeOK
<1> QED BY <1>1, <1>2

LEMMA NextKeepsInv == Inv /\ [Next]_vars => Inv'
<1> SUFFICES ASSUME Inv, [Next]_vars PROVE Inv'
  OBVIOUS
<1>1. ASSUME NEW w \in Workers, WorkerNext(w) PROVE Inv'
  BY <1>1, WorkerKeepsInv
<1>2. CASE ProgramNext
  <2>1. CASE \E k \in Calls, c \in Cards : InsertCard(k, c)
    BY <2>1, InsertKeepsInv
  <2>2. CASE \E k \in Calls, c \in Cards : Retract(k, c)
    BY <2>2, RetractsKeepInv
  <2>3. CASE \/ StartProgram \/ EndProgram
             \/ \E k \in Calls : Withdraw(k)
             \/ \E k \in Calls, c \in Cards : Escalate(k, c) \/ Park(k, c) \/ Arm(k, c)
    BY <2>3, AgentStepsKeepInv
  <2> QED BY <1>2, <2>1, <2>2, <2>3 DEF ProgramNext, CallStep
<1>3. CASE TurnNext \/ Evict
  BY <1>3, AgentStepsKeepInv DEF TurnNext
<1>4. ASSUME NEW c \in Cards, ExpiryNext(c) PROVE Inv'
  BY <1>4, AgentStepsKeepInv, RetractsKeepInv DEF ExpiryNext
<1>5. CASE UNCHANGED vars
  <2>1. UNCHANGED <<card, posts, turn, job, call, expiry, openId>> /\ TypeOK'
    BY <1>5 DEF vars, d1, agent, Inv, TypeOK
  <2> QED BY <2>1, JobsUntouched, RowsUntouched, CallsUntouched, TurnsUntouched
          DEF Inv, ParkedOnRealCard
<1> QED BY <1>1, <1>2, <1>3, <1>4, <1>5 DEF Next

\* Inv is an invariant, whatever the number of actors and failures.
THEOREM Invariance == Spec => []Inv
BY InitInv, NextKeepsInv, PTL DEF Spec

\* Type correctness.
THEOREM TypeCorrect == Spec => []TypeOK
<1>1. Inv => TypeOK
  BY DEF Inv
<1> QED BY Invariance, <1>1, PTL

\* A run never has two unsettled cards.
THEOREM OneOpenCardAlways == Spec => []OneOpenCard
<1>1. Inv => OneOpenCard
  BY DEF Inv
<1> QED BY Invariance, <1>1, PTL

\* No customer reads the same approved text twice, and none reads a text no
\* human let through.
THEOREM AtMostOncePosted == Spec => []PostedAtMostOnce
<1>1. Inv => PostedAtMostOnce
  BY DEF Inv, CardInv, PostedAtMostOnce
<1> QED BY Invariance, <1>1, PTL

\* A recorded delivery says the truth.
THEOREM TruthfulDelivery == Spec => []DeliveryIsTruthful
<1>1. Inv => DeliveryIsTruthful
  BY DEF Inv
<1> QED BY Invariance, <1>1, PTL

\* The turn that resumes the run comes after the outcome of the delivery it tells of
\* (notify, resolutionTurnContent).
THEOREM ResolutionInOrder == Spec => []ResolutionAfterOutcome
<1>1. Inv => ResolutionAfterOutcome
  BY DEF Inv
<1> QED BY Invariance, <1>1, PTL

\* A row leaves the repair sweep only after its resolution turn was accepted, wherever
\* the notifier dies (markResolutionDelivered).
THEOREM MarkedAfterResolution == Spec => []MarkedOnlyIfResumed
<1>1. Inv => MarkedOnlyIfResumed
  BY DEF Inv
<1> QED BY Invariance, <1>1, PTL

\* The card a run is parked on was inserted (open: the INSERT before setOpenApproval).
THEOREM ParkedOnCard == Spec => []ParkedOnRealCard
<1>1. Inv => ParkedOnRealCard
  BY DEF Inv
<1> QED BY Invariance, <1>1, PTL

-----------------------------------------------------------------------------
(* What one step may do to the rows and the thread: the five shapes that    *)
(* both the action property and the refinement rest on.                    *)

Still == UNCHANGED posts /\ \A d \in Cards : card'[d] = card[d]

Delivered(c) ==
  /\ UNCHANGED posts
  /\ \A d \in Cards : d # c => card'[d] = card[d]
  /\ card'[c].decision = card[c].decision
  /\ card'[c].shadow = card[c].shadow
  /\ card[c].marked => card'[c].marked
  /\ card[c].delivery \in Settled => card'[c].delivery = card[c].delivery

Concluded(c) ==
  /\ UNCHANGED posts
  /\ \A d \in Cards : d # c => card'[d] = card[d]
  /\ card[c].decision = "pending"
  /\ card'[c].decision \in Decided \cup {"withdrawn"}
  /\ card'[c].shadow = card[c].shadow
  /\ card'[c].marked = card[c].marked
  /\ card'[c].delivery = card[c].delivery

Inserted(c) ==
  /\ UNCHANGED posts
  /\ \A d \in Cards : d # c => card'[d] = card[d]
  /\ card[c].decision = "absent" /\ card'[c].decision = "pending"
  /\ card[c].delivery = "none" /\ ~card[c].marked
  /\ card'[c].shadow \in BOOLEAN
  /\ \A d \in Cards : card[d].decision # "pending"

Posted(c) ==
  /\ \A d \in Cards : card'[d] = card[d]
  /\ card[c].decision \in Sendable /\ ~card[c].shadow /\ posts[c] = 0
  /\ posts' = [posts EXCEPT ![c] = 1]

RowStep ==
  \/ Still
  \/ \E c \in Cards : Delivered(c) \/ Concluded(c) \/ Inserted(c) \/ Posted(c)

LEMMA RowsStep == Inv /\ [Next]_vars => RowStep
<1> SUFFICES ASSUME Inv, [Next]_vars PROVE RowStep
  OBVIOUS
<1>1. CASE UNCHANGED <<card, posts>>
  BY <1>1 DEF RowStep, Still
<1>2. ASSUME NEW w \in Workers, NEW c \in Cards,
             Suppress(w, c) \/ Claim(w, c) \/ Doubt(w, c) \/ Settle(w, c)
      PROVE  Delivered(c)
  <2>1. PICK from \in SUBSET {"none", "sending"}, to \in Deliveries :
          SetDelivery(c, from, to) /\ UNCHANGED posts
    <3>1. job[w].pc = "settle" => job[w].out \in Deliveries
      BY DEF Inv, JobInv, Outcomes, Deliveries, Settled
    <3> QED BY <1>2, <3>1 DEF Suppress, Claim, Doubt, Settle, At, Deliveries, Settled
  <2> QED BY <2>1, SetDeliveryEffect DEF Delivered, Inv, TypeOK, Settled
<1>3. ASSUME NEW w \in Workers, NEW c \in Cards, Mark(w, c)
      PROVE  Delivered(c)
  BY <1>3 DEF Mark, Delivered, Inv, TypeOK, Rows, agent
<1>4. ASSUME NEW c \in Cards, NEW v \in Decided \cup {"withdrawn"},
             Conclude(c, v), UNCHANGED posts
      PROVE  Concluded(c) \/ Still
  <2>1. CASE card[c].decision = "pending"
    BY <1>4, <2>1, ConcludeEffect DEF Concluded, Inv, TypeOK, Decisions
  <2>2. CASE card[c].decision # "pending"
    BY <1>4, <2>2 DEF Conclude, Still
  <2> QED BY <2>1, <2>2
<1>5. ASSUME NEW k \in Calls, NEW c \in Cards, InsertCard(k, c), card' # card
      PROVE  Inserted(c)
  <2>1. /\ \A d \in Cards : ~HoldsSlot(d)
        /\ card' = [card EXCEPT ![c] = [NoRow EXCEPT !.decision = "pending",
                                                     !.shadow = call[k].shadow]]
        /\ call[k].pc = "insert" /\ call[k].card = c /\ UNCHANGED posts
    BY <1>5 DEF InsertCard, AtCall
  <2>2. card'[c].decision = "pending" /\ card'[c].shadow \in BOOLEAN
    <3>1. call[k].shadow \in BOOLEAN
      BY DEF Inv, TypeOK, CallRecords
    <3> QED BY <2>1, <3>1 DEF NoRow, Inv, TypeOK
  <2>3. card[c].decision = "absent" /\ card[c].delivery = "none" /\ ~card[c].marked
    BY <2>1 DEF Inv, CallInv, CardInv, Sendable, ResolutionAfterOutcome, MarkedOnlyIfResumed
  <2>4. \A d \in Cards : d # c => card'[d] = card[d]
    BY <2>1 DEF Inv, TypeOK
  <2>5. \A d \in Cards : card[d].decision # "pending"
    BY <2>1 DEF HoldsSlot
  <2> QED BY <2>1, <2>2, <2>3, <2>4, <2>5 DEF Inserted
<1>6. ASSUME NEW w \in Workers, NEW c \in Cards, Send(w, c)
      PROVE  Posted(c) \/ Still
  <2>1. card[c].decision \in Sendable /\ ~card[c].shadow /\ posts[c] = 0 /\ UNCHANGED card
    BY <1>6 DEF Send, At, Inv, JobInv, d1
  <2>2. PICK n \in 0..1 : posts' = [posts EXCEPT ![c] = @ + n]
    BY <1>6 DEF Send
  <2>3. CASE n = 0
    BY <2>1, <2>2, <2>3 DEF Still, Inv, TypeOK
  <2>4. CASE n = 1
    BY <2>1, <2>2, <2>4 DEF Posted
  <2> QED BY <2>2, <2>3, <2>4
<1>7. ASSUME NEW w \in Workers, WorkerNext(w) PROVE RowStep
  <2>1. CASE \E c \in Cards : \E d \in Decided : Decide(w, c, d)
    BY <1>4, <2>1 DEF Decide, RowStep
  <2>2. CASE \/ \E c \in Cards : Sweep(w, c) \/ ReadCard(w, c) \/ Unpark(w, c)
             \/ \E k \in Wakes : Wake(w, k)
             \/ \E t \in Turns : NoteInput(w, t) \/ Submit(w, t)
             \/ Abandon(w)
    BY <1>1, <2>2 DEF Sweep, ReadCard, Unpark, Wake, NoteInput, Submit, Abandon, d1
  <2> QED BY <1>2, <1>3, <1>6, <1>7, <2>1, <2>2 DEF WorkerNext, JobStep, RowStep
<1>8. CASE ProgramNext
  <2>1. ASSUME NEW k \in Calls, NEW c \in Cards, InsertCard(k, c) PROVE RowStep
    <3>1. UNCHANGED posts
      BY <2>1 DEF InsertCard
    <3> QED BY <1>1, <1>5, <2>1, <3>1 DEF RowStep
  <2>2. ASSUME NEW k \in Calls, NEW c \in Cards, Retract(k, c) PROVE RowStep
    BY <1>4, <2>2 DEF Retract, RowStep
  <2>3. CASE \/ StartProgram \/ EndProgram
             \/ \E k \in Calls : Withdraw(k)
             \/ \E k \in Calls, c \in Cards : Escalate(k, c) \/ Park(k, c) \/ Arm(k, c)
    BY <1>1, <2>3 DEF StartProgram, EndProgram, Withdraw, Escalate, Park, Arm, d1
  <2> QED BY <1>8, <2>1, <2>2, <2>3 DEF ProgramNext, CallStep
<1>9. CASE TurnNext \/ Evict
  BY <1>1, <1>9 DEF TurnNext, StartTurn, EndTurn, Evict, d1
<1>10. ASSUME NEW c \in Cards, ExpiryNext(c) PROVE RowStep
  <2>1. CASE ExpiryFires(c) \/ ExpiryWithdraws(c)
    BY <1>1, <2>1 DEF ExpiryFires, ExpiryWithdraws, d1
  <2>2. CASE ExpiryRetracts(c)
    <3>1. expiry[c].card \in Cards
      BY <2>2 DEF ExpiryRetracts, Inv, ExpiryInv
    <3> QED BY <1>4, <2>2, <3>1 DEF ExpiryRetracts, RowStep
  <2> QED BY <1>10, <2>1, <2>2 DEF ExpiryNext
<1>11. CASE UNCHANGED vars
  BY <1>1, <1>11 DEF vars, d1
<1> QED BY <1>7, <1>8, <1>9, <1>10, <1>11 DEF Next

\* No later step takes back a verdict, a settled delivery or a mark.
THEOREM FinalVerdicts == Spec => VerdictsFinal
<1>1. RowStep =>
        \A c \in Cards :
          /\ card[c].decision \in Decided \cup {"withdrawn"} =>
               card'[c].decision = card[c].decision
          /\ card[c].delivery \in Settled => card'[c].delivery = card[c].delivery
          /\ card[c].marked => card'[c].marked
  BY DEF RowStep, Still, Delivered, Concluded, Inserted, Posted, Decided, Settled
<1> QED BY Invariance, RowsStep, <1>1, PTL DEF Spec, VerdictsFinal

\* The whole machinery implements the abstract gate.
THEOREM Refinement == Spec => ImplementsGate
<1>1. Init => Gate!GateInit
  BY DEF Init, NoRow, Gate!GateInit
<1>2. Inv /\ RowStep => [Gate!GateNext]_(Gate!gateVars)
  <2> SUFFICES ASSUME Inv, RowStep PROVE [Gate!GateNext]_(Gate!gateVars)
    OBVIOUS
  <2>1. CASE Still
    BY <2>1 DEF Still, Gate!gateVars
  <2>2. ASSUME NEW c \in Cards, Delivered(c) PROVE UNCHANGED Gate!gateVars
    <3>1. \A d \in Cards : card'[d].decision = card[d].decision /\ card'[d].shadow = card[d].shadow
      BY <2>2 DEF Delivered
    <3> QED BY <2>2, <3>1 DEF Delivered, Gate!gateVars
  <2>3. ASSUME NEW c \in Cards, Concluded(c) PROVE Gate!GateNext
    <3>1. PICK v \in {"approved", "edited", "rejected", "withdrawn"} :
            card'[c].decision = v
      BY <2>3 DEF Concluded, Decided
    <3>2. Gate!Conclude(c, v)
      BY <2>3, <3>1 DEF Concluded, Gate!Conclude
    <3> QED BY <3>2 DEF Gate!GateNext
  <2>4. ASSUME NEW c \in Cards, Inserted(c) PROVE Gate!Propose(c)
    BY <2>4 DEF Inserted, Gate!Propose
  <2>5. ASSUME NEW c \in Cards, Posted(c) PROVE Gate!Post(c)
    BY <2>5 DEF Posted, Gate!Post, Gate!Allowing, Sendable
  <2> QED BY <2>1, <2>2, <2>3, <2>4, <2>5 DEF RowStep, Gate!GateNext
<1> QED BY Invariance, RowsStep, <1>1, <1>2, PTL DEF Spec, ImplementsGate, Gate!GateSpec

=============================================================================
