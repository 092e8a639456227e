----------------------------- MODULE MemoryProofs -----------------------------
(***************************************************************************)
(* What is remembered, and of whom: the safety properties of MemoryOutbox, *)
(* for any number of consumers and failures; of Intake, for any messages,  *)
(* any number of workers and any number of failures; and of CustomerScope, *)
(* for any channels, registrations and executions, any slugs and any       *)
(* number of edits.                                                        *)
(***************************************************************************)
EXTENDS MemoryOutbox, Intake, CustomerScope, TLAPS

-----------------------------------------------------------------------------
(* MemoryOutbox.  The newest attempt holds the token while the row is being *)
(* projected (TokenInv), and attempts of active consumers differ           *)
(* (Distinct).  A consumer still busy with Zep after an episode was        *)
(* recorded is older than that episode (ConsumerInv), so the fence stops   *)
(* it, and nothing newer than the recorded episode was ever asked of Zep   *)
(* (VendorInv).                                                            *)

TokenInv ==
  /\ state = "projecting" => token = attempts /\ attempts > 0
  /\ state # "projecting" => token = 0
  /\ state \in {"absent", "pending"} => attempts = 0

Busy(c) == consumer[c].pc \in {"add", "answer", "record"}

ConsumerInv ==
  \A c \in Consumers :
    /\ consumer[c].pc = "idle" => consumer[c].attempt = 0
    /\ consumer[c].pc # "idle" => consumer[c].attempt > 0
    /\ consumer[c].attempt <= attempts
    /\ Busy(c) => uuid = 0 \/ consumer[c].attempt < uuid
    /\ consumer[c].pc = "record" =>
         /\ consumer[c].episode = consumer[c].attempt
         /\ consumer[c].attempt \in zep
         /\ consumer[c].attempt > 1 => reported
    /\ consumer[c].pc = "finish" => consumer[c].episode = uuid /\ uuid # 0

Distinct ==
  \A c, d \in Consumers :
    consumer[c].attempt = consumer[d].attempt /\ consumer[c].attempt # 0 => c = d

VendorInv ==
  \A a \in zep \cup inflight :
    /\ 0 < a /\ a <= attempts
    /\ uuid # 0 => a <= uuid

RowInv ==
  /\ uuid <= attempts
  /\ uuid # 0 => uuid \in zep
  /\ uuid > 1 => reported
  /\ sources \subseteq {uuid} \ {0}
  /\ state = "projected" => uuid # 0 /\ uuid \in sources

\* While nothing has failed there was one claim at most, and it is still held.
HealthyInv ==
  failures = 0 =>
    /\ attempts <= 1
    /\ state # "retry"
    /\ \A c \in Consumers : consumer[c].pc # "retry"
    /\ state = "projecting" => waiting /\ Held

Inv == TypeOK /\ TokenInv /\ ConsumerInv /\ Distinct /\ VendorInv /\ RowInv /\ HealthyInv

LEMMA LapseType ==
  ASSUME TypeOK, Lapse \/ UNCHANGED failures
  PROVE  failures' \in Nat
<1>1. failures \in Nat
  BY DEF TypeOK
<1>2. failures' = failures + 1 \/ failures' = failures
  BY DEF Lapse
<1> QED BY <1>1, <1>2

LEMMA InitInv == Init => Inv
<1> SUFFICES ASSUME Init PROVE Inv
  OBVIOUS
<1>1. \A c \in Consumers : consumer[c] = Free
  BY DEF Init
<1>2. TypeOK
  BY DEF Init, TypeOK, Free, States, PCs
<1>3. ConsumerInv /\ Distinct
  BY <1>1 DEF Init, ConsumerInv, Distinct, Busy, Free
<1>4. TokenInv /\ VendorInv /\ RowInv
  BY DEF Init, TokenInv, VendorInv, RowInv
<1>5. HealthyInv
  BY <1>1 DEF Init, HealthyInv, Free
<1> QED BY <1>2, <1>3, <1>4, <1>5 DEF Inv

-----------------------------------------------------------------------------
(* Steps that leave the consumers alone.                                   *)

LEMMA BackgroundKeepsInv ==
  ASSUME Inv,
         \/ Handoff \/ Sweep \/ LoseJob \/ Time \/ LeaseOverrun
         \/ \E c \in Consumers : Ignore(c)
         \/ \E a \in inflight : Land(a)
  PROVE  Inv'
<1> USE DEF d1, vendor, States
<1>0. failures' \in Nat
  BY LapseType DEF Inv, Handoff, EnsureRow, SendJob, SendFails, Sweep, LoseJob, Time,
     BackoffEnds, LeaseExpires, LeaseOverrun, Ignore, Land
<1>1. TypeOK'
  <2>1. CASE Handoff
    BY <2>1, <1>0 DEF Inv, TypeOK, Handoff, EnsureRow, SendJob, SendFails
  <2>2. CASE Sweep \/ LoseJob \/ \E c \in Consumers : Ignore(c)
    BY <2>2, <1>0 DEF Inv, TypeOK, Sweep, LoseJob, Ignore
  <2>3. CASE Time \/ LeaseOverrun
    BY <2>3, <1>0 DEF Inv, TypeOK, Time, BackoffEnds, LeaseExpires, LeaseOverrun
  <2>4. CASE \E a \in inflight : Land(a)
    BY <2>4 DEF Inv, TypeOK, Land
  <2> QED BY <2>1, <2>2, <2>3, <2>4
<1>2. TokenInv'
  BY DEF Inv, TypeOK, TokenInv, Handoff, EnsureRow, SendJob, SendFails, Sweep, LoseJob, Time,
     BackoffEnds, LeaseExpires, LeaseOverrun, Ignore, Land
<1>3. UNCHANGED <<consumer, uuid, attempts, reported>> /\ zep \subseteq zep'
  BY DEF Handoff, EnsureRow, SendJob, SendFails, Sweep, LoseJob, Time,
     BackoffEnds, LeaseExpires, LeaseOverrun, Ignore, Land
<1>4. ConsumerInv' /\ Distinct'
  BY <1>3 DEF Inv, ConsumerInv, Busy, Distinct
<1>5. zep' \cup inflight' = zep \cup inflight
  BY DEF Handoff, EnsureRow, SendJob, SendFails, Sweep, LoseJob, Time,
     BackoffEnds, LeaseExpires, LeaseOverrun, Ignore, Land
<1>6. VendorInv'
  BY <1>3, <1>5 DEF Inv, VendorInv
<1>7. sources' = sources /\ (state' = "projected" => state = "projected")
  BY DEF Handoff, EnsureRow, SendJob, SendFails, Sweep, LoseJob, Time,
     BackoffEnds, LeaseExpires, LeaseOverrun, Ignore, Land
<1>8. RowInv'
  BY <1>3, <1>7 DEF Inv, RowInv
<1>9. HealthyInv'
  <2>1. CASE Time
    BY <2>1 DEF Inv, HealthyInv, Time, BackoffEnds, LeaseExpires, Held
  <2>2. CASE LoseJob \/ LeaseOverrun \/ SendFails
    BY <2>2 DEF Inv, TypeOK, HealthyInv, LoseJob, LeaseOverrun, SendFails, Lapse
  <2>3. CASE EnsureRow
    BY <2>3 DEF Inv, HealthyInv, EnsureRow, Held
  <2>4. CASE SendJob \/ Sweep \/ (\E c \in Consumers : Ignore(c)) \/ (\E a \in inflight : Land(a))
    BY <2>4 DEF Inv, HealthyInv, SendJob, Sweep, Ignore, Land, Held
  <2> QED BY <2>1, <2>2, <2>3, <2>4 DEF Handoff
<1> QED BY <1>1, <1>2, <1>4, <1>6, <1>8, <1>9 DEF Inv

-----------------------------------------------------------------------------
(* Steps of one consumer.                                                  *)

LEMMA ClaimKeepsInv ==
  ASSUME Inv, NEW c \in Consumers, Claim(c)
  PROVE  Inv'
<1>1. /\ consumer' = [consumer EXCEPT ![c] =
             [pc |-> FirstStep, attempt |-> attempts + 1, episode |-> uuid]]
      /\ state' = "projecting" /\ waiting' = TRUE
      /\ attempts' = attempts + 1 /\ token' = attempts + 1
      /\ UNCHANGED <<uuid, sources, parses, inflight, zep, handoff, reported, failures>>
      /\ queued' \in BOOLEAN
  BY DEF Claim, vendor
<1>2. FirstStep \in {"poison", "add", "finish"}
      /\ (FirstStep = "add" => uuid = 0) /\ (FirstStep = "finish" => uuid # 0)
  BY DEF FirstStep
<1>3. /\ consumer'[c].pc = FirstStep /\ consumer'[c].attempt = attempts + 1
      /\ consumer'[c].episode = uuid
      /\ \A d \in Consumers \ {c} : consumer'[d] = consumer[d]
  BY <1>1 DEF Inv, TypeOK
<1>4. TypeOK'
  BY <1>1, <1>2 DEF Inv, TypeOK, States, PCs
<1>5. TokenInv'
  BY <1>1 DEF Inv, TypeOK, TokenInv
<1>6. ConsumerInv'
  <2> SUFFICES ASSUME NEW d \in Consumers PROVE ConsumerInv!(d)'
    BY DEF ConsumerInv
  <2>1. CASE d = c
    BY <2>1, <1>1, <1>2, <1>3 DEF Inv, TypeOK, Busy
  <2>2. CASE d # c
    BY <2>2, <1>1, <1>3 DEF Inv, TypeOK, ConsumerInv, Busy
  <2> QED BY <2>1, <2>2
<1>7. Distinct'
  BY <1>3 DEF Inv, TypeOK, ConsumerInv, Distinct
<1>8. VendorInv' /\ RowInv'
  BY <1>1 DEF Inv, TypeOK, VendorInv, RowInv
<1>9. HealthyInv'
  <2>1. failures = 0 => attempts = 0
    BY DEF Inv, HealthyInv, TokenInv, Claim, Claimable
  <2>2. Held'
    BY <1>1, <1>3 DEF Held
  <2> QED BY <1>1, <1>2, <1>3, <2>1, <2>2 DEF Inv, TypeOK, HealthyInv
<1> QED BY <1>4, <1>5, <1>6, <1>7, <1>8, <1>9 DEF Inv

\* A step of a consumer that leaves the row alone.
LEMMA VendorCallKeepsInv ==
  ASSUME Inv, NEW c \in Consumers, Add(c) \/ Answered(c) \/ AddThrows(c) \/ Die(c)
  PROVE  Inv'
<1>1. UNCHANGED d1 /\ zep' = zep
  BY DEF Add, Answered, AddThrows, Die, d1, vendor
<1>2. \A d \in Consumers \ {c} : consumer'[d] = consumer[d]
  BY DEF Inv, TypeOK, Add, Answered, AddThrows, Die, Goto, Return
<1>3. \/ /\ At(c, "add") /\ consumer'[c] = [consumer[c] EXCEPT !.pc = "answer"]
         /\ inflight' = inflight \cup {consumer[c].attempt}
      \/ /\ At(c, "answer") /\ consumer[c].attempt \in zep /\ inflight' = inflight
         /\ consumer'[c] = [consumer[c] EXCEPT !.pc = "record", !.episode = consumer[c].attempt]
      \/ /\ At(c, "add") \/ At(c, "answer")
         /\ consumer'[c] = [consumer[c] EXCEPT !.pc = "retry"]
         /\ inflight' = inflight
      \/ consumer'[c] = Free /\ inflight' = inflight
  BY DEF Inv, TypeOK, Add, Answered, AddThrows, Die, At, Goto, Return, vendor
<1>4. consumer[c] \in [pc : PCs, attempt : Nat, episode : Nat] /\ consumer[c].pc \in PCs
      /\ consumer[c].attempt \in Nat /\ attempts \in Nat /\ uuid \in Nat
  BY DEF Inv, TypeOK
<1>5. /\ consumer'[c] \in [pc : PCs, attempt : Nat, episode : Nat]
      /\ consumer'[c].attempt \in {consumer[c].attempt, 0}
  <2>1. CASE consumer'[c] = Free
    BY <2>1 DEF Free, PCs
  <2>2. CASE consumer'[c] \in {[consumer[c] EXCEPT !.pc = "answer"], [consumer[c] EXCEPT !.pc = "retry"]}
    BY <2>2, <1>4 DEF PCs
  <2>3. CASE consumer'[c] = [consumer[c] EXCEPT !.pc = "record", !.episode = consumer[c].attempt]
    BY <2>3, <1>4 DEF PCs
  <2> QED BY <1>3, <2>1, <2>2, <2>3
<1>6. /\ reported => reported'
      /\ consumer'[c].pc = "record" /\ consumer[c].attempt > 1 => reported'
  <2>1. CASE Answered(c)
    BY <2>1 DEF Answered
  <2>2. CASE ~Answered(c)
    <3>1. reported' = reported
      BY <2>2 DEF Add, AddThrows, Die
    <3>2. consumer'[c].pc # "record"
      <4>1. CASE Die(c)
        BY <4>1 DEF Inv, TypeOK, Die, Return, Free
      <4>2. CASE Add(c) \/ AddThrows(c)
        BY <4>2, <1>4 DEF Inv, TypeOK, Add, AddThrows, Goto
      <4> QED BY <4>1, <4>2, <2>2
    <3> QED BY <3>1, <3>2
  <2> QED BY <2>1, <2>2
<1>7. TypeOK'
  <2>2. consumer' \in [Consumers -> [pc : PCs, attempt : Nat, episode : Nat]]
    BY <1>2, <1>5 DEF Inv, TypeOK, Add, Answered, AddThrows, Die, Goto, Return
  <2>3. inflight' \subseteq Nat
    BY <1>3, <1>4 DEF Inv, TypeOK
  <2>4. reported' \in BOOLEAN /\ queued' \in BOOLEAN /\ handoff' = handoff
    BY DEF Inv, TypeOK, Add, Answered, AddThrows, Die
  <2>5. failures' \in Nat
    BY LapseType DEF Inv, Add, Answered, AddThrows, Die
  <2> QED BY <1>1, <2>2, <2>3, <2>4, <2>5 DEF Inv, TypeOK, d1
<1>8. TokenInv'
  BY <1>1 DEF Inv, TokenInv, d1
<1>9. ConsumerInv'
  <2>1. ConsumerInv!(c)'
    <3>1. CASE consumer'[c] = Free
      BY <3>1, <1>1, <1>4 DEF Busy, Free, d1
    <3>2. CASE At(c, "add") /\ consumer'[c] = [consumer[c] EXCEPT !.pc = "answer"]
      BY <3>2, <1>1, <1>4 DEF Inv, ConsumerInv, Busy, At, d1
    <3>3. CASE /\ At(c, "answer") /\ consumer[c].attempt \in zep
               /\ consumer'[c] = [consumer[c] EXCEPT !.pc = "record",
                                                     !.episode = consumer[c].attempt]
      <4>1. /\ consumer'[c].pc = "record" /\ consumer'[c].attempt = consumer[c].attempt
            /\ consumer'[c].episode = consumer[c].attempt
        BY <3>3, <1>4
      <4> QED BY <3>3, <4>1, <1>1, <1>4, <1>6 DEF Inv, ConsumerInv, Busy, At, d1
    <3>4. CASE /\ At(c, "add") \/ At(c, "answer")
               /\ consumer'[c] = [consumer[c] EXCEPT !.pc = "retry"]
      BY <3>4, <1>1, <1>4 DEF Inv, ConsumerInv, Busy, At, d1
    <3> QED BY <1>3, <3>1, <3>2, <3>3, <3>4
  <2>2. reported => reported'
    BY <1>6
  <2>3. ASSUME NEW d \in Consumers, d # c PROVE ConsumerInv!(d)'
    BY <1>1, <1>2, <2>2, <2>3 DEF Inv, ConsumerInv, Busy, d1
  <2> QED BY <2>1, <2>3 DEF ConsumerInv
<1>10. Distinct'
  BY <1>2, <1>5 DEF Inv, Distinct
<1>11. VendorInv'
  <2>1. inflight' = inflight \/ (At(c, "add") /\ inflight' = inflight \cup {consumer[c].attempt})
    BY <1>3
  <2>2. At(c, "add") => /\ 0 < consumer[c].attempt /\ consumer[c].attempt <= attempts
                        /\ uuid # 0 => consumer[c].attempt <= uuid
    BY <1>4 DEF Inv, ConsumerInv, Busy, At
  <2> QED BY <1>1, <2>1, <2>2 DEF Inv, VendorInv, d1
<1>12. RowInv'
  BY <1>1, <1>6 DEF Inv, RowInv, d1
<1>13. HealthyInv'
  <2>1. CASE AddThrows(c) \/ Die(c)
    <3>1. failures' = failures + 1 /\ failures \in Nat
      BY <2>1 DEF Inv, TypeOK, AddThrows, Die, Lapse
    <3> QED BY <3>1 DEF HealthyInv
  <2>2. CASE Add(c) \/ Answered(c)
    <3>1. \A d \in Consumers : consumer'[d].attempt = consumer[d].attempt
      BY <2>2 DEF Inv, TypeOK, Add, Answered, Goto
    <3>2. Held' = Held
      BY <1>1, <3>1 DEF Held, d1
    <3>3. \A d \in Consumers : consumer'[d].pc = "retry" => consumer[d].pc = "retry"
      BY <2>2, <1>2 DEF Inv, TypeOK, Add, Answered, Goto
    <3> QED BY <2>2, <1>1, <3>2, <3>3 DEF Inv, HealthyInv, Add, Answered, d1
  <2> QED BY <2>1, <2>2
<1> QED BY <1>7, <1>8, <1>9, <1>10, <1>11, <1>12, <1>13 DEF Inv

\* The fenced writes.  The owner of a row whose episode is recorded resumes from it.
LEMMA WriteKeepsInv ==
  ASSUME Inv, NEW c \in Consumers, Write(c)
  PROVE  Inv'
<1>1. UNCHANGED <<attempts, parses, inflight, zep, queued, handoff, reported, failures>>
  BY DEF Write, Retry, Poison, Record, Finish, vendor
<1>2. \A d \in Consumers \ {c} : consumer'[d] = consumer[d]
  BY DEF Inv, TypeOK, Write, Retry, Poison, Record, Finish, Goto, Return
<1>3. consumer'[c] = Free \/ /\ At(c, "record") /\ Owns(c)
                             /\ uuid' = consumer[c].episode
                             /\ consumer'[c] = [consumer[c] EXCEPT !.pc = "finish"]
                             /\ UNCHANGED <<state, token, waiting, sources>>
  BY DEF Inv, TypeOK, Write, Retry, Poison, Record, Finish, Goto, Return
<1>4. At(c, "record") /\ Owns(c) => uuid = 0 /\ consumer[c].episode = attempts /\ attempts > 0
  BY DEF Inv, TypeOK, TokenInv, ConsumerInv, Busy, RowInv, At, Owns
<1>5. uuid' = uuid \/ (uuid = 0 /\ uuid' = attempts /\ At(c, "record") /\ Owns(c))
  BY <1>4 DEF Inv, ConsumerInv, Write, Retry, Poison, Record, Finish, At
<1>6. TypeOK'
  <2>1. consumer[c] \in [pc : PCs, attempt : Nat, episode : Nat]
    BY DEF Inv, TypeOK
  <2>2. consumer'[c] \in [pc : PCs, attempt : Nat, episode : Nat]
    BY <1>3, <2>1 DEF Free, PCs
  <2>3. consumer' \in [Consumers -> [pc : PCs, attempt : Nat, episode : Nat]]
    BY <1>2, <2>2 DEF Inv, TypeOK, Write, Retry, Poison, Record, Finish, Goto, Return
  <2>4. state' \in States /\ token' \in Nat /\ waiting' \in BOOLEAN
    <3>1. \/ UNCHANGED <<state, token, waiting>>
          \/ state' \in {"retry", "failed", "projected"} /\ token' = 0 /\ waiting' \in BOOLEAN
      <4>1. CASE Record(c)
        BY <4>1 DEF Record
      <4>2. CASE Retry(c) \/ Poison(c) \/ Finish(c)
        BY <4>2 DEF Retry, Poison, Finish
      <4> QED BY <4>1, <4>2 DEF Write
    <3> QED BY <3>1 DEF Inv, TypeOK, States
  <2>5. sources' \subseteq Nat
    BY <2>1 DEF Inv, TypeOK, Write, Retry, Poison, Record, Finish
  <2> QED BY <1>1, <1>5, <2>3, <2>4, <2>5 DEF Inv, TypeOK
<1>7. TokenInv'
  BY <1>1 DEF Inv, TypeOK, TokenInv, Write, Retry, Poison, Record, Finish, Owns
<1>8. ConsumerInv'
  <2> SUFFICES ASSUME NEW d \in Consumers PROVE ConsumerInv!(d)'
    BY DEF ConsumerInv
  <2>1. CASE d = c
    <3>1. CASE consumer'[c] = Free
      BY <2>1, <3>1, <1>1 DEF Inv, TypeOK, Busy, Free
    <3>2. CASE consumer'[c] # Free
      <4>1. consumer[c] \in [pc : PCs, attempt : Nat, episode : Nat]
        BY DEF Inv, TypeOK
      <4>2. /\ consumer'[c].pc = "finish" /\ consumer'[c].attempt = consumer[c].attempt
            /\ consumer'[c].episode = consumer[c].episode
            /\ uuid' = attempts /\ consumer[c].episode = attempts /\ attempts > 0
            /\ consumer[c].pc = "record"
        BY <3>2, <1>3, <1>4, <4>1 DEF At
      <4> QED BY <2>1, <4>2, <1>1 DEF Inv, TypeOK, ConsumerInv, Busy
    <3> QED BY <3>1, <3>2
  <2>2. CASE d # c
    <3>1. consumer'[d] = consumer[d]
      BY <1>2, <2>2
    <3>2. CASE uuid' = uuid
      BY <3>1, <3>2, <1>1 DEF Inv, ConsumerInv, Busy
    <3>3. CASE uuid = 0 /\ uuid' = attempts /\ At(c, "record") /\ Owns(c)
      <4>1. consumer[d].attempt # attempts
        BY <3>3, <2>2 DEF Inv, TypeOK, TokenInv, Distinct, Owns
      <4> QED BY <3>1, <3>3, <4>1, <1>1 DEF Inv, TypeOK, ConsumerInv, Busy
    <3> QED BY <3>2, <3>3, <1>5
  <2> QED BY <2>1, <2>2
<1>9. Distinct'
  BY <1>2, <1>3 DEF Inv, TypeOK, Distinct, Free
<1>10. VendorInv'
  BY <1>1, <1>5 DEF Inv, TypeOK, VendorInv
<1>11. RowInv'
  <2>1. CASE At(c, "record") /\ Owns(c)
    <3>1. uuid' = attempts /\ UNCHANGED <<state, sources>> /\ attempts \in zep
          /\ (attempts > 1 => reported)
      BY <2>1, <1>4 DEF Inv, ConsumerInv, Write, Retry, Poison, Record, Finish, At
    <3> QED BY <2>1, <3>1, <1>1, <1>4 DEF Inv, TypeOK, RowInv, Owns
  <2>2. CASE ~(At(c, "record") /\ Owns(c))
    <3>1. uuid' = uuid
      BY <2>2, <1>5
    <3>2. sources' = sources \/ (At(c, "finish") /\ sources' = sources \cup {uuid})
      BY DEF Inv, ConsumerInv, Write, Retry, Poison, Record, Finish, At
    <3>3. state' = "projected" =>
            \/ state = "projected" /\ sources' = sources
            \/ At(c, "finish") /\ uuid \in sources'
      BY DEF Inv, ConsumerInv, Write, Retry, Poison, Record, Finish, At, Owns
    <3>4. At(c, "finish") => uuid # 0
      BY DEF Inv, ConsumerInv, At
    <3> QED BY <3>1, <3>2, <3>3, <3>4, <1>1 DEF Inv, RowInv
  <2> QED BY <2>1, <2>2
<1>12. HealthyInv'
  <2> SUFFICES ASSUME failures = 0 PROVE HealthyInv!2'
    BY <1>1 DEF HealthyInv
  <2>1. ~At(c, "retry")
    BY DEF Inv, HealthyInv, At
  <2>2. state' # "retry"
    BY <2>1 DEF Inv, HealthyInv, Write, Retry, Poison, Record, Finish, At
  <2>3. \A d \in Consumers : consumer'[d].pc # "retry"
    BY <1>2, <1>3 DEF Inv, HealthyInv, Free, TypeOK
  <2>4. ASSUME state' = "projecting" PROVE waiting' /\ Held'
    <3>1. UNCHANGED <<state, token, waiting>> /\ (Owns(c) => At(c, "record"))
      BY <2>1, <2>4 DEF Write, Retry, Poison, Record, Finish, At
    <3>2. PICK d \in Consumers : consumer[d].attempt = token
      BY <2>4, <3>1 DEF Inv, HealthyInv, Held
    <3>3. consumer'[d].attempt = token
      <4>1. CASE d # c
        BY <4>1, <3>2, <1>2
      <4>2. CASE d = c
        <5>1. Owns(c) /\ At(c, "record")
          BY <4>2, <3>1, <3>2, <2>4 DEF Owns
        <5> QED BY <5>1, <4>2, <3>2 DEF Inv, TypeOK, Write, Retry, Poison, Record, Finish, At, Goto
      <4> QED BY <4>1, <4>2
    <3> QED BY <2>4, <3>1, <3>3 DEF Inv, HealthyInv, Held
  <2> QED BY <1>1, <2>2, <2>3, <2>4 DEF Inv, HealthyInv
<1> QED BY <1>6, <1>7, <1>8, <1>9, <1>10, <1>11, <1>12 DEF Inv

LEMMA NextKeepsInv == Inv /\ [Next]_vars => Inv'
<1> SUFFICES ASSUME Inv, [Next]_vars PROVE Inv'
  OBVIOUS
<1>1. CASE Next
  BY <1>1, BackgroundKeepsInv, ClaimKeepsInv, VendorCallKeepsInv, WriteKeepsInv
     DEF Next, Deliver, Step
<1>2. CASE UNCHANGED vars
  BY <1>2 DEF vars, d1, vendor, Inv, TypeOK, TokenInv, ConsumerInv, Busy, Distinct, VendorInv,
     RowInv, HealthyInv, Held
<1> QED BY <1>1, <1>2

-----------------------------------------------------------------------------
(* Theorems.                                                               *)

THEOREM Invariance == Spec => []Inv
BY InitInv, NextKeepsInv, PTL DEF Spec

\* Provenance rows and the row's uuid agree, whatever late claimants do
\* (recordEpisodeUuid, finishProjection).
THEOREM ExactProvenance == Spec => [](TypeOK /\ ProvenanceExact)
<1>1. Inv => TypeOK /\ ProvenanceExact
  BY DEF Inv, RowInv, ProvenanceExact
<1> QED BY Invariance, <1>1, PTL

\* A duplicate that Zep may hold was logged (duplicateEpisodeRisk).
THEOREM ReportedDuplicates == Spec => []DuplicatesReported
<1>1. Inv => DuplicatesReported
  BY DEF Inv, TypeOK, VendorInv, RowInv, DuplicatesReported
<1> QED BY Invariance, <1>1, PTL

\* Without a failure Zep is asked for one episode (claimOutboxRow).
THEOREM OneEpisode == Spec => []OneEpisodeWithoutFailure
<1>1. Inv => OneEpisodeWithoutFailure
  BY DEF Inv, TypeOK, VendorInv, HealthyInv, OneEpisodeWithoutFailure
<1> QED BY Invariance, <1>1, PTL

\* The recorded episode and the end of a row are final (fencedToClaim).
THEOREM FinalEpisode == Spec => EpisodeFinal
<1>1. Inv /\ [Next]_vars =>
        /\ uuid # 0 => uuid' = uuid
        /\ state \in {"projected", "failed"} => state' = state
  <2> SUFFICES ASSUME Inv, [Next]_vars
               PROVE  /\ uuid # 0 => uuid' = uuid
                      /\ state \in {"projected", "failed"} => state' = state
    OBVIOUS
  <2>1. ASSUME NEW c \in Consumers, Write(c)
        PROVE  /\ uuid # 0 => uuid' = uuid
               /\ state \in {"projected", "failed"} => state' = state
    <3>1. At(c, "record") /\ Owns(c) => uuid = 0
      BY DEF Inv, TypeOK, TokenInv, ConsumerInv, Busy, RowInv, At, Owns
    <3>2. uuid # 0 => uuid' = uuid
      BY <2>1, <3>1 DEF Inv, ConsumerInv, Write, Retry, Poison, Record, Finish, At
    <3>3. state' # state => Owns(c)
      BY <2>1 DEF Write, Retry, Poison, Record, Finish
    <3> QED BY <3>2, <3>3 DEF Owns
  <2>2. ASSUME Handoff \/ Sweep \/ LoseJob \/ Time \/ LeaseOverrun
        PROVE  uuid' = uuid /\ (state \in {"projected", "failed"} => state' = state)
    BY <2>2 DEF Handoff, EnsureRow, SendJob, SendFails, Sweep, LoseJob, Time, BackoffEnds,
       LeaseExpires, LeaseOverrun, d1
  <2>3. ASSUME NEW c \in Consumers, Deliver(c) \/ Add(c) \/ Answered(c) \/ AddThrows(c) \/ Die(c)
        PROVE  uuid' = uuid /\ (state \in {"projected", "failed"} => state' = state)
    BY <2>3 DEF Deliver, Claim, Claimable, Ignore, Add, Answered, AddThrows, Die, d1
  <2>4. ASSUME NEW a \in inflight, Land(a)
        PROVE  uuid' = uuid /\ state' = state
    BY <2>4 DEF Land, d1
  <2>5. CASE UNCHANGED vars
    BY <2>5 DEF vars, d1
  <2> QED BY <2>1, <2>2, <2>3, <2>4, <2>5 DEF Next, Step
<1> QED BY Invariance, <1>1, PTL DEF Spec, EpisodeFinal

-----------------------------------------------------------------------------
(* Intake.                                                                 *)

Modes == {"unknown", "observe", "live", "internal"}

IngestPCs == {"register", "insert", "send"}
TriagePCs == {"decided", "owned", "judge", "decide", "ensure", "row", "submit"}
MemoryPCs == {"mapped", "add", "map"}

WorkerPCs == {"idle", "record"} \cup IngestPCs \cup TriagePCs \cup MemoryPCs

WorkerRecords == [pc : WorkerPCs, event : Events \cup {"none"}, policy : Modes, wake : BOOLEAN]

PastRecords ==
  [came : SUBSET Events, lost : SUBSET Events, failures : Nat, overlapped : SUBSET Events,
   muted : BOOLEAN]

On(w, e) == worker[w].pc # "idle" /\ worker[w].event = e

-----------------------------------------------------------------------------
(* Types, and what was done before a step: a job other than ingest's is of *)
(* an event on record, and what is added to the memory is of a message.    *)

IntakeTyped ==
  /\ jobs \subseteq [queue : {"ingest", "triage", "memory"}, event : Events]
  /\ worker \in [Workers -> WorkerRecords]
  /\ seen \subseteq Events /\ messages \subseteq seen /\ mapped \subseteq messages
  /\ channel \in Modes
  /\ decision \in [Events -> {"none", "wake", "quiet"}]
  /\ run \in Active \cup {"none", "failed", "done"} /\ shadow \in BOOLEAN
  /\ admitted \subseteq seen /\ episodes \in [Events -> Nat]
  /\ past \in PastRecords

Ordered ==
  /\ \A e \in Events : Job("triage", e) \in jobs \/ Job("memory", e) \in jobs => e \in seen
  /\ \A w \in Workers :
       /\ worker[w].pc # "idle" => worker[w].event \in Events
       /\ worker[w].pc \notin {"idle", "record"} => worker[w].event \in seen
       /\ worker[w].pc \in {"add", "map"} => worker[w].event \in messages

-----------------------------------------------------------------------------
(* Unless deliveries of an event overlapped, one worker is at it, and what *)
(* it read of the decision is still so.                                    *)

Single ==
  \A v, w \in Workers, e \in Events :
    e \notin past.overlapped /\ On(v, e) /\ On(w, e) => v = w

\* What was admitted is done with: no job and no worker is left that could decide it.
Settled(e) ==
  e \in admitted =>
    /\ decision[e] # "quiet" /\ Job("triage", e) \notin jobs
    /\ \A w \in Workers : worker[w].event = e => worker[w].pc \notin IngestPCs \cup TriagePCs

Undecided(e) ==
  \A w \in Workers : worker[w].event = e =>
    /\ worker[w].pc \in {"owned", "judge", "decide"} => decision[e] = "none"
    /\ worker[w].pc \in {"ensure", "row", "submit"} => decision[e] # "quiet"

TriageInv == \A e \in Events \ past.overlapped : Settled(e) /\ Undecided(e)

\* While nothing failed, the episode of an event is added before it is mapped, and once.
Remembered(e) ==
  /\ episodes[e] <= 1
  /\ episodes[e] = 0 \/ e \in mapped \/ \E w \in Workers : worker[w].pc = "map" /\ worker[w].event = e
  /\ \A w \in Workers : worker[w].pc = "add" /\ worker[w].event = e => episodes[e] = 0

EpisodeInv ==
  past.failures = 0 => past.overlapped = {} /\ \A e \in Events : Remembered(e)

\* The turn about to be submitted under a muted channel has marked the row before.
MutedInv ==
  /\ MutedStaysShadow
  /\ \A w \in Workers : worker[w].pc = "submit" /\ ~CanPost(worker[w].policy) => shadow

IntakeInv == IntakeTyped /\ Ordered /\ Single /\ TriageInv /\ EpisodeInv /\ MutedInv

-----------------------------------------------------------------------------
(* What a step does to the worker that takes it, and to the jobs.          *)

LEMMA IdleTyped == Idle \in WorkerRecords /\ Idle.pc = "idle"
BY DEF Idle, WorkerRecords, WorkerPCs, Modes

LEMMA JobsDiffer ==
  ASSUME NEW q, NEW e, NEW r, NEW f, Job(q, e) = Job(r, f)
  PROVE  q = r /\ e = f
BY DEF Job

LEMMA GoesEffect ==
  ASSUME IntakeTyped, NEW w \in Workers, NEW pc \in WorkerPCs, Goes(w, pc)
  PROVE  /\ worker' \in [Workers -> WorkerRecords]
         /\ worker'[w].pc = pc /\ worker'[w].event = worker[w].event
         /\ \A v \in Workers : v # w => worker'[v] = worker[v]
<1>1. worker \in [Workers -> WorkerRecords] /\ worker[w] \in WorkerRecords
  BY DEF IntakeTyped
<1>2. [worker[w] EXCEPT !.pc = pc] \in WorkerRecords
  BY <1>1 DEF WorkerRecords
<1>3. worker' = [worker EXCEPT ![w] = [worker[w] EXCEPT !.pc = pc]]
  BY <1>1 DEF Goes
<1> QED BY <1>1, <1>2, <1>3 DEF WorkerRecords

LEMMA FreedEffect ==
  ASSUME IntakeTyped, NEW w \in Workers, worker' = [worker EXCEPT ![w] = Idle]
  PROVE  /\ worker' \in [Workers -> WorkerRecords]
         /\ worker'[w] = Idle
         /\ \A v \in Workers : v # w => worker'[v] = worker[v]
BY IdleTyped DEF IntakeTyped

LEMMA AckEffect ==
  ASSUME IntakeTyped, NEW w \in Workers, NEW queue, Ack(w, queue)
  PROVE  /\ worker' \in [Workers -> WorkerRecords] /\ worker'[w] = Idle
         /\ \A v \in Workers : v # w => worker'[v] = worker[v]
         /\ jobs' \subseteq jobs /\ Job(queue, worker[w].event) \notin jobs'
BY FreedEffect DEF Ack

\* The steps that write more of the worker than where it goes.
LEMMA WritesEffect ==
  ASSUME IntakeTyped, NEW w \in Workers, NEW pc \in WorkerPCs, NEW known \in Modes, NEW wake \in BOOLEAN,
         \/ worker' = [worker EXCEPT ![w].pc = pc, ![w].policy = known]
         \/ worker' = [worker EXCEPT ![w].pc = pc, ![w].wake = wake]
  PROVE  /\ worker' \in [Workers -> WorkerRecords]
         /\ worker'[w].pc = pc /\ worker'[w].event = worker[w].event
         /\ \A v \in Workers : v # w => worker'[v] = worker[v]
<1>1. worker \in [Workers -> WorkerRecords] /\ worker[w] \in WorkerRecords
  BY DEF IntakeTyped
<1>2. /\ [worker[w] EXCEPT !.pc = pc, !.policy = known] \in WorkerRecords
      /\ [worker[w] EXCEPT !.pc = pc, !.wake = wake] \in WorkerRecords
  BY <1>1 DEF WorkerRecords
<1>3. \/ worker' = [worker EXCEPT ![w] = [worker[w] EXCEPT !.pc = pc, !.policy = known]]
      \/ worker' = [worker EXCEPT ![w] = [worker[w] EXCEPT !.pc = pc, !.wake = wake]]
  BY <1>1
<1> QED BY <1>1, <1>2, <1>3 DEF WorkerRecords

\* A delivery: the worker is at the first step of the job's queue.
LEMMA TakeEffect ==
  ASSUME IntakeTyped, NEW w \in Workers, NEW job \in jobs, Take(w, job)
  PROVE  /\ worker' \in [Workers -> WorkerRecords]
         /\ job.event \in Events /\ job = Job(job.queue, job.event)
         /\ worker[w].pc = "idle" /\ worker'[w].event = job.event
         /\ \/ job.queue = "ingest" /\ worker'[w].pc = "record"
            \/ job.queue = "triage" /\ worker'[w].pc = "decided"
            \/ job.queue = "memory" /\ worker'[w].pc = "mapped"
         /\ \A v \in Workers : v # w => worker'[v] = worker[v]
         /\ past' \in PastRecords /\ past'.muted = past.muted
         /\ past.overlapped \subseteq past'.overlapped
         /\ past'.failures = 0 => past' = past /\ past.failures = 0
         /\ (\E v \in Workers : On(v, job.event)) =>
              job.event \in past'.overlapped /\ past'.failures # 0
<1>1. worker \in [Workers -> WorkerRecords] /\ past \in PastRecords /\ channel \in Modes
  BY DEF IntakeTyped
<1>2. job \in [queue : {"ingest", "triage", "memory"}, event : Events]
  BY DEF IntakeTyped
<1>3. job.event \in Events /\ job = Job(job.queue, job.event)
  BY <1>2 DEF Job
<1> DEFINE pc == FirstStepOf[job.queue]
           r == [Idle EXCEPT !.pc = pc, !.event = job.event, !.policy = channel]
<1>4. \/ job.queue = "ingest" /\ pc = "record"
      \/ job.queue = "triage" /\ pc = "decided"
      \/ job.queue = "memory" /\ pc = "mapped"
  BY <1>2 DEF FirstStepOf
<1>5. pc \in WorkerPCs
  BY <1>4 DEF WorkerPCs, TriagePCs, MemoryPCs
<1> HIDE DEF pc
<1>6. r \in WorkerRecords /\ r.pc = pc /\ r.event = job.event
  BY <1>1, <1>3, <1>5 DEF Idle, WorkerRecords
<1>7. worker' = [worker EXCEPT ![w] = r] /\ worker[w].pc = "idle"
  BY DEF Take, pc
<1> HIDE DEF r
<1>8. /\ worker' \in [Workers -> WorkerRecords]
      /\ worker'[w].pc = pc /\ worker'[w].event = job.event
      /\ \A v \in Workers : v # w => worker'[v] = worker[v]
  BY <1>1, <1>6, <1>7
<1> DEFINE again == \E v \in Workers : worker[v].event = job.event /\ worker[v].pc # "idle"
<1>9. past.failures \in Nat /\ past.overlapped \in SUBSET Events
  BY <1>1 DEF PastRecords
<1>10. CASE again
  <2>1. past' = [past EXCEPT !.failures = past.failures + 1,
                             !.overlapped = past.overlapped \cup {job.event}]
    BY <1>10 DEF Take
  <2>2. /\ past' \in PastRecords /\ past'.muted = past.muted
        /\ past'.failures = past.failures + 1
        /\ past'.overlapped = past.overlapped \cup {job.event}
    <3>1. past.overlapped \cup {job.event} \in SUBSET Events /\ past.failures + 1 \in Nat
      BY <1>3, <1>9
    <3> QED BY <1>1, <2>1, <3>1 DEF PastRecords
  <2> QED BY <1>3, <1>4, <1>7, <1>8, <1>9, <2>2
<1>11. CASE ~again
  <2>1. past' = [past EXCEPT !.failures = past.failures, !.overlapped = past.overlapped]
    BY <1>11 DEF Take
  <2>2. past' = past
    BY <1>1, <2>1 DEF PastRecords
  <2> QED BY <1>1, <1>3, <1>4, <1>7, <1>8, <1>11, <2>2 DEF On
<1> QED BY <1>10, <1>11

\* What a worker does next, unless it is done.
Successions ==
  {<<"record", "register">>, <<"record", "insert">>, <<"register", "insert">>,
   <<"insert", "send">>, <<"decided", "owned">>, <<"decided", "ensure">>, <<"owned", "judge">>,
   <<"owned", "ensure">>, <<"judge", "decide">>, <<"decide", "ensure">>, <<"ensure", "row">>,
   <<"row", "submit">>, <<"mapped", "add">>, <<"add", "map">>}

\* The wake goes on to the row with the policy it read.
LEMMA ReadPolicyEffect ==
  ASSUME IntakeTyped, NEW w \in Workers, ReadPolicy(w)
  PROVE  /\ worker' \in [Workers -> WorkerRecords]
         /\ worker[w].pc = "ensure" /\ worker'[w].pc = "row"
         /\ worker'[w].event = worker[w].event
         /\ \A v \in Workers : v # w => worker'[v] = worker[v]
<1>1. channel \in Modes /\ "row" \in WorkerPCs
  BY DEF IntakeTyped, WorkerPCs, TriagePCs
<1> QED BY <1>1, WritesEffect DEF ReadPolicy

LEMMA WorkerMoves ==
  ASSUME IntakeTyped, NEW w \in Workers, Work(w) \/ Throw(w)
  PROVE  /\ worker[w].pc # "idle"
         /\ worker' \in [Workers -> WorkerRecords]
         /\ \A v \in Workers : v # w => worker'[v] = worker[v]
         /\ \/ worker'[w] = Idle
            \/ /\ worker'[w].event = worker[w].event
               /\ <<worker[w].pc, worker'[w].pc>> \in Successions
<1> USE DEF WorkerPCs, IngestPCs, TriagePCs, MemoryPCs, Successions
<1>1. CASE RecordEvent(w)
  BY <1>1, AckEffect, GoesEffect DEF RecordEvent
<1>2. CASE RegisterChannel(w)
  <2>1. channel' \in Modes
    BY <1>2 DEF RegisterChannel, IntakeTyped, Modes
  <2> QED BY <1>2, <2>1, WritesEffect DEF RegisterChannel
<1>3. CASE InsertMessage(w)
  BY <1>3, GoesEffect DEF InsertMessage
<1>4. CASE SendJobs(w) \/ Throw(w)
  BY <1>4, FreedEffect DEF SendJobs, Throw
<1>5. CASE Decided(w)
  BY <1>5, AckEffect, GoesEffect DEF Decided
<1>6. CASE FindOwned(w)
  BY <1>6, GoesEffect DEF FindOwned
<1>7. CASE JudgeMessage(w)
  <2>1. PICK wake \in {TRUE, run = "failed"} :
          worker' = [worker EXCEPT ![w].pc = "decide", ![w].wake = wake]
    BY <1>7 DEF JudgeMessage
  <2>2. wake \in BOOLEAN /\ worker[w].pc = "judge"
    BY <1>7, <2>1 DEF JudgeMessage
  <2> QED BY <2>1, <2>2, WritesEffect DEF Modes
<1>8. CASE Decide(w)
  BY <1>8, AckEffect, GoesEffect DEF Decide
<1>9. CASE ReadPolicy(w) \/ EnsureRunRow(w)
  BY <1>9, GoesEffect, ReadPolicyEffect DEF EnsureRunRow
<1>10. CASE SubmitTurn(w) \/ MapEpisode(w)
  BY <1>10, AckEffect DEF SubmitTurn, MapEpisode
<1>11. CASE CheckMapping(w)
  BY <1>11, AckEffect, GoesEffect DEF CheckMapping
<1>12. CASE AddEpisode(w)
  BY <1>12, GoesEffect DEF AddEpisode
<1> QED BY <1>1, <1>2, <1>3, <1>4, <1>5, <1>6, <1>7, <1>8, <1>9, <1>10, <1>11, <1>12 DEF Work

\* Failures only grow, and only a delivery overlaps with another.
LEMMA PastMoves ==
  ASSUME IntakeTyped, Ordered, NEW w \in Workers, Work(w) \/ Throw(w)
  PROVE  /\ past' \in PastRecords /\ past'.overlapped = past.overlapped
         /\ past'.failures = 0 => past.failures = 0
<1> DEFINE e == worker[w].event
<1>1. past \in PastRecords /\ past.failures \in Nat /\ past.lost \in SUBSET Events
      /\ e \in Events
  <2>1. worker[w].pc # "idle"
    BY WorkerMoves
  <2> QED BY <2>1 DEF IntakeTyped, Ordered, PastRecords
<1>2. past.failures + 1 \in Nat /\ past.lost \cup {e} \in SUBSET Events
  BY <1>1
<1> HIDE DEF e
<1>3. ASSUME NEW f \in {past.failures, past.failures + 1},
             NEW l \in {past.lost, past.lost \cup {e}},
             past' = [past EXCEPT !.failures = f, !.lost = l]
      PROVE  /\ past' \in PastRecords /\ past'.overlapped = past.overlapped
             /\ past'.failures = 0 => past.failures = 0
  <2>1. f \in Nat /\ l \in SUBSET Events /\ (f = 0 => past.failures = 0)
    BY <1>1, <1>2
  <2> QED BY <1>1, <1>3, <2>1 DEF PastRecords
<1>4. CASE Throw(w)
  <2>1. PICK l \in {past.lost, past.lost \cup {e}} :
          past' = [past EXCEPT !.failures = past.failures + 1, !.lost = l]
    BY <1>4 DEF Throw, e
  <2> QED BY <1>3, <2>1
<1>5. CASE RegisterChannel(w)
  <2>1. PICK f \in {past.failures, past.failures + 1} : past' = [past EXCEPT !.failures = f]
    BY <1>5 DEF RegisterChannel
  <2>2. past' = [past EXCEPT !.failures = f, !.lost = past.lost]
    BY <1>1, <2>1 DEF PastRecords
  <2> QED BY <1>3, <2>1, <2>2
<1>6. CASE SendJobs(w)
  <2>1. PICK f \in {past.failures, past.failures + 1}, l \in {past.lost, past.lost \cup {e}} :
          past' = [past EXCEPT !.failures = f, !.lost = l]
    BY <1>6 DEF SendJobs, e
  <2> QED BY <1>3, <2>1
<1>7. CASE Decided(w)
  <2>1. CASE past' = past
    BY <1>1, <2>1
  <2>2. CASE past' = [past EXCEPT !.lost = past.lost \cup {e}]
    <3>1. past' = [past EXCEPT !.failures = past.failures, !.lost = past.lost \cup {e}]
      BY <1>1, <2>2 DEF PastRecords
    <3> QED BY <1>3, <3>1
  <2> QED BY <1>7, <2>1, <2>2 DEF Decided, e
<1>8. CASE SubmitTurn(w)
  <2>1. PICK m \in BOOLEAN : past' = [past EXCEPT !.muted = m]
    BY <1>8 DEF SubmitTurn, CanPost
  <2> QED BY <1>1, <2>1 DEF PastRecords
<1>9. CASE past' = past
  BY <1>1, <1>9
<1> QED BY <1>4, <1>5, <1>6, <1>7, <1>8, <1>9
        DEF Work, RecordEvent, InsertMessage, FindOwned, JudgeMessage, Decide, ReadPolicy,
            EnsureRunRow, CheckMapping, AddEpisode, MapEpisode

\* What a step does to D1, to the run's object and to Zep.
LEMMA StoresMove ==
  ASSUME IntakeTyped, Ordered, NEW w \in Workers, Work(w) \/ Throw(w)
  PROVE  LET e == worker[w].event IN
         /\ \/ seen' = seen
            \/ seen' = seen \cup {e} /\ worker[w].pc = "record" /\ e \notin seen
         /\ \/ messages' = messages
            \/ messages' = messages \cup {e} /\ worker[w].pc = "insert"
         /\ \/ mapped' = mapped
            \/ mapped' = mapped \cup {e} /\ worker[w].pc = "map"
         /\ \/ admitted' = admitted
            \/ admitted' = admitted \cup {e} /\ worker[w].pc = "submit"
         /\ \/ decision' = decision
            \/ /\ worker[w].pc = "decide"
               /\ \E v \in {"wake", "quiet"} :
                    decision' = [decision EXCEPT ![e] = IF @ = "none" THEN v ELSE @]
         /\ \/ episodes' = episodes
            \/ worker[w].pc = "add" /\ episodes' = [episodes EXCEPT ![e] = @ + 1]
         /\ channel' \in Modes /\ run' \in Active \cup {"none", "failed", "done"}
         /\ shadow' \in BOOLEAN
<1>1. channel \in Modes /\ run \in Active \cup {"none", "failed", "done"} /\ shadow \in BOOLEAN
  BY DEF IntakeTyped
<1>2. CASE RecordEvent(w) \/ InsertMessage(w)
  BY <1>1, <1>2 DEF RecordEvent, InsertMessage
<1>3. CASE RegisterChannel(w)
  BY <1>1, <1>3 DEF RegisterChannel, Modes
<1>4. CASE Decide(w)
  BY <1>1, <1>4 DEF Decide
<1>5. CASE EnsureRunRow(w)
  BY <1>1, <1>5 DEF EnsureRunRow, RatchetShadow, CanPost, Active
<1>6. CASE SubmitTurn(w) \/ MapEpisode(w) \/ AddEpisode(w)
  BY <1>1, <1>6 DEF SubmitTurn, MapEpisode, AddEpisode, intakeD1
<1>7. CASE UNCHANGED <<intakeD1, admitted, episodes>>
  BY <1>1, <1>7 DEF intakeD1
<1> QED BY <1>2, <1>3, <1>4, <1>5, <1>6, <1>7
        DEF Work, Throw, SendJobs, Decided, FindOwned, JudgeMessage, ReadPolicy, CheckMapping

\* A job is added by the worker at "send", of its own event; the others take theirs away.
LEMMA JobsMove ==
  ASSUME IntakeTyped, Ordered, NEW w \in Workers, Work(w) \/ Throw(w)
  PROVE  LET e == worker[w].event IN
         \/ jobs' \subseteq jobs
         \/ worker[w].pc = "send" /\ jobs' \subseteq jobs \cup {Job("triage", e), Job("memory", e)}
<1>1. CASE SendJobs(w)
  BY <1>1 DEF SendJobs
<1>2. CASE Throw(w)
  BY <1>2 DEF Throw, Redeliver
<1> QED BY <1>1, <1>2, AckEffect
        DEF Work, RecordEvent, RegisterChannel, InsertMessage, Decided, FindOwned, JudgeMessage,
            Decide, ReadPolicy, EnsureRunRow, SubmitTurn, CheckMapping, AddEpisode, MapEpisode

\* What goes on had something to go on with: a first sighting, a message that is not
\* in the memory, a decision read.
LEMMA GoingOn ==
  ASSUME IntakeTyped, Ordered, NEW w \in Workers, Work(w) \/ Throw(w), worker'[w] # Idle
  PROVE  LET e == worker[w].event
             pc == worker'[w].pc IN
         /\ worker[w].pc = "record" => e \notin seen /\ e \in seen'
         /\ pc = "add" => e \in messages /\ e \notin mapped
         /\ pc = "owned" => decision[e] = "none"
         /\ worker[w].pc = "decided" /\ pc = "ensure" => decision[e] = "wake"
         /\ worker[w].pc = "decide" /\ decision[e] = "none" => decision'[e] = "wake"
<1> USE DEF WorkerPCs, IngestPCs, TriagePCs, MemoryPCs
<1>1. CASE RecordEvent(w)
  BY <1>1, AckEffect, GoesEffect DEF RecordEvent
<1>2. CASE CheckMapping(w)
  BY <1>2, AckEffect, GoesEffect DEF CheckMapping
<1>3. CASE Decided(w)
  BY <1>3, AckEffect, GoesEffect DEF Decided
<1>4. CASE Decide(w)
  <2>1. worker[w].wake /\ Goes(w, "ensure") /\ worker[w].pc = "decide"
    BY <1>4, AckEffect DEF Decide
  <2>2. decision[worker[w].event] = "none" => decision'[worker[w].event] = "wake"
    <3>1. worker[w].event \in Events
      BY <2>1 DEF Ordered
    <3> QED BY <1>4, <2>1, <3>1 DEF Decide, IntakeTyped
  <2>3. worker'[w].pc = "ensure"
    BY <2>1, GoesEffect
  <2> QED BY <2>1, <2>2, <2>3
<1>5. CASE SendJobs(w) \/ Throw(w)
  BY <1>5, FreedEffect DEF SendJobs, Throw
<1>6. CASE SubmitTurn(w) \/ MapEpisode(w)
  BY <1>6, AckEffect DEF SubmitTurn, MapEpisode
<1>7. CASE InsertMessage(w) \/ FindOwned(w) \/ ReadPolicy(w) \/ EnsureRunRow(w) \/ AddEpisode(w)
  <2>1. /\ worker'[w].pc \in {"send", "ensure", "judge", "row", "submit", "map"}
        /\ worker[w].pc \in {"insert", "owned", "ensure", "row", "add"}
    BY <1>7, GoesEffect, ReadPolicyEffect DEF InsertMessage, FindOwned, EnsureRunRow, AddEpisode
  <2> QED BY <2>1
<1>8. CASE RegisterChannel(w) \/ JudgeMessage(w)
  <2>1. worker[w].pc \in {"register", "judge"}
    BY <1>8 DEF RegisterChannel, JudgeMessage
  <2>2. <<worker[w].pc, worker'[w].pc>> \in Successions
    BY <1>8, WorkerMoves
  <2> QED BY <2>1, <2>2 DEF Successions
<1> QED BY <1>1, <1>2, <1>3, <1>4, <1>5, <1>6, <1>7, <1>8 DEF Work

-----------------------------------------------------------------------------
(* The steps of a worker on its event.                                     *)

LEMMA WorkKeepsTyped ==
  ASSUME IntakeTyped, Ordered, NEW w \in Workers, Work(w) \/ Throw(w)
  PROVE  IntakeTyped' /\ Ordered'
<1> DEFINE e == worker[w].event
<1>1. e \in Events /\ worker[w].pc # "idle"
  BY WorkerMoves DEF Ordered
<1>2. \A v \in Workers : v # w => worker'[v] = worker[v]
  BY WorkerMoves
<1>3. seen \subseteq seen' /\ seen' \subseteq Events /\ messages \subseteq messages'
  BY <1>1, StoresMove DEF IntakeTyped
<1>4. worker[w].pc \notin {"idle", "record"} => e \in seen
  BY DEF Ordered
<1>5. messages' \subseteq seen' /\ admitted' \subseteq seen'
  <2>1. messages' \subseteq seen'
    BY <1>3, <1>4, StoresMove DEF IntakeTyped
  <2>2. admitted' \subseteq seen'
    BY <1>3, <1>4, StoresMove DEF IntakeTyped
  <2> QED BY <2>1, <2>2
<1>6. mapped' \subseteq messages'
  <2>1. worker[w].pc = "map" => e \in messages
    BY DEF Ordered
  <2> QED BY <1>3, <2>1, StoresMove DEF IntakeTyped
<1>7. jobs' \subseteq [queue : {"ingest", "triage", "memory"}, event : Events]
  BY <1>1, JobsMove DEF IntakeTyped, Job
<1>8. decision' \in [Events -> {"none", "wake", "quiet"}] /\ episodes' \in [Events -> Nat]
  <2>1. decision' \in [Events -> {"none", "wake", "quiet"}]
    BY <1>1, StoresMove DEF IntakeTyped
  <2>2. episodes' \in [Events -> Nat]
    BY <1>1, StoresMove DEF IntakeTyped
  <2> QED BY <2>1, <2>2
<1>9. IntakeTyped'
  BY <1>3, <1>5, <1>6, <1>7, <1>8, WorkerMoves, PastMoves, StoresMove DEF IntakeTyped
<1>10. ASSUME NEW f \in Events, Job("triage", f) \in jobs' \/ Job("memory", f) \in jobs'
       PROVE  f \in seen'
  <2>1. CASE Job("triage", f) \in jobs \/ Job("memory", f) \in jobs
    BY <1>3, <2>1 DEF Ordered
  <2>2. CASE f = e /\ worker[w].pc = "send"
    BY <1>3, <1>4, <2>2
  <2>3. CASE ~(Job("triage", f) \in jobs \/ Job("memory", f) \in jobs)
    <3>1. /\ worker[w].pc = "send"
          /\ \E q \in {"triage", "memory"} : \E r \in {"triage", "memory"} : Job(q, f) = Job(r, e)
      BY <1>10, <2>3, JobsMove
    <3> QED BY <2>2, <3>1, JobsDiffer
  <2> QED BY <2>1, <2>3
<1>11. ASSUME NEW v \in Workers
       PROVE  /\ worker'[v].pc # "idle" => worker'[v].event \in Events
              /\ worker'[v].pc \notin {"idle", "record"} => worker'[v].event \in seen'
              /\ worker'[v].pc \in {"add", "map"} => worker'[v].event \in messages'
  <2>1. CASE v # w
    <3>1. worker'[v] = worker[v]
      BY <1>2, <2>1
    <3>2. worker[v].pc \in {"add", "map"} => worker[v].event \in messages
      BY DEF Ordered
    <3>3. /\ worker[v].pc # "idle" => worker[v].event \in Events
          /\ worker[v].pc \notin {"idle", "record"} => worker[v].event \in seen
      BY DEF Ordered
    <3> QED BY <1>3, <3>1, <3>2, <3>3
  <2>2. CASE v = w /\ worker'[w] = Idle
    BY <2>2, IdleTyped
  <2>3. CASE v = w /\ worker'[w] # Idle
    <3>1. worker'[w].event = e /\ <<worker[w].pc, worker'[w].pc>> \in Successions
      BY <2>3, WorkerMoves
    <3>2. e \in seen'
      BY <1>1, <1>3, <1>4, <2>3, GoingOn
    <3>3. worker'[w].pc = "add" => e \in messages
      BY <2>3, GoingOn
    <3>4. worker'[w].pc = "map" => e \in messages
      BY <3>1 DEF Successions, Ordered
    <3> QED BY <1>1, <1>3, <2>3, <3>1, <3>2, <3>3, <3>4
  <2> QED BY <2>1, <2>2, <2>3
<1> QED BY <1>9, <1>10, <1>11 DEF Ordered

LEMMA WorkKeepsSingle ==
  ASSUME IntakeTyped, Ordered, Single, NEW w \in Workers, Work(w) \/ Throw(w)
  PROVE  Single'
<1>1. past'.overlapped = past.overlapped
  BY PastMoves
<1>2. ASSUME NEW v \in Workers, NEW f \in Events, On(v, f)'
      PROVE  On(v, f)
  BY <1>2, WorkerMoves, IdleTyped DEF On
<1> QED BY <1>1, <1>2 DEF Single

\* Elsewhere nothing changes.
LEMMA OtherEvents ==
  ASSUME IntakeTyped, Ordered, NEW w \in Workers, Work(w) \/ Throw(w),
         NEW e \in Events, e # worker[w].event
  PROVE  /\ decision'[e] = decision[e] /\ episodes'[e] = episodes[e]
         /\ e \in admitted' <=> e \in admitted
         /\ e \in mapped' <=> e \in mapped
         /\ Job("triage", e) \in jobs' => Job("triage", e) \in jobs
         /\ \A v \in Workers : worker'[v].event = e /\ worker'[v].pc # "idle" => worker'[v] = worker[v]
         /\ \A v \in Workers : worker[v].event = e => worker'[v] = worker[v]
<1>1. worker[w].event \in Events
  BY WorkerMoves DEF Ordered
<1>2. decision'[e] = decision[e]
  BY <1>1, StoresMove DEF IntakeTyped
<1>3. episodes'[e] = episodes[e]
  BY <1>1, StoresMove DEF IntakeTyped
<1>4. (e \in admitted' <=> e \in admitted) /\ (e \in mapped' <=> e \in mapped)
  BY StoresMove
<1>5. Job("triage", e) \in jobs' => Job("triage", e) \in jobs
  BY JobsMove, JobsDiffer
<1>6. /\ \A v \in Workers : worker'[v].event = e /\ worker'[v].pc # "idle" => worker'[v] = worker[v]
      /\ \A v \in Workers : worker[v].event = e => worker'[v] = worker[v]
  BY WorkerMoves, IdleTyped
<1> QED BY <1>2, <1>3, <1>4, <1>5, <1>6

LEMMA WorkKeepsTriage ==
  ASSUME IntakeTyped, Ordered, Single, TriageInv, NEW w \in Workers, Work(w) \/ Throw(w)
  PROVE  TriageInv'
<1>1. past'.overlapped = past.overlapped
  BY PastMoves
<1>2. ASSUME NEW f \in Events \ past.overlapped, f # worker[w].event
      PROVE  Settled(f)' /\ Undecided(f)'
  <2>1. Settled(f) /\ Undecided(f)
    BY DEF TriageInv
  <2>2. /\ decision'[f] = decision[f] /\ (f \in admitted' <=> f \in admitted)
        /\ Job("triage", f) \in jobs' => Job("triage", f) \in jobs
        /\ \A v \in Workers : worker'[v].event = f /\ worker'[v].pc # "idle" => worker'[v] = worker[v]
    BY <1>2, OtherEvents
  <2>3. "idle" \notin IngestPCs \cup TriagePCs
    BY DEF IngestPCs, TriagePCs
  <2>4. Settled(f)'
    BY <2>1, <2>2, <2>3 DEF Settled
  <2>5. Undecided(f)'
    BY <2>1, <2>2 DEF Undecided
  <2> QED BY <2>4, <2>5
<1>3. ASSUME NEW e \in Events \ past.overlapped, e = worker[w].event
      PROVE  Settled(e)' /\ Undecided(e)'
  <2> DEFINE pc == worker[w].pc
  <2>1. Settled(e) /\ Undecided(e)
    BY <1>3 DEF TriageInv
  <2>2. /\ e \in admitted => pc \notin IngestPCs \cup TriagePCs
        /\ pc \in {"owned", "judge", "decide"} => decision[e] = "none"
        /\ pc \in {"ensure", "row", "submit"} => decision[e] # "quiet"
    BY <1>3, <2>1 DEF Settled, Undecided
  <2>3. \A v \in Workers : v # w /\ worker'[v].event = e => worker'[v].pc = "idle"
    BY <1>3, WorkerMoves DEF Single, On
  <2>4. pc # "decide" => decision'[e] = decision[e]
    BY <1>3, StoresMove
  <2>5. worker'[w] # Idle =>
          worker'[w].event = e /\ <<pc, worker'[w].pc>> \in Successions
    BY <1>3, WorkerMoves
  <2>6. Settled(e)'
    <3>1. CASE SubmitTurn(w)
      <4>1. pc = "submit" /\ decision' = decision
        BY <3>1 DEF SubmitTurn, intakeD1
      <4>2. worker'[w] = Idle /\ Job("triage", e) \notin jobs'
        BY <1>3, <3>1, AckEffect DEF SubmitTurn
      <4>3. \A v \in Workers : worker'[v].event = e => worker'[v].pc \notin IngestPCs \cup TriagePCs
        BY <2>3, <4>2, IdleTyped DEF IngestPCs, TriagePCs
      <4> QED BY <2>2, <4>1, <4>2, <4>3 DEF Settled
    <3>2. CASE ~SubmitTurn(w)
      <4>1. admitted' = admitted
        BY <3>2 DEF Work, Throw, RecordEvent, RegisterChannel, InsertMessage, SendJobs, Decided,
                    FindOwned, JudgeMessage, Decide, ReadPolicy, EnsureRunRow, CheckMapping,
                    AddEpisode, MapEpisode
      <4>2. SUFFICES ASSUME e \in admitted
                     PROVE  /\ decision'[e] # "quiet" /\ Job("triage", e) \notin jobs'
                            /\ \A v \in Workers : worker'[v].event = e =>
                                 worker'[v].pc \notin IngestPCs \cup TriagePCs
        BY <4>1 DEF Settled
      <4>3. pc \notin IngestPCs \cup TriagePCs /\ e \in seen
        BY <2>2, <4>2 DEF IntakeTyped
      <4>4. pc \notin {"decide", "send"}
        BY <4>3 DEF IngestPCs, TriagePCs
      <4>5. decision'[e] # "quiet"
        BY <2>1, <2>4, <4>2, <4>4 DEF Settled
      <4>6. Job("triage", e) \notin jobs'
        BY <1>3, <2>1, <4>2, <4>4, JobsMove DEF Settled
      <4>7. worker'[w].pc \notin IngestPCs \cup TriagePCs
        <5>1. CASE worker'[w] = Idle
          BY <5>1, IdleTyped DEF IngestPCs, TriagePCs
        <5>2. CASE worker'[w] # Idle
          <6>1. pc # "record"
            BY <1>3, <4>3, <5>2, GoingOn
          <6> QED BY <2>5, <4>3, <5>2, <6>1 DEF Successions, IngestPCs, TriagePCs
        <5> QED BY <5>1, <5>2
      <4>8. \A v \in Workers : worker'[v].event = e => worker'[v].pc \notin IngestPCs \cup TriagePCs
        BY <2>3, <4>7 DEF IngestPCs, TriagePCs
      <4> QED BY <4>5, <4>6, <4>8
    <3> QED BY <3>1, <3>2
  <2>7. Undecided(e)'
    <3>1. CASE worker'[w] = Idle
      BY <2>3, <3>1, IdleTyped DEF Undecided
    <3>2. CASE worker'[w] # Idle
      <4>1. /\ worker'[w].pc = "owned" => decision[e] = "none"
            /\ pc = "decided" /\ worker'[w].pc = "ensure" => decision[e] = "wake"
            /\ pc = "decide" /\ decision[e] = "none" => decision'[e] = "wake"
        BY <1>3, <3>2, GoingOn
      <4>2. <<pc, worker'[w].pc>> \in Successions
        BY <2>5, <3>2
      <4>3. worker'[w].pc \in {"owned", "judge", "decide"} => decision'[e] = "none"
        BY <2>2, <2>4, <4>1, <4>2 DEF Successions
      <4>4. worker'[w].pc \in {"ensure", "row", "submit"} => decision'[e] # "quiet"
        BY <2>2, <2>4, <4>1, <4>2 DEF Successions
      <4> QED BY <2>3, <4>3, <4>4 DEF Undecided
    <3> QED BY <3>1, <3>2
  <2> QED BY <2>6, <2>7
<1> QED BY <1>1, <1>2, <1>3 DEF TriageInv

LEMMA WorkKeepsEpisode ==
  ASSUME IntakeTyped, Ordered, Single, EpisodeInv, NEW w \in Workers, Work(w) \/ Throw(w)
  PROVE  EpisodeInv'
<1>1. SUFFICES ASSUME past'.failures = 0
               PROVE  past'.overlapped = {} /\ \A e \in Events : Remembered(e)'
  BY DEF EpisodeInv
<1>2. past.failures = 0 /\ past.overlapped = {} /\ past'.overlapped = {}
  BY <1>1, PastMoves DEF EpisodeInv
<1>3. Work(w)
  <2>1. ASSUME Throw(w)
        PROVE  FALSE
    <3>1. past'.failures = past.failures + 1
      BY <2>1 DEF Throw, IntakeTyped, PastRecords
    <3> QED BY <1>1, <1>2, <3>1
  <2> QED BY <2>1
<1>4. ASSUME NEW e \in Events, e # worker[w].event
      PROVE  Remembered(e)'
  <2>1. Remembered(e)
    BY <1>2 DEF EpisodeInv
  <2>2. /\ episodes'[e] = episodes[e] /\ (e \in mapped' <=> e \in mapped)
        /\ \A v \in Workers : worker'[v].event = e /\ worker'[v].pc # "idle" => worker'[v] = worker[v]
        /\ \A v \in Workers : worker[v].event = e => worker'[v] = worker[v]
    BY <1>4, OtherEvents
  <2> QED BY <2>1, <2>2 DEF Remembered
<1>5. ASSUME NEW e \in Events, e = worker[w].event
      PROVE  Remembered(e)'
  <2>1. /\ episodes[e] <= 1
        /\ worker[w].pc = "add" => episodes[e] = 0
        /\ episodes \in [Events -> Nat]
    BY <1>2, <1>5 DEF EpisodeInv, Remembered, IntakeTyped
  <2>2. \A v \in Workers : v # w /\ worker[v].event = e => worker[v].pc = "idle"
    BY <1>2, <1>5, WorkerMoves DEF Single, On
  <2>3. \A v \in Workers : v # w => worker'[v] = worker[v]
    BY WorkerMoves
  <2>4. worker[w].pc # "map" => episodes[e] = 0 \/ e \in mapped
    BY <1>2, <2>2 DEF EpisodeInv, Remembered
  <2>5. CASE AddEpisode(w)
    <3>1. /\ episodes' = [episodes EXCEPT ![e] = @ + 1] /\ worker[w].pc = "add"
          /\ Goes(w, "map")
      BY <1>5, <2>5 DEF AddEpisode
    <3>2. episodes'[e] = 1
      BY <2>1, <3>1
    <3>3. worker'[w].pc = "map" /\ worker'[w].event = e
      BY <1>5, <3>1, GoesEffect DEF WorkerPCs, MemoryPCs
    <3> QED BY <2>2, <2>3, <3>2, <3>3 DEF Remembered
  <2>6. CASE MapEpisode(w)
    <3>1. episodes' = episodes /\ e \in mapped' /\ worker'[w] = Idle
      BY <1>5, <2>6, AckEffect DEF MapEpisode
    <3> QED BY <2>1, <2>2, <2>3, <3>1, IdleTyped DEF Remembered
  <2>7. CASE ~AddEpisode(w) /\ ~MapEpisode(w)
    <3>1. worker[w].pc # "map" /\ worker[w].pc # "add"
      BY <1>3, <2>7 DEF Work, RecordEvent, RegisterChannel, InsertMessage, SendJobs, Decided,
                        FindOwned, JudgeMessage, Decide, ReadPolicy, EnsureRunRow, SubmitTurn,
                        CheckMapping
    <3>2. episodes' = episodes /\ mapped' = mapped
      BY <3>1, StoresMove
    <3>3. worker'[w].pc = "add" => e \notin mapped
      BY <1>5, GoingOn, IdleTyped
    <3>4. \A v \in Workers : worker'[v].event = e /\ worker'[v].pc = "add" => v = w
      BY <2>2, <2>3
    <3>5. worker'[w].pc = "add" => episodes[e] = 0
      BY <2>4, <3>1, <3>3
    <3> QED BY <2>1, <2>4, <3>1, <3>2, <3>4, <3>5 DEF Remembered
  <2> QED BY <2>5, <2>6, <2>7
<1> QED BY <1>2, <1>4, <1>5

-----------------------------------------------------------------------------
(* A delivery, and what others do.                                         *)

LEMMA TakeKeepsInv ==
  ASSUME IntakeInv, NEW w \in Workers, NEW job \in jobs, Take(w, job)
  PROVE  IntakeInv'
<1> DEFINE e == job.event
<1> USE DEF IntakeInv
<1>1. UNCHANGED <<jobs, seen, messages, channel, decision, run, shadow, mapped, admitted, episodes>>
  BY DEF Take, intakeD1
<1>2. /\ worker' \in [Workers -> WorkerRecords]
      /\ e \in Events /\ job = Job(job.queue, e)
      /\ worker[w].pc = "idle" /\ worker'[w].event = e
      /\ \/ job.queue = "ingest" /\ worker'[w].pc = "record"
         \/ job.queue = "triage" /\ worker'[w].pc = "decided"
         \/ job.queue = "memory" /\ worker'[w].pc = "mapped"
      /\ \A v \in Workers : v # w => worker'[v] = worker[v]
      /\ past' \in PastRecords /\ past'.muted = past.muted
      /\ past.overlapped \subseteq past'.overlapped
      /\ past'.failures = 0 => past' = past /\ past.failures = 0
      /\ (\E v \in Workers : On(v, e)) => e \in past'.overlapped /\ past'.failures # 0
  BY TakeEffect
<1>3. IntakeTyped'
  BY <1>1, <1>2 DEF IntakeTyped
<1>4. Ordered'
  <2>1. worker'[w].pc # "record" => e \in seen
    BY <1>2 DEF Ordered
  <2>2. worker'[w].event \in Events /\ worker'[w].pc \notin {"add", "map"}
    BY <1>2
  <2> QED BY <1>1, <1>2, <2>1, <2>2 DEF Ordered
<1>5. Single'
  <2>1. ASSUME NEW u \in Workers, NEW v \in Workers, NEW f \in Events \ past'.overlapped,
               On(u, f)', On(v, f)'
        PROVE  u = v
    <3>1. \A x \in Workers : x # w => (On(x, f)' <=> On(x, f))
      BY <1>2 DEF On
    <3>2. On(w, f)' => f = e
      BY <1>2 DEF On
    <3>3. f = e => \A x \in Workers : ~On(x, f)
      BY <1>2, <2>1
    <3>4. f \notin past.overlapped
      BY <1>2
    <3> QED BY <2>1, <3>1, <3>2, <3>3, <3>4 DEF Single
  <2> QED BY <2>1 DEF Single
<1>6. TriageInv'
  <2>1. ASSUME NEW f \in Events \ past'.overlapped
        PROVE  Settled(f)' /\ Undecided(f)'
    <3>1. Settled(f) /\ Undecided(f)
      BY <1>2 DEF TriageInv
    <3>2. f \in admitted /\ worker'[w].event = f => worker'[w].pc \notin IngestPCs \cup TriagePCs
      <4>1. f \in admitted => Job("triage", f) \notin jobs
        BY <3>1 DEF Settled
      <4> QED BY <1>2, <4>1 DEF IngestPCs, TriagePCs
    <3>3. worker'[w].pc \notin {"owned", "judge", "decide", "ensure", "row", "submit"}
      BY <1>2
    <3>4. Settled(f)'
      BY <1>1, <1>2, <3>1, <3>2 DEF Settled
    <3>5. Undecided(f)'
      BY <1>1, <1>2, <3>1, <3>3 DEF Undecided
    <3> QED BY <3>4, <3>5
  <2> QED BY <2>1 DEF TriageInv
<1>7. EpisodeInv'
  <2>1. SUFFICES ASSUME past'.failures = 0
                 PROVE  past'.overlapped = {} /\ \A f \in Events : Remembered(f)'
    BY DEF EpisodeInv
  <2>2. past'.overlapped = {} /\ \A f \in Events : Remembered(f)
    BY <1>2, <2>1 DEF EpisodeInv
  <2>3. worker'[w].pc \notin {"add", "map"} /\ worker[w].pc \notin {"add", "map"}
    BY <1>2
  <2> QED BY <1>1, <1>2, <2>2, <2>3 DEF Remembered
<1> QED BY <1>1, <1>2, <1>3, <1>4, <1>5, <1>6, <1>7 DEF MutedInv, MutedStaysShadow

\* The steps that leave the workers and what they decided alone.
LEMMA AroundKeepsInv ==
  ASSUME IntakeInv,
         UNCHANGED <<worker, seen, messages, decision, shadow, mapped, admitted, episodes>>,
         channel' \in Modes, run' \in Active \cup {"none", "failed", "done"},
         jobs' \subseteq jobs \cup {Job("ingest", e) : e \in Events},
         past' \in PastRecords, past'.overlapped = past.overlapped, past'.muted = past.muted,
         past'.failures = 0 => past.failures = 0
  PROVE  IntakeInv'
<1> USE DEF IntakeInv
<1>1. \A e \in Events : /\ Job("triage", e) \in jobs' => Job("triage", e) \in jobs
                        /\ Job("memory", e) \in jobs' => Job("memory", e) \in jobs
  BY JobsDiffer
<1>2. jobs' \subseteq [queue : {"ingest", "triage", "memory"}, event : Events]
  BY DEF IntakeTyped, Job
<1>3. IntakeTyped'
  BY <1>2 DEF IntakeTyped
<1>4. Ordered' /\ Single'
  BY <1>1 DEF Ordered, Single, On
<1>5. TriageInv'
  BY <1>1 DEF TriageInv, Settled, Undecided
<1>6. EpisodeInv'
  BY DEF EpisodeInv, Remembered
<1> QED BY <1>3, <1>4, <1>5, <1>6 DEF MutedInv, MutedStaysShadow

LEMMA OthersKeepInv ==
  ASSUME IntakeInv,
         \/ \E e \in Events : Receive(e)
         \/ \E mode \in {"observe", "live", "internal"} : SetMode(mode)
         \/ RunMoves
  PROVE  IntakeInv'
<1>1. /\ past \in PastRecords /\ past.failures \in Nat /\ past.came \in SUBSET Events
      /\ channel \in Modes /\ run \in Active \cup {"none", "failed", "done"}
  BY DEF IntakeInv, IntakeTyped, PastRecords
<1>2. ASSUME NEW e \in Events, Receive(e)
      PROVE  IntakeInv'
  <2>1. PICK f \in {past.failures, past.failures + 1} :
          past' = [past EXCEPT !.came = past.came \cup {e}, !.failures = f]
    BY <1>2 DEF Receive
  <2>2. f \in Nat /\ (f = 0 => past.failures = 0) /\ past.came \cup {e} \in SUBSET Events
    BY <1>1, <2>1
  <2>3. /\ past' \in PastRecords /\ past'.overlapped = past.overlapped /\ past'.muted = past.muted
        /\ past'.failures = 0 => past.failures = 0
    BY <1>1, <2>1, <2>2 DEF PastRecords
  <2>4. /\ jobs' = jobs \cup {Job("ingest", e)}
        /\ UNCHANGED <<worker, seen, messages, channel, decision, run, shadow, mapped, admitted,
                       episodes>>
    BY <1>2 DEF Receive, intakeD1
  <2> QED BY <1>1, <2>3, <2>4, AroundKeepsInv
<1>3. ASSUME NEW mode \in {"observe", "live", "internal"}, SetMode(mode)
      PROVE  IntakeInv'
  <2>1. /\ past' \in PastRecords /\ past'.overlapped = past.overlapped /\ past'.muted = past.muted
        /\ past'.failures = past.failures + 1
    BY <1>1, <1>3 DEF SetMode, PastRecords
  <2>2. channel' \in Modes
    BY <1>3 DEF SetMode, Modes
  <2> QED BY <1>1, <1>3, <2>1, <2>2, AroundKeepsInv DEF SetMode
<1>4. CASE RunMoves
  BY <1>1, <1>4, AroundKeepsInv DEF RunMoves
<1> QED BY <1>2, <1>3, <1>4

LEMMA WorkKeepsMuted ==
  ASSUME IntakeTyped, MutedInv, NEW w \in Workers, Work(w) \/ Throw(w)
  PROVE  MutedInv'
<1>1. /\ past.muted \in BOOLEAN /\ past \in PastRecords /\ shadow \in BOOLEAN
      /\ worker \in [Workers -> WorkerRecords]
  BY DEF IntakeTyped, PastRecords
<1>2. /\ \A v \in Workers : v # w => worker'[v] = worker[v]
      /\ worker'[w].pc = "submit" => worker[w].pc = "row"
  BY WorkerMoves, IdleTyped DEF Successions
<1>3. CASE EnsureRunRow(w)
  <2>1. past' = past /\ shadow' = (shadow \/ ~CanPost(worker[w].policy))
    BY <1>3 DEF EnsureRunRow, RatchetShadow
  <2>2. worker'[w].policy = worker[w].policy
    BY <1>1, <1>3 DEF EnsureRunRow, Goes, WorkerRecords
  <2>3. shadow => shadow'
    BY <2>1, Zenon
  <2>4. ~CanPost(worker'[w].policy) => shadow'
    BY <2>1, <2>2, Zenon
  <2> QED BY <1>2, <2>1, <2>3, <2>4, Zenon DEF MutedInv, MutedStaysShadow
<1>4. CASE SubmitTurn(w)
  <2>1. /\ past'.muted = (past.muted \/ ~CanPost(worker[w].policy)) /\ shadow' = shadow
        /\ worker[w].pc = "submit"
    BY <1>1, <1>4 DEF SubmitTurn, intakeD1, PastRecords
  <2>2. ~CanPost(worker[w].policy) => shadow
    BY <2>1 DEF MutedInv
  <2>3. worker'[w].pc # "submit"
    BY <1>2, <2>1
  <2> QED BY <1>2, <2>1, <2>2, <2>3, Zenon DEF MutedInv, MutedStaysShadow
<1>5. CASE ~EnsureRunRow(w) /\ ~SubmitTurn(w)
  <2>1. shadow' = shadow /\ past'.muted = past.muted
    BY <1>1, <1>5 DEF Work, Throw, RecordEvent, RegisterChannel, InsertMessage, SendJobs, Decided,
                      FindOwned, JudgeMessage, Decide, ReadPolicy, CheckMapping, AddEpisode,
                      MapEpisode, intakeD1, PastRecords
  <2>2. worker'[w].pc # "submit"
    <3>1. CASE Throw(w)
      BY <1>1, <3>1, IdleTyped DEF Throw, Idle
    <3>2. CASE Work(w)
      <4>1. worker[w].pc # "row"
        BY <1>5, <3>2 DEF Work, RecordEvent, RegisterChannel, InsertMessage, SendJobs, Decided,
                          FindOwned, JudgeMessage, Decide, ReadPolicy, CheckMapping, AddEpisode,
                          MapEpisode
      <4> QED BY <1>2, <4>1
    <3> QED BY <3>1, <3>2
  <2> QED BY <1>2, <2>1, <2>2, Zenon DEF MutedInv, MutedStaysShadow
<1> QED BY <1>3, <1>4, <1>5

-----------------------------------------------------------------------------
LEMMA IntakeInitEstablishesInv ==
  ASSUME IntakeInit
  PROVE  IntakeInv
<1>1. past \in PastRecords /\ past.muted = FALSE /\ past.overlapped = {}
  BY DEF IntakeInit, PastRecords
<1>2. worker \in [Workers -> WorkerRecords] /\ \A w \in Workers : worker[w].pc = "idle"
  BY IdleTyped DEF IntakeInit
<1>3. IntakeTyped
  BY <1>1, <1>2 DEF IntakeInit, IntakeTyped, Modes
<1>4. Ordered /\ Single
  BY <1>2 DEF IntakeInit, Ordered, Single, On
<1>5. TriageInv
  BY <1>2 DEF IntakeInit, TriageInv, Settled, Undecided, IngestPCs, TriagePCs
<1>6. EpisodeInv
  BY <1>1, <1>2 DEF IntakeInit, EpisodeInv, Remembered
<1> QED BY <1>1, <1>2, <1>3, <1>4, <1>5, <1>6 DEF IntakeInv, MutedInv, MutedStaysShadow

LEMMA IntakeStepKeepsInv ==
  ASSUME IntakeInv, [IntakeNext]_intakeVars
  PROVE  IntakeInv'
<1>1. ASSUME NEW w \in Workers, Work(w) \/ Throw(w)
      PROVE  IntakeInv'
  BY <1>1, WorkKeepsTyped, WorkKeepsSingle, WorkKeepsTriage, WorkKeepsEpisode, WorkKeepsMuted
     DEF IntakeInv
<1>2. ASSUME NEW w \in Workers, NEW job \in jobs, Take(w, job)
      PROVE  IntakeInv'
  BY <1>2, TakeKeepsInv
<1>3. CASE UNCHANGED intakeVars
  <2>1. channel \in Modes /\ run \in Active \cup {"none", "failed", "done"} /\ past \in PastRecords
    BY DEF IntakeInv, IntakeTyped
  <2> QED BY <1>3, <2>1, AroundKeepsInv DEF intakeVars, intakeD1
<1> QED BY <1>1, <1>2, <1>3, OthersKeepInv DEF IntakeNext

\* The inductive invariant holds in every state.
THEOREM IntakeInvariance == IntakeSpec => []IntakeInv
BY IntakeInitEstablishesInv, IntakeStepKeepsInv, PTL DEF IntakeSpec

\* The types hold, the rows of D1 are in their order (events, messages, mapping) whatever
\* fails and however often an event is delivered.
THEOREM IntakeTypeCorrect == IntakeSpec => []IntakeTypeOK
<1>1. IntakeInv => IntakeTypeOK
  BY DEF IntakeInv, IntakeTyped, IntakeTypeOK, FirstStepOf, WorkerRecords, WorkerPCs, IngestPCs, TriagePCs, MemoryPCs,
         Modes
<1> QED BY <1>1, IntakeInvariance, PTL

\* A muted run stays muted, a message decided to be quiet wakes nothing unless deliveries of it
\* overlapped, and without a failure a message becomes one episode (createOrGetRunUnderPolicy,
\* triageOne, projectOne).
THEOREM SafeIntake == IntakeSpec => []IntakeSafe
<1>1. IntakeInv => QuietWakesNothing
  BY DEF IntakeInv, TriageInv, Settled, QuietWakesNothing
<1>2. IntakeInv => OneEpisodePerMessage
  BY DEF IntakeInv, EpisodeInv, Remembered, OneEpisodePerMessage
<1>3. IntakeInv => IntakeSafe
  BY <1>1, <1>2 DEF IntakeInv, MutedInv, IntakeSafe
<1> QED BY <1>3, IntakeInvariance, PTL

-----------------------------------------------------------------------------
(* CustomerScope.                                                          *)

Edits == [mode : ChannelModes \cup {Unset}, edited : BOOLEAN, slug : Slugs \cup {Unset}]

Scopes ==
  [origin : {"chat", "slack", Unset}, channel : Channels \cup {Unset}, slug : Slugs \cup {Unset},
   trusted : BOOLEAN, vouched : Slugs \cup {Unset}]

References == [by : Executions, slug : Slugs]

Reads == [by : Executions, kind : {"graph", "citation", "tenant"}, slug : Slugs]

ScopeTyped ==
  /\ policy \in [Channels -> Policies \cup {Unset}]
  /\ registering \in [Registrations -> Channels \cup {Unset}]
  /\ edits \in [Channels -> Edits]
  /\ scope \in [Executions -> Scopes]
  /\ refs \subseteq References
  /\ recalled \in [Executions -> SUBSET Slugs]
  /\ reads \subseteq Reads

-----------------------------------------------------------------------------
(* A channel nobody registered was not edited, and a slug that counts as a *)
(* human's is the last one a human set.                                    *)

PolicyInv ==
  /\ DecisionsStand
  /\ \A ch \in Channels :
       /\ policy[ch] = Unset => edits[ch] = Unedited
       /\ policy[ch] # Unset /\ policy[ch].source = "human" => edits[ch].edited

\* A scope that may spend its slug as a tenant key took it from a human.
TrustInv ==
  \A x \in Executions : scope[x].trusted =>
    scope[x].origin = "slack" /\ scope[x].slug = scope[x].vouched

\* An execution may learn of a customer from its scope, or be shown it in a chat; it has
\* a scope by then.
MayRead(x, s) ==
  /\ scope[x].origin # Unset
  /\ \/ s = scope[x].slug
     \/ scope[x].origin = "chat" /\ [by |-> x, slug |-> s] \in refs

ReadsInv ==
  /\ \A x \in Executions : \A s \in recalled[x] : MayRead(x, s)
  /\ \A r \in reads : MayRead(r.by, r.slug)
  /\ TenantKeysAreVouchedFor

ScopeInv == ScopeTyped /\ PolicyInv /\ TrustInv /\ ReadsInv

-----------------------------------------------------------------------------
(* The catalog.                                                            *)

LEMMA ScopesTyped ==
  /\ NoScope \in Scopes /\ NoScope.origin = Unset /\ ~NoScope.trusted
  /\ Unedited \in Edits /\ Unedited.mode = Unset /\ ~Unedited.edited
  /\ \A ch \in Channels :
       /\ Policy(Derived[ch], "live", "derived") \in Policies
       /\ Policy(Derived[ch], "live", "derived").source = "derived"
       /\ Policy(Derived[ch], "live", "human") \in Policies
       /\ Policy(Derived[ch], "live", "human").slug = Derived[ch]
       /\ Policy(Derived[ch], "live", "human").source = "human"
BY DerivedAssumption DEF NoScope, Scopes, Unedited, Edits, Policy, Policies, ChannelModes

LEMMA RegisteringKeepsInv ==
  ASSUME ScopeInv, FindUnknown \/ GiveUp
  PROVE  ScopeInv'
<1>1. UNCHANGED <<policy, edits, scope, refs, recalled, reads>>
  BY DEF FindUnknown, GiveUp
<1>2. registering' \in [Registrations -> Channels \cup {Unset}]
  BY DEF ScopeInv, ScopeTyped, FindUnknown, GiveUp
<1>3. ScopeTyped'
  BY <1>1, <1>2 DEF ScopeInv, ScopeTyped
<1>4. PolicyInv' /\ TrustInv'
  BY <1>1 DEF ScopeInv, PolicyInv, DecisionsStand, TrustInv
<1>5. ReadsInv'
  BY <1>1 DEF ScopeInv, ReadsInv, MayRead, TenantKeysAreVouchedFor
<1> QED BY <1>3, <1>4, <1>5 DEF ScopeInv

\* An insert that comes too late changes nothing.
LEMMA InsertKeepsInv ==
  ASSUME ScopeInv, Insert
  PROVE  ScopeInv'
<1>1. PICK r \in Registrations :
        /\ registering[r] # Unset
        /\ policy' = [policy EXCEPT ![registering[r]] = Inserted(registering[r])]
        /\ registering' = [registering EXCEPT ![r] = Unset]
        /\ UNCHANGED <<edits, patches, scope, refs, recalled, reads>>
  BY DEF Insert
<1> DEFINE ch == registering[r]
<1>2. ch \in Channels
  BY <1>1 DEF ScopeInv, ScopeTyped
<1>3. policy \in [Channels -> Policies \cup {Unset}] /\ Unset \notin Policies
  BY UnsetAssumption DEF ScopeInv, ScopeTyped
<1>4. Inserted(ch) \in Policies
  BY <1>2, <1>3, ScopesTyped DEF Inserted
<1>5. /\ policy' \in [Channels -> Policies \cup {Unset}]
      /\ policy'[ch] = Inserted(ch)
      /\ \A c \in Channels : c # ch => policy'[c] = policy[c]
  BY <1>1, <1>2, <1>3, <1>4
<1>6. ScopeTyped'
  <2>1. registering' \in [Registrations -> Channels \cup {Unset}]
    BY <1>1 DEF ScopeInv, ScopeTyped
  <2> QED BY <1>1, <1>5, <2>1 DEF ScopeInv, ScopeTyped
<1>7. PolicyInv'
  <2>1. CASE policy[ch] # Unset
    <3>1. policy' = policy
      BY <1>1, <1>2, <1>3, <2>1 DEF Inserted
    <3> QED BY <1>1, <3>1 DEF ScopeInv, PolicyInv, DecisionsStand
  <2>2. CASE policy[ch] = Unset
    <3>1. edits[ch] = Unedited /\ policy'[ch] # Unset /\ policy'[ch].source = "derived"
      BY <1>2, <1>3, <1>4, <1>5, <2>2, ScopesTyped DEF ScopeInv, PolicyInv, Inserted
    <3> QED BY <1>1, <1>2, <1>5, <3>1, ScopesTyped DEF ScopeInv, PolicyInv, DecisionsStand
  <2> QED BY <2>1, <2>2
<1>8. TrustInv'
  BY <1>1 DEF ScopeInv, TrustInv
<1>9. ReadsInv'
  BY <1>1 DEF ScopeInv, ReadsInv, MayRead, TenantKeysAreVouchedFor
<1> QED BY <1>6, <1>7, <1>8, <1>9 DEF ScopeInv

\* What a fire-fighter edits is recorded as edited, and what he leaves alone stays.
LEMMA PatchKeepsInv ==
  ASSUME ScopeInv, PatchChannel
  PROVE  ScopeInv'
<1>1. PICK ch \in Channels, mode \in ChannelModes \cup {Unset}, edit \in BOOLEAN,
           slug \in Slugs \cup {Unset} :
        /\ policy[ch] # Unset /\ patches < MaxPatches
        /\ mode # Unset \/ edit
        /\ ~edit => slug = Unset
        /\ policy' = [policy EXCEPT
             ![ch].mode = IF mode = Unset THEN @ ELSE mode,
             ![ch].slug = IF edit THEN slug ELSE @,
             ![ch].source = IF ~edit THEN @ ELSE IF slug = Unset THEN "derived" ELSE "human"]
        /\ edits' = [edits EXCEPT
             ![ch].mode = IF mode = Unset THEN @ ELSE mode,
             ![ch].edited = @ \/ edit,
             ![ch].slug = IF edit THEN slug ELSE @]
        /\ patches' = patches + 1
        /\ UNCHANGED <<registering, scope, refs, recalled, reads>>
  BY DEF PatchChannel
<1>2. /\ policy \in [Channels -> Policies \cup {Unset}] /\ policy[ch] \in Policies
      /\ edits \in [Channels -> Edits] /\ edits[ch] \in Edits /\ Unset \notin Policies
  BY <1>1, UnsetAssumption DEF ScopeInv, ScopeTyped
<1> DEFINE p == [policy[ch] EXCEPT
                   !.mode = IF mode = Unset THEN @ ELSE mode,
                   !.slug = IF edit THEN slug ELSE @,
                   !.source = IF ~edit THEN @ ELSE IF slug = Unset THEN "derived" ELSE "human"]
           d == [edits[ch] EXCEPT
                   !.mode = IF mode = Unset THEN @ ELSE mode,
                   !.edited = @ \/ edit,
                   !.slug = IF edit THEN slug ELSE @]
<1>3. /\ p \in Policies
      /\ p.mode = IF mode = Unset THEN policy[ch].mode ELSE mode
      /\ p.slug = IF edit THEN slug ELSE policy[ch].slug
      /\ p.source = "human" => edit \/ policy[ch].source = "human"
  BY <1>1, <1>2 DEF Policies
<1>4. /\ d \in Edits
      /\ d.mode = IF mode = Unset THEN edits[ch].mode ELSE mode
      /\ d.slug = IF edit THEN slug ELSE edits[ch].slug
      /\ d.edited = (edits[ch].edited \/ edit)
  BY <1>1, <1>2 DEF Edits
<1>5. policy' = [policy EXCEPT ![ch] = p] /\ edits' = [edits EXCEPT ![ch] = d]
  BY <1>1, <1>2
<1> HIDE DEF p, d
<1>6. /\ policy' \in [Channels -> Policies \cup {Unset}] /\ policy'[ch] = p
      /\ edits' \in [Channels -> Edits] /\ edits'[ch] = d
      /\ \A c \in Channels : c # ch => policy'[c] = policy[c] /\ edits'[c] = edits[c]
  BY <1>2, <1>3, <1>4, <1>5
<1>7. ScopeTyped'
  BY <1>1, <1>6 DEF ScopeInv, ScopeTyped
<1>8. /\ d.mode # Unset => p.mode = d.mode
      /\ d.edited => p.slug = d.slug
      /\ p.source = "human" => d.edited
  <2>1. /\ edits[ch].mode # Unset => policy[ch].mode = edits[ch].mode
        /\ edits[ch].edited => policy[ch].slug = edits[ch].slug
        /\ policy[ch].source = "human" => edits[ch].edited
    BY <1>1 DEF ScopeInv, PolicyInv, DecisionsStand
  <2> QED BY <1>3, <1>4, <2>1
<1>9. PolicyInv'
  <2>1. p # Unset
    BY <1>2, <1>3
  <2> QED BY <1>6, <1>8, <2>1 DEF ScopeInv, PolicyInv, DecisionsStand, Unedited
<1>10. TrustInv'
  BY <1>1 DEF ScopeInv, TrustInv
<1>11. ReadsInv'
  BY <1>1 DEF ScopeInv, ReadsInv, MayRead, TenantKeysAreVouchedFor
<1> QED BY <1>7, <1>9, <1>10, <1>11 DEF ScopeInv

-----------------------------------------------------------------------------
(* The execution.                                                          *)

\* The scope is taken once, before anything is read.
LEMMA ResolveKeepsInv ==
  ASSUME ScopeInv, ResolveScope
  PROVE  ScopeInv'
<1>1. PICK x \in Executions, ch \in Channels \cup {Unset} :
        /\ scope[x].origin = Unset
        /\ scope' = [scope EXCEPT ![x] =
             IF ch = Unset THEN [NoScope EXCEPT !.origin = "chat"]
             ELSE [origin |-> "slack", channel |-> ch,
                   slug |-> IF policy[ch] = Unset THEN Unset ELSE policy[ch].slug,
                   trusted |-> Trusted(ch),
                   vouched |-> edits[ch].slug]]
        /\ UNCHANGED <<policy, registering, edits, patches, refs, recalled, reads>>
  BY DEF ResolveScope
<1> DEFINE s == IF ch = Unset THEN [NoScope EXCEPT !.origin = "chat"]
                ELSE [origin |-> "slack", channel |-> ch,
                      slug |-> IF policy[ch] = Unset THEN Unset ELSE policy[ch].slug,
                      trusted |-> Trusted(ch),
                      vouched |-> edits[ch].slug]
<1>2. s \in Scopes /\ (s.trusted => s.origin = "slack" /\ s.slug = s.vouched)
  <2>1. CASE ch = Unset
    BY <2>1 DEF NoScope, Scopes
  <2>2. CASE ch # Unset
    <3>1. ch \in Channels /\ policy[ch] \in Policies \cup {Unset} /\ edits[ch] \in Edits
      BY <2>2 DEF ScopeInv, ScopeTyped
    <3>2. policy[ch] # Unset => policy[ch].slug \in Slugs \cup {Unset}
      BY <3>1 DEF Policies
    <3>3. edits[ch].slug \in Slugs \cup {Unset} /\ Trusted(ch) \in BOOLEAN
      BY <3>1 DEF Edits, Trusted
    <3>4. Trusted(ch) => policy[ch] # Unset /\ policy[ch].slug = edits[ch].slug
      BY <3>1 DEF ScopeInv, PolicyInv, DecisionsStand, Trusted
    <3> QED BY <2>2, <3>1, <3>2, <3>3, <3>4 DEF Scopes
  <2> QED BY <2>1, <2>2
<1>3. scope' = [scope EXCEPT ![x] = s]
  BY <1>1
<1> HIDE DEF s
<1>4. /\ scope' \in [Executions -> Scopes] /\ scope'[x] = s
      /\ \A y \in Executions : y # x => scope'[y] = scope[y]
  BY <1>2, <1>3 DEF ScopeInv, ScopeTyped
<1>5. ScopeTyped'
  BY <1>1, <1>4 DEF ScopeInv, ScopeTyped
<1>6. PolicyInv'
  BY <1>1 DEF ScopeInv, PolicyInv, DecisionsStand
<1>7. TrustInv'
  BY <1>2, <1>4 DEF ScopeInv, TrustInv
<1>8. ReadsInv'
  <2>1. \A y \in Executions : \A z : MayRead(y, z) => y # x /\ MayRead(y, z)'
    BY <1>1, <1>4 DEF MayRead
  <2>2. \A r \in reads : r.by \in Executions /\ r.by # x
    BY <2>1 DEF ScopeInv, ReadsInv, ScopeTyped, Reads
  <2>3. TenantKeysAreVouchedFor'
    BY <1>1, <1>4, <2>2 DEF ScopeInv, ReadsInv, TenantKeysAreVouchedFor
  <2> QED BY <1>1, <2>1, <2>2, <2>3 DEF ScopeInv, ReadsInv
<1> QED BY <1>5, <1>6, <1>7, <1>8 DEF ScopeInv

LEMMA FindKeepsInv ==
  ASSUME ScopeInv, FindCustomers
  PROVE  ScopeInv'
<1>1. PICK x \in Executions, matches \in SUBSET Catalog :
        /\ refs' = refs \cup {[by |-> x, slug |-> s] : s \in matches}
        /\ UNCHANGED <<policy, registering, edits, patches, scope, recalled, reads>>
  BY DEF FindCustomers
<1>2. Catalog \subseteq Slugs
  BY DEF Catalog, ScopeInv, ScopeTyped, Policies
<1>3. refs' \subseteq References /\ refs \subseteq refs'
  BY <1>1, <1>2 DEF ScopeInv, ScopeTyped, References
<1>4. ScopeTyped'
  BY <1>1, <1>3 DEF ScopeInv, ScopeTyped
<1>5. PolicyInv' /\ TrustInv'
  BY <1>1 DEF ScopeInv, PolicyInv, DecisionsStand, TrustInv
<1>6. ReadsInv'
  BY <1>1, <1>3 DEF ScopeInv, ReadsInv, MayRead, TenantKeysAreVouchedFor
<1> QED BY <1>4, <1>5, <1>6 DEF ScopeInv

\* A read of what the execution may read, with whatever that leaves to cite.
LEMMA ReadingKeepsInv ==
  ASSUME ScopeInv, NEW x \in Executions, NEW s \in Slugs, MayRead(x, s),
         NEW kind \in {"graph", "citation", "tenant"},
         kind = "tenant" => scope[x].trusted /\ s = scope[x].slug,
         reads' = reads \cup {[by |-> x, kind |-> kind, slug |-> s]},
         recalled' = recalled \/ recalled' = [recalled EXCEPT ![x] = @ \cup {s}],
         UNCHANGED <<policy, registering, edits, patches, scope, refs>>
  PROVE  ScopeInv'
<1>1. recalled' \in [Executions -> SUBSET Slugs]
  BY DEF ScopeInv, ScopeTyped
<1>2. \A y \in Executions : \A z \in recalled'[y] : z \in recalled[y] \/ (y = x /\ z = s)
  BY DEF ScopeInv, ScopeTyped
<1>3. reads' \subseteq Reads
  BY DEF ScopeInv, ScopeTyped, Reads
<1>4. ScopeTyped'
  BY <1>1, <1>3 DEF ScopeInv, ScopeTyped
<1>5. PolicyInv' /\ TrustInv'
  BY DEF ScopeInv, PolicyInv, DecisionsStand, TrustInv
<1>6. \A y, z : MayRead(y, z) => MayRead(y, z)'
  BY DEF MayRead
<1>7. TenantKeysAreVouchedFor'
  <2>1. kind = "tenant" => scope[x].origin = "slack" /\ s = scope[x].vouched
    BY DEF ScopeInv, TrustInv
  <2> QED BY <2>1 DEF ScopeInv, ReadsInv, TenantKeysAreVouchedFor
<1>8. ReadsInv'
  BY <1>2, <1>6, <1>7 DEF ScopeInv, ReadsInv
<1> QED BY <1>4, <1>5, <1>8 DEF ScopeInv

LEMMA ProgramKeepsInv ==
  ASSUME ScopeInv, Recall \/ Cite \/ Select
  PROVE  ScopeInv'
<1>1. CASE Recall
  <2>1. PICK x \in Executions, ref \in refs \cup {Unset} :
          /\ scope[x].origin # Unset /\ Resolves(x, ref)
          /\ reads' = reads \cup {[by |-> x, kind |-> "graph", slug |-> CustomerOf(x, ref)]}
          /\ recalled' = [recalled EXCEPT ![x] = @ \cup {CustomerOf(x, ref)}]
          /\ UNCHANGED <<policy, registering, edits, patches, scope, refs>>
    BY <1>1 DEF Recall
  <2>2. CustomerOf(x, ref) \in Slugs /\ MayRead(x, CustomerOf(x, ref))
    <3>1. CASE ref = Unset
      <4>1. scope[x].slug \in Slugs
        BY <2>1, <3>1 DEF Resolves, ScopeInv, ScopeTyped, Scopes
      <4> QED BY <2>1, <3>1, <4>1 DEF CustomerOf, MayRead
    <3>2. CASE ref # Unset
      <4>1. ref \in References /\ ref.by = x /\ scope[x].origin = "chat"
        BY <2>1, <3>2 DEF Resolves, ScopeInv, ScopeTyped
      <4>2. ref = [by |-> x, slug |-> ref.slug] /\ ref.slug \in Slugs
        BY <4>1 DEF References
      <4> QED BY <2>1, <3>2, <4>1, <4>2 DEF CustomerOf, MayRead
    <3> QED BY <3>1, <3>2
  <2> QED BY <2>1, <2>2, ReadingKeepsInv
<1>2. CASE Cite
  <2>1. PICK x \in Executions, s \in Slugs :
          /\ s \in recalled[x]
          /\ reads' = reads \cup {[by |-> x, kind |-> "citation", slug |-> s]}
          /\ UNCHANGED <<policy, registering, edits, patches, scope, refs, recalled>>
    BY <1>2 DEF Cite
  <2>2. MayRead(x, s)
    BY <2>1 DEF ScopeInv, ReadsInv
  <2> QED BY <2>1, <2>2, ReadingKeepsInv
<1>3. CASE Select
  <2>1. PICK x \in Executions :
          /\ scope[x].slug # Unset /\ scope[x].trusted
          /\ reads' = reads \cup {[by |-> x, kind |-> "tenant", slug |-> scope[x].slug]}
          /\ UNCHANGED <<policy, registering, edits, patches, scope, refs, recalled>>
    BY <1>3 DEF Select
  <2>2. scope[x].slug \in Slugs
    BY <2>1 DEF ScopeInv, ScopeTyped, Scopes
  <2>3. MayRead(x, scope[x].slug)
    BY <2>1, UnsetAssumption DEF ScopeInv, TrustInv, MayRead
  <2> QED BY <2>1, <2>2, <2>3, ReadingKeepsInv
<1> QED BY <1>1, <1>2, <1>3

-----------------------------------------------------------------------------
LEMMA ScopeInitEstablishesInv ==
  ASSUME ScopeInit
  PROVE  ScopeInv
<1>1. PICK confirmed \in SUBSET Channels :
        /\ policy = [ch \in Channels |->
             IF ch \in confirmed THEN Policy(Derived[ch], "live", "human") ELSE Unset]
        /\ edits = [ch \in Channels |->
             IF ch \in confirmed THEN [Unedited EXCEPT !.edited = TRUE, !.slug = Derived[ch]]
             ELSE Unedited]
  BY DEF ScopeInit
<1>2. \A ch \in Channels : LET d == [Unedited EXCEPT !.edited = TRUE, !.slug = Derived[ch]] IN
        d \in Edits /\ d.mode = Unset /\ d.edited /\ d.slug = Derived[ch]
  BY DerivedAssumption DEF Unedited, Edits
<1>3. policy \in [Channels -> Policies \cup {Unset}] /\ edits \in [Channels -> Edits]
  BY <1>1, <1>2, ScopesTyped
<1>4. scope \in [Executions -> Scopes] /\ \A x \in Executions : scope[x] = NoScope
  BY ScopesTyped DEF ScopeInit
<1>5. ScopeTyped
  BY <1>3, <1>4 DEF ScopeInit, ScopeTyped
<1>6. PolicyInv
  <2>1. ASSUME NEW ch \in Channels, ch \in confirmed
        PROVE  /\ policy[ch] # Unset /\ policy[ch].slug = edits[ch].slug
               /\ edits[ch].mode = Unset /\ edits[ch].edited
    BY <1>1, <1>2, <2>1, ScopesTyped, UnsetAssumption
  <2>2. ASSUME NEW ch \in Channels, ch \notin confirmed
        PROVE  policy[ch] = Unset /\ edits[ch] = Unedited
    BY <1>1, <2>2
  <2> QED BY <2>1, <2>2, ScopesTyped DEF PolicyInv, DecisionsStand
<1>7. TrustInv
  BY <1>4, ScopesTyped DEF TrustInv
<1>8. ReadsInv
  BY DEF ScopeInit, ReadsInv, TenantKeysAreVouchedFor
<1> QED BY <1>5, <1>6, <1>7, <1>8 DEF ScopeInv

LEMMA ScopeStepKeepsInv ==
  ASSUME ScopeInv, [ScopeNext]_scopeVars
  PROVE  ScopeInv'
<1>1. CASE ScopeNext
  BY <1>1, RegisteringKeepsInv, InsertKeepsInv, PatchKeepsInv, ResolveKeepsInv, FindKeepsInv,
     ProgramKeepsInv
     DEF ScopeNext
<1>2. CASE UNCHANGED scopeVars
  <2>1. ScopeTyped' /\ PolicyInv' /\ TrustInv'
    BY <1>2 DEF scopeVars, ScopeInv, ScopeTyped, PolicyInv, DecisionsStand, TrustInv
  <2>2. ReadsInv'
    BY <1>2 DEF scopeVars, ScopeInv, ReadsInv, MayRead, TenantKeysAreVouchedFor
  <2> QED BY <2>1, <2>2 DEF ScopeInv
<1> QED BY <1>1, <1>2

\* The inductive invariant holds in every state.
THEOREM ScopeInvariance == ScopeSpec => []ScopeInv
BY ScopeInitEstablishesInv, ScopeStepKeepsInv, PTL DEF ScopeSpec

\* The types hold: what is recalled is of a customer there is (channels, RunScope).
THEOREM ScopeTypeCorrect == ScopeSpec => []ScopeTypeOK
<1>1. ScopeInv => ScopeTypeOK
  BY DEF ScopeInv, ScopeTyped, ScopeTypeOK
<1> QED BY <1>1, ScopeInvariance, PTL

\* What fire-fighters decide of a channel stands; a tenant key is a slug a human had set on the
\* run's own channel; and every read is of the run's customer, or of one that this very
\* execution was shown in a chat (registerChannel, resolveRunScope, recall, cite, select).
THEOREM SafeScope == ScopeSpec => []ScopeHolds
<1>1. ScopeInv => ReadsStayInScope
  BY DEF ScopeInv, ReadsInv, MayRead, ReadsStayInScope
<1>2. ScopeInv => ScopeHolds
  BY <1>1 DEF ScopeInv, PolicyInv, ReadsInv, ScopeHolds
<1> QED BY <1>2, ScopeInvariance, PTL
=============================================================================
