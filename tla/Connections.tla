----------------------------- MODULE Connections -----------------------------
(* Whose accounts the system may speak with: the consent flows that store a  *)
(* fire-fighter's token, and the readers that pick a speaker from the stored *)
(* rows and then open that person's token in a second read.                  *)
EXTENDS Naturals, Sequences, Functions

CONSTANTS
  Pool,         \* FIREFIGHTERS, in roster order
  Former,       \* who left the roster and still has rows
  Accounts,     \* accounts at a provider, whoever's they are
  Providers,
  StateTtl,     \* STATE_TTL_MS
  MaxFlows,     \* consent flows that are started (a bound)
  MaxRotations, \* times IDENTITY_KEY is replaced (a bound)
  MaxClock,     \* a bound
  Blank         \* no row, no account, nobody

Firefighters == Range(Pool)
People == Firefighters \cup Former

\* A sealed token is named by the flow that obtained it; flow 0 is from before.
Rows == [account : Accounts, token : 0..MaxFlows, sealedWith : 0..MaxRotations]
Row(account, token, sealedWith) ==
  [account |-> account, token |-> token, sealedWith |-> sealedWith]

ASSUME ConnectionsAssumption ==
  /\ StateTtl \in Nat \ {0} /\ {MaxFlows, MaxRotations, MaxClock} \subseteq Nat
  /\ Pool \in Seq(Firefighters) /\ IsInjective(Pool) /\ Firefighters \cap Former = {}
  /\ Blank \notin Firefighters \cup Rows

VARIABLES
  clock,
  key,        \* which IDENTITY_KEY is deployed
  flows,      \* the flows in the order they were started
  connection, \* identities, per email and provider
  reader      \* one reader (sender, commit author or run scope), with whom it saw connected

connectionVars == <<clock, key, flows, connection, reader>>

Idle == [stage |-> "idle", provider |-> Blank, decider |-> Blank, speaker |-> Blank,
         account |-> Blank, token |-> Blank, key |-> Blank, seen |-> {}]

ConnectionsInit ==
  /\ clock = 0 /\ key = 0 /\ flows = <<>>
  /\ connection = [x \in People \X Providers |->
       IF x[1] \in Former THEN Row(CHOOSE a \in Accounts : TRUE, 0, 0) ELSE Blank]
  /\ reader = Idle

ClockTicks ==
  /\ clock < MaxClock /\ clock' = clock + 1
  /\ UNCHANGED <<key, flows, connection, reader>>

\* The operator replaces the secret; what is under way keeps the one it began with.
Rotate ==
  /\ key < MaxRotations /\ key' = key + 1
  /\ UNCHANGED <<clock, flows, connection, reader>>

------------------------------------------------------------ \* consent, callback

\* GET /oauth/:provider/start, for a verified fire-fighter: the signed state names the
\* email, the provider and when it expires.
Start ==
  \E e \in Firefighters, p \in Providers :
    /\ Len(flows) < MaxFlows
    /\ flows' = Append(flows, [email |-> e, provider |-> p, expires |-> clock + StateTtl,
                               key |-> key, stage |-> "consent", account |-> Blank, at |-> Blank])
    /\ UNCHANGED <<clock, key, connection, reader>>

\* verifyState at the callback of provider p.
Verified(flow, p) == flow.key = key /\ flow.provider = p /\ clock < flow.expires

\* The code is exchanged for the token of whichever account the browser is signed in to.
\* Slack names that account in the same answer, GitHub has to be asked.
Exchange ==
  \E i \in DOMAIN flows, p \in Providers, a \in Accounts :
    /\ flows[i].stage = "consent" /\ Verified(flows[i], p)
    /\ flows' = [flows EXCEPT ![i].stage = IF p = "slack" THEN "named" ELSE "exchanged",
                              ![i].account = a, ![i].at = clock]
    /\ UNCHANGED <<clock, key, connection, reader>>

\* GET /user with the new token.
NameAccount ==
  \E i \in DOMAIN flows :
    /\ flows[i].stage = "exchanged"
    /\ flows' = [flows EXCEPT ![i].stage = "named"]
    /\ UNCHANGED <<clock, key, connection, reader>>

\* The exchange or the question fails: nothing is stored, and the state is good for
\* another callback until it expires.
ConnectFails ==
  \E i \in DOMAIN flows :
    /\ flows[i].stage \in {"exchanged", "named"}
    /\ flows' = [flows EXCEPT ![i].stage = "consent", ![i].account = Blank, ![i].at = Blank]
    /\ UNCHANGED <<clock, key, connection, reader>>

\* upsertIdentity: account and token of one exchange replace the row as a whole.
Upsert ==
  \E i \in DOMAIN flows :
    /\ flows[i].stage = "named"
    /\ connection' = [connection EXCEPT ![<<flows[i].email, flows[i].provider>>] =
                 Row(flows[i].account, i, flows[i].key)]
    /\ flows' = [flows EXCEPT ![i].stage = "done"]
    /\ UNCHANGED <<clock, key, reader>>

-------------------------------------------------------------------- \* speaking

Connected(p) == {e \in People : connection[<<e, p>>] # Blank}

\* The first of the roster who is connected, if anyone is.
FirstOfRoster(connected) ==
  LET eligible == {i \in DOMAIN Pool : Pool[i] \in connected}
  IN  IF eligible = {} THEN Blank
      ELSE Pool[CHOOSE i \in eligible : \A j \in eligible : i <= j]

\* Fault: the decider speaks without being on the roster.
PickDecider(connected, decider) ==
  IF decider \in connected THEN decider ELSE FirstOfRoster(connected)

\* pickSpeaker: the decider if that is a connected fire-fighter, else the first of the pool.
PickSpeaker(connected, decider) ==
  IF decider \in Firefighters \cap connected THEN decider ELSE FirstOfRoster(connected)

\* resolveSpeaker lists the connected accounts of a provider.
List ==
  \E p \in Providers, decider \in People \cup {Blank} :
    /\ reader.stage = "idle"
    /\ LET who == PickSpeaker(Connected(p), decider)
       IN  reader' = [Idle EXCEPT !.stage = IF who = Blank THEN "nobody" ELSE "listed",
                                  !.provider = p, !.decider = decider, !.speaker = who,
                                  !.account = IF who = Blank THEN Blank ELSE connection[<<who, p>>].account,
                                  !.key = key, !.seen = Connected(p)]
    /\ UNCHANGED <<clock, key, flows, connection>>

\* getDecryptedToken reads the row again; a row sealed under another key is an error, never
\* "not connected".
OpenToken ==
  /\ reader.stage = "listed"
  /\ LET stored == connection[<<reader.speaker, reader.provider>>]
     IN  reader' = [reader EXCEPT
           !.stage = IF stored.sealedWith = reader.key THEN "speaks" ELSE "seal_error",
           !.token = IF stored.sealedWith = reader.key THEN stored.token ELSE Blank]
  /\ UNCHANGED <<clock, key, flows, connection>>

Finish ==
  /\ reader.stage \in {"nobody", "speaks", "seal_error"} /\ reader' = Idle
  /\ UNCHANGED <<clock, key, flows, connection>>

ConnectionsNext ==
  \/ ClockTicks \/ Rotate \/ Start \/ Exchange \/ NameAccount \/ ConnectFails \/ Upsert
  \/ List \/ OpenToken \/ Finish

ConnectionsSpec == ConnectionsInit /\ [][ConnectionsNext]_connectionVars

------------------------------------------------------------------ \* properties

\* Every variable has its type.
ConnectionsTypeOK ==
  /\ clock \in 0..MaxClock /\ key \in 0..MaxRotations
  /\ Len(flows) <= MaxFlows
  /\ reader.stage \in {"idle", "listed", "nobody", "speaks", "seal_error"}
  /\ reader.speaker \in People \cup {Blank}

\* The token that speaks was granted to the person who speaks, for this provider, in a flow
\* that person started while on the roster and answered before its state expired: no flow's
\* answer lands in another's row, and no row of a former member is used.
SpeaksWithOwnToken ==
  reader.stage = "speaks" =>
    /\ reader.token \in DOMAIN flows
    /\ LET flow == flows[reader.token]
       IN  /\ flow.email = reader.speaker /\ flow.email \in Firefighters
           /\ flow.provider = reader.provider
           /\ flow.at < flow.expires

\* What is stored of a connection is one exchange's: the account is that of the token.
RowsAreOneExchange ==
  \A e \in Firefighters, p \in Providers :
    LET stored == connection[<<e, p>>]
    IN  stored # Blank =>
          /\ flows[stored.token].email = e /\ flows[stored.token].provider = p
          /\ flows[stored.token].account = stored.account

\* Nobody speaks in the place of a decider who was connected, nor of a fire-fighter before
\* him on the roster, and "nobody" is said only when no fire-fighter was connected at the
\* time: a token that does not open is never that.
SpeakerIsRightful ==
  LET eligible == reader.seen \cap Firefighters
  IN  /\ reader.stage = "nobody" => eligible = {}
      /\ reader.stage \in {"listed", "speaks", "seal_error"} =>
           /\ reader.speaker \in eligible
           /\ reader.decider \in eligible => reader.speaker = reader.decider
           /\ reader.decider \notin eligible =>
                \A i, j \in DOMAIN Pool :
                  Pool[i] \in eligible /\ Pool[j] = reader.speaker => j <= i

\* Nobody speaks but by his own right and with a token of his own.
ConnectionsHold ==
  ConnectionsTypeOK /\ SpeaksWithOwnToken /\ RowsAreOneExchange /\ SpeakerIsRightful
=============================================================================
