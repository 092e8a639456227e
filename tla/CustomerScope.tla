---------------------------- MODULE CustomerScope ----------------------------
(* Which customer's data a run may read.  Channels enter the policy table by *)
(* themselves, with a slug guessed from their name; fire-fighters correct    *)
(* it; a run takes the slug, and whether a human vouched for it, into its    *)
(* scope, and a program's reads spend it as a graph or as a tenant key.      *)
EXTENDS Naturals

CONSTANTS
  Channels,
  Slugs,
  Derived,       \* deriveSlug of each channel's name
  Registrations, \* inserts on their way: of the ingest, of the sweep
  Executions,    \* run_code calls
  MaxPatches,    \* edits by fire-fighters (a bound)
  Unset          \* nothing: no policy, slug, mode, channel or origin

VARIABLES
  policy,       \* channels, Unset until registered
  registering,  \* channels found unknown, per registration
  edits,        \* what fire-fighters last decided of each channel (history)
  patches,
  scope,        \* the RunScope of each execution
  refs,         \* customer references, with the execution that minted them
  recalled,     \* what recall returned to each execution, and of whom
  reads         \* customer reads made: tenant rows, and graphs

scopeVars == <<policy, registering, edits, patches, scope, refs, recalled, reads>>

Policy(slug, mode, source) == [slug |-> slug, mode |-> mode, source |-> source]
ChannelModes == {"observe", "live", "internal"}
Policies ==
  [slug : Slugs \cup {Unset}, mode : ChannelModes, source : {"derived", "human"}]

ASSUME DerivedAssumption == Derived \in [Channels -> Slugs] /\ MaxPatches \in Nat
ASSUME UnsetAssumption == Unset \notin Slugs \cup Channels \cup Policies \cup {"chat", "slack"}

Unedited == [mode |-> Unset, edited |-> FALSE, slug |-> Unset]
NoScope == [origin |-> Unset, channel |-> Unset, slug |-> Unset, trusted |-> FALSE, vouched |-> Unset]

\* Some channels are known and confirmed from before.
ScopeInit ==
  /\ \E confirmed \in SUBSET Channels :
       /\ policy = [ch \in Channels |->
                      IF ch \in confirmed THEN Policy(Derived[ch], "live", "human") ELSE Unset]
       /\ edits = [ch \in Channels |->
                      IF ch \in confirmed THEN [Unedited EXCEPT !.edited = TRUE, !.slug = Derived[ch]]
                      ELSE Unedited]
  /\ registering = [r \in Registrations |-> Unset] /\ patches = 0
  /\ scope = [x \in Executions |-> NoScope]
  /\ refs = {} /\ recalled = [x \in Executions |-> {}] /\ reads = {}

----------------------------------------------------------------- \* the catalog

\* registerChannel and the sweep read the policy first, and ask Slack for the name.
FindUnknown ==
  \E r \in Registrations, ch \in Channels :
    /\ registering[r] = Unset /\ policy[ch] = Unset
    /\ registering' = [registering EXCEPT ![r] = ch]
    /\ UNCHANGED <<policy, edits, patches, scope, refs, recalled, reads>>

\* Fault: on conflict, the row is written over.
Overwritten(ch) == Policy(Derived[ch], "live", "derived")

\* insertChannel: on conflict, nothing.
Inserted(ch) == IF policy[ch] = Unset THEN Policy(Derived[ch], "live", "derived") ELSE policy[ch]

Insert ==
  \E r \in Registrations :
    LET ch == registering[r]
    IN  /\ ch # Unset
        /\ policy' = [policy EXCEPT ![ch] = Inserted(ch)]
        /\ registering' = [registering EXCEPT ![r] = Unset]
        /\ UNCHANGED <<edits, patches, scope, refs, recalled, reads>>

\* Slack does not say the name, or the invocation ends.
GiveUp ==
  \E r \in Registrations :
    /\ registering[r] # Unset /\ registering' = [registering EXCEPT ![r] = Unset]
    /\ UNCHANGED <<policy, edits, patches, scope, refs, recalled, reads>>

\* PATCH /api/channels/:id: a mode, a slug or both; the slug and where it came from move
\* together, and clearing the slug withdraws the confirmation.
PatchChannel ==
  \E ch \in Channels, mode \in ChannelModes \cup {Unset}, edit \in BOOLEAN, slug \in Slugs \cup {Unset} :
    /\ policy[ch] # Unset /\ patches < MaxPatches
    /\ mode # Unset \/ edit
    /\ ~edit => slug = Unset
    /\ policy' = [policy EXCEPT
         ![ch].mode = IF mode = Unset THEN @ ELSE mode,
         ![ch].slug = IF edit THEN slug ELSE @,
         ![ch].source = IF ~edit THEN @ ELSE IF slug = Unset THEN "derived" ELSE "human"]
    /\ edits' = [edits EXCEPT
         ![ch].mode = IF mode = Unset THEN @ ELSE mode,
         ![ch].edited = @ \/ edit,
         ![ch].slug = IF edit THEN slug ELSE @]
    /\ patches' = patches + 1
    /\ UNCHANGED <<registering, scope, refs, recalled, reads>>

Trusted(ch) == policy[ch] # Unset /\ policy[ch].slug # Unset /\ policy[ch].source = "human"

------------------------------------------------------------- \* the execution

\* resolveRunScope: one read of the policy answers both questions.  A chat has no channel.
\* vouched is a ghost: the slug a human last set on the channel, if one did.
ResolveScope ==
  \E x \in Executions, ch \in Channels \cup {Unset} :
    /\ scope[x].origin = Unset
    /\ scope' = [scope EXCEPT ![x] =
         IF ch = Unset THEN [NoScope EXCEPT !.origin = "chat"]
         ELSE [origin |-> "slack", channel |-> ch,
               slug |-> IF policy[ch] = Unset THEN Unset ELSE policy[ch].slug,
               trusted |-> Trusted(ch),
               vouched |-> edits[ch].slug]]
    /\ UNCHANGED <<policy, registering, edits, patches, refs, recalled, reads>>

\* searchCustomers: the slugs of the channels that are not internal.
Catalog == {policy[ch].slug : ch \in {c \in Channels :
               policy[c] # Unset /\ policy[c].slug # Unset /\ policy[c].mode # "internal"}}

\* findCustomers, in a chat only: a reference for every match.
FindCustomers ==
  \E x \in Executions, matches \in SUBSET Catalog :
    /\ scope[x].origin = "chat"
    /\ refs' = refs \cup {[by |-> x, slug |-> s] : s \in matches}
    /\ UNCHANGED <<policy, registering, edits, patches, scope, recalled, reads>>

\* A reference is good in the execution that minted it, in a chat; otherwise the customer is
\* the scope's.
Resolves(x, ref) ==
  IF ref = Unset THEN scope[x].slug # Unset ELSE scope[x].origin = "chat" /\ ref.by = x
CustomerOf(x, ref) == IF ref = Unset THEN scope[x].slug ELSE ref.slug

\* recall reads the graph of the customer, and remembers what it returned.
Recall ==
  \E x \in Executions, ref \in refs \cup {Unset} :
    /\ scope[x].origin # Unset /\ Resolves(x, ref)
    /\ reads' = reads \cup {[by |-> x, kind |-> "graph", slug |-> CustomerOf(x, ref)]}
    /\ recalled' = [recalled EXCEPT ![x] = @ \cup {CustomerOf(x, ref)}]
    /\ UNCHANGED <<policy, registering, edits, patches, scope, refs>>

\* cite resolves only facts that this execution recalled.
Cite ==
  \E x \in Executions, s \in Slugs :
    /\ s \in recalled[x]
    /\ reads' = reads \cup {[by |-> x, kind |-> "citation", slug |-> s]}
    /\ UNCHANGED <<policy, registering, edits, patches, scope, refs, recalled>>

\* supabase.select appends the slug as the tenant, if a human vouched for it.
Select ==
  \E x \in Executions :
    /\ scope[x].slug # Unset /\ scope[x].trusted
    /\ reads' = reads \cup {[by |-> x, kind |-> "tenant", slug |-> scope[x].slug]}
    /\ UNCHANGED <<policy, registering, edits, patches, scope, refs, recalled>>

ScopeNext ==
  \/ FindUnknown \/ Insert \/ GiveUp \/ PatchChannel
  \/ ResolveScope \/ FindCustomers \/ Recall \/ Cite \/ Select

ScopeSpec == ScopeInit /\ [][ScopeNext]_scopeVars

------------------------------------------------------------------ \* properties

\* Every variable has its type.
ScopeTypeOK ==
  /\ policy \in [Channels -> Policies \cup {Unset}]
  /\ registering \in [Registrations -> Channels \cup {Unset}]
  /\ \A x \in Executions : recalled[x] \subseteq Slugs

\* What fire-fighters decided of a channel stands, whatever registrations were on their way
\* when they did: neither mode nor slug goes back to the guess.
DecisionsStand ==
  \A ch \in Channels :
    /\ edits[ch].mode # Unset => policy[ch].mode = edits[ch].mode
    /\ edits[ch].edited => policy[ch].slug = edits[ch].slug

\* A tenant key is a slug that a human had set on the run's own channel when the scope was
\* taken: a guess is never spent as one, nor a slug that was cleared before.
TenantKeysAreVouchedFor ==
  \A r \in reads : r.kind = "tenant" => scope[r.by].origin = "slack" /\ r.slug = scope[r.by].vouched

\* A conversation in a channel reads its own customer's memory and cites nothing else; a
\* chat reads only customers that this very execution was shown.
ReadsStayInScope ==
  \A r \in reads :
    \/ r.slug = scope[r.by].slug
    \/ scope[r.by].origin = "chat" /\ [by |-> r.by, slug |-> r.slug] \in refs

ScopeHolds == DecisionsStand /\ TenantKeysAreVouchedFor /\ ReadsStayInScope
=============================================================================
