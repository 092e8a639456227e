---------------------------- MODULE PullRequest ----------------------------
(***************************************************************************)
(* sandbox/gateway.ts diff, sandbox/diff.ts and git/commit.ts openPR: the   *)
(* working trees of several runs become commits on one branch and its pull  *)
(* request.  GitHub, the checkout and the humans who merge are external.    *)
(***************************************************************************)
EXTENDS Integers, Sequences, FiniteSets

CONSTANTS
  Openers,    \* openPR calls on the branch, each with the capture of its own run
  NotYet      \* no base, no commit, no branch, no outcome

ASSUME NotYetAssumption == NotYet \notin {"s0", "s1", "planted", "completed", "failed"}

VARIABLES
  checkout,   \* [Openers -> ..]: HEAD, the edited files, the working tree, has HEAD moved mid-capture
  object,     \* R2: customMetadata.baseSha of each stored patch, or NotYet
  opener,     \* [Openers -> ..]: where the call is and what it holds
  outcome,    \* [Openers -> ..]: what the effects ledger records
  staging,    \* GitHub: the tip of the base branch
  ref,        \* GitHub: the branch, [by, commit], or NotYet
  pulls,      \* GitHub: the pull requests of the branch, by number
  calm        \* history: the last push, while no other call and no human came between

pullVars == <<checkout, object, opener, outcome, staging, ref, pulls, calm>>

Files == {"f", "g"}

\* Commits GitHub has: two of the base branch, one planted on top of the first.
Published == {"s0", "s1", "planted"}
TreeOf(sha) ==
  [x \in Files |-> CASE x = "f" -> IF sha = "planted" THEN "f2" ELSE "f0"
                    [] x = "g" -> IF sha = "s1" THEN "g1" ELSE "g0"]

\* compare reports `identical` or `behind`: sha is reachable from tip.
Contains(tip, sha) == sha = tip \/ sha = "s0"

\* The fix a run makes: its edited files get new contents, the others stay.
Edited(tree, files) == [x \in Files |-> IF x \in files THEN "fixed" ELSE tree[x]]

\* git diff: the files that differ from HEAD's, with both contents.
Diff(old, new) == {[file |-> x, was |-> old[x], now |-> new[x]] : x \in {y \in Files : old[y] # new[y]}}
Touched(patch) == {hunk.file : hunk \in patch}

\* applyUnifiedDiff, byte-exact: every hunk finds what it was cut against (see Patch).
Applies(patch, tree) == \A hunk \in patch : tree[hunk.file] = hunk.was
Applied(patch, tree) ==
  [x \in Files |-> IF x \in Touched(patch) THEN (CHOOSE hunk \in patch : hunk.file = x).now ELSE tree[x]]

Patches == {Diff(TreeOf(sha), Edited(TreeOf(sha), files)) : sha \in Published, files \in SUBSET Files}

-----------------------------------------------------------------------------
(* Outcomes: upstreamError and githubFetch, as performClaimed reads them.    *)

OpenerAt(c, pc) == opener[c].pc = pc
Proceeds(c, pc) == opener' = [opener EXCEPT ![c].pc = pc]
Settles(c, answer) == opener' = [opener EXCEPT ![c].pc = "end"] /\ outcome' = [outcome EXCEPT ![c] = answer]

\* Fault: a refusal proves nothing was sent, whatever was written before.
ProvenAnyway(c) == "failed"

\* A refusal is proof that nothing was sent only while nothing was written.
Refusal(c) == IF opener[c].written THEN "in_doubt" ELSE "failed"

\* 401, 403, 404 or 422; or a network error or a 5xx, which proves nothing.
Fails(c) == Settles(c, Refusal(c)) \/ Settles(c, "in_doubt")

AfterReads == <<object, staging, ref, pulls, calm>>

-----------------------------------------------------------------------------
(* gateway.diff: two execs, then captureDiff.                                *)

CaptureHead(c) ==
  /\ OpenerAt(c, "head")
  /\ opener' = [opener EXCEPT ![c].pc = "cut", ![c].base = checkout[c].head]
  /\ UNCHANGED <<checkout, object, outcome, staging, ref, pulls, calm>>

\* External: the run's shell, still going, moves HEAD: it pulls, or commits one file.
MoveHead(c) ==
  /\ OpenerAt(c, "cut") /\ ~checkout[c].moved
  /\ \/ \E sha \in Published \ {checkout[c].head} :
          checkout' = [checkout EXCEPT ![c] =
            [@ EXCEPT !.head = sha, !.tree = TreeOf(sha), !.moved = TRUE]]
     \/ \E x \in checkout[c].edits :
          checkout' = [checkout EXCEPT ![c].tree[x] = "fixed", ![c].moved = TRUE]
  /\ UNCHANGED <<object, opener, outcome, staging, ref, pulls, calm>>

\* Content-addressed: the bytes are the key, and a second put takes the base over.
\* Without a change there is no ref, and so no call.
CaptureDiff(c) ==
  /\ OpenerAt(c, "cut")
  /\ LET patch == Diff(checkout[c].tree, Edited(checkout[c].tree, checkout[c].edits)) IN
     IF patch = {}
     THEN Settles(c, "nothing") /\ UNCHANGED object
     ELSE /\ object' = [object EXCEPT ![patch] = opener[c].base]
          /\ opener' = [opener EXCEPT ![c].pc = "read", ![c].patch = patch]
          /\ UNCHANGED outcome
  /\ UNCHANGED <<checkout, staging, ref, pulls, calm>>

-----------------------------------------------------------------------------
(* openPR up to its first write that anyone can see.                         *)

\* requireToken and readDiffWithBase; without a credential nothing is opened.
ReadDiff(c) ==
  /\ OpenerAt(c, "read")
  /\ \/ Settles(c, "failed")
     \/ opener' = [opener EXCEPT ![c].pc = "compare", ![c].base = object[opener[c].patch]] /\ UNCHANGED outcome
  /\ UNCHANGED <<checkout, AfterReads>>

\* Fault: `ahead` is let through.
ContainedOrAhead(sha) == Contains(staging, sha) \/ Contains(sha, staging)

BaseContains(sha) == Contains(staging, sha)

AssertBaseContains(c) ==
  /\ OpenerAt(c, "compare")
  /\ \/ BaseContains(opener[c].base) /\ Proceeds(c, "fetch") /\ UNCHANGED outcome
     \/ ~BaseContains(opener[c].base) /\ Settles(c, "failed")
     \/ Fails(c)
  /\ UNCHANGED <<checkout, AfterReads>>

\* Every base file at the base commit, and applyUnifiedDiff.
FetchAndApply(c) ==
  /\ OpenerAt(c, "fetch")
  /\ \/ Applies(opener[c].patch, TreeOf(opener[c].base)) /\ Proceeds(c, "build") /\ UNCHANGED outcome
     \/ ~Applies(opener[c].patch, TreeOf(opener[c].base)) /\ Settles(c, "failed")
     \/ Fails(c)
  /\ UNCHANGED <<checkout, AfterReads>>

\* Fault: parented on the tip of the base branch.
ParentTip(c) == staging
Parent(c) == opener[c].base

\* currentLogin, the blobs, base_tree and the commit: nothing reaches them yet.
Build(c) ==
  /\ OpenerAt(c, "build")
  /\ \/ /\ opener' = [opener EXCEPT ![c].pc = "ref",
                                ![c].commit = [parent |-> Parent(c),
                                               tree |-> Applied(opener[c].patch, TreeOf(opener[c].base))]]
        /\ UNCHANGED outcome
     \/ Fails(c)
  /\ UNCHANGED <<checkout, AfterReads>>

-----------------------------------------------------------------------------
(* openPR from the ref to the pull request.                                  *)

Finding(c) == opener[c].pc \in {"find", "edit", "open"}

Pushes(c) ==
  /\ ref' = [by |-> c, commit |-> opener[c].commit]
  /\ calm' = IF \E d \in Openers \ {c} : Finding(d) THEN {} ELSE {c}

\* A write that went through, was lost on its way, or whose answer was.
Wrote(c, pc) == opener' = [opener EXCEPT ![c].pc = pc, ![c].written = TRUE] /\ UNCHANGED outcome

\* Any 422 is taken for a branch that exists.
CreateRef(c) ==
  /\ OpenerAt(c, "ref")
  /\ \/ ref = NotYet /\ Pushes(c) /\ (Wrote(c, "find") \/ Settles(c, "in_doubt"))
     \/ Proceeds(c, "force") /\ UNCHANGED <<ref, calm, outcome>>
     \/ Fails(c) /\ UNCHANGED <<ref, calm>>
  /\ UNCHANGED <<checkout, object, staging, pulls>>

\* The branch may not be there: 422.
ForceRef(c) ==
  /\ OpenerAt(c, "force")
  /\ \/ ref # NotYet /\ Pushes(c) /\ (Wrote(c, "find") \/ Settles(c, "in_doubt"))
     \/ Fails(c) /\ UNCHANGED <<ref, calm>>
  /\ UNCHANGED <<checkout, object, staging, pulls>>

\* Fault: the search is not limited to open pull requests.
AnyPulls == DOMAIN pulls

OpenPulls == {n \in DOMAIN pulls : pulls[n].open}
\* findOpenPull: by head and state=open.
FoundPulls == OpenPulls

FindPull(c) ==
  /\ OpenerAt(c, "find")
  /\ \/ \E n \in FoundPulls :
          opener' = [opener EXCEPT ![c].pc = "edit", ![c].number = n] /\ UNCHANGED outcome
     \/ FoundPulls = {} /\ Proceeds(c, "open") /\ UNCHANGED outcome
     \/ Fails(c)
  /\ UNCHANGED <<checkout, AfterReads>>

EditPull(c) ==
  /\ OpenerAt(c, "edit")
  /\ \/ pulls' = [pulls EXCEPT ![opener[c].number].title = c] /\ (Settles(c, "completed") \/ Settles(c, "in_doubt"))
     \/ Fails(c) /\ UNCHANGED pulls
  /\ UNCHANGED <<checkout, object, staging, ref, calm>>

\* GitHub refuses a second open pull request of a branch, and one without a branch.
OpenPull(c) ==
  /\ OpenerAt(c, "open")
  /\ \/ /\ OpenPulls = {} /\ ref # NotYet
        /\ pulls' = Append(pulls, [open |-> TRUE, title |-> c])
        /\ Settles(c, "completed") \/ Settles(c, "in_doubt")
     \/ Fails(c) /\ UNCHANGED pulls
  /\ UNCHANGED <<checkout, object, staging, ref, calm>>

-----------------------------------------------------------------------------
(* External: the base branch moves on; a human closes or merges, and deletes. *)

StagingAdvances ==
  /\ staging = "s0" /\ staging' = "s1"
  /\ UNCHANGED <<checkout, object, opener, outcome, ref, pulls, calm>>

ClosePull ==
  /\ \E n \in OpenPulls : pulls' = [pulls EXCEPT ![n].open = FALSE]
  /\ ref' \in {ref, NotYet}
  /\ calm' = {}
  /\ UNCHANGED <<checkout, object, opener, outcome, staging>>

-----------------------------------------------------------------------------
(* Specification.                                                          *)

OpenerStep(c) ==
  \/ CaptureHead(c) \/ MoveHead(c) \/ CaptureDiff(c)
  \/ ReadDiff(c) \/ AssertBaseContains(c) \/ FetchAndApply(c) \/ Build(c)
  \/ CreateRef(c) \/ ForceRef(c) \/ FindPull(c) \/ EditPull(c) \/ OpenPull(c)

\* The runs' checkouts: HEAD and the files edited on top of it.
PullBegins(heads, edits) ==
  /\ checkout = [c \in Openers |-> [head |-> heads[c], tree |-> TreeOf(heads[c]),
                                    edits |-> edits[c], moved |-> FALSE]]
  /\ object = [patch \in Patches |-> NotYet]
  /\ opener = [c \in Openers |-> [pc |-> "head", base |-> NotYet, patch |-> {}, commit |-> NotYet,
                                  written |-> FALSE, number |-> 0]]
  /\ outcome = [c \in Openers |-> NotYet]
  /\ staging = "s0" /\ ref = NotYet /\ pulls = <<>> /\ calm = {}

PullInit ==
  \E heads \in [Openers -> {"s0", "planted"}], edits \in [Openers -> SUBSET Files] :
    PullBegins(heads, edits)

PullNext == (\E c \in Openers : OpenerStep(c)) \/ StagingAdvances \/ ClosePull

PullSpec == PullInit /\ [][PullNext]_pullVars

-----------------------------------------------------------------------------
(* Properties.                                                             *)

\* What the ledger records as failed, and so as safe to send again, has put no commit
\* on the branch and its title on no pull request.
FailedLeftNothing ==
  \A c \in Openers :
    outcome[c] = "failed" =>
      /\ ref # NotYet => ref.by # c
      /\ \A n \in DOMAIN pulls : pulls[n].title # c

\* What the branch adds to the base branch is one commit, on a commit the base branch
\* has: merging it lands nothing else and takes nothing back.
BranchAddsOneFix ==
  ref # NotYet =>
    /\ Contains(staging, ref.commit.parent)
    /\ \A x \in Files :
         ref.commit.tree[x] # TreeOf(ref.commit.parent)[x] => x \in checkout[ref.by].edits

\* The commit has every edit of the working tree it was captured from, unless HEAD moved
\* between the two reads of the capture.
WholeFixIsPushed ==
  ref # NotYet /\ ~checkout[ref.by].moved =>
    \A x \in checkout[ref.by].edits : ref.commit.tree[x] = "fixed"

\* A completed call that no other call and no human came between shows its own commit
\* under its own title, in a pull request that is open.
CompletedIsShown ==
  \A c \in calm :
    outcome[c] = "completed" => ref.by = c /\ \E n \in OpenPulls : pulls[n].title = c

PullSafe == FailedLeftNothing /\ BranchAddsOneFix /\ WholeFixIsPushed /\ CompletedIsShown
=============================================================================
