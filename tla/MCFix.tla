-------------------------------- MODULE MCFix --------------------------------
(* A fix on its way into the repository: from the working tree of a run to   *)
(* the pull request, and from a patch to the files it is applied to.  The    *)
(* two share no state.                                                       *)
EXTENDS PullRequest, Patch

fixVars == <<pullVars, patchVars>>

\* One edited file nobody captures, and one patch nobody applies.
PullIdle == PullBegins([c \in Openers |-> "s0"], [c \in Openers |-> {"f"}])
PatchIdle ==
  /\ edit = <<"removed">> /\ ended = [old |-> TRUE, new |-> TRUE] /\ fetched = Base
  /\ PatchBegins

\* A pull request carries the fix its diff describes, or nothing.
FixIsCarried == PullSafe /\ PatchSafe
=============================================================================
