------------------------------- MODULE MCViews -------------------------------
(* What is looked at again later: a question sent twice, pages read one      *)
(* after the other, and the message log as the engineer's voice and the      *)
(* triage score read it.  They share no state.                             *)
EXTENDS Composer, RunsPage, MessageReaders

viewVars == <<composerVars, pageVars, readerVars>>

\* Each tab is another teammate's.
OwnTab == [t \in Tabs |-> t]

\* Of the replies m1 is the engineer's own, m2 the customer's, m3 the agent's.
Sender == [m \in ThreadReplies |-> IF m = "m2" THEN "customer" ELSE "u1"]

\* Nothing moves.
ViewsIdle(which) ==
  /\ ComposerInit
  /\ which # "list" => PagesBegin({})
  /\ which \notin {"voice", "score"} => ReadersBegin([p \in Engineers |-> Nobody])

ViewsInit(which) ==
  /\ ViewsIdle(which)
  /\ which = "list" => PagesInit
  /\ which \in {"voice", "score"} => ReadersInit

\* The voice is looked at with two replies and no score, the score with three and neither
\* consents nor voices.
ViewsNext(which) ==
  \/ which = "composer" /\ ComposerNext /\ UNCHANGED <<pageVars, readerVars>>
  \/ which = "list" /\ PagesNext /\ UNCHANGED <<composerVars, readerVars>>
  \/ /\ which = "voice" /\ UNCHANGED <<composerVars, pageVars, scores>>
     /\ ReadersNext /\ received'["m2"] = Nobody
  \/ which = "score" /\ UNCHANGED <<composerVars, pageVars, consents, voice>> /\ ReadersNext

ViewParts == {"composer", "list", "voice", "score"}

\* A question that is sent again is one run, and pages that were read at different times are
\* one list; a voice and a score change only for the reasons their modules name.
LaterLooksAgree ==
  /\ ComposerTypeOK /\ OneRunPerQuestion
  /\ PagesTypeOK /\ OneList
  /\ ReadersTypeOK /\ VoiceIsFrozenButForConsents /\ ScoresChangeForLateRepliesOnly
=============================================================================
