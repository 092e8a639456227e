------------------------------- MODULE Patch -------------------------------
(***************************************************************************)
(* git/apply.ts: the unified diff of one file, as git writes it for an edit  *)
(* of a base file, applied to the file that was fetched.  An edit is a       *)
(* sequence of markers; the text of a line is its place in it.  The old side *)
(* of an edit is the base, its new side the target.                        *)
(***************************************************************************)
EXTENDS Integers, Sequences, FiniteSets

CONSTANTS
  MaxLines    \* bound: marked lines in an edit

ASSUME LinesAssumption == MaxLines \in Nat

VARIABLES
  edit,     \* the edit: the markers "kept", "removed" and "added" of its lines
  ended,    \* do base and target end in a newline
  fetched,  \* the file GitHub serves at the base commit, or Absent
  at,       \* applyHunks: the line of the edit, cursor, and whether its hunk has begun
  result,   \* applyHunks: result and finalNewline
  progress  \* "applying", "applied" or "stale"

patchVars == <<edit, ended, fetched, at, result, progress>>

Edits == UNION {[1..n -> {"kept", "removed", "added"}] : n \in 1..MaxLines}

\* Lines of a side of the edit up to and including line i; the marker is of the lines it lacks.
Before(e, marker, i) == Cardinality({j \in 1..i : e[j] # marker})
Side(e, marker) ==
  [k \in 1..Before(e, marker, Len(e)) |->
     CHOOSE i \in DOMAIN e : e[i] # marker /\ Before(e, marker, i) = k]

OldSide(e) == Side(e, "added")
NewSide(e) == Side(e, "removed")
OldBefore(e, i) == Before(e, "added", i)
NewBefore(e, i) == Before(e, "removed", i)

LastOld(e, i) == e[i] # "added" /\ OldBefore(e, i) = Len(OldSide(e))
LastNew(e, i) == e[i] # "removed" /\ NewBefore(e, i) = Len(NewSide(e))

Absent == [lines |-> <<>>, newline |-> TRUE, absent |-> TRUE]
\* splitLines: the text of an empty file has no lines and counts as ended.
File(texts, newline) == [lines |-> texts, newline |-> newline \/ texts = <<>>, absent |-> FALSE]
Base == File(OldSide(edit), ended.old)
Target == File(NewSide(edit), ended.new)

-----------------------------------------------------------------------------
(* git diff, external: the edits it writes, and its hunks.                   *)

\* Something changes, and a line is kept only if it is the same with its newline.
Written(e, newline) ==
  /\ \E i \in DOMAIN e : e[i] # "kept"
  /\ \A i \in DOMAIN e :
       e[i] = "kept" =>
         (LastOld(e, i) /\ ~newline.old) <=> (LastNew(e, i) /\ ~newline.new)

\* With one line of context, the lines of the edit that hunks show.
ShownLines == {i \in DOMAIN edit : \E j \in DOMAIN edit : edit[j] # "kept" /\ j - i \in -1..1}

\* The first lines of the hunks, and of those that are not yet applied.
Hunks == {i \in ShownLines : i - 1 \notin ShownLines}
HunksLeft == {i \in Hunks : i >= at.line}

HunkEnd(first) == CHOOSE j \in ShownLines : j >= first /\ j + 1 \notin ShownLines /\ first..j \subseteq ShownLines

OldCount(first) == OldBefore(edit, HunkEnd(first)) - OldBefore(edit, first - 1)

\* A hunk without old lines names the line before it.
OldStart(first) == OldBefore(edit, first - 1) + (IF OldCount(first) = 0 THEN 0 ELSE 1)

NoNewlineAfter(i) == (LastOld(edit, i) /\ ~ended.old) \/ (LastNew(edit, i) /\ ~ended.new)

\* What the patch is of.
ChangeKind == IF OldSide(edit) = <<>> THEN "create" ELSE IF NewSide(edit) = <<>> THEN "delete" ELSE "modify"

-----------------------------------------------------------------------------
(* applyUnifiedDiff and applyHunks.                                         *)

RefuseFile == progress' = "stale" /\ UNCHANGED <<at, result>>

\* The lines from the cursor to the hunk are copied.
Copied(from, to) == SubSeq(fetched.lines, from + 1, to)

\* Fault: the hunk's start is taken for the index of its first line.
StartRaw(first) == OldStart(first)

StartIndex(first) == IF OldCount(first) = 0 THEN OldStart(first) ELSE OldStart(first) - 1

\* A file the fetched tree does not have; a create is read as a new file.
Lookup ==
  /\ progress = "applying" /\ at.pc = "lookup"
  /\ IF fetched.absent /\ ChangeKind # "create"
     THEN RefuseFile
     ELSE at' = [at EXCEPT !.pc = "hunk"] /\ UNCHANGED <<result, progress>>
  /\ UNCHANGED <<edit, ended, fetched>>

\* The hunks in the order of the patch, which is that of the file.
BeginHunk ==
  /\ progress = "applying" /\ at.pc = "hunk"
  /\ \E first \in HunksLeft :
       LET start == StartIndex(first) IN
       /\ \A other \in HunksLeft : first <= other
       /\ IF start < at.cursor \/ start > Len(fetched.lines)
          THEN RefuseFile
          ELSE /\ result' = [result EXCEPT !.lines = @ \o Copied(at.cursor, start)]
               /\ at' = [pc |-> "line", line |-> first, cursor |-> start]
               /\ UNCHANGED progress
  /\ UNCHANGED <<edit, ended, fetched>>

\* Fault: a deleted line need not be the one that is there.
MatchesContext(i) == edit[i] = "removed" \/ fetched.lines[at.cursor + 1] = i

Matches(i) == fetched.lines[at.cursor + 1] = i

HunkLine ==
  /\ progress = "applying" /\ at.pc = "line"
  /\ LET i == at.line
         old == edit[i] # "added"
         last == i + 1 \notin ShownLines IN
     IF old /\ (at.cursor >= Len(fetched.lines) \/ ~Matches(i))
     THEN RefuseFile
     ELSE /\ at' = [pc |-> IF last THEN "hunk" ELSE "line", line |-> i + 1,
                    cursor |-> IF old THEN at.cursor + 1 ELSE at.cursor]
          /\ result' = IF edit[i] = "removed" THEN result
                       ELSE [lines |-> Append(result.lines, i), newline |-> ~NoNewlineAfter(i)]
          /\ UNCHANGED progress
  /\ UNCHANGED <<edit, ended, fetched>>

\* The rest of the file, and its own ending; joinLines.
FinishFile ==
  /\ progress = "applying" /\ at.pc = "hunk" /\ HunksLeft = {}
  /\ LET rest == at.cursor < Len(fetched.lines)
         lines == result.lines \o Copied(at.cursor, Len(fetched.lines)) IN
     result' = [lines |-> lines,
                newline |-> (IF rest THEN fetched.newline ELSE result.newline) \/ lines = <<>>]
  /\ progress' = "applied"
  /\ UNCHANGED <<edit, ended, fetched, at>>

-----------------------------------------------------------------------------
(* Specification.                                                          *)

\* The base itself, a base that lost a line or has another text in one, and none.
Fetchable ==
  LET lines == OldSide(edit) IN
  {Base, Absent}
    \cup {File(SubSeq(lines, 1, i - 1) \o SubSeq(lines, i + 1, Len(lines)), TRUE) : i \in DOMAIN lines}
    \cup {File([lines EXCEPT ![i] = 0], ended.old) : i \in DOMAIN lines}

PatchBegins ==
  /\ at = [pc |-> "lookup", line |-> 1, cursor |-> 0]
  /\ result = [lines |-> <<>>, newline |-> fetched.newline]
  /\ progress = "applying"

PatchInit ==
  /\ edit \in Edits
  /\ ended \in [old : BOOLEAN, new : BOOLEAN]
  /\ Written(edit, ended)
  /\ fetched \in Fetchable
  /\ PatchBegins

PatchNext == Lookup \/ BeginHunk \/ HunkLine \/ FinishFile

PatchSpec == PatchInit /\ [][PatchNext]_patchVars

-----------------------------------------------------------------------------
(* Properties.                                                             *)

\* A patch applied to the file it was cut against gives the file it was cut from,
\* byte for byte, its last newline included.
AppliesExactly ==
  fetched = Base /\ progress # "applying" =>
    /\ progress = "applied"
    /\ File(result.lines, result.newline) = Target

\* A patch is never applied to a file that differs from its base in a line the patch
\* shows, or has fewer lines than it shows.
RefusesStale ==
  progress = "applied" =>
    \A i \in ShownLines :
      edit[i] # "added" =>
        /\ OldBefore(edit, i) <= Len(fetched.lines)
        /\ fetched.lines[OldBefore(edit, i)] = i

PatchSafe == AppliesExactly /\ RefusesStale
=============================================================================
