------------------------------ MODULE LineDiff ------------------------------
(***************************************************************************)
(* The comparison of two revisions of an artifact (buildLineDiff of        *)
(* ArtifactShelf.tsx): the table of the longest common subsequences of the *)
(* lines that remain, and the walk through both texts that yields the rows *)
(* shown.  A step is one row.  The last row, which says that lines were    *)
(* left out, is itself left out.                                           *)
(***************************************************************************)
EXTENDS Naturals, Sequences, SequencesExt

CONSTANTS LineTexts,         \* the texts a line may have
          MaxLines,          \* bound on the lines of a text
          MAX_DIFF_LINES     \* lines of each text that are compared

ASSUME MaxLinesAssumption == MaxLines \in Nat
ASSUME MaxDiffLinesAssumption == MAX_DIFF_LINES \in Nat

VARIABLES
  previous, current,     \* the two texts
  oldIndex, newIndex,    \* lines of each that have been walked
  rows                   \* the rows pushed

diffVars == <<previous, current, oldIndex, newIndex, rows>>

Texts == SeqOf(LineTexts, MaxLines)
Compared(text) == SubSeq(text, 1, IF Len(text) < MAX_DIFF_LINES THEN Len(text) ELSE MAX_DIFF_LINES)

previousLines == Compared(previous)
currentLines == Compared(current)

DiffInit ==
  /\ previous \in Texts /\ current \in Texts
  /\ oldIndex = 0 /\ newIndex = 0 /\ rows = <<>>

Rows == [type : {"same", "removed", "added"}, text : LineTexts, oldLine : Nat, newLine : Nat]
Row(type, text, old, new) == [type |-> type, text |-> text, oldLine |-> old, newLine |-> new]

\* dp[<<i, j>>]: the most lines that the texts after i and j lines share.
TableOf(old, new) ==
  LET common[cell \in (0..Len(old)) \X (0..Len(new))] ==
        LET i == cell[1]
            j == cell[2]
        IN  IF i = Len(old) \/ j = Len(new) THEN 0
            ELSE IF old[i + 1] = new[j + 1] THEN common[<<i + 1, j + 1>>] + 1
            ELSE IF common[<<i + 1, j>>] > common[<<i, j + 1>>] THEN common[<<i + 1, j>>]
            ELSE common[<<i, j + 1>>]
  IN  common

dp == TableOf(previousLines, currentLines)

MoreOld == oldIndex < Len(previousLines)
MoreNew == newIndex < Len(currentLines)

Push(row, old, new) ==
  /\ rows' = Append(rows, row)
  /\ oldIndex' = old /\ newIndex' = new
  /\ UNCHANGED <<previous, current>>

Same ==
  /\ MoreOld /\ MoreNew /\ previousLines[oldIndex + 1] = currentLines[newIndex + 1]
  /\ Push(Row("same", previousLines[oldIndex + 1], oldIndex + 1, newIndex + 1),
          oldIndex + 1, newIndex + 1)

\* mutant: the walk drops the old line first whatever the table says
AlwaysOldFirst == TRUE

\* The line to skip is the one without which more is shared.
SkipsOld == dp[<<oldIndex + 1, newIndex>>] >= dp[<<oldIndex, newIndex + 1>>]

Differ == MoreOld /\ MoreNew /\ previousLines[oldIndex + 1] # currentLines[newIndex + 1]

Removed ==
  /\ MoreOld
  /\ \/ ~MoreNew
     \/ Differ /\ SkipsOld
  /\ Push(Row("removed", previousLines[oldIndex + 1], oldIndex + 1, 0), oldIndex + 1, newIndex)

Added ==
  /\ MoreNew
  /\ \/ ~MoreOld
     \/ Differ /\ ~SkipsOld
  /\ Push(Row("added", currentLines[newIndex + 1], 0, newIndex + 1), oldIndex, newIndex + 1)

DiffNext == Same \/ Removed \/ Added

DiffSpec == DiffInit /\ [][DiffNext]_diffVars

-----------------------------------------------------------------------------
(* Properties *)

Walked == ~MoreOld /\ ~MoreNew

\* The text that the rows of some types spell.
TextOf(types) ==
  LET text[these \in Seq(Rows)] ==
        IF these = <<>> THEN <<>>
        ELSE IF Last(these).type \in types THEN Append(text[Front(these)], Last(these).text)
        ELSE text[Front(these)]
  IN  text

\* The ways to keep lines of both texts: pairs of equal lines, none crossing.
EqualLines(old, new) ==
  {p \in (1..Len(old)) \X (1..Len(new)) : old[p[1]] = new[p[2]]}
NoneCross(pairs) ==
  \A p, q \in pairs :
    p # q => (p[1] < q[1] /\ p[2] < q[2]) \/ (q[1] < p[1] /\ q[2] < p[2])

\* The rows are a diff: without those added they read as the old text,
\* without those removed as the new one, and no diff of the two shows more
\* lines as kept.
DiffRebuildsBoth ==
  Walked =>
    /\ TextOf({"same", "removed"})[rows] = previousLines
    /\ TextOf({"same", "added"})[rows] = currentLines
    /\ \A pairs \in SUBSET EqualLines(previousLines, currentLines) :
         NoneCross(pairs) => Cardinality(pairs) <= Len(TextOf({"same"})[rows])
=============================================================================
