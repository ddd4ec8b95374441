--------------------------- MODULE UvmOutputProofs ---------------------------
(***************************************************************************)
(* Lemmas about the classifier of run_uvm (UvmOutput, lines 308-339) for   *)
(* every output: it yields a verdict.  RunUvmProofs and RegressionProofs   *)
(* both rest on them: run_uvm's own call and the regression that calls it  *)
(* classify the same way.                                                  *)
(***************************************************************************)
EXTENDS UvmOutput, TLAPS, WellFoundedInduction

-----------------------------------------------------------------------------
(* Lemmas about the operators of SequencesExt and FiniteSetsExt that the  *)
(* classifier is built from.                                               *)

\* A non-empty set of naturals contains its least element: what makes
\* SelectInSeq (the first matching line, line 313) an index of a line.
LEMMA MinOfNats ==
    ASSUME NEW S \in SUBSET Nat, S # {}
    PROVE  Min(S) \in S /\ \A y \in S : Min(S) <= y
<1>1. \E x \in S : \A y \in S : ~(<<y, x>> \in OpToRel(<, Nat))
  BY NatLessThanWellFounded, WFMin
<1>2. ASSUME NEW x \in Nat, NEW y \in Nat, ~(<<y, x>> \in OpToRel(<, Nat))
      PROVE  x <= y
  <2>1. <<y, x>> \in Nat \X Nat
    OBVIOUS
  <2>2. ~(y < x)
    BY <1>2, <2>1, Zenon DEF OpToRel
  <2>. QED
    BY <2>2
<1>3. \E x \in S : \A y \in S : x <= y
  BY <1>1, <1>2
<1>. QED
  BY <1>3 DEF Min

\* A non-empty set of indices 1..n contains its greatest element: what makes
\* SelectLastInSeq (the last line of the output, line 324) an index.
LEMMA MaxOfIndices ==
    ASSUME NEW n \in Nat, NEW S \in SUBSET (1..n), S # {}
    PROVE  Max(S) \in S
<1>. DEFINE T == {n - x : x \in S}
<1>1. T \in SUBSET Nat
  BY SMT
<1>2. T # {}
  OBVIOUS
<1>3. PICK m \in T : \A y \in T : m <= y
  BY <1>1, <1>2, MinOfNats
<1>4. n - m \in S /\ \A y \in S : n - m >= y
  BY <1>3
<1>. QED
  BY <1>4 DEF Max


\* The index of the first line the error pattern of line 312 matches is
\* 0 or a position of the output.
LEMMA FirstMatchIndex ==
    ASSUME NEW ls \in Seq(Line)
    PROVE  SelectInSeq(ls, UvmErrMatch) \in 0..Len(ls)
<1>. DEFINE I == {j \in 1..Len(ls) : UvmErrMatch(ls[j])}
<1>1. CASE I # {}
  <2>0. I \in SUBSET Nat
    OBVIOUS
  <2>1. Min(I) \in I
    BY <1>1, <2>0, MinOfNats
  <2>. QED
    BY <1>1, <2>1 DEF SelectInSeq
<1>2. CASE I = {}
  BY <1>2 DEF SelectInSeq
<1>. QED
  BY <1>1, <1>2

\* The last non-blank line of the output is a line.
LEMMA LastLineType ==
    ASSUME NEW ls \in Seq(Line)
    PROVE  LastLine(ls) \in Line
<1>. DEFINE I == {j \in 1..Len(ls) : ls[j].head # "blank"}
           k == SelectLastInSeq(ls, LAMBDA l : l.head # "blank")
<1>1. k = IF I # {} THEN Max(I) ELSE 0
  BY DEF SelectLastInSeq
<1>2. k = 0 \/ k \in 1..Len(ls)
  <2>1. CASE I # {}
    <3>0. Len(ls) \in Nat /\ I \in SUBSET (1..Len(ls))
      OBVIOUS
    <3>1. Max(I) \in I
      BY <2>1, <3>0, MaxOfIndices
    <3>. QED
      BY <1>1, <2>1, <3>1
  <2>. QED
    BY <1>1, <2>1
<1>3. BlankLine \in Line
  BY DEF BlankLine, Line, Heads
<1>. QED
  BY <1>2, <1>3 DEF LastLine

\* stdout + stderr (line 290), split into lines, is a sequence of lines.
LEMMA CombinedOutputType ==
    ASSUME NEW o \in Output
    PROVE  CombinedOutput(o) \in Seq(Line)
<1>1. o.out \in Seq(Line) /\ o.err \in Seq(Line)
  BY DEF Output
<1>2. CASE o.out = << >> \/ o.err = << >> \/ o.outNl
  BY <1>1, <1>2 DEF CombinedOutput
<1>3. CASE ~(o.out = << >> \/ o.err = << >> \/ o.outNl)
  <2>0. o.out[Len(o.out)] \in Line /\ Head(o.err) \in Line
    BY <1>1, <1>3
  <2>1. JoinLines(o.out[Len(o.out)], Head(o.err)) \in Line
    BY <2>0 DEF JoinLines, Line, Heads
  <2>. QED
    BY <1>1, <1>3, <2>1 DEF CombinedOutput
<1>. QED
  BY <1>2, <1>3

\* The classifier (lines 308-339) always yields a verdict.
LEMMA ClassifyType ==
    ASSUME NEW rc \in Int, NEW ls \in Seq(Line)
    PROVE  Classify(rc, ls) \in Verdict
<1>1. SelectInSeq(ls, UvmErrMatch) \in 0..Len(ls)
  BY FirstMatchIndex
<1>2. LastLine(ls) \in Line
  BY LastLineType
<1>3. BlankLine \in Line
  BY DEF BlankLine, Line, Heads
<1>. QED
  BY <1>1, <1>2, <1>3 DEF Classify, MkVerdict, Verdict, Statuses, ReasonKinds

=============================================================================
