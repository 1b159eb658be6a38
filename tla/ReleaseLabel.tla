----------------------------- MODULE ReleaseLabel -----------------------------
(***************************************************************************)
(* extract_release_from_filename of both scripts, over file names cut into *)
(* tokens: a maximal run of digits (a member of Digits), ".", "/" and a    *)
(* run of other characters (a member of Letters).  A label is the token    *)
(* sequence of the string the function returns.                            *)
(*                                                                         *)
(* A regex search returns the leftmost match.  Both patterns start with an *)
(* optional prefix of letters and "-"/"_" ("v", "release-") that contains  *)
(* no digit and lies outside the group, so the leftmost match's group      *)
(* starts at the first digit run from which the digits-and-dots part       *)
(* matches; \d+ after a dot takes the whole digit run.                      *)
(*                                                                         *)
(* The generator below builds every name of up to MaxLen tokens, one token *)
(* per step, never two digit runs side by side.                            *)
(***************************************************************************)
EXTENDS Integers, Sequences, SequencesExt

CONSTANTS Digits,   \* digit runs, e.g. "1", "10"
          Letters,  \* runs of other characters, e.g. "bench", "csv", "v"
          MaxLen    \* bound on the number of tokens of a name

Tokens == Digits \cup Letters \cup {".", "/"}

ASSUME Digits \cap Letters = {} /\ {".", "/"} \cap (Digits \cup Letters) = {}

VARIABLE name

(* Tokens i .. i + 2 * (n - 1) are n digit runs joined by dots.            *)
DottedAt(s, i, n) ==
    /\ i + 2 * (n - 1) <= Len(s)
    /\ \A k \in 0..(n - 1) : s[i + 2 * k] \in Digits
    /\ \A k \in 1..(n - 1) : s[i + 2 * k - 1] = "."

(* os.path.basename: the tokens after the last "/".                       *)
Basename(s) ==
    LET cuts == { i \in DOMAIN s : s[i] = "/" }
    IN  IF cuts = {} THEN s
        ELSE SubSeq(s, Max(cuts) + 1, Len(s))

(* os.path.splitext(p)[0]: drop the text from the last "." of the         *)
(* basename on, unless that dot only has dots before it in the basename.  *)
SplitExtRoot(s) ==
    LET start == Len(s) - Len(Basename(s))
        dots  == { i \in (start + 1)..Len(s) : s[i] = "." }
    IN  IF dots = {} THEN s
        ELSE LET last == Max(dots) IN
             IF \A j \in (start + 1)..(last - 1) : s[j] = "."
             THEN s ELSE SubSeq(s, 1, last - 1)

(* Faulty variant: the optional third component is never taken.          *)
RECURSIVE SearchTwoOnly(_, _)
SearchTwoOnly(s, i) ==
    IF i > Len(s) THEN << >>
    ELSE IF DottedAt(s, i, 2) THEN SubSeq(s, i, i + 2)
    ELSE SearchTwoOnly(s, i + 1)

(* re.search(r'(?:v|release[-_])?(\d+\.\d+(?:\.\d+)?)', s).group(1), or  *)
(* << >> when there is no match; the search tries positions left to right *)
(* and the optional group is greedy.                                      *)
RECURSIVE SearchTwoOrThree(_, _)
SearchTwoOrThree(s, i) ==
    IF i > Len(s) THEN << >>
    ELSE IF DottedAt(s, i, 3) THEN SubSeq(s, i, i + 4)
    ELSE IF DottedAt(s, i, 2) THEN SubSeq(s, i, i + 2)
    ELSE SearchTwoOrThree(s, i + 1)

(* Faulty variant: the last match of the pattern instead of the first.    *)
RECURSIVE SearchThreeLast(_, _)
SearchThreeLast(s, i) ==
    IF i > Len(s) THEN << >>
    ELSE LET later == SearchThreeLast(s, i + 1)
         IN  IF later # << >> THEN later
             ELSE IF DottedAt(s, i, 3) THEN SubSeq(s, i, i + 4) ELSE << >>

(* re.search(r'v?(\d+\.\d+\.\d+)', s).group(1), or << >>.                 *)
RECURSIVE SearchThree(_, _)
SearchThree(s, i) ==
    IF i > Len(s) THEN << >>
    ELSE IF DottedAt(s, i, 3) THEN SubSeq(s, i, i + 4)
    ELSE SearchThree(s, i + 1)

(* visualize_benchmarks.extract_release_from_filename                     *)
VisualizeLabel(s) ==
    LET m == SearchTwoOrThree(s, 1)
    IN  IF m # << >> THEN m ELSE SplitExtRoot(Basename(s))

(* compare_benchmark_iterations.extract_release_from_filename; its caller *)
(* passes a name from os.listdir, and the fallback is splitext of it.     *)
CompareLabel(s) ==
    LET m == SearchThree(s, 1)
    IN  IF m # << >> THEN m ELSE SplitExtRoot(s)

(* main() of the visualize script labels each command-line argument: the  *)
(* whole path goes to extract_release_from_filename.                      *)
MainLabel(path) == VisualizeLabel(path)

Init == name = << >>

(* Extend the name by one token.                                          *)
Grow(t) ==
    /\ Len(name) < MaxLen
    /\ ~(t \in Digits /\ name # << >> /\ Last(name) \in Digits)
    /\ name' = Append(name, t)

Next == \E t \in Tokens : Grow(t)

Spec == Init /\ [][Next]_name

----------------------------------------------------------------------------
(* Spec 4.1, stated as a definition: the label is the digits-and-dots     *)
(* string d.d or d.d.d of the leftmost match, three components when the   *)
(* match can take them, else the file name without its extension.        *)
MatchStarts(s) == { i \in DOMAIN s : DottedAt(s, i, 2) }

SpecLabel(s) ==
    IF MatchStarts(s) = {} THEN SplitExtRoot(Basename(s))
    ELSE LET i == Min(MatchStarts(s))
         IN  IF DottedAt(s, i, 3) THEN SubSeq(s, i, i + 4) ELSE SubSeq(s, i, i + 2)

(* A name that holds no "/": the file name the spec speaks of.            *)
IsFileName(s) == \A i \in DOMAIN s : s[i] # "/"

(* The visualize script labels a file name as spec 4.1 says.              *)
VisualizeLabelMatchesSpec ==
    IsFileName(name) => VisualizeLabel(name) = SpecLabel(name)

(* visualize main() passes the path from the command line: the label of a *)
(* file is the label of its file name, whatever directory it lies in      *)
(* (spec 4.1: the label is derived from the file name).  Only paths that *)
(* end in a real file name are asked about: one that holds a word.       *)
LabelIgnoresDirectory ==
    (\E i \in DOMAIN Basename(name) : Basename(name)[i] \in Letters)
        => MainLabel(name) = VisualizeLabel(Basename(name))

(* Both scripts label the same result files: whenever the visualize       *)
(* script finds a three-part version d.d.d, the compare script's search   *)
(* finds the same one, so a file keeps its release label across the two  *)
(* tools (spec 4.1 defines one extract_release).                          *)
ScriptsAgreeOnThreePartVersions ==
    Len(SearchTwoOrThree(name, 1)) = 5 =>
        CompareLabel(name) = VisualizeLabel(name)

=============================================================================
