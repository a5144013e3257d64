------------------------------ MODULE WordsQuery ------------------------------
(***************************************************************************)
(* The dictionary of the words server (src/p7) and the query for the words  *)
(* with a prefix.  A word is a sequence of letters, a letter a number; a     *)
(* file is the sequence of its lines.                                        *)
(***************************************************************************)
EXTENDS Integers, Sequences, FiniteSets, SequencesExt

CONSTANTS
  MaxAnswers,  \* the words in an answer, 10 in the code
  MaxWord      \* MAX_WORD_LENGTH

ASSUME QueryAssumption == MaxAnswers \in Nat \ {0} /\ MaxWord \in Nat \ {0}

\* operator>= of std::string: letter by letter, a prefix before what it begins.
AtLeast(w, p) ==
  \/ IsPrefix(p, w)
  \/ \E i \in DOMAIN w \cap DOMAIN p :
       /\ w[i] > p[i]
       /\ \A j \in 1 .. i - 1 : w[j] = p[j]

\* Seeded bug: a long line is kept.
Kept_Long(w) == Len(w) > 0

\* The lines that become words.
Kept(w) == Len(w) > 0 /\ Len(w) <= MaxWord

\* The place of line i in the sorted list of the kept ones: after the smaller and,
\* among equal ones, after those that stood before it.
PlaceOf(file, kept, i) ==
  Cardinality({j \in kept : \/ ~AtLeast(file[j], file[i])
                            \/ file[j] = file[i] /\ j <= i})

\* _words_dict after update_dict_if_necessary has read the file.
DictOf(file) ==
  LET kept == {i \in DOMAIN file : Kept(file[i])} IN
  [n \in 1 .. Cardinality(kept) |-> file[CHOOSE i \in kept : PlaceOf(file, kept, i) = n]]

\* Seeded bug: the first word with the prefix is skipped over.
Begin_Greater(dict, p) == {i \in DOMAIN dict : AtLeast(dict[i], p) /\ dict[i] # p}

\* Where the first loop may stop, and does at the first of them.
Begin(dict, p) == {i \in DOMAIN dict : AtLeast(dict[i], p)}
Start(dict, p) == IF Begin(dict, p) = {} THEN Len(dict) + 1
                  ELSE CHOOSE i \in Begin(dict, p) : \A j \in Begin(dict, p) : i <= j

\* Seeded bug: one word more than fits.
Limit_OneMore == MaxAnswers + 1

Limit == MaxAnswers

\* What stops the second loop after n words: enough of them, the end of the list
\* (where it goes on to look at a word that is not there), or another prefix.
Stops(dict, p, n) ==
  LET i == Start(dict, p) + n IN
  n = Limit \/ i > Len(dict) \/ ~IsPrefix(p, dict[i])

\* get_words_with_prefix
Answer(dict, p) ==
  LET n == CHOOSE k \in 0 .. Limit :
             Stops(dict, p, k) /\ \A j \in 0 .. k - 1 : ~Stops(dict, p, j)
  IN SubSeq(dict, Start(dict, p), Start(dict, p) + n - 1)

\* The second loop has come to the end of the list before it had enough words:
\* it looks at the element after the last, which is undefined.
PastTheEnd(dict, p) ==
  /\ Begin(dict, p) # {}
  /\ Len(Answer(dict, p)) < Limit
  /\ Start(dict, p) + Len(Answer(dict, p)) > Len(dict)

-----------------------------------------------------------------------------
(* The reference.                                                           *)

Occurrences(s, w) == Cardinality({i \in DOMAIN s : s[i] = w})

\* a is what a client may expect for prefix p: words of the file in order, all
\* with the prefix, each as often as in the file - or, when there are too many,
\* the smallest of them.
Expected(a, file, p) ==
  /\ Len(a) <= MaxAnswers
  /\ \A i \in DOMAIN a : /\ IsPrefix(p, a[i]) /\ Len(a[i]) \in 1 .. MaxWord
                         /\ i > 1 => AtLeast(a[i], a[i - 1])
                         /\ Occurrences(a, a[i]) <= Occurrences(file, a[i])
  /\ \A w \in Range(file) :
       /\ IsPrefix(p, w) /\ Len(w) \in 1 .. MaxWord
       /\ Occurrences(a, w) < Occurrences(file, w)
       => Len(a) = MaxAnswers /\ AtLeast(w, a[MaxAnswers])

\* The undefined look happens exactly when the last word of the dictionary has
\* the prefix and the answer has room for more.
LastMatches(dict, p) ==
  /\ dict # <<>> /\ IsPrefix(p, dict[Len(dict)])
  /\ Cardinality({i \in DOMAIN dict : IsPrefix(p, dict[i])}) < MaxAnswers
=============================================================================
