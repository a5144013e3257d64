----------------------------- MODULE ShellTokens -----------------------------
(***************************************************************************)
(* The lexical parser of the shell (src/p4/tokens.cpp): it cuts a line into  *)
(* commands and the operators between them, one operator or quotation mark   *)
(* at a turn, and says whether the result is a shell line.  A word is the    *)
(* set of the places of its characters in the line.                          *)
(***************************************************************************)
EXTENDS Integers, Sequences, FiniteSets, SequencesExt

CONSTANTS
  Letters,   \* characters without a meaning of their own
  MaxLength  \* bound on the length of the line

Quotes    == {"'", "''"}   \* the two quotation marks, which are not told apart
Blanks    == {" "}
Redirects == {"<", ">"}
Signs     == {"&", "|", ";"}
Alphabet  == Letters \cup Quotes \cup Blanks \cup Redirects \cup Signs

ASSUME ShellAssumption ==
  /\ Letters \cap (Quotes \cup Blanks \cup Redirects \cup Signs) = {}
  /\ MaxLength \in Nat

None == 0

VARIABLES
  line,    \* the line
  phase,   \* "lex", "clean", "check", "ok" or "bad" (an exception)
  quoted,  \* inside quotation marks
  first,   \* first_not_proceeded
  at,      \* last_operator: the character under consideration, None for npos
  tokens   \* result_tokens

lexVars == <<line, phase, quoted, first, at, tokens>>

Has(i, chars) == i \in DOMAIN line /\ line[i] \in chars

\* The four find_first_of and the minimum of what they find.
NextSpecial(from) ==
  LET found == {i \in from .. Len(line) : Has(i, Signs \cup Quotes)} IN
  IF found = {} THEN None ELSE CHOOSE i \in found : \A j \in found : i <= j

-----------------------------------------------------------------------------
(* Command::from_std_string.                                                *)

EndWord(s) == IF s.word = {} THEN s
              ELSE [s EXCEPT !.words = Append(@, s.word), !.word = {}]

\* Seeded bug: a redirection within quotation marks is one.
SplitTurn_Quoted(s, i) ==
  CASE Has(i, Quotes) -> [s EXCEPT !.quoted = ~@]
    [] Has(i, Redirects) -> [EndWord(s) EXCEPT !.words = Append(@, {i})]
    [] Has(i, Blanks) /\ ~s.quoted -> EndWord(s)
    [] OTHER -> [s EXCEPT !.word = @ \cup {i}]

\* A turn of the loop that cuts a command into words.
SplitTurn(s, i) ==
  CASE Has(i, Quotes) -> [s EXCEPT !.quoted = ~@]
    [] Has(i, Redirects) /\ ~s.quoted -> [EndWord(s) EXCEPT !.words = Append(@, {i})]
    [] Has(i, Blanks) /\ ~s.quoted -> EndWord(s)
    [] OTHER -> [s EXCEPT !.word = @ \cup {i}]

Places(from, to) == [k \in 1 .. to - from + 1 |-> from + k - 1]

Words(from, to) ==
  EndWord(FoldLeft(SplitTurn, [words |-> <<>>, word |-> {}, quoted |-> FALSE],
                   Places(from, to))).words

\* A word that is one redirection character, quoted or not, is a redirection.
Is(word, char) == \E i \in word : word = {i} /\ line[i] = char
Plain(word) == ~Is(word, "<") /\ ~Is(word, ">")

NoCommand == [name |-> {}, args |-> <<>>, input |-> {}, output |-> {},
              inOperand |-> None, outOperand |-> None, bad |-> FALSE]

\* A word that is not a redirection: the name, an operand of the redirection right
\* before it (BadCommand if one is open further back), or an argument.
PlainTurn(words, s, i) ==
  CASE i = 1 -> [s EXCEPT !.name = words[i]]
    [] i # 1 /\ s.inOperand # None ->
         IF s.inOperand + 1 # i THEN [s EXCEPT !.bad = TRUE]
         ELSE [s EXCEPT !.input = words[i], !.inOperand = None]
    [] i # 1 /\ s.inOperand = None /\ s.outOperand # None ->
         IF s.outOperand + 1 # i THEN [s EXCEPT !.bad = TRUE]
         ELSE [s EXCEPT !.output = words[i], !.outOperand = None]
    [] OTHER -> [s EXCEPT !.args = Append(@, words[i])]

\* Seeded bug: a redirection may stand open when another of its kind comes.
RedirectTurn_Open(words, s, i) ==
  IF Is(words[i], "<") THEN [s EXCEPT !.inOperand = i] ELSE [s EXCEPT !.outOperand = i]

\* A redirection: BadCommand if one of its kind is still without an operand.
RedirectTurn(words, s, i) ==
  IF Is(words[i], "<")
    THEN IF s.inOperand # None THEN [s EXCEPT !.bad = TRUE] ELSE [s EXCEPT !.inOperand = i]
    ELSE IF s.outOperand # None THEN [s EXCEPT !.bad = TRUE] ELSE [s EXCEPT !.outOperand = i]

WordTurn(words, s, i) ==
  CASE s.bad -> s
    [] ~s.bad /\ Plain(words[i]) -> PlainTurn(words, s, i)
    [] OTHER -> RedirectTurn(words, s, i)

CommandOf(words) ==
  LET Turn(s, i) == WordTurn(words, s, i) IN
  FoldLeft(Turn, NoCommand, Places(1, Len(words)))

Command(c)     == [kind |-> "command", name |-> c.name, args |-> c.args,
                   input |-> c.input, output |-> c.output]
Operator(type) == [kind |-> "operator", type |-> type]

-----------------------------------------------------------------------------
(* shell_line_lexical_parser.                                               *)

Lines == UNION {[1 .. n -> Alphabet] : n \in 0 .. MaxLength}

LexInit ==
  /\ line \in Lines
  /\ phase = "lex" /\ quoted = FALSE /\ first = 1
  /\ at = NextSpecial(1)
  /\ tokens = <<>>

Turn == phase = "lex" /\ at # None

\* Seeded bug: the search goes on where it stopped.
Behind_Same(i) == i

Behind(i) == i + 1

\* Seeded bug: only the first quotation mark counts.
AfterQuote_Open == TRUE

AfterQuote == ~quoted

\* A quotation mark.
Quote ==
  /\ Turn
  /\ Has(at, Quotes)
  /\ quoted' = AfterQuote
  /\ at' = NextSpecial(Behind(at))
  /\ UNCHANGED <<line, phase, first, tokens>>

\* A sign between quotation marks.
QuotedSign ==
  /\ Turn
  /\ quoted /\ Has(at, Signs)
  /\ at' = NextSpecial(Behind(at))
  /\ UNCHANGED <<line, phase, quoted, first, tokens>>

Single(i)  == ~Has(i + 1, Signs)

DoubledSign(i) == line[i] \in {"&", "|"} /\ Has(i + 1, {line[i]})

TypeOf(i) ==
  CASE line[i] = "&" -> IF Single(i) THEN "BACKGROUND" ELSE "AND"
    [] line[i] = "|" -> IF Single(i) THEN "CONVEYOR" ELSE "OR"
    [] line[i] = ";" -> "SEPARATOR"

\* Seeded bug: every operator has two signs.
Width_Two(i) == 2

Width(i) == IF Single(i) THEN 1 ELSE 2

\* What stands before the operator is a command.
Sign ==
  /\ Turn
  /\ ~quoted /\ Has(at, Signs) /\ (Single(at) \/ DoubledSign(at))
  /\ LET c == CommandOf(Words(first, at - 1)) IN
       /\ ~c.bad
       /\ tokens' = tokens \o <<Command(c), Operator(TypeOf(at))>>
  /\ first' = at + Width(at)
  /\ at' = NextSpecial(first')
  /\ UNCHANGED <<line, phase, quoted>>

\* BadShellLine, or BadCommand.
BadSign ==
  /\ Turn
  /\ ~quoted /\ Has(at, Signs)
  /\ Single(at) \/ DoubledSign(at) => CommandOf(Words(first, at - 1)).bad
  /\ phase' = "bad"
  /\ UNCHANGED <<line, quoted, first, at, tokens>>

HasRest == first <= Len(line)

\* No more signs: what is left is a command.
RestOfLine ==
  /\ phase = "lex" /\ at = None
  /\ LET c == CommandOf(Words(first, Len(line))) IN
       IF quoted \/ (HasRest /\ c.bad)
         THEN phase' = "bad" /\ UNCHANGED tokens
         ELSE /\ phase' = "clean"
              /\ tokens' = IF HasRest THEN Append(tokens, Command(c)) ELSE tokens
  /\ UNCHANGED <<line, quoted, first, at>>

-----------------------------------------------------------------------------
(* parse_shell_line.                                                        *)

IsOperator(t) == t.kind = "operator"

Named(t) == IsOperator(t) \/ t.name # {}

\* A turn of the loop of shell_line_remove_empty.
KeepTurn(kept, t) == IF Named(t) THEN Append(kept, t) ELSE kept

Clean ==
  /\ phase = "clean"
  /\ tokens' = FoldLeft(KeepTurn, <<>>, tokens)
  /\ phase' = "check"
  /\ UNCHANGED <<line, quoted, first, at>>

\* Seeded bug: an operator may be the last token.
TokenValid_Last(i) ==
  LET afterOperator == i = 1 \/ IsOperator(tokens[i - 1]) IN
  IF IsOperator(tokens[i]) THEN ~afterOperator ELSE afterOperator

\* A turn of the loop of shell_line_syntax_valid.
TokenValid(i) ==
  LET last          == i = Len(tokens)
      afterOperator == i = 1 \/ IsOperator(tokens[i - 1])
  IN IF IsOperator(tokens[i])
       THEN IF tokens[i].type = "BACKGROUND" THEN ~afterOperator /\ last
            ELSE ~last /\ ~afterOperator /\ ~IsOperator(tokens[i + 1])
       ELSE afterOperator

Check ==
  /\ phase = "check"
  /\ phase' = IF \A i \in DOMAIN tokens : TokenValid(i) THEN "ok" ELSE "bad"
  /\ UNCHANGED <<line, quoted, first, at, tokens>>

Terminated == phase \in {"ok", "bad"} /\ UNCHANGED lexVars

LexNext == Quote \/ QuotedSign \/ Sign \/ BadSign \/ RestOfLine \/ Clean \/ Check \/ Terminated

LexSpec == LexInit /\ [][LexNext]_lexVars

-----------------------------------------------------------------------------
(* The reference: what the line means, read off it at once.                 *)

\* Behind an odd number of quotation marks.
Inside(i) == Cardinality({j \in 1 .. i - 1 : Has(j, Quotes)}) % 2 = 1

Outside(chars) == {i \in DOMAIN line : line[i] \in chars /\ ~Inside(i)}

\* The sets of places S, which do not mix, from left to right.
LeftToRight(S) ==
  LET Left(w) == {v \in S : \E i \in v : \A j \in w : i <= j} IN
  [n \in 1 .. Cardinality(S) |-> CHOOSE w \in S : Cardinality(Left(w)) = n]

\* The places of content that nothing in seps separates, as sets.
Pieces(content, seps) ==
  {{j \in content : \A k \in seps : (k < i) <=> (k < j)} : i \in content}

\* The operators, the runs of signs outside quotation marks, and the characters
\* before the first, between two and behind the last.
Runs == LET signs == Outside(Signs) IN LeftToRight(Pieces(signs, (DOMAIN line) \ signs))

Parts(runs) ==
  [k \in 1 .. Len(runs) + 1 |->
     {i \in DOMAIN line : /\ k > 1 => \A j \in runs[k - 1] : j < i
                          /\ k <= Len(runs) => \A j \in runs[k] : i < j}]

SignOf(r) == line[CHOOSE i \in r : TRUE]

GoodRun(r) == Cardinality(r) = 1 \/ (Cardinality(r) = 2 /\ {line[i] : i \in r} \in {{"&"}, {"|"}})

\* The words of a part: what no blank and no redirection outside quotation marks
\* separates, and these redirections.
RefWords(part) ==
  LET seps      == part \cap Outside(Blanks \cup Redirects)
      content   == {i \in part \ seps : ~Has(i, Quotes)}
      redirects == {{i} : i \in part \cap Outside(Redirects)}
  IN LeftToRight(Pieces(content, seps) \cup redirects)

PlainAt(w, k) == k \in DOMAIN w /\ Plain(w[k])
IsAt(w, k, char) == k \in DOMAIN w /\ Is(w[k], char)

\* A redirection without an operand right behind it forbids another one of its kind
\* and any operand or argument but the operand of a "<" after a ">".
GoodWords(w) ==
  \A k \in DOMAIN w, j \in DOMAIN w :
    k < j /\ ~Plain(w[k]) /\ ~PlainAt(w, k + 1) =>
      IF Is(w[k], "<") THEN Is(w[j], ">")
      ELSE Is(w[j], "<") \/ (Plain(w[j]) /\ IsAt(w, j - 1, "<"))

\* The last operand of the redirections of a kind.
Operand(w, char) ==
  LET places == {k \in DOMAIN w : k > 1 /\ Plain(w[k]) /\ IsAt(w, k - 1, char)} IN
  IF places = {} THEN {} ELSE w[CHOOSE k \in places : \A j \in places : j <= k]

RefCommand(w) ==
  [kind |-> "command",
   name |-> IF PlainAt(w, 1) THEN w[1] ELSE {},
   args |-> LET kept == {k \in DOMAIN w : k > 1 /\ Plain(w[k]) /\ Plain(w[k - 1])} IN
            [n \in 1 .. Cardinality(kept) |->
               w[CHOOSE k \in kept : Cardinality({j \in kept : j <= k}) = n]],
   input |-> Operand(w, "<"), output |-> Operand(w, ">")]

\* A shell line: quotation marks in pairs, operators that exist, a named command
\* before each and after it - after "&", which ends the line, none.
GoodLine ==
  LET runs  == Runs
      n     == Len(runs)
      parts == Parts(runs)
      words == [k \in DOMAIN parts |-> RefWords(parts[k])]
      named == {k \in DOMAIN words : PlainAt(words[k], 1)}
      Background(k) == Cardinality(runs[k]) = 1 /\ SignOf(runs[k]) = "&"
  IN /\ Cardinality({i \in DOMAIN line : Has(i, Quotes)}) % 2 = 0
     /\ \A k \in 1 .. n : GoodRun(runs[k]) /\ k \in named
     /\ \A k \in 1 .. n - 1 : ~Background(k)
     /\ n > 0 => (n + 1 \in named <=> ~Background(n))
     /\ \A k \in DOMAIN words : GoodWords(words[k])

RunType(r) ==
  CASE SignOf(r) = "&" -> IF Cardinality(r) = 1 THEN "BACKGROUND" ELSE "AND"
    [] SignOf(r) = "|" -> IF Cardinality(r) = 1 THEN "CONVEYOR" ELSE "OR"
    [] OTHER -> "SEPARATOR"

\* The tokens of a shell line: commands and operators in turn, without the last
\* command if it has no name.
RefTokens ==
  LET runs  == Runs
      n     == Len(runs)
      words == [k \in 1 .. n + 1 |-> RefWords(Parts(runs)[k])]
  IN [k \in 1 .. 2 * n + (IF PlainAt(words[n + 1], 1) THEN 1 ELSE 0) |->
        IF k % 2 = 0 THEN Operator(RunType(runs[k \div 2]))
        ELSE RefCommand(words[(k + 1) \div 2])]

-----------------------------------------------------------------------------
(* Properties.                                                              *)

WordType == SUBSET (1 .. MaxLength)

Token ==
  [kind : {"operator"}, type : {"AND", "OR", "CONVEYOR", "BACKGROUND", "SEPARATOR"}]
    \cup [kind : {"command"}, name : WordType, args : Seq(WordType \ {{}}),
          input : WordType, output : WordType]

TypeOK ==
  /\ line \in Seq(Alphabet) /\ Len(line) <= MaxLength
  /\ phase \in {"lex", "clean", "check", "ok", "bad"}
  /\ quoted \in BOOLEAN
  /\ first \in 1 .. Len(line) + 1
  /\ at \in {None} \cup DOMAIN line
  /\ tokens \in Seq(Token)

\* The length of a command, last_operator - first_not_proceeded, is never negative;
\* the parser stands at a sign or quotation mark and knows whether it is quoted; no
\* operator stands in what is still to become a command.
ScanSound ==
  phase = "lex" =>
    /\ at # None => first <= at /\ quoted = Inside(at)
    /\ at = None => quoted = Inside(Len(line) + 1)
    /\ Outside(Signs) \cap {i \in DOMAIN line : first <= i /\ (at # None => i < at)} = {}

\* The state of the lexer is sound at each of its turns.
LexerSound == TypeOK /\ ScanSound

\* Accepted are exactly the shell lines, and an accepted line has become its
\* operators in order and, between them, its named commands with all their words: a
\* redirection's last operand, the others as arguments.
ParsesExactly ==
  /\ phase \in {"ok", "bad"} => (phase = "ok" <=> GoodLine)
  /\ phase = "ok" => tokens = RefTokens
=============================================================================
