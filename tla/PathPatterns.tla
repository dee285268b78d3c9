------------------------------ MODULE PathPatterns ------------------------------
(***************************************************************************)
(* The patterns of a path filter (packages/shared/src/path-filter.ts):     *)
(* what a source with braces, ranges, quotes and blanks expands to.        *)
(*                                                                         *)
(* A source is a sequence of tokens.  A text stands for a run of           *)
(* characters that mean nothing here, a range for one that does alone in   *)
(* braces; both are numbers.  A pattern is the sequence of the tokens it   *)
(* takes literally.  There is one kind of quote.                           *)
(***************************************************************************)
EXTENDS Integers, FiniteSets, SequencesExt

CONSTANTS
  Tokens,          \* what may be typed
  MaxPatterns,     \* MAX_PATTERNS
  Rare,            \* bound of the model: tokens that count twice in the length of a source
  MaxTyped         \* bound of the model: the length of a source

PatternAssumption ==
  /\ MaxPatterns \in Nat \ {0} /\ MaxTyped \in Nat
  /\ \A token \in Tokens : token.type = "range" => token.step > 0

VARIABLE source

Text(value) == [type |-> "text", value |-> value]
Mark(type) == [type |-> type]

-----------------------------------------------------------------------------
(* The parser: from a place in the source on, with the patterns so far.    *)

Parsed(items, next) == [items |-> items, next |-> next, error |-> FALSE]
ParseError == [items |-> <<>>, next |-> 0, error |-> TRUE]

\* cross, without its limit
Cross(prefixes, items) ==
  LET n == Len(items)
  IN  [k \in 1 .. Len(prefixes) * n |-> prefixes[((k - 1) \div n) + 1] \o items[((k - 1) % n) + 1]]
Literally(items, token) == [k \in DOMAIN items |-> Append(items[k], token)]

\* expandRange
Distance(range) == IF range.from <= range.to THEN range.to - range.from ELSE range.from - range.to
ExpandRange(range) ==
  LET direction == IF range.to < range.from THEN -1 ELSE 1
  IN  [k \in 1 .. (Distance(range) \div range.step) + 1 |-> <<Text(range.from + (k - 1) * range.step * direction)>>]

\* Mutant: a blank ends a pattern in braces as well.
EndsAtBlank(token, inBrace) == token.type = "space" \/ (inBrace /\ token.type \in {"comma", "close"})
Ends(token, inBrace) == token.type \in (IF inBrace THEN {"comma", "close"} ELSE {"space"})

RECURSIVE ParseQuoted(_, _, _), ParseSequence(_, _, _, _), ParseBrace(_, _, _, _)

ParseQuoted(s, k, items) ==
  IF k > Len(s) THEN ParseError
  ELSE IF s[k].type = "quote" THEN Parsed(items, k + 1)
  ELSE IF s[k].type = "escape" /\ k < Len(s) THEN ParseQuoted(s, k + 2, Literally(items, s[k + 1]))
  ELSE ParseQuoted(s, k + 1, Literally(items, s[k]))

ParseSequence(s, k, inBrace, items) ==
  IF k > Len(s) THEN Parsed(items, k)
  ELSE IF Ends(s[k], inBrace) THEN Parsed(items, k)
  ELSE IF s[k].type = "escape"
       THEN ParseSequence(s, k + 2, inBrace, Literally(items, s[IF k < Len(s) THEN k + 1 ELSE k]))
  ELSE IF s[k].type = "quote"
       THEN LET quoted == ParseQuoted(s, k + 1, items)
            IN  IF quoted.error THEN ParseError ELSE ParseSequence(s, quoted.next, inBrace, quoted.items)
  ELSE IF s[k].type = "open"
       THEN LET brace == ParseBrace(s, k + 1, k + 1, <<>>)
            IN  IF brace.error \/ Len(items) * Len(brace.items) > MaxPatterns THEN ParseError
                ELSE ParseSequence(s, brace.next, inBrace, Cross(items, brace.items))
  ELSE ParseSequence(s, k + 1, inBrace, Literally(items, s[k]))

\* From the place k on, in a brace that opens before start; a comma was seen when
\* they are two places.
ParseBrace(s, start, k, alternatives) ==
  LET part == ParseSequence(s, k, TRUE, <<<<>>>>)
      items == alternatives \o part.items
  IN  IF part.error \/ part.next > Len(s) THEN ParseError
      ELSE IF s[part.next].type = "comma" THEN ParseBrace(s, start, part.next + 1, items)
      ELSE IF k # start THEN Parsed(items, part.next + 1)
      ELSE IF s[start].type = "range" /\ part.next = start + 1
           THEN LET range == ExpandRange(s[start])
                IN  IF Len(range) > MaxPatterns THEN ParseError ELSE Parsed(range, part.next + 1)
      ELSE Parsed([n \in DOMAIN items |-> <<Mark("open")>> \o items[n] \o <<Mark("close")>>], part.next + 1)

RECURSIVE ExpandFrom(_, _, _)
ExpandFrom(s, k, out) ==
  IF k > Len(s) THEN Parsed(out, k)
  ELSE IF s[k].type = "space" THEN ExpandFrom(s, k + 1, out)
  ELSE LET word == ParseSequence(s, k, FALSE, <<<<>>>>)
           all == out \o SelectSeq(word.items, LAMBDA item : item # <<>>)
       IN  IF word.error \/ Len(all) > MaxPatterns THEN ParseError ELSE ExpandFrom(s, word.next, all)
ExpandBraces(s) == ExpandFrom(s, 1, <<>>)

\* The parts of a sequence between some of its places.
Split(s, cuts) ==
  [c \in cuts \cup {0} |->
     SubSeq(s, c + 1, (CHOOSE n \in cuts \cup {Len(s) + 1} : n > c /\ \A m \in cuts : m > c => n <= m) - 1)]

\* compilePathPattern: the names of a pattern; one alone may be a part of a name.
CompilePathPattern(pattern) ==
  LET parts == Split(pattern, {k \in DOMAIN pattern : pattern[k].type = "slash"})
      names == {c \in DOMAIN parts : parts[c] # <<>>}
  IN  IF names = {} THEN {}
      ELSE {[segments |-> {parts[c] : c \in names}, substring |-> Cardinality(names) = 1]}

\* Without the blanks at its ends, the last one even where it is escaped.
Trim(s) ==
  LET said == {k \in DOMAIN s : s[k].type # "space"}
  IN  IF said = {} THEN <<>> ELSE SubSeq(s, Min(said), Max(said))

ParsePathFilter(s) ==
  LET read == ExpandBraces(Trim(s))
      terms == UNION {CompilePathPattern(p) : p \in ToSet(read.items)}
  IN  [patterns |-> ToSet(read.items), terms |-> terms, error |-> read.error, active |-> terms # {}]

-----------------------------------------------------------------------------
(* A source is typed.                                                      *)

Init == source = <<>>
Length(s) == Len(s) + Cardinality({k \in DOMAIN s : s[k] \in Rare})
Type(token) == source' = Append(source, token) /\ Length(source') <= MaxTyped
Next == \E token \in Tokens : Type(token)
Spec == Init /\ [][Next]_source

-----------------------------------------------------------------------------
(* What a source says, by matching its braces: no place, no limit.  A      *)
(* reading of a word is a pattern and the choices that lead to it.         *)

\* Each token with its role: an "active" one, "text", or "void" for a quote.
Entry(token, role) == [token |-> token, role |-> role]
Roles(s) ==
  LET step(acc, token) ==
        IF acc.escaped THEN [acc EXCEPT !.out = Append(@, Entry(token, "text")), !.escaped = FALSE]
        ELSE IF token.type = "escape" THEN [acc EXCEPT !.escaped = TRUE]
        ELSE IF token.type = "quote" THEN [acc EXCEPT !.out = Append(@, Entry(token, "void")), !.quoted = ~@]
        ELSE [acc EXCEPT !.out = Append(@, Entry(token, IF acc.quoted THEN "text" ELSE "active"))]
      last == FoldLeft(step, [out |-> <<>>, quoted |-> FALSE, escaped |-> FALSE], s)
  IN  [last EXCEPT !.out = IF last.escaped THEN Append(@, Entry(Mark("escape"), "text")) ELSE @]

Active(entry, type) == entry.role = "active" /\ entry.token.type = type
Depths(t) ==
  LET d[k \in 0 .. Len(t)] ==
        IF k = 0 THEN 0
        ELSE IF Active(t[k], "open") THEN d[k - 1] + 1
        ELSE IF Active(t[k], "close") /\ d[k - 1] > 0 THEN d[k - 1] - 1
        ELSE d[k - 1]
  IN  d
At(t, type, depth) == {k \in DOMAIN t : Active(t[k], type) /\ Depths(t)[k] = depth}

Reading(choices, text) == [choices |-> choices, text |-> text]
Chosen(choice, readings) == {Reading(<<choice>> \o r.choices, r.text) : r \in readings}
Then(first, rest) == {Reading(<<a.choices, b.choices>>, a.text \o b.text) : a \in first, b \in rest}

RECURSIVE ReadingsOf(_), InBraces(_)
ReadingsOf(t) ==
  IF t = <<>> THEN {Reading(<<>>, <<>>)}
  ELSE IF Active(t[1], "open")
       THEN LET closing == CHOOSE k \in At(t, "close", 0) : \A n \in At(t, "close", 0) : k <= n
            IN  Then(InBraces(SubSeq(t, 2, closing - 1)), ReadingsOf(SubSeq(t, closing + 1, Len(t))))
  ELSE Then({Reading(<<>>, IF t[1].role = "void" THEN <<>> ELSE <<t[1].token>>)}, ReadingsOf(Tail(t)))

InBraces(t) ==
  LET commas == At(t, "comma", 0)
      parts == Split(t, commas)
  IN  IF commas # {} THEN UNION {Chosen(c, ReadingsOf(parts[c])) : c \in DOMAIN parts}
      ELSE IF Len(t) = 1 /\ Active(t[1], "range")
           THEN {Reading(<<x>>, <<Text(x)>>) : x \in
                   {x \in -9 .. 9 : LET r == t[1].token
                                    IN  /\ \/ r.from <= x /\ x <= r.to
                                           \/ r.to <= x /\ x <= r.from
                                        /\ (x - r.from) % r.step = 0}}
      ELSE {Reading(r.choices, <<Mark("open")>> \o r.text \o <<Mark("close")>>) : r \in ReadingsOf(t)}

Unbalanced(s) == Roles(s).quoted \/ Depths(Roles(s).out)[Len(Roles(s).out)] > 0
WordsOf(s) == Split(Roles(s).out, At(Roles(s).out, "space", 0))
ReadingsIn(s) == UNION {Chosen(w, ReadingsOf(WordsOf(s)[w])) : w \in DOMAIN WordsOf(s)}
Spelled(s) == {r \in ReadingsIn(s) : r.text # <<>>}
Explodes(s) ==
  Cardinality(Spelled(s)) > MaxPatterns \/ \E w \in DOMAIN WordsOf(s) : Cardinality(ReadingsOf(WordsOf(s)[w])) > MaxPatterns

-----------------------------------------------------------------------------
(* Properties.                                                             *)

\* "Brace expansion, the same rules mkdir -p follows" (path-filter.ts:10), "a space is
\* a pattern separator at the top level and an ordinary character inside braces"
\* (:143-145), "{a} is the literal {a}" (:206): the patterns of a source are those its
\* braces spell when each is matched with its own end, and the source is an error when
\* it is unbalanced, or there are more of them than the limit at any point, which is
\* no more and no less than at the end.  A filter with an error filters nothing.
ExpansionFollowsTheGrammar ==
  LET filter == ParsePathFilter(source)
      trimmed == Trim(source)
  IN  IF Unbalanced(trimmed) \/ Explodes(trimmed) THEN filter.error /\ ~filter.active
      ELSE /\ ~filter.error
           /\ filter.patterns = {r.text : r \in Spelled(trimmed)}
           /\ filter.active <=> \E p \in filter.patterns : \E k \in DOMAIN p : p[k].type # "slash"

=============================================================================
