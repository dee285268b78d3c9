------------------------------ MODULE MediaFilter ------------------------------
(***************************************************************************)
(* The filter language of the media view                                   *)
(* (packages/shared/src/media-filter.ts): a recursive-descent parser and   *)
(* a three-valued evaluation over what the fleet answered.                 *)
(*                                                                         *)
(* The lexer and the patterns of names are abstracted: the source is a     *)
(* sequence of tokens, and a value typed in it is a record of what it      *)
(* would be as a name, a number, a date...  A pattern is the set of names  *)
(* it matches.  The machine types a filter, has a row judged by it, and    *)
(* then lets the rest of the fleet answer, one question at a time.         *)
(***************************************************************************)
EXTENDS Integers, FiniteSets, SequencesExt

CONSTANTS
  Instances,     \* of the kind of the row, by number
  Words,         \* the word tokens that may be typed
  Rows,          \* what the fleet has answered about a title so far
  Copies,        \* what an instance may say of its copy of the title
  MaxTokens,     \* bound of the model: the length of a source
  MaxJudged,     \* bound of the model: of a source by which rows are judged
  MaxDepth,      \* MAX_MEDIA_FILTER_DEPTH
  MaxTerms       \* MAX_MEDIA_FILTER_TERMS

\* A row is made of the copies that were found of a title.
RowsHaveCopies == \A r \in Rows : DOMAIN r.copies # {}

VARIABLES
  source,        \* the tokens typed so far
  row            \* the row under judgement, or NoRow

vars == <<source, row>>

NoRow == [kind |-> "none"]

-----------------------------------------------------------------------------
(* Fields: their type, whose fact they are, and which entities have them.  *)

MediaKinds == {"movie", "series"}
Field(type, scope, entities) == [type |-> type, scope |-> scope, entities |-> entities]
RowField(type) == Field(type, "row", MediaKinds)
OnlyOf(type, kind) == Field(type, "row", {kind})
FacetField(type) == Field(type, "facet", MediaKinds)

Fields ==
  [title |-> RowField("text"), sortTitle |-> RowField("text"), year |-> RowField("number"),
   kind |-> RowField("enum"), status |-> RowField("enum"), genres |-> RowField("set"),
   certification |-> RowField("set"), collection |-> OnlyOf("set", "movie"),
   runtime |-> RowField("number"), studio |-> RowField("text"), tmdbId |-> OnlyOf("number", "movie"),
   tvdbId |-> OnlyOf("number", "series"), imdbId |-> RowField("text"), titleSlug |-> RowField("text"),
   seriesType |-> OnlyOf("enum", "series"), minimumAvailability |-> OnlyOf("enum", "movie"),
   instances |-> RowField("number"),
   instance |-> FacetField("set"), monitored |-> FacetField("bool"), hasFile |-> FacetField("bool"),
   sizeOnDisk |-> FacetField("bytes"), path |-> FacetField("path"), rootFolderPath |-> FacetField("path"),
   tags |-> FacetField("set"), qualityProfile |-> FacetField("set"), added |-> FacetField("date"),
   list |-> FacetField("set"), listExcluded |-> FacetField("bool")]

\* A known absence, and a question nobody answered.
None == [kind |-> "none"]
Unknown == [kind |-> "unknown"]

\* What a row says of the title is what its first copy says, in the order of the
\* instances; the rest is asked of each copy.
First(r) == CHOOSE i \in DOMAIN r.copies : \A j \in DOMAIN r.copies : i <= j
Read(field, r, i) ==
  CASE field = "instances" -> [kind |-> "number", value |-> Cardinality(DOMAIN r.copies)]
    [] field # "instances" /\ Fields[field].scope = "row" -> r.copies[First(r)][field]
    [] Fields[field].scope = "facet" -> r.copies[i][field]

-----------------------------------------------------------------------------
(* Literals and terms.  A value as typed says what it is in each reading:  *)
(* [form |-> "name", exact, contains], "number", "bool", "date", "range".  *)

Ordered == {"number", "bytes", "date"}
Allowed(type, operator) ==
  operator \in {"contains", "equals", "absent"} \/ (type \in Ordered /\ operator \in {"lt", "lte", "gt", "gte"})

Text(names) == {[kind |-> "text", names |-> names]}
IsRange(operator, raw) == raw.form = "range" /\ operator \in {"contains", "equals"}
Least(a, b) == IF a < b THEN a ELSE b
Greatest(a, b) == IF a < b THEN b ELSE a

\* compileLiteral: {} for a value the field cannot take.
CompileLiteral(type, operator, raw) ==
  CASE type = "text" /\ raw.form = "name" -> Text(IF operator = "equals" THEN raw.exact ELSE raw.contains)
    [] type \in {"set", "enum", "path"} /\ raw.form = "name" -> Text(raw.exact)
    [] type = "bool" /\ raw.form = "bool" -> {[kind |-> "bool", value |-> raw.value]}
    [] type \in {"number", "bytes"} /\ raw.form = "number" -> {[kind |-> "number", value |-> raw.value]}
    [] type \in {"number", "bytes"} /\ IsRange(operator, raw) ->
         {[kind |-> "range", from |-> Least(raw.from, raw.to), to |-> Greatest(raw.from, raw.to)]}
    [] type = "date" /\ raw.form = "date" -> {[kind |-> "date", start |-> raw.start, end |-> raw.end]}
    [] type = "date" /\ IsRange(operator, raw) ->
         {[kind |-> "date", start |-> Least(raw.from.start, raw.to.start), end |-> Greatest(raw.from.end, raw.to.end)]}
    [] OTHER -> {}

Term(field, operator, literals) ==
  [type |-> "term", field |-> field, operator |-> operator, literals |-> literals]
Not(node) == [type |-> "not", node |-> node]
Join(type, nodes) == IF Len(nodes) = 1 THEN nodes[1] ELSE [type |-> type, nodes |-> nodes]

\* A word [field, operator, negated, raws]: its terms, {} when one of its values
\* does not compile.  No value at all is the word "none".
BuildTerm(word) ==
  LET type == Fields[word.field].type
      literals == {CompileLiteral(type, word.operator, raw) : raw \in word.raws}
      term == Term(word.field, word.operator, UNION literals)
  IN  IF ~Allowed(type, word.operator) \/ {} \in literals THEN {}
      ELSE {[node |-> IF word.negated THEN Not(term) ELSE term, terms |-> 1]}

\* A word without a field: part of the title or of the sort title, or an IMDb id.
BareTerms(raw) ==
  IF raw.imdb THEN <<Term("imdbId", "equals", Text(raw.exact))>>
  ELSE <<Term("title", "contains", Text(raw.contains)), Term("sortTitle", "contains", Text(raw.contains))>>

BuildBare(word) ==
  LET terms == FlattenSeq([k \in DOMAIN word.raws |-> BareTerms(word.raws[k])])
  IN  {[node |-> Join("or", terms), terms |-> Len(terms)]}

Build(word) == IF word.type = "word" THEN BuildTerm(word) ELSE BuildBare(word)

-----------------------------------------------------------------------------
(* The parser.  Its state: the next token, the depth, whether it is in a   *)
(* quantifier, the terms so far.                                           *)

Punctuation(type) == [type |-> type]
Quantifier(q) == [type |-> "quantifier", quantifier |-> q]
IsWord(token) == token.type \in {"word", "bare"}

Start == [at |-> 1, depth |-> 0, inQuantifier |-> FALSE, terms |-> 0]
Peek(s, p) == IF p.at <= Len(s) THEN s[p.at].type ELSE "end"
Step(p) == [p EXCEPT !.at = @ + 1]
Enter(p) == [Step(p) EXCEPT !.depth = @ + 1]
Leave(p) == [Step(p) EXCEPT !.depth = @ - 1]
Failure == [ok |-> FALSE]
Parsed(node, p) == [ok |-> TRUE, node |-> node, state |-> p]

\* A rule of the grammar, the operands it has so far, and where it goes on.
RECURSIVE Parse(_, _, _, _)
Rule(rule, s, p) == Parse(rule, s, <<>>, p)

ParseWord(s, p) ==
  LET built == Build(s[p.at])
      after == [Step(p) EXCEPT !.terms = @ + (CHOOSE b \in built : TRUE).terms]
  IN  IF built = {} \/ after.terms > MaxTerms THEN Failure
      ELSE Parsed((CHOOSE b \in built : TRUE).node, after)

ParseGroup(s, p) ==
  LET inner == Rule("or", s, Enter(p))
  IN  IF Enter(p).depth > MaxDepth \/ ~inner.ok \/ Peek(s, inner.state) # "rparen" THEN Failure
      ELSE Parsed(inner.node, Leave(inner.state))

\* The lexer makes a quantifier only of a word in front of a "(".
ParseQuantifier(s, p) ==
  LET inner == Rule("or", s, [Enter(Step(p)) EXCEPT !.inQuantifier = TRUE])
  IN  IF p.inQuantifier \/ ~inner.ok \/ Peek(s, inner.state) # "rparen" THEN Failure
      ELSE Parsed([type |-> "quantifier", quantifier |-> s[p.at].quantifier, node |-> inner.node],
                  [Leave(inner.state) EXCEPT !.inQuantifier = FALSE])

ParsePrimary(s, p) ==
  CASE Peek(s, p) = "lparen" -> ParseGroup(s, p)
    [] Peek(s, p) = "quantifier" -> ParseQuantifier(s, p)
    [] Peek(s, p) \in {"word", "bare"} -> ParseWord(s, p)
    [] OTHER -> Failure

ParseUnary(s, p) ==
  LET operand == Rule("unary", s, Step(p))
  IN  IF Peek(s, p) # "not" THEN ParsePrimary(s, p)
      ELSE IF operand.ok THEN Parsed(Not(operand.node), operand.state) ELSE Failure

\* Two terms side by side are joined by AND.
AndTail(s, nodes, p) ==
  IF Peek(s, p) \in {"end", "or", "rparen"} THEN Parsed(Join("and", nodes), p)
  ELSE Parse("and", s, nodes, IF Peek(s, p) = "and" THEN Step(p) ELSE p)

ParseAnd(s, nodes, p) ==
  LET operand == Rule("unary", s, p)
  IN  IF operand.ok THEN AndTail(s, Append(nodes, operand.node), operand.state) ELSE Failure

\* Mutant: OR takes a single operand on its right.
OrTailTight(s, nodes, p) ==
  LET operand == Rule("unary", s, Step(p))
  IN  IF Peek(s, p) # "or" THEN Parsed(Join("or", nodes), p)
      ELSE IF operand.ok THEN Parsed(Join("or", Append(nodes, operand.node)), operand.state) ELSE Failure

OrTail(s, nodes, p) ==
  IF Peek(s, p) # "or" THEN Parsed(Join("or", nodes), p) ELSE Parse("or", s, nodes, Step(p))

ParseOr(s, nodes, p) ==
  LET operand == Rule("and", s, p)
  IN  IF operand.ok THEN OrTail(s, Append(nodes, operand.node), operand.state) ELSE Failure

Parse(rule, s, nodes, p) ==
  CASE rule = "or" -> ParseOr(s, nodes, p)
    [] rule = "and" -> ParseAnd(s, nodes, p)
    [] rule = "unary" -> ParseUnary(s, p)

\* A fact of a copy is read outside of a quantifier.
RECURSIVE UsesFacetFields(_)
UsesFacetFields(node) ==
  CASE node.type = "term" -> Fields[node.field].scope = "facet"
    [] node.type = "not" -> UsesFacetFields(node.node)
    [] node.type \in {"and", "or"} -> \E k \in DOMAIN node.nodes : UsesFacetFields(node.nodes[k])
    [] node.type = "quantifier" -> FALSE

\* What is blank or cannot be read does not filter.
ParseMediaFilter(s) ==
  LET parsed == Rule("or", s, Start)
      ok == s # <<>> /\ parsed.ok /\ Peek(s, parsed.state) = "end"
  IN  [active |-> ok /\ parsed.state.terms > 0, error |-> s # <<>> /\ ~ok,
       root |-> IF ok THEN {parsed.node} ELSE {}]

-----------------------------------------------------------------------------
(* Evaluation.  "unknown" is an answer of its own, as in Kleene's logic.   *)

KleeneNot(v) == CASE v = "match" -> "no" [] v = "no" -> "match" [] v = "unknown" -> "unknown"
KleeneAnd(vs) == IF "no" \in vs THEN "no" ELSE IF "unknown" \in vs THEN "unknown" ELSE "match"
KleeneOr(vs) == IF "match" \in vs THEN "match" ELSE IF "unknown" \in vs THEN "unknown" ELSE "no"
Decided(holds) == IF holds THEN "match" ELSE "no"

Compares(operator, value, literal) ==
  CASE operator = "lt" -> value < literal
    [] operator = "lte" -> value <= literal
    [] operator = "gt" -> value > literal
    [] operator = "gte" -> value >= literal
    [] OTHER -> value = literal

\* A date is [start, end), an instant when the two are equal.
ComparesDate(operator, at, literal) ==
  CASE operator = "lt" -> at < literal.start
    [] operator = "lte" -> at < literal.end
    [] operator = "gt" -> at >= literal.end
    [] operator = "gte" -> at >= literal.start
    [] OTHER -> at = literal.start \/ (literal.start <= at /\ at < literal.end)

MatchesLiteral(literal, operator, value) ==
  \/ literal.kind = "text" /\ value.kind = "text" /\ value.value \in literal.names
  \/ literal.kind = "text" /\ value.kind = "set" /\ value.values \cap literal.names # {}
  \/ literal.kind = "bool" /\ value.kind = "bool" /\ value.value = literal.value
  \/ literal.kind = "number" /\ value.kind = "number" /\ Compares(operator, value.value, literal.value)
  \/ literal.kind = "range" /\ value.kind = "number" /\ value.value \in literal.from..literal.to
  \/ literal.kind = "date" /\ value.kind = "date" /\ ComparesDate(operator, value.value, literal)

EvaluateTerm(term, r, i) ==
  LET value == Read(term.field, r, i)
      absent == term.operator = "absent"
  IN  IF r.kind \notin Fields[term.field].entities THEN Decided(absent)
      ELSE IF value = Unknown THEN "unknown"
      ELSE IF absent \/ value = None THEN Decided(absent /\ value = None)
      ELSE Decided(\E literal \in term.literals : MatchesLiteral(literal, term.operator, value))

\* Mutant: an instance that stayed silent matters only when no other answered.
IncompleteWhenAlone(r) == IF r.silent # {} /\ DOMAIN r.copies = {} THEN {"unknown"} ELSE {}

\* Instances that stayed silent may hold a copy that decides otherwise.
Incomplete(r) == IF r.silent # {} THEN {"unknown"} ELSE {}

Fold(quantifier, verdicts) == IF quantifier = "all" THEN KleeneAnd(verdicts) ELSE KleeneOr(verdicts)

RECURSIVE EvaluateNode(_, _, _)
EvaluateNode(node, r, i) ==
  CASE node.type = "term" -> EvaluateTerm(node, r, i)
    [] node.type = "not" -> KleeneNot(EvaluateNode(node.node, r, i))
    [] node.type = "and" -> KleeneAnd({EvaluateNode(node.nodes[k], r, i) : k \in DOMAIN node.nodes})
    [] node.type = "or" -> KleeneOr({EvaluateNode(node.nodes[k], r, i) : k \in DOMAIN node.nodes})
    [] node.type = "quantifier" ->
         Fold(node.quantifier, {EvaluateNode(node.node, r, c) : c \in DOMAIN r.copies} \cup Incomplete(r))

\* Some copy satisfies the whole expression; an inactive filter keeps everything.
MatchMediaFilter(filter, r) ==
  LET root == CHOOSE node \in filter.root : TRUE
      verdict == [i \in DOMAIN r.copies |-> EvaluateNode(root, r, i)]
      incomplete == IF UsesFacetFields(root) THEN Incomplete(r) ELSE {}
  IN  IF ~filter.active THEN [verdict |-> "match", matched |-> DOMAIN r.copies]
      ELSE [verdict |-> KleeneOr(Range(verdict) \cup incomplete),
            matched |-> {i \in DOMAIN r.copies : verdict[i] = "match"}]

-----------------------------------------------------------------------------
(* The machine.                                                            *)

Init == source = <<>> /\ row = NoRow

Tokens == {<<w>> : w \in Words}
          \cup {<<Punctuation(type)>> : type \in {"and", "or", "not", "lparen", "rparen"}}
          \cup {<<Quantifier(q), Punctuation("lparen")>> : q \in {"any", "all"}}

Type(tokens) ==
  /\ row = NoRow /\ Len(source) + Len(tokens) <= MaxTokens
  /\ source' = source \o tokens /\ UNCHANGED row

Judge(r) ==
  /\ row = NoRow /\ Len(source) <= MaxJudged /\ ParseMediaFilter(source).active
  /\ row' = r /\ UNCHANGED source

\* A silent instance answers: it has no copy, or this one.
AnswerNothing(i) ==
  /\ row # NoRow /\ i \in row.silent
  /\ row' = [row EXCEPT !.silent = @ \ {i}] /\ UNCHANGED source
AnswerCopy(i, copy) ==
  /\ row # NoRow /\ i \in row.silent
  /\ row' = [row EXCEPT !.silent = @ \ {i}, !.copies = (i :> copy) @@ @] /\ UNCHANGED source

\* An instance reports what it had not of its copy.
Complete(known, copy) ==
  \A field \in DOMAIN known : known[field] = Unknown \/ known[field] = copy[field]
Report(i, copy) ==
  /\ row # NoRow /\ i \in DOMAIN row.copies
  /\ Complete(row.copies[i], copy) /\ copy # row.copies[i]
  /\ row' = [row EXCEPT !.copies[i] = copy] /\ UNCHANGED source

Next ==
  \/ \E tokens \in Tokens : Type(tokens)
  \/ \E r \in Rows : Judge(r)
  \/ \E i \in Instances : AnswerNothing(i)
  \/ \E i \in Instances, copy \in Copies : AnswerCopy(i, copy)
  \/ \E i \in Instances, copy \in Copies : Report(i, copy)

Spec == Init /\ [][Next]_vars

-----------------------------------------------------------------------------
(* The grammar, as the help card has it: OR of ANDs of negated or plain    *)
(* groups, quantifiers and words.  All readings of a source.               *)

RECURSIVE Ors(_, _), Ands(_, _), Units(_, _)
Part(s, i, j) == SubSeq(s, i, j)
Lists(first, rest) == {<<f>> \o l : f \in first, l \in rest}

\* The sequences of operands of s as an OR, and as an AND.
Ors(s, quantified) ==
  {<<Join("and", l)>> : l \in Ands(s, quantified)}
  \cup UNION {Lists({Join("and", l) : l \in Ands(Part(s, 1, k - 1), quantified)},
                    Ors(Part(s, k + 1, Len(s)), quantified)) : k \in {k \in DOMAIN s : s[k].type = "or"}}

Ands(s, quantified) ==
  {<<u>> : u \in Units(s, quantified)}
  \cup UNION {Lists(Units(Part(s, 1, k), quantified),
                    Ands(Part(s, IF s[k + 1].type = "and" THEN k + 2 ELSE k + 1, Len(s)), quantified))
               : k \in 1..(Len(s) - 1)}

Units(s, quantified) ==
  IF s = <<>> THEN {}
  ELSE IF Len(s) = 1 /\ IsWord(s[1]) THEN {b.node : b \in Build(s[1])}
  ELSE IF s[1].type = "not" THEN {Not(u) : u \in Units(Tail(s), quantified)}
  ELSE IF s[1].type = "lparen" /\ Last(s).type = "rparen"
       THEN {Join("or", l) : l \in Ors(Part(s, 2, Len(s) - 1), quantified)}
  ELSE IF s[1].type = "quantifier" /\ Last(s).type = "rparen" /\ Len(s) > 1 /\ ~quantified
       THEN {[type |-> "quantifier", quantifier |-> s[1].quantifier, node |-> Join("or", l)]
               : l \in Ors(Part(s, 3, Len(s) - 1), TRUE)}
  ELSE {}

Readings(s) == {Join("or", l) : l \in Ors(s, FALSE)}

Opened(s, k) ==
  Cardinality({j \in 1..k : s[j].type = "lparen"}) - Cardinality({j \in 1..k : s[j].type = "rparen"})
Allowance(s) ==
  /\ \A k \in DOMAIN s : s[k].type = "lparen" /\ (k > 1 => s[k - 1].type # "quantifier") => Opened(s, k) <= MaxDepth
  /\ MapThenSumSet(LAMBDA k : IF IsWord(s[k]) THEN Max({b.terms : b \in Build(s[k])} \cup {0}) ELSE 0, DOMAIN s) <= MaxTerms

\* A source is read in the one way the grammar has for it, and is an error when
\* there is none or when it is beyond the limits: negation before AND before OR,
\* also where AND is left out, quantifiers side by side but not in each other
\* (parseOr to parsePrimary, media-filter.ts:1154-1273).
ParserFollowsTheGrammar ==
  row = NoRow /\ source # <<>> =>
    ParseMediaFilter(source).root = (IF Allowance(source) THEN Readings(source) ELSE {})

\* The fields a filter asks a row for, in a quantifier or out of it.
RECURSIVE RowFields(_)
RowFields(node) ==
  CASE node.type = "term" -> {f \in {node.field} : Fields[f].scope = "row"}
    [] node.type \in {"not", "quantifier"} -> RowFields(node.node)
    [] node.type \in {"and", "or"} -> UNION {RowFields(node.nodes[k]) : k \in DOMAIN node.nodes}

\* What an answer does to them: a further copy counts, and a copy on an instance
\* before the others speaks for the row from then on.
RowSaysTheSame(root) == \A f \in RowFields(root) : Read(f, row, First(row)) = Read(f, row', First(row'))

\* One step of it.
VerdictStays ==
  row # NoRow =>
    LET filter == ParseMediaFilter(source)
        before == MatchMediaFilter(filter, row)
        after == MatchMediaFilter(filter, row')
    IN  (\A root \in filter.root : RowSaysTheSame(root)) =>
          /\ before.verdict # "unknown" => after.verdict = before.verdict
          /\ before.matched \subseteq after.matched

\* A verdict is not taken back by what the fleet answers afterwards, and no copy
\* that matched stops to: "no" is not said while an instance that stayed silent, or
\* a fact nobody reported, could make it a match (media-filter.ts:107-113,
\* 1492-1500).  That is so of the copies' fields; a verdict on a field of the row
\* stands as long as the row says the same, which an answer may change: `instances`
\* counts the copies at hand although others may come (364-370), and the title,
\* the year and the like are those of the first copy (media-fleet.service.ts:
\* 535-545).
VerdictsStand == [][VerdictStays]_vars

=============================================================================
