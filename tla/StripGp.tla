------------------------------ MODULE StripGp ------------------------------
(***************************************************************************)
(* strip_gp_clauses: the clauses that only Greenplum knows are removed     *)
(* from a DDL script, line by line.  The rules look at one line, at the    *)
(* line before it in the output, or ahead to a closing parenthesis; none   *)
(* knows where a statement begins or ends.                                 *)
(*                                                                         *)
(* A line is its tokens and whether it is indented.  A token is what the   *)
(* patterns tell apart, any other text being "code":                       *)
(*   "with_ao", "with_q", "with_qq"  WITH (appendonly=...) whose value is  *)
(*                      bare, in a quote or in doubled quotes              *)
(*   "with_opts"        WITH (...) with another option first               *)
(*   "with(", "ao", "opt", "wend"    the same clause over several lines    *)
(*   "dist"             DISTRIBUTED BY (...); unindented, REPLICATED too   *)
(*   "rand"             DISTRIBUTED RANDOMLY; indented, REPLICATED too     *)
(*   "dist(", "dend"    DISTRIBUTED BY (...) over two lines                *)
(*   "name"             schema.table                                       *)
(*   "paren", "semi"    a closing parenthesis; a semicolon                 *)
(*   "quote", "note"    a quote; what follows "note" is a comment          *)
(* In the output a clause taken out of a line leaves a "blank" behind.     *)
(***************************************************************************)
EXTENDS Integers, SequencesExt

CONSTANT Scripts   \* the scripts to convert

VARIABLES
  content,  \* the script
  i,        \* index of the line that is next
  output,   \* the lines kept so far
  from      \* history: the line of the script each of them was

vars == <<content, i, output, from>>

Withs == {"with_ao", "with_q", "with_qq"}

Clauses == Withs \cup {"with(", "ao", "opt", "wend", "dist", "rand", "dist(", "dend"}

Tokens == Clauses \cup {"with_opts", "name", "quote", "note", "code", "paren", "semi"}

Lines == [indent : BOOLEAN, toks : Seq(Tokens)]

Kept == [indent : BOOLEAN, toks : Seq(Tokens \cup {"blank"})]

ASSUME ScriptAssumption == Scripts \subseteq Seq(Lines)

-----------------------------------------------------------------------------
Starts(l, kinds) == l.toks # <<>> /\ l.toks[1] \in kinds

(* endswith(';') after rstrip.                                             *)
Ends(l) ==
  \E p \in DOMAIN l.toks :
    l.toks[p] = "semi" /\ \A q \in p + 1 .. Len(l.toks) : l.toks[q] = "blank"

(* rstrip() == ')'; a line that begins with a blank is indented, unless it *)
(* is what followed the parenthesis of a block.                            *)
IsLone(l) ==
  /\ ~l.indent
  /\ \E p \in DOMAIN l.toks :
       l.toks[p] = "paren" /\ \A q \in DOMAIN l.toks \ {p} : l.toks[q] = "blank"

HasQuote(l) == \E p \in DOMAIN l.toks : l.toks[p] \in {"quote", "with_q", "with_qq"}

(* re.sub puts a blank in the place of a clause.                           *)
Without(l, kinds) ==
  [l EXCEPT !.toks = [p \in DOMAIN @ |-> IF @[p] \in kinds THEN "blank" ELSE @[p]]]

EndWithSemicolon(l) == [l EXCEPT !.toks = Append(@, "semi")]

(* Mutant: a removed line takes its semicolon with it.                     *)
TerminatedNever(out, l) == out

(* Rules 1 and 2: the semicolon of a removed line goes to the line above   *)
(* if that is a lone parenthesis.                                          *)
Terminated(out, l) ==
  IF out # <<>> /\ Ends(l) /\ IsLone(out[Len(out)])
  THEN [out EXCEPT ![Len(out)] = EndWithSemicolon(@)] ELSE out

(* Rule 4: it goes to the line above, whatever that is.                    *)
TerminatedInBody(out, l) ==
  IF out # <<>> /\ Ends(l) /\ ~Ends(out[Len(out)])
  THEN [out EXCEPT ![Len(out)] = EndWithSemicolon(@)] ELSE out

-----------------------------------------------------------------------------
(* The rules, in the order they are tried.                                 *)

IsDistributed(l) == ~l.indent /\ l.toks \in {<<"dist">>, <<"dist", "semi">>}

IsWith(l) == ~l.indent /\ Starts(l, Withs)

IsName(l) == l.toks = <<"name">>

(* Rule 2b looks at the next line too.                                     *)
IsBlock(text, k) ==
  /\ text[k].indent /\ text[k].toks = <<"with(">>
  /\ k < Len(text)
  /\ \E p \in DOMAIN text[k + 1].toks : text[k + 1].toks[p] \in Withs \cup {"ao"}

IsBody(l) == l.indent /\ Starts(l, {"dist", "dist("})

Closes(l) == Starts(l, {"wend", "paren"})

(* The line that closes a block: the first that starts with a parenthesis. *)
Closing(text, k) ==
  LET closers == {j \in k + 1 .. Len(text) : Closes(text[j])}
  IN IF closers = {} THEN 0 ELSE CHOOSE j \in closers : \A m \in closers : j <= m

OpensWith(l) == Starts(l, Withs \cup {"with(", "with_opts"})

(* Rules 5 and 6: clauses inside a line.  A quoted one stays on a line     *)
(* that begins with a WITH.                                                *)
Inline(l) ==
  Without(l, IF OpensWith(l) THEN {"with_qq"}
             ELSE {"with_q", "with_qq"})

Init == content \in Scripts /\ i = 1 /\ output = <<>> /\ from = <<>>

line == content[i]

Go(j) == i <= Len(content) /\ i' = j /\ UNCHANGED content

Leave(k, l) == output' = Append(output, l) /\ from' = Append(from, k)

TopLevel == IsDistributed(line) \/ IsWith(line)

RemoveClause ==
  /\ Go(i + 1) /\ TopLevel
  /\ output' = Terminated(output, line) /\ UNCHANGED from

RemoveName ==
  /\ Go(i + 1) /\ ~TopLevel /\ IsName(line)
  /\ UNCHANGED <<output, from>>

(* Mutant: the closing line goes with the block.                           *)
RemoveWholeBlock ==
  /\ i <= Len(content) /\ IsBlock(content, i)
  /\ LET j == Closing(content, i) IN
       IF j = 0 THEN Go(i + 1) /\ Leave(i, line)
       ELSE Go(j + 1) /\ UNCHANGED <<output, from>>

(* What follows the closing parenthesis stays.                             *)
RemoveBlock ==
  /\ i <= Len(content) /\ IsBlock(content, i)
  /\ LET j == Closing(content, i) IN
       IF j = 0 THEN Go(i + 1) /\ Leave(i, line)
       ELSE /\ Go(j + 1)
            /\ IF Len(content[j].toks) = 1 THEN UNCHANGED <<output, from>>
               ELSE Leave(j, [content[j] EXCEPT !.toks[1] = "blank"])

(* Mutant: a line of dynamic SQL is kept once more as it was.              *)
RemoveInBodyTwice ==
  /\ Go(i + 1) /\ IsBody(line)
  /\ IF HasQuote(line)
     THEN /\ output' = output \o <<Without(line, {"dist"}), Without(line, {"dist"})>>
          /\ from' = from \o <<i, i>>
     ELSE output' = TerminatedInBody(output, line) /\ UNCHANGED from

(* With a quote, in dynamic SQL, the clause alone goes.                    *)
RemoveInBody ==
  /\ Go(i + 1) /\ IsBody(line)
  /\ IF HasQuote(line) THEN Leave(i, Inline(Without(line, {"dist"})))
     ELSE output' = TerminatedInBody(output, line) /\ UNCHANGED from

(* Mutant: clauses inside a line are not looked for.                       *)
KeepAsIs ==
  /\ Go(i + 1) /\ ~TopLevel /\ ~IsName(line) /\ ~IsBlock(content, i) /\ ~IsBody(line)
  /\ Leave(i, line)

Keep ==
  /\ Go(i + 1) /\ ~TopLevel /\ ~IsName(line) /\ ~IsBlock(content, i) /\ ~IsBody(line)
  /\ Leave(i, Inline(line))

Next == RemoveClause \/ RemoveName \/ RemoveBlock \/ RemoveInBody \/ Keep

Spec == Init /\ [][Next]_vars

-----------------------------------------------------------------------------
(* What becomes of line k of a text, told from the text alone.             *)

(* Between the line that opens a block and the one that closes it.         *)
InBlock(text, k) == \E b \in 1 .. k - 1 : IsBlock(text, b) /\ Closing(text, b) >= k

IsClause(l) == IsDistributed(l) \/ IsWith(l) \/ (IsBody(l) /\ ~HasQuote(l))

Removed(text, k) == IsClause(text[k]) /\ ~InBlock(text, k)

Stays(text, k) ==
  /\ ~IsClause(text[k]) /\ ~IsName(text[k])
  /\ IF InBlock(text, k) THEN Closes(text[k]) /\ Len(text[k].toks) > 1
     ELSE ~(IsBlock(text, k) /\ Closing(text, k) # 0)

Remains(text, k) ==
  IF InBlock(text, k) THEN [text[k] EXCEPT !.toks[1] = "blank"]
  ELSE Inline(IF IsBody(text[k]) THEN Without(text[k], {"dist"}) ELSE text[k])

(* Line j is the one that the semicolon of a removed line k goes to.       *)
Home(text, k, j) ==
  /\ Stays(text, j)
  /\ \A m \in j + 1 .. k - 1 : ~Stays(text, m) /\ ~(Removed(text, m) /\ Ends(text[m]))
  /\ IF IsBody(text[k])
     THEN ~Ends(Remains(text, j)) /\ \A p \in DOMAIN text[j].toks : text[j].toks[p] # "note"
     ELSE IsLone(Remains(text, j))

-----------------------------------------------------------------------------
(* What the rules get wrong, by what goes wrong.                           *)

(* What the server reads of a line: what is in no comment.                 *)
Live(l) == {p \in DOMAIN l.toks : \A q \in 1 .. p : l.toks[q] # "note"}

(* The semicolon of a removed line finds no home, or was a comment's.      *)
Unterminated(text) ==
  \E k \in DOMAIN text :
    /\ Removed(text, k) /\ Ends(text[k])
    /\ \/ \E p \in DOMAIN text[k].toks : text[k].toks[p] = "note"
       \/ ~\E j \in 1 .. k - 1 : Home(text, k, j)

(* Text beside a removed clause, or between the lines of one, goes too.    *)
Swallows(text) ==
  \E k \in DOMAIN text : \E p \in Live(text[k]) :
    /\ text[k].toks[p] \notin Clauses
    /\ \/ InBlock(text, k) /\ (p = 1 \/ ~Closes(text[k]))
       \/ Removed(text, k) /\ (text[k].toks[p] # "semi" \/ p # Len(text[k].toks))

(* A clause that no rule recognises: DISTRIBUTED RANDOMLY, the second line *)
(* of a DISTRIBUTED BY cut in two, a DISTRIBUTED BY that is not at the     *)
(* beginning of its line or, unindented, not alone on it; a WITH of a bare *)
(* value inside a line or indented, or of a quoted one on a line that      *)
(* begins with a WITH; one over several lines whose second line does not   *)
(* say appendonly, or that is never closed; and what follows the closing   *)
(* parenthesis of one that was removed.                                    *)
Overlooked(text, k, p) ==
  LET l == text[k] t == l.toks[p] IN
  \/ t \in {"rand", "dend"}
  \/ t \in {"dist", "dist("} /\ (~IsBody(l) \/ (t = "dist(" /\ HasQuote(l)))
  \/ t = "with_ao" /\ (l.indent \/ p # 1)
  \/ t = "with_q" /\ OpensWith(l)
  \/ /\ t \in {"with(", "ao", "opt", "wend"}
     /\ ~InBlock(text, k) /\ ~(IsBlock(text, k) /\ Closing(text, k) # 0)
  \/ InBlock(text, k) /\ p # 1

-----------------------------------------------------------------------------
Done == i > Len(content)

SemicolonsOf(l) == {p \in Live(l) : l.toks[p] = "semi"}

Semicolons(text) == UNION {{k} \X SemicolonsOf(text[k]) : k \in DOMAIN text}

(* The text with its places, but for clauses, bare names and semicolons.   *)
IsCode(l, p) == ~IsName(l) /\ p \in Live(l) /\ l.toks[p] \notin Clauses \cup {"semi", "blank"}

Code(text) ==
  UNION {{<<k, p, text[k].toks[p]>> : p \in {q \in DOMAIN text[k].toks : IsCode(text[k], q)}}
         : k \in DOMAIN text}

(* Lines come from lines: the output has the type of a script, and no line *)
(* is passed twice.                                                        *)
TypeOK ==
  /\ i \in 1 .. Len(content) + 1
  /\ output \in Seq(Kept) /\ from \in Seq(1 .. i - 1)
  /\ Len(output) = Len(from) /\ Len(output) < i

(* The statements of the result are those of the script, none run into the *)
(* next and none cut: as many semicolons are read, but in the cases named. *)
StatementsStayApart ==
  Done /\ ~Unterminated(content) /\ ~Swallows(content) =>
    Cardinality(Semicolons(output)) = Cardinality(Semicolons(content))

(* Everything but clauses, bare names and semicolons is read as before, in *)
(* the same order, wherever the removed clauses stood.                     *)
CodeKept ==
  Done /\ ~Swallows(content) =>
    /\ \A j, k \in DOMAIN from : j < k => from[j] < from[k]
    /\ Code(content) = {<<from[c[1]], c[2], c[3]>> : c \in Code(output)}

(* No clause of Greenplum is left but those the rules do not see.          *)
ClausesGone ==
  Done => \A k \in DOMAIN output : \A p \in Live(output[k]) :
    output[k].toks[p] \in Clauses => Overlooked(content, from[k], p)
=============================================================================
