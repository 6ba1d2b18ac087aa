----------------------------- MODULE MCStripGp -----------------------------
(* Scripts as the extraction writes them, tables then functions, and any.  *)
EXTENDS StripGp

Top(toks) == [indent |-> FALSE, toks |-> toks]
Body(toks) == [indent |-> TRUE, toks |-> toks]

Optional(t) == IF t = "none" THEN <<>> ELSE <<Top(<<t>>)>>

(* The semicolon follows the last line of a table.                         *)
Closed(lines) == Append(Front(lines), [Last(lines) EXCEPT !.toks = Append(@, "semi")])

Tables ==
  {Closed(<<Top(<<"code">>), Body(<<"code">>), Top(<<"paren">>)>> \o Optional(w) \o Optional(d)) :
     w \in {"none", "with_ao", "with_opts"}, d \in {"none", "dist", "rand"}}

(* A temporary table in a function: CREATE, its WITH, its query, its       *)
(* DISTRIBUTED BY; or the same in dynamic SQL.                             *)
Creates ==
  {<<Body(<<"code">>)>>,
   <<Body(<<"code", "with_q", "code">>)>>, <<Body(<<"code", "with_qq", "code">>)>>,
   <<Body(<<"code">>), Body(<<"with_q", "with_qq", "code">>)>>,
   <<Body(<<"code">>), Body(<<"with_ao">>)>>, <<Top(<<"code">>), Top(<<"with_ao", "code">>)>>,
   <<Body(<<"code">>), Body(<<"with(">>), Body(<<"opt">>), Body(<<"ao">>), Body(<<"wend">>)>>,
   <<Body(<<"code">>), Body(<<"with(">>), Body(<<"ao">>)>>,
   <<Body(<<"code">>), Body(<<"with(">>), Body(<<"ao">>), Body(<<"wend", "code">>)>>,
   <<Body(<<"code">>), Body(<<"with(">>), Body(<<"ao">>), Body(<<"opt">>), Body(<<"wend">>)>>}

Selects == {<<Body(<<"code">>)>>, <<Body(<<"code", "note", "code">>)>>,
            <<Body(<<"code">>), Body(<<"name">>)>>, <<Body(<<"code">>), Body(<<>>)>>}

Endings == {<<Body(<<"code", "semi">>)>>, <<Body(<<"dist", "semi">>)>>,
          <<Body(<<"dist", "semi", "code", "semi">>)>>, <<Body(<<"code", "dist", "semi">>)>>,
          <<Top(<<"dist", "semi">>)>>, <<Body(<<"dist", "note", "semi">>)>>,
          <<Body(<<"dist", "quote", "semi">>)>>, <<Body(<<"dist(">>), Body(<<"dend", "semi">>)>>}

FunctionTexts ==
  {<<Top(<<"code">>)>> \o c \o s \o e \o <<Top(<<"code", "semi">>)>> :
     c \in Creates, s \in Selects, e \in Endings}

(* Every four lines of a few forms: what no extraction writes, too.        *)
Forms ==
  {Top(<<"code">>), Top(<<"paren">>), Top(<<"paren", "semi">>), Top(<<"dist", "semi">>),
   Top(<<"with_ao", "semi">>), Body(<<"with(">>), Body(<<"ao">>), Body(<<"wend", "code">>),
   Body(<<"dist", "semi">>), Body(<<"dist", "quote", "semi">>), Body(<<"code", "note">>)}

AnyScripts == [1 .. 4 -> Forms]

SmallScripts ==
  AnyScripts \cup Tables \cup FunctionTexts
    \cup {t \o u : t \in Tables, u \in Tables} \cup {t \o f : t \in Tables, f \in FunctionTexts}
=============================================================================
