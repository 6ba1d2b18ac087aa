--------------------------- MODULE StripGpProofs ---------------------------
(* Theorems about StripGp, for any scripts: any sequences of any lines.    *)
EXTENDS StripGp, TLAPS, FiniteSetTheorems, WellFoundedInduction

(* The next line is not in the middle of a block that was removed.         *)
Ahead == \A b \in 1 .. i - 1 : IsBlock(content, b) => Closing(content, b) < i

Ended(text, k) == Removed(text, k) /\ Ends(text[k])

(* The output is what remains of the lines that stay, in their order, each *)
(* with at most one semicolon more.                                        *)
Traced ==
  /\ \A k \in DOMAIN from : Stays(content, from[k])
  /\ \A j, k \in DOMAIN from : j < k => from[j] < from[k]
  /\ \A m \in 1 .. i - 1 : Stays(content, m) => \E k \in DOMAIN from : from[k] = m
  /\ \A k \in DOMAIN output :
       LET r == Remains(content, from[k]) IN output[k] \in {r, EndWithSemicolon(r)}

(* The last line has no semicolon of another one as long as none ended.    *)
LastAsIs ==
  LET n == Len(output) IN
  n # 0 /\ (\A m \in from[n] + 1 .. i - 1 : ~Ended(content, m)) =>
    output[n] = Remains(content, from[n])

(* The semicolons of the lines before n.                                   *)
Before(n) == {c \in Semicolons(content) : c[1] < n}

(* StatementsStayApart holds of the lines so far.                          *)
Counted ==
  ~Unterminated(content) /\ ~Swallows(content) =>
    Cardinality(Semicolons(output)) = Cardinality(Before(i))

Typed == content \in Seq(Lines) /\ TypeOK

(* A step goes past lines up to j, and keeps the last of them, or none; or *)
(* it takes away a line that ends a statement.                             *)
Passed(j) ==
  /\ j \in i .. Len(content) /\ i' = j + 1 /\ UNCHANGED content
  /\ \A m \in i .. j - 1 : ~Stays(content, m)
  /\ \A m \in i .. j : ~Ended(content, m)

KeepStep(j) == Passed(j) /\ Stays(content, j) /\ Leave(j, Remains(content, j))

DropStep(j) == Passed(j) /\ ~Stays(content, j) /\ UNCHANGED <<output, from>>

Moves ==
  /\ output # <<>>
  /\ IF IsBody(line) THEN ~Ends(output[Len(output)]) ELSE IsLone(output[Len(output)])

EndStep ==
  /\ i <= Len(content) /\ i' = i + 1 /\ UNCHANGED <<content, from>>
  /\ Ended(content, i) /\ ~Stays(content, i)
  /\ output' = IF Moves THEN [output EXCEPT ![Len(output)] = EndWithSemicolon(@)]
               ELSE output

IInv == Typed /\ Ahead /\ Traced /\ LastAsIs /\ Counted
-----------------------------------------------------------------------------
LEMMA LeastNatural ==
  ASSUME NEW T \in SUBSET Nat, T # {}
  PROVE  \E x \in T : \A y \in T : x <= y
<1> DEFINE R == OpToRel(<, Nat)
<1>1. \A x, y \in Nat : y < x => <<y, x>> \in R
  BY DEF OpToRel
<1>2. IsWellFoundedOn(R, Nat)
  BY NatLessThanWellFounded
<1> HIDE DEF R
<1>3. PICK x \in T : \A y \in T : <<y, x>> \notin R
  BY <1>2, WFMin
<1>4. ASSUME NEW y \in T  PROVE x <= y
  <2>1. ~(y < x)
    BY <1>1, <1>3, Zenon
  <2> QED BY <2>1
<1> QED BY <1>4

(* The lines of a text and their tokens.                                   *)
LEMMA LineFacts ==
  ASSUME NEW text \in Seq(Lines), NEW k \in DOMAIN text
  PROVE  /\ k \in 1 .. Len(text) /\ Len(text) \in Nat
         /\ text[k] \in Lines /\ text[k].indent \in BOOLEAN
         /\ text[k].toks \in Seq(Tokens) /\ Len(text[k].toks) \in Nat
         /\ DOMAIN text[k].toks = 1 .. Len(text[k].toks)
         /\ \A p \in DOMAIN text[k].toks : text[k].toks[p] \in Tokens
<1>1. text[k] \in Lines /\ k \in 1 .. Len(text) /\ Len(text) \in Nat
  OBVIOUS
<1>2. text[k].indent \in BOOLEAN /\ text[k].toks \in Seq(Tokens)
  BY <1>1 DEF Lines
<1> QED BY <1>1, <1>2

(* A block is closed by the first line that can.                           *)
LEMMA ClosingFacts ==
  ASSUME NEW text \in Seq(Lines), NEW k \in 1 .. Len(text)
  PROVE  /\ Closing(text, k) \in Nat
         /\ Closing(text, k) # 0 =>
              /\ Closing(text, k) \in k + 1 .. Len(text)
              /\ Closes(text[Closing(text, k)])
              /\ \A m \in k + 1 .. Closing(text, k) - 1 : ~Closes(text[m])
<1> DEFINE closers == {j \in k + 1 .. Len(text) : Closes(text[j])}
           Least(j) == \A m \in closers : j <= m
<1>1. Closing(text, k) = IF closers = {} THEN 0 ELSE CHOOSE j \in closers : Least(j)
  BY DEF Closing
<1>2. CASE closers = {}
  BY <1>1, <1>2
<1>3. CASE closers # {}
  <2>1. closers \in SUBSET Nat
    OBVIOUS
  <2>2. \E j \in closers : Least(j)
    BY <1>3, <2>1, LeastNatural
  <2>3. Closing(text, k) \in closers /\ Least(Closing(text, k))
    BY <1>1, <1>3, <2>2
  <2> QED BY <2>3
<1> QED BY <1>2, <1>3

(* The lines of a block open no other.                                     *)
LEMMA BlockFacts ==
  ASSUME NEW text \in Seq(Lines), NEW b \in 1 .. Len(text), IsBlock(text, b),
         Closing(text, b) # 0
  PROVE  \A m \in b + 1 .. Closing(text, b) :
           /\ InBlock(text, m)
           /\ IsBlock(text, m) => Closing(text, m) = Closing(text, b)
<1> SUFFICES ASSUME NEW m \in b + 1 .. Closing(text, b)
             PROVE  /\ InBlock(text, m)
                    /\ IsBlock(text, m) => Closing(text, m) = Closing(text, b)
  OBVIOUS
<1> DEFINE c == Closing(text, b)
<1>1. /\ c \in b + 1 .. Len(text) /\ Closes(text[c])
      /\ \A j \in b + 1 .. c - 1 : ~Closes(text[j])
  BY ClosingFacts
<1>2. InBlock(text, m)
  BY <1>1 DEF InBlock
<1>3. ASSUME IsBlock(text, m)  PROVE Closing(text, m) = c
  <2>1. ~Closes(text[m])
    BY <1>3 DEF IsBlock, Closes, Starts
  <2>2. m < c
    BY <1>1, <2>1
  <2> DEFINE closers == {j \in m + 1 .. Len(text) : Closes(text[j])}
  <2>3. c \in closers /\ \A j \in closers : c <= j
    BY <1>1, <2>2
  <2>4. \A x \in closers : (\A j \in closers : x <= j) => x = c
    BY <1>1, <2>3
  <2>5. Closing(text, m) = CHOOSE j \in closers : \A q \in closers : j <= q
    BY <2>3 DEF Closing
  <2> QED BY <2>3, <2>4, <2>5
<1> QED BY <1>2, <1>3

(* A line with other tokens.                                               *)
LEMMA Retoked ==
  ASSUME NEW l \in Kept, NEW s \in Seq(Tokens \cup {"blank"})
  PROVE  LET r == [l EXCEPT !.toks = s] IN
         r \in Kept /\ r.toks = s /\ r.indent = l.indent
BY DEF Kept

(* What stays of a line is the line, but for clauses and the parenthesis   *)
(* that closed a block.                                                    *)
LEMMA BlankedFacts ==
  ASSUME NEW l \in Kept, NEW kinds
  PROVE  /\ Without(l, kinds) \in Kept
         /\ Without(l, kinds).indent = l.indent
         /\ Len(Without(l, kinds).toks) = Len(l.toks)
         /\ \A p \in 1 .. Len(l.toks) :
              Without(l, kinds).toks[p] = IF l.toks[p] \in kinds THEN "blank" ELSE l.toks[p]
<1> DEFINE toks == [p \in DOMAIN l.toks |-> IF l.toks[p] \in kinds THEN "blank" ELSE l.toks[p]]
<1>1. l.toks \in Seq(Tokens \cup {"blank"}) /\ l.indent \in BOOLEAN
  BY DEF Kept
<1>2. toks \in Seq(Tokens \cup {"blank"}) /\ Len(toks) = Len(l.toks)
  BY <1>1
<1>3. Without(l, kinds) = [l EXCEPT !.toks = toks]
  BY DEF Without
<1>4. Without(l, kinds) \in Kept /\ Without(l, kinds).toks = toks
      /\ Without(l, kinds).indent = l.indent
  <2> HIDE DEF toks
  <2> QED BY <1>2, <1>3, Retoked
<1> QED BY <1>1, <1>2, <1>4

LEMMA SeqGrows ==
  ASSUME NEW S, NEW T, S \subseteq T  PROVE Seq(S) \subseteq Seq(T)
OBVIOUS

LEMMA OneReplaced ==
  ASSUME NEW S, NEW q \in Seq(S), NEW x \in S  PROVE [q EXCEPT ![1] = x] \in Seq(S)
<1>1. Len(q) \in Nat /\ q \in [1 .. Len(q) -> S]
  OBVIOUS
<1>2. [q EXCEPT ![1] = x] \in [1 .. Len(q) -> S]
  BY <1>1, Zenon
<1>3. \A n \in Nat : \A f \in [1 .. n -> S] : f \in Seq(S)
  OBVIOUS
<1> QED BY <1>1, <1>2, <1>3, Zenon

LEMMA LinesKept == Lines \subseteq Kept
<1>1. Seq(Tokens) \subseteq Seq(Tokens \cup {"blank"})
  BY SeqGrows
<1> QED BY <1>1 DEF Lines, Kept

LEMMA InlineFacts ==
  ASSUME NEW l \in Kept
  PROVE  /\ Inline(l) \in Kept /\ Inline(l).indent = l.indent
         /\ Len(Inline(l).toks) = Len(l.toks)
         /\ \A p \in 1 .. Len(l.toks) :
              /\ \/ Inline(l).toks[p] = l.toks[p]
                 \/ Inline(l).toks[p] = "blank" /\ l.toks[p] \in {"with_q", "with_qq"}
              /\ Inline(l).toks[p] # "with_qq"
              /\ Inline(l).toks[p] = "with_q" => OpensWith(l)
<1>1. CASE OpensWith(l)
  <2>1. Inline(l) = Without(l, {"with_qq"})
    BY <1>1 DEF Inline
  <2> QED BY <1>1, <2>1, BlankedFacts
<1>2. CASE ~OpensWith(l)
  <2>1. Inline(l) = Without(l, {"with_q", "with_qq"})
    BY <1>2 DEF Inline
  <2> QED BY <1>2, <2>1, BlankedFacts
<1> QED BY <1>1, <1>2

LEMMA RemainsFacts ==
  ASSUME NEW text \in Seq(Lines), NEW k \in DOMAIN text, Stays(text, k)
  PROVE  LET l == text[k] r == Remains(text, k) IN
         /\ r \in Kept /\ DOMAIN r.toks = DOMAIN l.toks /\ Len(r.toks) = Len(l.toks)
         /\ \A p \in DOMAIN l.toks :
              \/ r.toks[p] = l.toks[p]
              \/ r.toks[p] = "blank" /\ l.toks[p] \in Clauses
              \/ r.toks[p] = "blank" /\ p = 1 /\ InBlock(text, k) /\ l.toks[p] \in {"wend", "paren"}
         /\ \A p \in DOMAIN l.toks : r.toks[p] \in Clauses => Overlooked(text, k, p)
<1> DEFINE l == text[k]
           r == Remains(text, k)
<1>1. /\ l \in Kept /\ DOMAIN l.toks = 1 .. Len(l.toks) /\ Len(l.toks) \in Nat
      /\ l.toks \in Seq(Tokens) /\ l.indent \in BOOLEAN
  BY LineFacts, LinesKept
<1>2. "blank" \notin Clauses
  BY DEF Clauses, Withs
<1>3. CASE InBlock(text, k)
  <2>1. Closes(l) /\ Len(l.toks) > 1
    BY <1>3 DEF Stays
  <2>2. r = [l EXCEPT !.toks[1] = "blank"]
    BY <1>3 DEF Remains
  <2>3. r.toks = [l.toks EXCEPT ![1] = "blank"] /\ r \in Kept
    <3> DEFINE s == [l.toks EXCEPT ![1] = "blank"]
    <3>1. r = [l EXCEPT !.toks = s]
      BY <2>2
    <3> HIDE DEF l, r
    <3>2. s \in Seq(Tokens \cup {"blank"})
      <4>1. l.toks \in Seq(Tokens \cup {"blank"})
        BY <1>1, SeqGrows, Zenon DEF Kept
      <4>2. "blank" \in Tokens \cup {"blank"}
        OBVIOUS
      <4> HIDE DEF s
      <4> QED BY <4>1, <4>2, OneReplaced, Zenon DEF s
    <3> HIDE DEF s
    <3> QED BY <1>1, <3>1, <3>2, Retoked DEF s
  <2>4. /\ DOMAIN r.toks = DOMAIN l.toks /\ Len(r.toks) = Len(l.toks)
        /\ r.toks[1] = "blank" /\ \A p \in DOMAIN l.toks \ {1} : r.toks[p] = l.toks[p]
    BY <1>1, <2>1, <2>3
  <2>5. l.toks[1] \in {"wend", "paren"}
    BY <2>1 DEF Closes, Starts
  <2>6. \A p \in DOMAIN l.toks : r.toks[p] \in Clauses => Overlooked(text, k, p)
    BY <1>3, <1>2, <2>4 DEF Overlooked
  <2> QED BY <1>3, <2>3, <2>4, <2>5, <2>6
<1>4. CASE ~InBlock(text, k) /\ IsBody(l)
  <2> DEFINE w == Without(l, {"dist"})
  <2>1. r = Inline(w)
    BY <1>4 DEF Remains
  <2>2. /\ w \in Kept /\ Len(w.toks) = Len(l.toks)
        /\ \A p \in 1 .. Len(l.toks) :
             w.toks[p] = IF l.toks[p] = "dist" THEN "blank" ELSE l.toks[p]
    BY <1>1, BlankedFacts
  <2>3. l.indent /\ l.toks # <<>> /\ l.toks[1] \in {"dist", "dist("} /\ HasQuote(l)
    BY <1>4 DEF IsBody, Starts, Stays, IsClause
  <2>4. ~OpensWith(w)
    <3>1. 1 \in 1 .. Len(l.toks)
      BY <1>1, <2>3
    <3> QED BY <2>2, <2>3, <3>1 DEF OpensWith, Starts, Withs
  <2> HIDE DEF w
  <2>5. /\ r \in Kept /\ Len(r.toks) = Len(l.toks)
        /\ \A p \in 1 .. Len(l.toks) :
             /\ r.toks[p] = w.toks[p] \/ (r.toks[p] = "blank" /\ w.toks[p] \in {"with_q", "with_qq"})
             /\ r.toks[p] \notin {"with_q", "with_qq"}
    BY <2>1, <2>2, <2>4, InlineFacts
  <2>6. DOMAIN r.toks = DOMAIN l.toks
    BY <1>1, <2>5 DEF Kept
  <2>7. ASSUME NEW p \in DOMAIN l.toks
        PROVE  r.toks[p] = l.toks[p] \/ (r.toks[p] = "blank" /\ l.toks[p] \in Clauses)
    BY <1>1, <2>2, <2>5 DEF Clauses, Withs
  <2>8. ASSUME NEW p \in DOMAIN l.toks, r.toks[p] \in Clauses  PROVE Overlooked(text, k, p)
    <3>1. l.toks[p] = r.toks[p] /\ l.toks[p] \notin {"dist", "with_q", "with_qq"}
      BY <1>1, <1>2, <2>2, <2>5, <2>7, <2>8
    <3>2. l.toks[p] \in {"rand", "dend", "dist(", "with_ao", "with(", "ao", "opt", "wend"}
      BY <2>8, <3>1 DEF Clauses, Withs
    <3>3. ~IsBlock(text, k)
      BY <2>3 DEF IsBlock
    <3> QED BY <1>4, <2>3, <3>2, <3>3 DEF Overlooked
  <2> QED BY <2>5, <2>6, <2>7, <2>8
<1>5. CASE ~InBlock(text, k) /\ ~IsBody(l)
  <2>1. r = Inline(l)
    BY <1>5 DEF Remains
  <2>2. /\ r \in Kept /\ Len(r.toks) = Len(l.toks)
        /\ \A p \in 1 .. Len(l.toks) :
             /\ r.toks[p] = l.toks[p] \/ (r.toks[p] = "blank" /\ l.toks[p] \in {"with_q", "with_qq"})
             /\ r.toks[p] # "with_qq"
             /\ r.toks[p] = "with_q" => OpensWith(l)
    BY <1>1, <2>1, InlineFacts
  <2>3. DOMAIN r.toks = DOMAIN l.toks
    BY <1>1, <2>2 DEF Kept
  <2>4. ASSUME NEW p \in DOMAIN l.toks
        PROVE  r.toks[p] = l.toks[p] \/ (r.toks[p] = "blank" /\ l.toks[p] \in Clauses)
    BY <1>1, <2>2 DEF Clauses, Withs
  <2>5. ASSUME NEW p \in DOMAIN l.toks, r.toks[p] \in Clauses  PROVE Overlooked(text, k, p)
    <3>1. /\ l.toks[p] = r.toks[p] /\ l.toks[p] # "with_qq"
          /\ l.toks[p] = "with_q" => OpensWith(l)
      BY <1>1, <1>2, <2>2, <2>4, <2>5
    <3>2. l.toks[p] \in {"rand", "dend", "dist", "dist(", "with_ao", "with_q",
                         "with(", "ao", "opt", "wend"}
      BY <2>5, <3>1 DEF Clauses, Withs
    <3>3. ~(IsBlock(text, k) /\ Closing(text, k) # 0) /\ ~IsWith(l)
      BY <1>5 DEF Stays, IsClause
    <3>4. l.toks[p] = "with_ao" => l.indent \/ p # 1
      BY <1>1, <3>3 DEF IsWith, Starts, Withs
    <3> QED BY <1>5, <3>1, <3>2, <3>3, <3>4 DEF Overlooked
  <2> QED BY <2>2, <2>3, <2>4, <2>5
<1> QED BY <1>3, <1>4, <1>5

(* The kinds of lines exclude each other.                                  *)
LEMMA KindsOfLines ==
  ASSUME NEW l \in Lines
  PROVE  /\ IsDistributed(l) \/ IsWith(l) => ~IsBody(l)
         /\ IsName(l) => ~IsClause(l)
         /\ Closes(l) => ~IsClause(l) /\ ~IsName(l) /\ Len(l.toks) >= 1
         /\ l.indent /\ l.toks = <<"with(">> => ~IsClause(l) /\ ~IsName(l) /\ Inline(l) = l
<1>0. l.toks \in Seq(Tokens) /\ Len(l.toks) \in Nat
  BY DEF Lines
<1>1. IsDistributed(l) \/ IsWith(l) => ~IsBody(l)
  BY DEF IsDistributed, IsWith, IsBody
<1>2. IsName(l) => ~IsClause(l)
  BY DEF IsName, IsClause, IsDistributed, IsWith, IsBody, Starts, Withs
<1>3. Closes(l) => ~IsClause(l) /\ ~IsName(l) /\ Len(l.toks) >= 1
  BY <1>0 DEF Closes, IsName, IsClause, IsDistributed, IsWith, IsBody, Starts, Withs
<1>4. ASSUME l.indent, l.toks = <<"with(">>
      PROVE  ~IsClause(l) /\ ~IsName(l) /\ Inline(l) = l
  <2>1. ~IsClause(l) /\ ~IsName(l)
    BY <1>4 DEF IsName, IsClause, IsDistributed, IsWith, IsBody, Starts, Withs
  <2>2. Inline(l) = Without(l, {"with_qq"})
    BY <1>4 DEF Inline, OpensWith, Starts
  <2>3. [p \in DOMAIN l.toks |-> IF l.toks[p] \in {"with_qq"} THEN "blank" ELSE l.toks[p]]
          = l.toks
    BY <1>4
  <2>4. Without(l, {"with_qq"}) = [l EXCEPT !.toks = l.toks]
    BY <2>3 DEF Without
  <2>5. [l EXCEPT !.toks = l.toks] = l
    BY DEF Lines
  <2> QED BY <2>1, <2>2, <2>4, <2>5
<1> QED BY <1>1, <1>2, <1>3, <1>4

LEMMA NotInBlock ==
  ASSUME Typed, Ahead  PROVE ~InBlock(content, i)
<1>1. ASSUME NEW b \in 1 .. i - 1, IsBlock(content, b)  PROVE ~(Closing(content, b) >= i)
  <2>1. i \in Nat /\ b \in 1 .. Len(content) /\ Len(content) \in Nat
    BY DEF Typed, TypeOK
  <2>2. Closing(content, b) \in Nat
    BY <2>1, ClosingFacts DEF Typed
  <2> QED BY <1>1, <2>1, <2>2 DEF Ahead
<1> QED BY <1>1 DEF InBlock

(* Every rule keeps the next line as what remains of it, drops it, or      *)
(* drops it and has its semicolon to place.                                *)
LEMMA StepKinds ==
  ASSUME Typed, Ahead, Next
  PROVE  (\E j : KeepStep(j) \/ DropStep(j)) \/ EndStep
<1>1. /\ i \in Nat /\ Len(content) \in Nat /\ i >= 1 /\ content \in Seq(Lines)
      /\ ~InBlock(content, i)
  BY NotInBlock DEF Typed, TypeOK
<1>2. i <= Len(content) /\ i \in DOMAIN content /\ line \in Lines /\ line = content[i]
  <2>1. i <= Len(content)
    BY DEF Next, RemoveClause, RemoveName, RemoveBlock, RemoveInBody, Keep, Go
  <2> QED BY <1>1, <2>1 DEF line
<1> DEFINE Just(j) == j = i /\ i' = i + 1 /\ UNCHANGED content
<1>3. ASSUME i' = i + 1, UNCHANGED content, ~Ended(content, i)  PROVE Passed(i)
  BY <1>1, <1>2, <1>3 DEF Passed
<1>4. CASE RemoveClause
  <2>1. Removed(content, i) /\ ~Stays(content, i) /\ ~IsBody(line)
    BY <1>1, <1>2, <1>4, KindsOfLines
       DEF RemoveClause, TopLevel, Removed, Stays, IsClause
  <2>2. CASE Ends(line)
    <3>1. output' = IF Moves THEN [output EXCEPT ![Len(output)] = EndWithSemicolon(@)]
                    ELSE output
      BY <1>4, <2>1, <2>2 DEF RemoveClause, Terminated, Moves
    <3> QED BY <1>2, <1>4, <2>1, <2>2, <3>1 DEF RemoveClause, Go, EndStep, Ended
  <2>3. CASE ~Ends(line)
    <3>1. UNCHANGED <<output, from>> /\ ~Ended(content, i)
      BY <1>2, <1>4, <2>3 DEF RemoveClause, Terminated, Ended
    <3> QED BY <1>3, <1>4, <2>1, <3>1 DEF RemoveClause, Go, DropStep
  <2> QED BY <2>2, <2>3
<1>5. CASE RemoveName
  <2>1. ~Ended(content, i) /\ ~Stays(content, i)
    BY <1>2, <1>5, KindsOfLines DEF RemoveName, Ended, Removed, Stays
  <2> QED BY <1>3, <1>5, <2>1 DEF RemoveName, Go, DropStep
<1>6. CASE RemoveInBody
  <2>1. IsBody(line) /\ ~IsDistributed(line) /\ ~IsWith(line) /\ ~IsName(line)
    BY <1>6, <1>2, KindsOfLines DEF RemoveInBody, IsName, IsBody, Starts
  <2>2. ~IsBlock(content, i)
    BY <1>2, <2>1 DEF IsBlock, IsBody, Starts
  <2>3. CASE HasQuote(line)
    <3>1. Stays(content, i) /\ ~Ended(content, i)
      BY <1>1, <1>2, <2>1, <2>2, <2>3 DEF Stays, IsClause, Ended, Removed
    <3>2. Remains(content, i) = Inline(Without(line, {"dist"}))
      BY <1>1, <1>2, <2>1 DEF Remains
    <3> QED BY <1>3, <1>6, <2>3, <3>1, <3>2 DEF RemoveInBody, Go, KeepStep
  <2>4. CASE ~HasQuote(line) /\ Ends(line)
    <3>1. Removed(content, i) /\ ~Stays(content, i)
      BY <1>1, <1>2, <2>1, <2>4 DEF Removed, Stays, IsClause
    <3>2. output' = IF Moves THEN [output EXCEPT ![Len(output)] = EndWithSemicolon(@)]
                    ELSE output
      BY <1>6, <2>1, <2>4 DEF RemoveInBody, TerminatedInBody, Moves
    <3> QED BY <1>2, <1>6, <2>4, <3>1, <3>2 DEF RemoveInBody, Go, EndStep, Ended
  <2>5. CASE ~HasQuote(line) /\ ~Ends(line)
    <3>1. UNCHANGED <<output, from>> /\ ~Ended(content, i) /\ ~Stays(content, i)
      BY <1>2, <1>6, <2>1, <2>5 DEF RemoveInBody, TerminatedInBody, Ended, Stays, IsClause
    <3> QED BY <1>3, <1>6, <3>1 DEF RemoveInBody, Go, DropStep
  <2> QED BY <2>3, <2>4, <2>5
<1>7. CASE Keep
  <2>1. /\ ~IsClause(line) /\ ~IsName(line) /\ ~IsBlock(content, i) /\ ~IsBody(line)
    BY <1>7 DEF Keep, TopLevel, IsClause
  <2>2. Stays(content, i) /\ ~Ended(content, i)
    BY <1>1, <1>2, <2>1 DEF Stays, Ended, Removed
  <2>3. Remains(content, i) = Inline(line)
    BY <1>1, <1>2, <2>1 DEF Remains
  <2> QED BY <1>3, <1>7, <2>2, <2>3 DEF Keep, Go, KeepStep
<1>8. CASE RemoveBlock
  <2> DEFINE c == Closing(content, i)
  <2>1. IsBlock(content, i) /\ line.indent /\ line.toks = <<"with(">>
    BY <1>2, <1>8 DEF RemoveBlock, IsBlock
  <2>2. ~IsClause(line) /\ ~IsName(line) /\ Inline(line) = line /\ ~Ended(content, i)
    BY <1>2, <2>1, KindsOfLines DEF Ended, Removed
  <2>3. CASE c = 0
    <3>1. Stays(content, i)
      BY <1>1, <1>2, <2>2, <2>3 DEF Stays
    <3>2. Remains(content, i) = line
      BY <1>1, <1>2, <2>1, <2>2 DEF Remains, IsBody, Starts
    <3> QED BY <1>3, <1>8, <2>2, <2>3, <3>1, <3>2 DEF RemoveBlock, Go, KeepStep
  <2>4. CASE c # 0
    <3>1. /\ c \in i + 1 .. Len(content) /\ Closes(content[c])
          /\ \A m \in i + 1 .. c - 1 : ~Closes(content[m])
      BY <1>1, <1>2, <2>4, ClosingFacts
    <3>2. \A m \in i + 1 .. c : InBlock(content, m)
      BY <1>1, <1>2, <2>1, <2>4, BlockFacts
    <3>3. ~Stays(content, i)
      BY <1>1, <2>1, <2>4 DEF Stays
    <3>4. \A m \in i .. c - 1 : ~Stays(content, m)
      <4> SUFFICES ASSUME NEW m \in i + 1 .. c - 1  PROVE ~Stays(content, m)
        BY <1>1, <3>1, <3>3
      <4> QED BY <1>1, <3>1, <3>2 DEF Stays
    <3>5. \A m \in i .. c : ~Ended(content, m)
      <4> SUFFICES ASSUME NEW m \in i + 1 .. c  PROVE ~Ended(content, m)
        BY <1>1, <2>2, <3>1
      <4> QED BY <3>2 DEF Ended, Removed
    <3>6. Go(c + 1) /\ IF Len(content[c].toks) = 1 THEN UNCHANGED <<output, from>>
                       ELSE Leave(c, [content[c] EXCEPT !.toks[1] = "blank"])
      BY <1>8, <2>4 DEF RemoveBlock
    <3>7. Passed(c)
      BY <1>1, <3>1, <3>4, <3>5, <3>6 DEF Go, Passed
    <3>8. /\ InBlock(content, c) /\ ~IsClause(content[c]) /\ ~IsName(content[c])
          /\ Len(content[c].toks) = 1 \/ Len(content[c].toks) > 1
      <4>1. c \in DOMAIN content
        BY <1>1, <3>1
      <4>2. content[c] \in Lines /\ Len(content[c].toks) \in Nat
        BY <1>1, <4>1, LineFacts
      <4>3. ~IsClause(content[c]) /\ ~IsName(content[c]) /\ Len(content[c].toks) >= 1
        BY <3>1, <4>2, KindsOfLines
      <4>4. \A n \in Nat : n >= 1 => n = 1 \/ n > 1
        OBVIOUS
      <4>5. InBlock(content, c)
        BY <1>1, <3>1, <3>2
      <4> QED BY <4>2, <4>3, <4>4, <4>5, Zenon
    <3> HIDE DEF c
    <3>9. CASE Len(content[c].toks) = 1
      <4>1. ~Stays(content, c)
        BY <3>8, <3>9 DEF Stays
      <4>2. UNCHANGED <<output, from>>
        BY <3>6, <3>9
      <4> QED BY <3>7, <4>1, <4>2 DEF DropStep
    <3>10. CASE Len(content[c].toks) # 1
      <4>1. Len(content[c].toks) > 1
        BY <3>8, <3>10, Zenon
      <4>2. Stays(content, c)
        BY <3>1, <3>8, <4>1 DEF Stays
      <4>3. Remains(content, c) = [content[c] EXCEPT !.toks[1] = "blank"]
        BY <3>8 DEF Remains
      <4>4. Leave(c, Remains(content, c))
        BY <3>6, <3>10, <4>3
      <4> QED BY <3>7, <4>2, <4>4 DEF KeepStep
    <3> QED BY <3>9, <3>10
  <2> QED BY <2>3, <2>4
<1> QED BY <1>4, <1>5, <1>6, <1>7, <1>8 DEF Next

LEMMA AheadStep ==
  ASSUME Typed, Ahead, Next  PROVE Ahead'
<1>1. /\ i \in Nat /\ Len(content) \in Nat /\ i >= 1 /\ content \in Seq(Lines)
      /\ i <= Len(content) /\ i \in DOMAIN content /\ content' = content
  <2>1. i <= Len(content) /\ content' = content
    BY DEF Next, RemoveClause, RemoveName, RemoveBlock, RemoveInBody, Keep, Go
  <2> QED BY <2>1 DEF Typed, TypeOK
<1>2. \A b \in 1 .. i - 1 : IsBlock(content, b) => Closing(content, b) < i
  BY DEF Ahead
<1>3. CASE RemoveBlock
  <2> DEFINE c == Closing(content, i)
  <2>1. IsBlock(content, i) /\ c \in Nat
    BY <1>1, <1>3, ClosingFacts DEF RemoveBlock
  <2>2. CASE c = 0
    <3>1. i' = i + 1
      BY <1>3, <2>2 DEF RemoveBlock, Go
    <3>2. ASSUME NEW b \in 1 .. i, IsBlock(content, b)  PROVE Closing(content, b) < i + 1
      <4>1. CASE b = i
        BY <1>1, <2>2, <4>1
      <4>2. CASE b # i
        <5>1. b \in 1 .. i - 1 /\ b \in 1 .. Len(content)
          BY <1>1, <4>2
        <5>2. Closing(content, b) < i /\ Closing(content, b) \in Nat
          BY <1>1, <1>2, <3>2, <5>1, ClosingFacts
        <5> QED BY <1>1, <5>2
      <4> QED BY <4>1, <4>2
    <3> QED BY <1>1, <3>1, <3>2 DEF Ahead
  <2>3. CASE c # 0
    <3>1. i' = c + 1
      BY <1>3, <2>3 DEF RemoveBlock, Go
    <3>2. c \in i + 1 .. Len(content)
      BY <1>1, <2>3, ClosingFacts
    <3>3. \A m \in i + 1 .. c : IsBlock(content, m) => Closing(content, m) = c
      BY <1>1, <2>1, <2>3, BlockFacts
    <3> HIDE DEF c
    <3>4. ASSUME NEW b \in 1 .. c, IsBlock(content, b)  PROVE Closing(content, b) < c + 1
      <4>1. CASE b = i
        BY <2>1, <4>1 DEF c
      <4>2. CASE b \in i + 1 .. c
        BY <2>1, <3>3, <3>4, <4>2
      <4>3. CASE b \in 1 .. i - 1
        <5>1. b \in 1 .. Len(content)
          BY <1>1, <4>3
        <5>2. Closing(content, b) < i /\ Closing(content, b) \in Nat
          BY <1>1, <1>2, <3>4, <4>3, <5>1, ClosingFacts
        <5> QED BY <1>1, <3>2, <5>2
      <4> QED BY <1>1, <3>2, <4>1, <4>2, <4>3
    <3> QED BY <1>1, <2>1, <3>1, <3>4 DEF Ahead
  <2> QED BY <2>2, <2>3
<1>4. CASE ~RemoveBlock
  <2>1. ~IsBlock(content, i) /\ i' = i + 1
    <3>1. CASE RemoveClause
      BY <1>1, <3>1 DEF RemoveClause, TopLevel, IsDistributed, IsWith, IsBlock, Go, line
    <3>2. CASE RemoveName
      BY <1>1, <3>2 DEF RemoveName, IsName, IsBlock, Go, line
    <3>3. CASE RemoveInBody
      BY <1>1, <3>3 DEF RemoveInBody, IsBody, Starts, IsBlock, Go, line
    <3>4. CASE Keep
      BY <3>4 DEF Keep, Go
    <3> QED BY <1>4, <3>1, <3>2, <3>3, <3>4 DEF Next
  <2>2. \A b \in 1 .. i : IsBlock(content, b) => b \in 1 .. i - 1
    BY <1>1, <2>1
  <2>3. ASSUME NEW b \in 1 .. i, IsBlock(content, b)  PROVE Closing(content, b) < i + 1
    <3>1. b \in 1 .. i - 1 /\ b \in 1 .. Len(content)
      BY <1>1, <2>2, <2>3
    <3>2. Closing(content, b) < i /\ Closing(content, b) \in Nat
      BY <1>1, <1>2, <2>3, <3>1, ClosingFacts
    <3> QED BY <1>1, <3>2
  <2> QED BY <1>1, <2>1, <2>3 DEF Ahead
<1> QED BY <1>3, <1>4

(* A line with a semicolon added.                                          *)
LEMMA EndedLine ==
  ASSUME NEW l \in Kept
  PROVE  LET e == EndWithSemicolon(l) IN
         /\ e \in Kept /\ Len(e.toks) = Len(l.toks) + 1 /\ DOMAIN e.toks = 1 .. Len(l.toks) + 1
         /\ e.toks[Len(l.toks) + 1] = "semi"
         /\ \A p \in 1 .. Len(l.toks) : e.toks[p] = l.toks[p]
         /\ Ends(e) /\ ~IsLone(e)
<1> DEFINE e == EndWithSemicolon(l)
           n == Len(l.toks)
<1>1. l.toks \in Seq(Tokens \cup {"blank"}) /\ l.indent \in BOOLEAN /\ n \in Nat
  BY DEF Kept
<1>2. "semi" \in Tokens
  BY DEF Tokens
<1>3. e = [l EXCEPT !.toks = Append(l.toks, "semi")]
  BY DEF EndWithSemicolon
<1>4. e \in Kept /\ e.toks = Append(l.toks, "semi")
  <2> DEFINE s == Append(l.toks, "semi")
  <2>1. s \in Seq(Tokens \cup {"blank"})
    BY <1>1, <1>2
  <2>2. e = [l EXCEPT !.toks = s]
    BY <1>3
  <2> HIDE DEF e, s
  <2> QED BY <2>1, <2>2, Retoked DEF s
<1>5. /\ Len(e.toks) = n + 1 /\ DOMAIN e.toks = 1 .. n + 1 /\ e.toks[n + 1] = "semi"
      /\ \A p \in 1 .. n : e.toks[p] = l.toks[p]
  BY <1>1, <1>4
<1>6. Ends(e)
  <2>1. n + 1 \in DOMAIN e.toks /\ (n + 1) + 1 .. Len(e.toks) = {}
    BY <1>1, <1>5
  <2> QED BY <1>5, <2>1 DEF Ends
<1>7. ~IsLone(e)
  <2> SUFFICES ASSUME NEW p \in DOMAIN e.toks, e.toks[p] = "paren",
                      \A q \in DOMAIN e.toks \ {p} : e.toks[q] = "blank"
               PROVE  FALSE
    BY DEF IsLone
  <2>1. n + 1 \in DOMAIN e.toks
    BY <1>1, <1>5
  <2> QED BY <1>5, <2>1
<1> QED BY <1>4, <1>5, <1>6, <1>7

(* A line of the output beside the line it comes from.                     *)
LEMMA OutputLine ==
  ASSUME Typed, Traced, NEW k \in DOMAIN output
  PROVE  LET l == content[from[k]] r == Remains(content, from[k]) IN
         /\ from[k] \in DOMAIN content /\ from[k] \in 1 .. i - 1 /\ k \in DOMAIN from
         /\ Stays(content, from[k]) /\ r \in Kept /\ Len(r.toks) = Len(l.toks)
         /\ output[k] = r \/ output[k] = EndWithSemicolon(r)
<1>1. /\ k \in DOMAIN from /\ from[k] \in 1 .. i - 1 /\ from[k] \in DOMAIN content
      /\ content \in Seq(Lines)
  BY DEF Typed, TypeOK
<1>2. Stays(content, from[k])
  BY <1>1 DEF Traced
<1>3. /\ Remains(content, from[k]) \in Kept
      /\ Len(Remains(content, from[k]).toks) = Len(content[from[k]].toks)
  BY <1>1, <1>2, RemainsFacts
<1> QED BY <1>1, <1>2, <1>3 DEF Traced

(* The last line takes a semicolon as it came.                             *)
LEMMA MovesFacts ==
  ASSUME Typed, Traced, Moves
  PROVE  /\ Len(output) \in DOMAIN output
         /\ output[Len(output)] = Remains(content, from[Len(output)])
         /\ output[Len(output)] \in Kept
<1> DEFINE n == Len(output)
<1>1. n \in DOMAIN output
  BY DEF Typed, TypeOK, Moves
<1>2. /\ Remains(content, from[n]) \in Kept
      /\ \/ output[n] = Remains(content, from[n])
         \/ output[n] = EndWithSemicolon(Remains(content, from[n]))
  BY <1>1, OutputLine
<1>3. ~Ends(output[n]) \/ IsLone(output[n])
  BY DEF Moves
<1>4. output[n] = Remains(content, from[n])
  BY <1>2, <1>3, EndedLine
<1> QED BY <1>1, <1>2, <1>4

(* A line kept joins the output.                                           *)
LEMMA KeptLine ==
  ASSUME Typed, NEW j, KeepStep(j)
  PROVE  /\ j \in 1 .. Len(content) /\ j \in i .. Len(content) /\ i' = j + 1
         /\ content' = content /\ Stays(content, j) /\ Remains(content, j) \in Kept
         /\ output' = Append(output, Remains(content, j)) /\ from' = Append(from, j)
         /\ Len(output') = Len(output) + 1 /\ DOMAIN output' = 1 .. Len(output) + 1
         /\ Len(from') = Len(output) + 1 /\ DOMAIN from' = 1 .. Len(output) + 1
         /\ output' \in Seq(Kept) /\ from' \in Seq(1 .. j)
         /\ \A k \in 1 .. Len(output) : output'[k] = output[k] /\ from'[k] = from[k]
         /\ output'[Len(output) + 1] = Remains(content, j) /\ from'[Len(output) + 1] = j
<1>1. /\ i \in Nat /\ i >= 1 /\ content \in Seq(Lines) /\ Len(content) \in Nat
      /\ output \in Seq(Kept) /\ from \in Seq(1 .. i - 1) /\ Len(from) = Len(output)
  BY DEF Typed, TypeOK
<1>2. /\ j \in i .. Len(content) /\ i' = j + 1 /\ content' = content /\ Stays(content, j)
      /\ output' = Append(output, Remains(content, j)) /\ from' = Append(from, j)
  BY DEF KeepStep, Passed, Leave
<1>3. j \in 1 .. Len(content) /\ j \in DOMAIN content
  BY <1>1, <1>2
<1>4. Remains(content, j) \in Kept
  BY <1>1, <1>2, <1>3, RemainsFacts
<1>5. from \in Seq(1 .. j)
  <2>1. 1 .. i - 1 \subseteq 1 .. j
    BY <1>1, <1>2
  <2>2. Seq(1 .. i - 1) \subseteq Seq(1 .. j)
    BY <2>1, SeqGrows
  <2> QED BY <1>1, <2>2, Zenon
<1> DEFINE R == Remains(content, j)
<1> HIDE DEF R
<1>6. /\ output' \in Seq(Kept) /\ from' \in Seq(1 .. j)
      /\ Len(output') = Len(output) + 1 /\ DOMAIN output' = 1 .. Len(output) + 1
      /\ Len(from') = Len(output) + 1 /\ DOMAIN from' = 1 .. Len(output) + 1
  BY <1>1, <1>2, <1>3, <1>4, <1>5
<1>7. \A k \in 1 .. Len(output) : output'[k] = output[k] /\ from'[k] = from[k]
  BY <1>1, <1>2, <1>3, <1>4, <1>5
<1>8. output'[Len(output) + 1] = Remains(content, j) /\ from'[Len(output) + 1] = j
  BY <1>1, <1>2, <1>3, <1>4, <1>5
<1> QED BY <1>2, <1>3, <1>4, <1>6, <1>7, <1>8

(* A removed line that ended a statement leaves its semicolon, or not.     *)
LEMMA EndedStep ==
  ASSUME Typed, Traced, EndStep
  PROVE  /\ i \in DOMAIN content /\ i' = i + 1 /\ content' = content /\ from' = from
         /\ output' \in Seq(Kept) /\ Len(output') = Len(output)
         /\ DOMAIN output' = DOMAIN output
         /\ Ended(content, i) /\ ~Stays(content, i)
         /\ \A k \in DOMAIN output :
              output'[k] = IF Moves /\ k = Len(output) THEN EndWithSemicolon(output[k])
                           ELSE output[k]
<1>1. /\ i \in DOMAIN content /\ i' = i + 1 /\ content' = content /\ from' = from
      /\ Ended(content, i) /\ ~Stays(content, i)
  BY DEF EndStep, Typed, TypeOK
<1>2. output \in Seq(Kept)
  BY DEF Typed, TypeOK
<1>3. CASE Moves
  <2>1. output' = [output EXCEPT ![Len(output)] = EndWithSemicolon(output[Len(output)])]
    BY <1>3 DEF EndStep
  <2>2. EndWithSemicolon(output[Len(output)]) \in Kept /\ Len(output) \in DOMAIN output
    BY <1>3, MovesFacts, EndedLine
  <2> QED BY <1>1, <1>2, <1>3, <2>1, <2>2
<1>4. CASE ~Moves
  BY <1>1, <1>2, <1>4 DEF EndStep
<1> QED BY <1>3, <1>4

LEMMA TypedStep ==
  ASSUME Typed, Ahead, Traced, Next  PROVE Typed'
<1>1. /\ i \in Nat /\ i >= 1 /\ i <= Len(content) + 1
      /\ content \in Seq(Lines) /\ Len(content) \in Nat
      /\ output \in Seq(Kept) /\ from \in Seq(1 .. i - 1)
      /\ Len(from) = Len(output) /\ Len(output) < i /\ Len(output) \in Nat
  BY DEF Typed, TypeOK
<1>2. ASSUME NEW j, KeepStep(j)  PROVE Typed'
  <2>1. /\ j \in i .. Len(content) /\ i' = j + 1 /\ content' = content
        /\ output' \in Seq(Kept) /\ from' \in Seq(1 .. j)
        /\ Len(output') = Len(output) + 1 /\ Len(from') = Len(output) + 1
    BY <1>2, KeptLine
  <2>2. i' - 1 = j /\ i' \in 1 .. Len(content) + 1 /\ Len(output') < i'
    BY <1>1, <2>1
  <2> QED BY <1>1, <2>1, <2>2 DEF Typed, TypeOK
<1>3. ASSUME NEW j, DropStep(j)  PROVE Typed'
  <2>1. /\ j \in i .. Len(content) /\ i' = j + 1 /\ content' = content
        /\ output' = output /\ from' = from
    BY <1>3 DEF DropStep, Passed
  <2>2. i' - 1 = j /\ i' \in 1 .. Len(content) + 1 /\ Len(output') < i'
        /\ 1 .. i - 1 \subseteq 1 .. j
    BY <1>1, <2>1
  <2>3. from' \in Seq(1 .. j)
    BY <1>1, <2>1, <2>2
  <2> QED BY <1>1, <2>1, <2>2, <2>3 DEF Typed, TypeOK
<1>4. CASE EndStep
  <2>1. /\ i \in DOMAIN content /\ i' = i + 1 /\ content' = content /\ from' = from
        /\ output' \in Seq(Kept) /\ Len(output') = Len(output)
    BY <1>4, EndedStep
  <2>2. i' - 1 = i /\ i' \in 1 .. Len(content) + 1 /\ Len(output') < i'
        /\ 1 .. i - 1 \subseteq 1 .. i
    BY <1>1, <2>1
  <2>3. from' \in Seq(1 .. i)
    BY <1>1, <2>1, <2>2
  <2> QED BY <1>1, <2>1, <2>2, <2>3 DEF Typed, TypeOK
<1> QED BY <1>2, <1>3, <1>4, StepKinds

LEMMA TracedStep ==
  ASSUME Typed, Ahead, Traced, Next  PROVE Traced'
<1>1. /\ i \in Nat /\ i >= 1 /\ content \in Seq(Lines) /\ Len(content) \in Nat
      /\ from \in Seq(1 .. i - 1) /\ Len(from) = Len(output)
      /\ Len(output) \in Nat /\ DOMAIN output = 1 .. Len(output) /\ DOMAIN from = DOMAIN output
      /\ \A k \in DOMAIN output : from[k] \in 1 .. i - 1
  BY DEF Typed, TypeOK
<1>2. /\ \A k \in DOMAIN from : Stays(content, from[k])
      /\ \A j, k \in DOMAIN from : j < k => from[j] < from[k]
      /\ \A m \in 1 .. i - 1 : Stays(content, m) => \E k \in DOMAIN from : from[k] = m
      /\ \A k \in DOMAIN output : output[k] = Remains(content, from[k])
           \/ output[k] = EndWithSemicolon(Remains(content, from[k]))
  BY DEF Traced
<1>3. ASSUME NEW j, KeepStep(j)  PROVE Traced'
  <2> DEFINE n == Len(output) + 1
  <2>1. /\ j \in i .. Len(content) /\ i' = j + 1 /\ content' = content /\ Stays(content, j)
        /\ DOMAIN output' = 1 .. n /\ DOMAIN from' = 1 .. n
        /\ \A k \in 1 .. Len(output) : output'[k] = output[k] /\ from'[k] = from[k]
        /\ output'[n] = Remains(content, j) /\ from'[n] = j
    BY <1>3, KeptLine
  <2>2. \A m \in i .. j - 1 : ~Stays(content, m)
    BY <1>3 DEF KeepStep, Passed
  <2>3. n \in Nat /\ \A k \in 1 .. n : k \in 1 .. Len(output) \/ k = n
    BY <1>1
  <2>4. \A k \in DOMAIN from' : Stays(content', from'[k])
    BY <1>1, <1>2, <2>1, <2>3
  <2>5. ASSUME NEW a \in DOMAIN from', NEW b \in DOMAIN from', a < b  PROVE from'[a] < from'[b]
    <3>1. a \in 1 .. Len(output) /\ from'[a] = from[a] /\ from[a] \in 1 .. i - 1
      BY <1>1, <2>1, <2>5
    <3>2. CASE b = n
      BY <1>1, <2>1, <3>1, <3>2
    <3>3. CASE b # n
      BY <1>1, <1>2, <2>1, <2>3, <2>5, <3>1, <3>3
    <3> QED BY <3>2, <3>3
  <2>6. ASSUME NEW m \in 1 .. i' - 1, Stays(content', m)
        PROVE  \E k \in DOMAIN from' : from'[k] = m
    <3>1. m \in 1 .. j
      BY <1>1, <2>1
    <3>2. CASE m = j
      <4>1. n \in 1 .. n
        BY <1>1
      <4> QED BY <2>1, <3>2, <4>1
    <3>3. CASE m \in 1 .. i - 1
      <4>1. PICK k \in 1 .. Len(output) : from[k] = m
        BY <1>1, <1>2, <2>1, <2>6, <3>3
      <4>2. k \in 1 .. n /\ from'[k] = m
        BY <1>1, <2>1, <4>1
      <4> QED BY <2>1, <4>2
    <3>4. ~(m \in i .. j - 1)
      BY <2>1, <2>2, <2>6
    <3> QED BY <1>1, <2>1, <3>1, <3>2, <3>3, <3>4
  <2>7. ASSUME NEW k \in DOMAIN output'
        PROVE  \/ output'[k] = Remains(content', from'[k])
               \/ output'[k] = EndWithSemicolon(Remains(content', from'[k]))
    BY <1>1, <1>2, <2>1, <2>3
  <2> QED BY <2>4, <2>5, <2>6, <2>7 DEF Traced
<1>4. ASSUME NEW j, DropStep(j)  PROVE Traced'
  <2>1. /\ j \in i .. Len(content) /\ i' = j + 1 /\ content' = content
        /\ output' = output /\ from' = from /\ ~Stays(content, j)
        /\ \A m \in i .. j - 1 : ~Stays(content, m)
    BY <1>4 DEF DropStep, Passed
  <2>2. ASSUME NEW m \in 1 .. i' - 1, Stays(content', m)  PROVE m \in 1 .. i - 1
    BY <1>1, <2>1, <2>2
  <2>3. \A m \in 1 .. i' - 1 : Stays(content', m) => \E k \in DOMAIN from' : from'[k] = m
    BY <1>2, <2>1, <2>2
  <2> QED BY <1>2, <2>1, <2>3 DEF Traced
<1>5. CASE EndStep
  <2>1. /\ i' = i + 1 /\ content' = content /\ from' = from /\ DOMAIN output' = DOMAIN output
        /\ ~Stays(content, i)
        /\ \A k \in DOMAIN output :
             output'[k] = IF Moves /\ k = Len(output) THEN EndWithSemicolon(output[k])
                          ELSE output[k]
    BY <1>5, EndedStep
  <2>2. ASSUME NEW m \in 1 .. i' - 1, Stays(content', m)  PROVE m \in 1 .. i - 1
    BY <1>1, <2>1, <2>2
  <2>3. \A m \in 1 .. i' - 1 : Stays(content', m) => \E k \in DOMAIN from' : from'[k] = m
    BY <1>2, <2>1, <2>2
  <2>4. ASSUME NEW k \in DOMAIN output'
        PROVE  \/ output'[k] = Remains(content', from'[k])
               \/ output'[k] = EndWithSemicolon(Remains(content', from'[k]))
    <3>1. CASE Moves /\ k = Len(output)
      <4>1. output[k] = Remains(content, from[k])
        BY <3>1, MovesFacts
      <4> QED BY <2>1, <3>1, <4>1
    <3>2. CASE ~(Moves /\ k = Len(output))
      BY <1>2, <2>1, <3>2
    <3> QED BY <3>1, <3>2
  <2> QED BY <1>2, <2>1, <2>3, <2>4 DEF Traced
<1> QED BY <1>3, <1>4, <1>5, StepKinds

LEMMA LastAsIsStep ==
  ASSUME Typed, Ahead, Traced, LastAsIs, Next  PROVE LastAsIs'
<1>1. /\ i \in Nat /\ content \in Seq(Lines) /\ Len(content) \in Nat
      /\ from \in Seq(1 .. i - 1) /\ Len(from) = Len(output) /\ Len(output) \in Nat
  BY DEF Typed, TypeOK
<1>2. Len(output) # 0 => from[Len(output)] \in 1 .. i - 1
  BY <1>1
<1>3. ASSUME NEW j, KeepStep(j)  PROVE LastAsIs'
  <2>1. /\ Len(output') = Len(output) + 1 /\ content' = content
        /\ output'[Len(output) + 1] = Remains(content, j) /\ from'[Len(output) + 1] = j
    BY <1>3, KeptLine
  <2> QED BY <2>1 DEF LastAsIs
<1>4. ASSUME NEW j, DropStep(j)  PROVE LastAsIs'
  <2>1. /\ j \in i .. Len(content) /\ i' = j + 1 /\ content' = content
        /\ output' = output /\ from' = from
    BY <1>4 DEF DropStep, Passed
  <2>2. 1 .. i - 1 \subseteq 1 .. i' - 1
        /\ \A f \in 1 .. i - 1 : f + 1 .. i - 1 \subseteq f + 1 .. i' - 1
    BY <1>1, <2>1
  <2> QED BY <1>2, <2>1, <2>2 DEF LastAsIs
<1>5. CASE EndStep
  <2>1. /\ i' = i + 1 /\ content' = content /\ from' = from /\ Len(output') = Len(output)
        /\ Ended(content, i)
    BY <1>5, EndedStep
  <2>2. Len(output) # 0 => i \in from[Len(output)] + 1 .. i' - 1
    BY <1>1, <1>2, <2>1
  <2> QED BY <2>1, <2>2 DEF LastAsIs
<1> QED BY <1>3, <1>4, <1>5, StepKinds
-----------------------------------------------------------------------------
(* What is read of a line that goes is its clauses, and then a semicolon,  *)
(* unless text is swallowed with it.                                       *)
LEMMA Beside ==
  ASSUME NEW text \in Seq(Lines), NEW k \in DOMAIN text, ~Swallows(text), ~Stays(text, k),
         ~IsName(text[k]), NEW p \in Live(text[k]), text[k].toks[p] \notin Clauses
  PROVE  Removed(text, k) /\ text[k].toks[p] = "semi" /\ p = Len(text[k].toks)
<1> DEFINE l == text[k]
<1>1. /\ l \in Lines /\ l.toks \in Seq(Tokens) /\ Len(l.toks) \in Nat
      /\ DOMAIN l.toks = 1 .. Len(l.toks) /\ p \in 1 .. Len(l.toks)
  <2>1. p \in DOMAIN l.toks
    BY DEF Live
  <2> QED BY <2>1, LineFacts
<1>2. /\ ~(InBlock(text, k) /\ (p = 1 \/ ~Closes(l)))
      /\ ~(Removed(text, k) /\ (l.toks[p] # "semi" \/ p # Len(l.toks)))
  BY DEF Swallows
<1>3. ~InBlock(text, k)
  <2> SUFFICES ASSUME InBlock(text, k)  PROVE FALSE
    OBVIOUS
  <2>1. Closes(l) /\ Len(l.toks) > 1
    BY <1>1, <1>2
  <2>2. ~IsClause(l) /\ ~IsName(l)
    BY <1>1, <2>1, KindsOfLines
  <2> QED BY <2>1, <2>2 DEF Stays
<1>4. ~(IsBlock(text, k) /\ Closing(text, k) # 0)
  <2> SUFFICES ASSUME IsBlock(text, k)  PROVE FALSE
    OBVIOUS
  <2>1. l.toks = <<"with(">>
    BY DEF IsBlock
  <2> QED BY <1>1, <2>1 DEF Clauses
<1>5. IsClause(l)
  BY <1>3, <1>4 DEF Stays
<1> QED BY <1>2, <1>3, <1>5 DEF Removed

LEMMA Silent ==
  ASSUME NEW text \in Seq(Lines), NEW k \in DOMAIN text, ~Swallows(text), ~Stays(text, k)
  PROVE  /\ ~Ended(text, k) => SemicolonsOf(text[k]) = {}
         /\ \A p : ~IsCode(text[k], p)
<1> DEFINE l == text[k]
<1>1. /\ l.toks \in Seq(Tokens) /\ Len(l.toks) \in Nat /\ DOMAIN l.toks = 1 .. Len(l.toks)
  BY LineFacts
<1>2. "semi" \notin Clauses
  BY DEF Clauses, Withs
<1>3. ASSUME NEW p \in SemicolonsOf(l)  PROVE Ended(text, k)
  <2>1. p \in Live(l) /\ l.toks[p] = "semi" /\ p \in DOMAIN l.toks
    BY DEF SemicolonsOf, Live
  <2>2. ~IsName(l)
    BY <1>1, <2>1 DEF IsName
  <2>3. Removed(text, k) /\ p = Len(l.toks)
    BY <1>2, <2>1, <2>2, Beside
  <2>4. p + 1 .. Len(l.toks) = {}
    BY <1>1, <2>3
  <2> QED BY <2>1, <2>3, <2>4 DEF Ended, Ends
<1>4. ASSUME NEW p, IsCode(l, p)  PROVE FALSE
  <2>1. ~IsName(l) /\ p \in Live(l) /\ l.toks[p] \notin Clauses /\ l.toks[p] # "semi"
    BY <1>4 DEF IsCode
  <2> QED BY <2>1, Beside
<1> QED BY <1>3, <1>4

(* As much of a line that stays is in no comment, and its semicolons stay. *)
LEMMA StayLine ==
  ASSUME NEW text \in Seq(Lines), NEW k \in DOMAIN text, Stays(text, k)
  PROVE  /\ Live(Remains(text, k)) = Live(text[k])
         /\ SemicolonsOf(Remains(text, k)) = SemicolonsOf(text[k])
<1> DEFINE l == text[k]
           r == Remains(text, k)
<1>1. /\ DOMAIN r.toks = DOMAIN l.toks
      /\ \A p \in DOMAIN l.toks :
           \/ r.toks[p] = l.toks[p]
           \/ r.toks[p] = "blank" /\ l.toks[p] \in Clauses \cup {"paren"}
  <2>1. "wend" \in Clauses
    BY DEF Clauses
  <2> QED BY <2>1, RemainsFacts
<1>2. DOMAIN l.toks = 1 .. Len(l.toks) /\ Len(l.toks) \in Nat
  BY LineFacts
<1>3. \A p \in DOMAIN l.toks :
        /\ r.toks[p] = "note" <=> l.toks[p] = "note"
        /\ r.toks[p] = "semi" <=> l.toks[p] = "semi"
  BY <1>1 DEF Clauses, Withs
<1>4. \A p \in DOMAIN l.toks : 1 .. p \subseteq DOMAIN l.toks
  BY <1>2
<1> HIDE DEF r, l
<1>5. Live(r) = Live(l)
  <2>1. ASSUME NEW p \in DOMAIN l.toks
        PROVE  (\A q \in 1 .. p : r.toks[q] # "note") <=> (\A q \in 1 .. p : l.toks[q] # "note")
    BY <1>3, <1>4
  <2> QED BY <1>1, <2>1, Zenon DEF Live
<1>6. SemicolonsOf(r) = SemicolonsOf(l)
  <2>1. \A p \in Live(l) : p \in DOMAIN l.toks
    BY DEF Live
  <2>2. \A p \in Live(l) : r.toks[p] = "semi" <=> l.toks[p] = "semi"
    BY <1>3, <2>1
  <2> QED BY <1>5, <2>2, Zenon DEF SemicolonsOf
<1> QED BY <1>5, <1>6 DEF l, r

(* A line with a semicolon added: read if the line ends in no comment.     *)
LEMMA EndedRead ==
  ASSUME NEW l \in Kept
  PROVE  LET e == EndWithSemicolon(l) IN
         /\ \A p \in 1 .. Len(l.toks) : p \in Live(e) <=> p \in Live(l)
         /\ (\A p \in DOMAIN l.toks : l.toks[p] # "note") =>
              SemicolonsOf(e) = SemicolonsOf(l) \cup {Len(l.toks) + 1}
<1> DEFINE e == EndWithSemicolon(l)
           n == Len(l.toks)
<1>1. /\ n \in Nat /\ DOMAIN l.toks = 1 .. n /\ DOMAIN e.toks = 1 .. n + 1
      /\ e.toks[n + 1] = "semi" /\ \A p \in 1 .. n : e.toks[p] = l.toks[p]
  BY EndedLine DEF Kept
<1> HIDE DEF e, n
<1>2. \A p \in 1 .. n : 1 .. p \subseteq 1 .. n /\ p \in 1 .. n + 1
  BY <1>1
<1>3. \A p \in 1 .. n : p \in Live(e) <=> p \in Live(l)
  BY <1>1, <1>2 DEF Live
<1>4. ASSUME \A p \in DOMAIN l.toks : l.toks[p] # "note"
      PROVE  SemicolonsOf(e) = SemicolonsOf(l) \cup {n + 1}
  <2>1. \A p \in 1 .. n + 1 : e.toks[p] # "note"
    BY <1>1, <1>4
  <2>2. \A p \in 1 .. n + 1 : 1 .. p \subseteq 1 .. n + 1
    BY <1>1
  <2>3. Live(e) = 1 .. n + 1
    BY <1>1, <2>1, <2>2 DEF Live
  <2>4. Live(l) = 1 .. n
    BY <1>1, <1>2, <1>4 DEF Live
  <2>5. 1 .. n + 1 = (1 .. n) \cup {n + 1}
    BY <1>1
  <2> QED BY <1>1, <2>3, <2>4, <2>5 DEF SemicolonsOf
<1> QED BY <1>3, <1>4 DEF e, n
-----------------------------------------------------------------------------
(* Semicolons are counted line by line.                                    *)
LEMMA PlaceOfSemicolon ==
  ASSUME NEW text, NEW c
  PROVE  c \in Semicolons(text) <=>
           \E k \in DOMAIN text : \E p \in SemicolonsOf(text[k]) : c = <<k, p>>
<1> DEFINE Row(k) == {k} \X SemicolonsOf(text[k])
<1>1. c \in Semicolons(text) <=> \E k \in DOMAIN text : c \in Row(k)
  BY DEF Semicolons
<1>2. \A k : c \in Row(k) <=> \E p \in SemicolonsOf(text[k]) : c = <<k, p>>
  OBVIOUS
<1> HIDE DEF Row
<1> QED BY <1>1, <1>2

LEMMA RowFinite ==
  ASSUME NEW k, NEW l \in Kept
  PROVE  /\ IsFiniteSet(SemicolonsOf(l)) /\ IsFiniteSet({k} \X SemicolonsOf(l))
         /\ Cardinality({k} \X SemicolonsOf(l)) = Cardinality(SemicolonsOf(l))
         /\ Cardinality(SemicolonsOf(l)) \in Nat
<1> DEFINE P == SemicolonsOf(l)
<1>1. Len(l.toks) \in Nat /\ DOMAIN l.toks = 1 .. Len(l.toks)
  BY DEF Kept
<1>2. IsFiniteSet(1 .. Len(l.toks))
  BY <1>1, FS_Interval
<1>3. P \subseteq 1 .. Len(l.toks)
  BY <1>1 DEF SemicolonsOf, Live
<1>4. IsFiniteSet(P)
  BY <1>2, <1>3, FS_Subset
<1> HIDE DEF P
<1>5. IsFiniteSet({k}) /\ Cardinality({k}) = 1
  BY FS_Singleton
<1>6. IsFiniteSet({k} \X P) /\ Cardinality({k} \X P) = 1 * Cardinality(P)
  BY <1>4, <1>5, FS_Product
<1>7. Cardinality(P) \in Nat
  BY <1>4, FS_CardinalityType
<1> QED BY <1>4, <1>6, <1>7 DEF P

LEMMA SemicolonsFinite ==
  ASSUME NEW text \in Seq(Kept)
  PROVE  IsFiniteSet(Semicolons(text)) /\ Cardinality(Semicolons(text)) \in Nat
<1> DEFINE Row(k) == {k} \X SemicolonsOf(text[k])
           rows == {Row(k) : k \in 1 .. Len(text)}
           f == [k \in 1 .. Len(text) |-> Row(k)]
<1>1. Semicolons(text) = UNION rows
  BY DEF Semicolons
<1>2. ASSUME NEW k \in 1 .. Len(text)  PROVE IsFiniteSet(Row(k))
  <2>1. text[k] \in Kept
    OBVIOUS
  <2> QED BY <2>1, RowFinite
<1> HIDE DEF Row
<1>3. f \in Surjection(1 .. Len(text), rows)
  BY DEF Surjection
<1>4. IsFiniteSet(rows)
  <2>1. IsFiniteSet(1 .. Len(text))
    BY FS_Interval
  <2> QED BY <1>3, <2>1, FS_Surjection
<1>5. \A r \in rows : IsFiniteSet(r)
  BY <1>2
<1>6. IsFiniteSet(Semicolons(text))
  BY <1>1, <1>4, <1>5, FS_UNION
<1> QED BY <1>6, FS_CardinalityType

LEMMA Joined ==
  ASSUME NEW S, NEW T, IsFiniteSet(S), IsFiniteSet(T), S \cap T = {}
  PROVE  Cardinality(S \cup T) = Cardinality(S) + Cardinality(T)
<1>1. Cardinality(S \cap T) = 0
  BY FS_EmptySet
<1>2. Cardinality(S) \in Nat /\ Cardinality(T) \in Nat
  BY FS_CardinalityType
<1>3. Cardinality(S \cup T) = Cardinality(S) + Cardinality(T) - Cardinality(S \cap T)
  BY FS_Union
<1> QED BY <1>1, <1>2, <1>3

(* A line more in the output.                                              *)
LEMMA OutputGrows ==
  ASSUME NEW text \in Seq(Kept), NEW l \in Kept
  PROVE  Cardinality(Semicolons(Append(text, l)))
           = Cardinality(Semicolons(text)) + Cardinality(SemicolonsOf(l))
<1> DEFINE n == Len(text) + 1
           new == Append(text, l)
           row == {n} \X SemicolonsOf(l)
<1>1. /\ DOMAIN text = 1 .. Len(text) /\ Len(text) \in Nat /\ DOMAIN new = 1 .. n
      /\ new[n] = l /\ \A k \in 1 .. Len(text) : new[k] = text[k]
  OBVIOUS
<1>2. /\ \A k \in 1 .. n : k \in 1 .. Len(text) \/ k = n
      /\ \A k \in 1 .. Len(text) : k \in 1 .. n /\ k # n
      /\ n \in 1 .. n
  BY <1>1
<1> HIDE DEF n, new
<1>3. Semicolons(new) = Semicolons(text) \cup row
  <2>1. \A c : c \in row <=> \E p \in SemicolonsOf(l) : c = <<n, p>>
    OBVIOUS
  <2>2. \A c : c \in Semicolons(new) <=>
                 \E k \in 1 .. n : \E p \in SemicolonsOf(new[k]) : c = <<k, p>>
    <3>1. \A c : c \in Semicolons(new) <=>
                   \E k \in DOMAIN new : \E p \in SemicolonsOf(new[k]) : c = <<k, p>>
      BY PlaceOfSemicolon
    <3> QED BY <1>1, <3>1
  <2>3. \A c : c \in Semicolons(text) <=>
                 \E k \in 1 .. Len(text) : \E p \in SemicolonsOf(text[k]) : c = <<k, p>>
    BY <1>1, PlaceOfSemicolon
  <2> HIDE DEF row
  <2>4. \A c : c \in Semicolons(new) <=> c \in Semicolons(text) \/ c \in row
    <3> TAKE c
    <3> DEFINE At(k, l2) == \E p \in SemicolonsOf(l2) : c = <<k, p>>
    <3>1. c \in row <=> At(n, l)
      BY <2>1
    <3>2. c \in Semicolons(new) <=> \E k \in 1 .. n : At(k, new[k])
      BY <2>2
    <3>3. c \in Semicolons(text) <=> \E k \in 1 .. Len(text) : At(k, text[k])
      BY <2>3
    <3> HIDE DEF At
    <3>4. (\E k \in 1 .. n : At(k, new[k])) <=>
            (\E k \in 1 .. Len(text) : At(k, text[k])) \/ At(n, l)
      BY <1>1, <1>2, Zenon
    <3> QED BY <3>1, <3>2, <3>3, <3>4
  <2> QED BY <2>4
<1>4. Semicolons(text) \cap row = {}
  <2> SUFFICES ASSUME NEW c \in Semicolons(text), c \in row  PROVE FALSE
    OBVIOUS
  <2>1. PICK k \in 1 .. Len(text) : \E p \in SemicolonsOf(text[k]) : c = <<k, p>>
    BY <1>1, PlaceOfSemicolon
  <2>2. c[1] = k /\ c[1] = n
    BY <2>1
  <2> QED BY <1>2, <2>1, <2>2
<1>5. IsFiniteSet(Semicolons(text)) /\ IsFiniteSet(row)
      /\ Cardinality(row) = Cardinality(SemicolonsOf(l))
  BY RowFinite, SemicolonsFinite
<1> HIDE DEF row
<1> QED BY <1>3, <1>4, <1>5, Joined DEF new

(* Silent lines do not count: so far there are those of one line more.     *)
LEMMA BeforeGrows ==
  ASSUME Typed, NEW j \in i .. Len(content),
         \A m \in i .. j - 1 : SemicolonsOf(content[m]) = {}
  PROVE  /\ IsFiniteSet(Before(i)) /\ Cardinality(Before(i)) \in Nat
         /\ Cardinality(Before(j + 1))
              = Cardinality(Before(i)) + Cardinality(SemicolonsOf(content[j]))
<1> DEFINE row == {j} \X SemicolonsOf(content[j])
<1>1. /\ i \in Nat /\ i >= 1 /\ content \in Seq(Lines) /\ DOMAIN content = 1 .. Len(content)
      /\ Len(content) \in Nat /\ j \in Nat /\ j \in 1 .. Len(content)
  BY DEF Typed, TypeOK
<1>2. content \in Seq(Kept) /\ content[j] \in Kept
  <2>1. content \in Seq(Kept)
    BY <1>1, LinesKept, SeqGrows
  <2> QED BY <1>1, <2>1
<1>3. IsFiniteSet(Before(i)) /\ Cardinality(Before(i)) \in Nat
  <2>1. Before(i) \subseteq Semicolons(content)
    BY DEF Before
  <2> QED BY <1>2, <2>1, SemicolonsFinite, FS_Subset, FS_CardinalityType
<1>4. Before(j + 1) = Before(i) \cup row
  <2>1. ASSUME NEW c \in Before(j + 1)  PROVE c \in Before(i) \cup row
    <3>1. PICK k \in DOMAIN content : \E p \in SemicolonsOf(content[k]) : c = <<k, p>>
      BY <2>1, PlaceOfSemicolon DEF Before
    <3>2. PICK p \in SemicolonsOf(content[k]) : c = <<k, p>>
      BY <3>1
    <3>3. k \in 1 .. Len(content) /\ k < j + 1
      BY <1>1, <2>1, <3>2 DEF Before
    <3>4. k < i \/ k = j
      <4>1. ~(k \in i .. j - 1)
        BY <3>2
      <4> QED BY <1>1, <3>3, <4>1
    <3> QED BY <2>1, <3>2, <3>4 DEF Before
  <2>2. ASSUME NEW c \in Before(i)  PROVE c \in Before(j + 1)
    <3>1. PICK k \in DOMAIN content : \E p \in SemicolonsOf(content[k]) : c = <<k, p>>
      BY <2>2, PlaceOfSemicolon DEF Before
    <3>2. c[1] = k /\ k < i /\ k \in 1 .. Len(content)
      BY <1>1, <2>2, <3>1 DEF Before
    <3>3. k < j + 1
      BY <1>1, <3>2
    <3> QED BY <2>2, <3>2, <3>3 DEF Before
  <2>3. ASSUME NEW c \in row  PROVE c \in Before(j + 1)
    <3>1. PICK p \in SemicolonsOf(content[j]) : c = <<j, p>>
      BY <2>3
    <3>2. c \in Semicolons(content)
      BY <1>1, <3>1, PlaceOfSemicolon
    <3>3. c[1] < j + 1
      BY <1>1, <3>1
    <3> QED BY <3>2, <3>3 DEF Before
  <2> HIDE DEF row
  <2> QED BY <2>1, <2>2, <2>3
<1>5. Before(i) \cap row = {}
  BY <1>1 DEF Before
<1>6. IsFiniteSet(row) /\ Cardinality(row) = Cardinality(SemicolonsOf(content[j]))
  BY <1>2, RowFinite
<1> HIDE DEF row
<1> QED BY <1>3, <1>4, <1>5, <1>6, Joined

(* A semicolon more at the end of the last line.                           *)
LEMMA OutputEnded ==
  ASSUME NEW text \in Seq(Kept), text # <<>>,
         \A p \in DOMAIN text[Len(text)].toks : text[Len(text)].toks[p] # "note"
  PROVE  Cardinality(Semicolons([text EXCEPT ![Len(text)] = EndWithSemicolon(@)]))
           = Cardinality(Semicolons(text)) + 1
<1> DEFINE n == Len(text)
           l == text[n]
           new == [text EXCEPT ![n] = EndWithSemicolon(l)]
           place == <<n, Len(l.toks) + 1>>
<1>1. /\ n \in 1 .. n /\ DOMAIN text = 1 .. n /\ DOMAIN new = 1 .. n /\ l \in Kept
      /\ new[n] = EndWithSemicolon(l) /\ \A k \in 1 .. n : k # n => new[k] = text[k]
  OBVIOUS
<1>2. SemicolonsOf(new[n]) = SemicolonsOf(l) \cup {Len(l.toks) + 1}
  BY <1>1, EndedRead
<1> HIDE DEF n, new, l
<1>3. \A p \in SemicolonsOf(l) : p # Len(l.toks) + 1
  <2>1. DOMAIN l.toks = 1 .. Len(l.toks) /\ Len(l.toks) \in Nat
    BY <1>1 DEF Kept
  <2> QED BY <2>1 DEF SemicolonsOf, Live
<1>4. Semicolons(new) = Semicolons(text) \cup {place}
  <2>1. ASSUME NEW c \in Semicolons(new)  PROVE c \in Semicolons(text) \cup {place}
    <3>1. PICK k \in DOMAIN new : \E p \in SemicolonsOf(new[k]) : c = <<k, p>>
      BY PlaceOfSemicolon
    <3>2. PICK p \in SemicolonsOf(new[k]) : c = <<k, p>>
      BY <3>1
    <3>3. k \in DOMAIN text
      BY <1>1
    <3>4. CASE k = n
      <4>1. p \in SemicolonsOf(text[k]) \/ c = place
        BY <1>2, <3>2, <3>4 DEF l
      <4> QED BY <3>2, <3>3, <4>1, PlaceOfSemicolon
    <3>5. CASE k # n
      <4>1. p \in SemicolonsOf(text[k])
        BY <1>1, <3>2, <3>5
      <4> QED BY <3>2, <3>3, <4>1, PlaceOfSemicolon
    <3> QED BY <3>4, <3>5
  <2>2. ASSUME NEW c \in Semicolons(text)  PROVE c \in Semicolons(new)
    <3>1. PICK k \in DOMAIN text : \E p \in SemicolonsOf(text[k]) : c = <<k, p>>
      BY PlaceOfSemicolon
    <3>2. PICK p \in SemicolonsOf(text[k]) : c = <<k, p>>
      BY <3>1
    <3>3. k \in DOMAIN new /\ p \in SemicolonsOf(new[k])
      BY <1>1, <1>2, <3>2 DEF l
    <3> QED BY <3>2, <3>3, PlaceOfSemicolon
  <2>3. place \in Semicolons(new)
    BY <1>1, <1>2, PlaceOfSemicolon
  <2> HIDE DEF place
  <2> QED BY <2>1, <2>2, <2>3
<1>5. place \notin Semicolons(text)
  <2> SUFFICES ASSUME NEW k \in DOMAIN text, NEW p \in SemicolonsOf(text[k]), place = <<k, p>>
               PROVE  FALSE
    BY PlaceOfSemicolon
  <2>1. k = n /\ p = Len(l.toks) + 1
    BY Zenon
  <2> QED BY <1>3, <2>1 DEF l
<1>6. IsFiniteSet(Semicolons(text))
  BY SemicolonsFinite
<1> HIDE DEF place
<1>7. Cardinality(Semicolons(new)) = Cardinality(Semicolons(text)) + 1
  BY <1>4, <1>5, <1>6, FS_AddElement
<1> QED BY <1>7 DEF new, n, l

(* The semicolon of a removed line is all that is read of it, and it finds *)
(* its home in the last line of the output, as the home is the last line   *)
(* that stayed.                                                            *)
LEMMA SemicolonMoves ==
  ASSUME Typed, Traced, LastAsIs, EndStep, ~Unterminated(content), ~Swallows(content)
  PROVE  /\ Cardinality(SemicolonsOf(content[i])) = 1
         /\ Moves
         /\ LET l == output[Len(output)] IN \A p \in DOMAIN l.toks : l.toks[p] # "note"
<1> DEFINE l == content[i]
           n == Len(output)
<1>1. /\ i \in DOMAIN content /\ content \in Seq(Lines) /\ i \in Nat /\ i >= 1
      /\ Removed(content, i) /\ Ends(l) /\ ~Stays(content, i)
      /\ l.toks \in Seq(Tokens) /\ DOMAIN l.toks = 1 .. Len(l.toks) /\ Len(l.toks) \in Nat
  <2>1. i \in DOMAIN content /\ content \in Seq(Lines) /\ i \in Nat /\ i >= 1
        /\ Removed(content, i) /\ Ends(l) /\ ~Stays(content, i)
    BY EndedStep DEF Ended, Typed, TypeOK
  <2> QED BY <2>1, LineFacts
<1>2. (\A p \in DOMAIN l.toks : l.toks[p] # "note") /\ \E j \in 1 .. i - 1 : Home(content, i, j)
  BY <1>1 DEF Unterminated
<1>3. Cardinality(SemicolonsOf(l)) = 1
  <2>1. PICK p \in DOMAIN l.toks : /\ l.toks[p] = "semi"
                                   /\ \A q \in p + 1 .. Len(l.toks) : l.toks[q] = "blank"
    BY <1>1 DEF Ends
  <2>2. \A q \in 1 .. Len(l.toks) : 1 .. q \subseteq 1 .. Len(l.toks)
    BY <1>1
  <2>3. Live(l) = 1 .. Len(l.toks)
    BY <1>1, <1>2, <2>2 DEF Live
  <2>4. ~IsName(l) /\ "semi" \notin Clauses
    BY <1>1, KindsOfLines, LineFacts DEF Removed, Clauses, Withs
  <2>5. \A q \in SemicolonsOf(l) : q = Len(l.toks)
    BY <1>1, <2>4, Beside DEF SemicolonsOf
  <2>6. p \in SemicolonsOf(l)
    BY <1>1, <2>1, <2>3 DEF SemicolonsOf
  <2>7. SemicolonsOf(l) = {p}
    BY <2>5, <2>6
  <2> QED BY <2>7, FS_Singleton
<1>4. PICK j \in 1 .. i - 1 : Home(content, i, j)
  BY <1>2
<1>5. /\ Stays(content, j)
      /\ \A m \in j + 1 .. i - 1 : ~Stays(content, m) /\ ~Ended(content, m)
  BY <1>4 DEF Home, Ended
<1>6. /\ n \in DOMAIN output /\ n # 0 /\ from[n] = j
  <2>1. /\ from \in Seq(1 .. i - 1) /\ Len(from) = n /\ DOMAIN from = 1 .. n /\ n \in Nat
        /\ DOMAIN output = 1 .. n
    BY DEF Typed, TypeOK
  <2>2. PICK k \in 1 .. n : from[k] = j
    BY <1>4, <1>5, <2>1 DEF Traced
  <2>3. n \in 1 .. n /\ from[n] \in 1 .. i - 1 /\ Stays(content, from[n])
    <3> DEFINE T == 1 .. i - 1
    <3>1. n \in 1 .. n /\ from \in Seq(T)
      BY <2>1, <2>2
    <3> HIDE DEF T
    <3>2. \A q \in 1 .. Len(from) : from[q] \in T
      BY <3>1
    <3> HIDE DEF n
    <3>3. from[n] \in 1 .. i - 1
      BY <2>1, <3>1, <3>2, Zenon DEF T
    <3>4. Stays(content, from[n])
      BY <2>1, <3>1, Zenon DEF Traced
    <3> QED BY <3>1, <3>3, <3>4
  <2>4. k < n => j < from[n]
    BY <2>1, <2>2, <2>3 DEF Traced
  <2>5. ~(from[n] \in j + 1 .. i - 1)
    BY <1>5, <2>3
  <2> QED BY <1>1, <1>4, <2>1, <2>2, <2>3, <2>4, <2>5
<1>7. output[n] = Remains(content, j) /\ j \in DOMAIN content
  <2>1. output[n] = Remains(content, from[n])
    BY <1>5, <1>6 DEF LastAsIs
  <2> QED BY <1>1, <1>6, <2>1
<1>8. Moves
  <2>1. output # <<>>
    BY <1>6
  <2>2. IF IsBody(l) THEN ~Ends(output[n]) ELSE IsLone(output[n])
    BY <1>4, <1>7 DEF Home
  <2> QED BY <2>1, <2>2 DEF Moves, line
<1>9. ASSUME NEW p \in DOMAIN output[n].toks  PROVE output[n].toks[p] # "note"
  <2>1. CASE IsBody(l)
    <3>1. \A q \in DOMAIN content[j].toks : content[j].toks[q] # "note"
      BY <1>4, <2>1 DEF Home
    <3>2. p \in DOMAIN content[j].toks
          /\ (output[n].toks[p] = content[j].toks[p] \/ output[n].toks[p] = "blank")
      BY <1>1, <1>5, <1>7, <1>9, RemainsFacts
    <3> QED BY <3>1, <3>2
  <2>2. CASE ~IsBody(l)
    <3>1. IsLone(output[n])
      BY <1>8, <2>2 DEF Moves, line
    <3> QED BY <1>9, <3>1 DEF IsLone
  <2> QED BY <2>1, <2>2
<1> QED BY <1>3, <1>8, <1>9

LEMMA CountedStep ==
  ASSUME Typed, Ahead, Traced, LastAsIs, Counted, Next  PROVE Counted'
<1>1. /\ i \in Nat /\ i >= 1 /\ content \in Seq(Lines) /\ output \in Seq(Kept)
      /\ DOMAIN content = 1 .. Len(content) /\ Len(content) \in Nat
  BY DEF Typed, TypeOK
<1>2. Cardinality(Semicolons(output)) \in Nat
  BY <1>1, SemicolonsFinite
<1> SUFFICES ASSUME ~Unterminated(content'), ~Swallows(content')
             PROVE  Cardinality(Semicolons(output')) = Cardinality(Before(i)')
  BY DEF Counted
<1>3. ASSUME NEW j, Passed(j)
      PROVE  /\ j \in 1 .. Len(content) /\ content' = content
             /\ Cardinality(Before(i)')
                  = Cardinality(Semicolons(output)) + Cardinality(SemicolonsOf(content[j]))
             /\ ~Stays(content, j) => SemicolonsOf(content[j]) = {}
  <2>1. /\ j \in i .. Len(content) /\ i' = j + 1 /\ content' = content /\ j \in 1 .. Len(content)
        /\ \A m \in i .. j - 1 : ~Stays(content, m) /\ ~Ended(content, m)
        /\ ~Ended(content, j)
    BY <1>1, <1>3 DEF Passed
  <2>2. ASSUME NEW m \in i .. j - 1  PROVE SemicolonsOf(content[m]) = {}
    <3>1. m \in DOMAIN content
      BY <1>1, <2>1
    <3> QED BY <1>1, <2>1, <3>1, Silent
  <2>3. Cardinality(Before(j + 1)) = Cardinality(Before(i)) + Cardinality(SemicolonsOf(content[j]))
    BY <2>1, <2>2, BeforeGrows
  <2>4. Before(i)' = Before(j + 1)
    BY <2>1 DEF Before
  <2>5. Cardinality(Semicolons(output)) = Cardinality(Before(i))
    BY <2>1 DEF Counted
  <2>6. ~Stays(content, j) => SemicolonsOf(content[j]) = {}
    BY <1>1, <2>1, Silent
  <2> QED BY <2>1, <2>3, <2>4, <2>5, <2>6
<1>4. ASSUME NEW j, KeepStep(j)  PROVE Cardinality(Semicolons(output')) = Cardinality(Before(i)')
  <2>1. /\ output' = Append(output, Remains(content, j)) /\ Remains(content, j) \in Kept
        /\ Stays(content, j) /\ j \in DOMAIN content /\ Passed(j)
    BY <1>1, <1>4, KeptLine DEF KeepStep
  <2>2. Cardinality(Semicolons(output'))
          = Cardinality(Semicolons(output)) + Cardinality(SemicolonsOf(Remains(content, j)))
    BY <1>1, <2>1, OutputGrows
  <2>3. SemicolonsOf(Remains(content, j)) = SemicolonsOf(content[j])
    BY <1>1, <2>1, StayLine
  <2> QED BY <1>3, <2>1, <2>2, <2>3
<1>5. ASSUME NEW j, DropStep(j)  PROVE Cardinality(Semicolons(output')) = Cardinality(Before(i)')
  <2>1. output' = output /\ ~Stays(content, j) /\ Passed(j)
    BY <1>5 DEF DropStep
  <2>2. Cardinality(SemicolonsOf(content[j])) = 0
    BY <1>3, <2>1, FS_EmptySet
  <2> QED BY <1>2, <1>3, <2>1, <2>2
<1>6. CASE EndStep
  <2>1. content' = content /\ i' = i + 1 /\ i \in DOMAIN content
    BY <1>6, EndedStep
  <2>2. /\ Cardinality(SemicolonsOf(content[i])) = 1 /\ Moves
        /\ \A p \in DOMAIN output[Len(output)].toks : output[Len(output)].toks[p] # "note"
    BY <1>6, <2>1, SemicolonMoves
  <2>3. output' = [output EXCEPT ![Len(output)] = EndWithSemicolon(@)] /\ output # <<>>
    BY <1>6, <2>2 DEF EndStep, Moves
  <2>4. Cardinality(Semicolons(output')) = Cardinality(Semicolons(output)) + 1
    BY <1>1, <2>2, <2>3, OutputEnded
  <2>5. Cardinality(Before(i + 1)) = Cardinality(Before(i)) + Cardinality(SemicolonsOf(content[i]))
    <3>1. i \in i .. Len(content) /\ i .. i - 1 = {}
      BY <1>1, <2>1
    <3> QED BY <3>1, BeforeGrows
  <2>6. Before(i)' = Before(i + 1)
    BY <2>1 DEF Before
  <2>7. Cardinality(Semicolons(output)) = Cardinality(Before(i))
    BY <2>1 DEF Counted
  <2> QED BY <2>2, <2>4, <2>5, <2>6, <2>7
<1> QED BY <1>4, <1>5, <1>6, StepKinds
(* What a statement is made of, place by place.                            *)
LEMMA PlaceOfCode ==
  ASSUME NEW text, NEW c
  PROVE  c \in Code(text) <=>
           \E k \in DOMAIN text : \E p \in DOMAIN text[k].toks :
             IsCode(text[k], p) /\ c = <<k, p, text[k].toks[p]>>
<1> DEFINE Row(k) == {<<k, p, text[k].toks[p]>> : p \in {q \in DOMAIN text[k].toks : IsCode(text[k], q)}}
<1>1. c \in Code(text) <=> \E k \in DOMAIN text : c \in Row(k)
  BY DEF Code
<1>2. \A k : c \in Row(k) <=> \E p \in DOMAIN text[k].toks :
                                 IsCode(text[k], p) /\ c = <<k, p, text[k].toks[p]>>
  OBVIOUS
<1> HIDE DEF Row
<1> QED BY <1>1, <1>2

(* A line of the output says what its line of the script says.             *)
LEMMA CodeOfLine ==
  ASSUME Typed, Traced, ~Swallows(content), NEW n \in DOMAIN output, NEW p
  PROVE  /\ from[n] \in DOMAIN content
         /\ IsCode(output[n], p) <=> IsCode(content[from[n]], p)
         /\ IsCode(output[n], p) => output[n].toks[p] = content[from[n]].toks[p]
<1> DEFINE k == from[n]
           l == content[k]
           r == Remains(content, k)
           o == output[n]
<1>1. /\ k \in DOMAIN content /\ Stays(content, k) /\ content \in Seq(Lines)
      /\ o = r \/ o = EndWithSemicolon(r)
  BY OutputLine DEF Typed
<1>2. /\ r \in Kept /\ DOMAIN l.toks = 1 .. Len(l.toks) /\ Len(r.toks) = Len(l.toks)
      /\ DOMAIN r.toks = DOMAIN l.toks /\ Len(l.toks) \in Nat /\ l.toks \in Seq(Tokens)
      /\ r.toks \in Seq(Tokens \cup {"blank"})
      /\ \A q \in DOMAIN l.toks :
           \/ r.toks[q] = l.toks[q]
           \/ r.toks[q] = "blank" /\ l.toks[q] \in Clauses
           \/ r.toks[q] = "blank" /\ q = 1 /\ InBlock(content, k) /\ l.toks[q] \in {"wend", "paren"}
  <2>1. r \in Kept
    BY <1>1, RemainsFacts
  <2>2. r.toks \in Seq(Tokens \cup {"blank"})
    BY <2>1 DEF Kept
  <2> QED BY <1>1, <2>1, <2>2, LineFacts, RemainsFacts
<1>3. Live(r) = Live(l) /\ ~IsName(l)
  BY <1>1, StayLine DEF Stays
<1> HIDE DEF k, l, r, o
<1>4. ~IsName(r)
  <2> SUFFICES ASSUME r.toks = <<"name">>  PROVE l.toks = <<"name">>
    BY <1>3 DEF IsName
  <2>1. Len(l.toks) = 1 /\ r.toks[1] = "name" /\ 1 \in DOMAIN l.toks
    <3>1. Len(r.toks) = 1 /\ r.toks[1] = "name"
      OBVIOUS
    <3>2. Len(l.toks) = 1
      BY <1>2, <3>1, Zenon
    <3>3. DOMAIN l.toks = 1 .. 1
      BY <1>2, <3>2, Zenon
    <3> QED BY <3>1, <3>2, <3>3
  <2>2. l.toks[1] = "name"
    BY <1>2, <2>1
  <2> QED BY <1>2, <2>1, <2>2
<1>5. ~IsName(o)
  <2>1. CASE o = EndWithSemicolon(r)
    <3>1. /\ Len(o.toks) = Len(r.toks) + 1 /\ o.toks[Len(o.toks)] = "semi"
      BY <1>2, <2>1, EndedLine
    <3>2. CASE o.toks = <<"name">>
      BY <3>1, <3>2
    <3> QED BY <3>2 DEF IsName
  <2> QED BY <1>1, <1>4, <2>1 DEF k, l, r, o
<1>6. IsCode(r, p) <=> IsCode(l, p)
  <2>1. ASSUME p \in Live(l)
        PROVE  r.toks[p] \notin Clauses \cup {"semi", "blank"} <=>
                 l.toks[p] \notin Clauses \cup {"semi", "blank"}
    <3>1. p \in DOMAIN l.toks /\ l.toks[p] # "blank"
      <4>1. p \in DOMAIN l.toks
        BY <2>1 DEF Live
      <4> QED BY <1>2, <4>1 DEF Tokens, Clauses, Withs
    <3>2. CASE r.toks[p] = l.toks[p]
      BY <3>2
    <3>3. CASE r.toks[p] = "blank" /\ l.toks[p] \in Clauses
      BY <3>3
    <3>4. CASE r.toks[p] = "blank" /\ p = 1 /\ InBlock(content, k) /\ l.toks[p] \in {"wend", "paren"}
      <4>1. l.toks[p] \in Clauses
        BY <1>1, <2>1, <3>4 DEF Swallows, k, l
      <4> QED BY <3>4, <4>1
    <3> QED BY <1>2, <3>1, <3>2, <3>3, <3>4
  <2> QED BY <1>3, <1>4, <2>1 DEF IsCode
<1>7. ASSUME IsCode(r, p)  PROVE r.toks[p] = l.toks[p] /\ p \in 1 .. Len(r.toks)
  <2>1. p \in DOMAIN r.toks /\ r.toks[p] # "blank"
    BY <1>7 DEF IsCode, Live
  <2> QED BY <1>2, <2>1
<1>8. CASE o = EndWithSemicolon(r)
  <2>1. /\ DOMAIN o.toks = 1 .. Len(r.toks) + 1 /\ o.toks[Len(r.toks) + 1] = "semi"
        /\ \A q \in 1 .. Len(r.toks) : o.toks[q] = r.toks[q] /\ (q \in Live(o) <=> q \in Live(r))
    BY <1>2, <1>8, EndedLine, EndedRead
  <2>2. ASSUME IsCode(o, p)  PROVE p \in 1 .. Len(r.toks) /\ IsCode(r, p)
    <3>1. p \in DOMAIN o.toks /\ p \in Live(o) /\ o.toks[p] \notin Clauses \cup {"semi", "blank"}
      BY <2>2 DEF IsCode, Live
    <3>2. p \in 1 .. Len(r.toks)
      BY <1>2, <2>1, <3>1
    <3> QED BY <1>4, <2>1, <3>1, <3>2 DEF IsCode
  <2>3. ASSUME IsCode(r, p)  PROVE IsCode(o, p) /\ o.toks[p] = l.toks[p]
    <3>1. p \in Live(r) /\ r.toks[p] \notin Clauses \cup {"semi", "blank"}
      BY <2>3 DEF IsCode
    <3> QED BY <1>5, <1>7, <2>1, <2>3, <3>1 DEF IsCode
  <2> QED BY <1>1, <1>6, <2>2, <2>3 DEF k, l, o
<1>9. CASE o = r
  BY <1>1, <1>6, <1>7, <1>9 DEF k, l, o
<1> QED BY <1>1, <1>8, <1>9 DEF k, l, r, o
-----------------------------------------------------------------------------
(* Every reachable state has its output traced to the lines it comes from. *)
THEOREM Inductive == Spec => []IInv
<1>1. Init => IInv
  <2> SUFFICES ASSUME Init  PROVE IInv
    OBVIOUS
  <2>1. content \in Seq(Lines) /\ i = 1 /\ output = <<>> /\ from = <<>>
    BY ScriptAssumption DEF Init
  <2>2. Typed
    BY <2>1 DEF Typed, TypeOK
  <2>3. Ahead /\ Traced /\ LastAsIs
    BY <2>1 DEF Ahead, Traced, LastAsIs
  <2>4. Counted
    <3>1. Semicolons(output) = {}
      BY <2>1, PlaceOfSemicolon
    <3>2. Before(i) = {}
      <4> SUFFICES ASSUME NEW c \in Semicolons(content), c[1] < 1  PROVE FALSE
        BY <2>1 DEF Before
      <4>1. PICK k \in DOMAIN content : \E p \in SemicolonsOf(content[k]) : c = <<k, p>>
        BY PlaceOfSemicolon
      <4>2. c[1] = k /\ k \in 1 .. Len(content) /\ Len(content) \in Nat
        BY <2>1, <4>1
      <4> QED BY <4>2
    <3> QED BY <3>1, <3>2 DEF Counted
  <2> QED BY <2>2, <2>3, <2>4 DEF IInv
<1>2. IInv /\ [Next]_vars => IInv'
  <2> SUFFICES ASSUME IInv, [Next]_vars  PROVE IInv'
    OBVIOUS
  <2>1. CASE Next
    <3>1. Typed /\ Ahead /\ Traced /\ LastAsIs /\ Counted
      BY DEF IInv
    <3> QED BY <2>1, <3>1, TypedStep, AheadStep, TracedStep, LastAsIsStep, CountedStep DEF IInv
  <2>2. CASE UNCHANGED vars
    BY <2>2 DEF vars, IInv, Typed, TypeOK, Ahead, Traced, LastAsIs, Counted, Before
  <2> QED BY <2>1, <2>2
<1> QED BY <1>1, <1>2, PTL DEF Spec

(* The output is made of lines of the script, none of them passed twice.   *)
THEOREM TypeCorrect == Spec => []TypeOK
<1>1. IInv => TypeOK
  BY DEF IInv, Typed
<1> QED BY <1>1, Inductive, PTL

(* The statements of the result are those of the script.                   *)
THEOREM StatementsApart == Spec => []StatementsStayApart
<1>1. IInv => StatementsStayApart
  <2> SUFFICES ASSUME IInv, Done, ~Unterminated(content), ~Swallows(content)
               PROVE  Cardinality(Semicolons(output)) = Cardinality(Semicolons(content))
    BY DEF StatementsStayApart
  <2>1. \A k \in DOMAIN content : k < i
    BY DEF IInv, Typed, TypeOK, Done
  <2>2. ASSUME NEW c \in Semicolons(content)  PROVE c[1] < i
    <3>1. PICK k \in DOMAIN content : \E p \in SemicolonsOf(content[k]) : c = <<k, p>>
      BY PlaceOfSemicolon
    <3> QED BY <2>1, <3>1
  <2>3. Before(i) = Semicolons(content)
    BY <2>2 DEF Before
  <2> QED BY <2>3 DEF IInv, Counted
<1> QED BY <1>1, Inductive, PTL

(* Nothing but clauses, bare names and semicolons is lost or moved.        *)
THEOREM KeepsCode == Spec => []CodeKept
<1>1. IInv => CodeKept
  <2> SUFFICES ASSUME IInv, Done, ~Swallows(content)
               PROVE  /\ \A j, k \in DOMAIN from : j < k => from[j] < from[k]
                      /\ Code(content) = {<<from[c[1]], c[2], c[3]>> : c \in Code(output)}
    BY DEF CodeKept
  <2>1. /\ Typed /\ Traced /\ content \in Seq(Lines) /\ DOMAIN from = DOMAIN output
        /\ \A k \in DOMAIN content : k \in 1 .. i - 1
    BY DEF IInv, Typed, TypeOK, Done
  <2>2. \A j, k \in DOMAIN from : j < k => from[j] < from[k]
    BY <2>1 DEF Traced
  <2>3. ASSUME NEW n \in DOMAIN output, NEW p
        PROVE  /\ from[n] \in DOMAIN content
               /\ IsCode(output[n], p) <=> IsCode(content[from[n]], p)
               /\ IsCode(output[n], p) => output[n].toks[p] = content[from[n]].toks[p]
    BY <2>1, CodeOfLine
  <2>4. ASSUME NEW x \in Code(content)
        PROVE  \E c \in Code(output) : x = <<from[c[1]], c[2], c[3]>>
    <3>1. PICK k \in DOMAIN content : \E p \in DOMAIN content[k].toks :
                 IsCode(content[k], p) /\ x = <<k, p, content[k].toks[p]>>
      BY PlaceOfCode
    <3>2. PICK p \in DOMAIN content[k].toks :
                 IsCode(content[k], p) /\ x = <<k, p, content[k].toks[p]>>
      BY <3>1
    <3>3. Stays(content, k)
      BY <2>1, <3>2, Silent
    <3>4. PICK n \in DOMAIN output : from[n] = k
      BY <2>1, <3>3 DEF Traced
    <3>5. IsCode(output[n], p) /\ output[n].toks[p] = content[k].toks[p]
      BY <2>3, <3>2, <3>4
    <3>6. p \in DOMAIN output[n].toks
      BY <3>5 DEF IsCode, Live
    <3>7. <<n, p, output[n].toks[p]>> \in Code(output)
      BY <3>5, <3>6, PlaceOfCode
    <3> QED BY <3>2, <3>4, <3>5, <3>7
  <2>5. ASSUME NEW c \in Code(output)  PROVE <<from[c[1]], c[2], c[3]>> \in Code(content)
    <3>1. PICK n \in DOMAIN output : \E p \in DOMAIN output[n].toks :
                 IsCode(output[n], p) /\ c = <<n, p, output[n].toks[p]>>
      BY PlaceOfCode
    <3>2. PICK p \in DOMAIN output[n].toks :
                 IsCode(output[n], p) /\ c = <<n, p, output[n].toks[p]>>
      BY <3>1
    <3>3. /\ from[n] \in DOMAIN content /\ IsCode(content[from[n]], p)
          /\ output[n].toks[p] = content[from[n]].toks[p]
      BY <2>3, <3>2
    <3>4. p \in DOMAIN content[from[n]].toks
      BY <3>3 DEF IsCode, Live
    <3>5. <<from[n], p, content[from[n]].toks[p]>> \in Code(content)
      BY <3>3, <3>4, PlaceOfCode
    <3> QED BY <3>2, <3>3, <3>5
  <2> QED BY <2>2, <2>4, <2>5
<1> QED BY <1>1, Inductive, PTL

(* What is left of a clause is what no rule sees.                          *)
THEOREM NoClauseLeft == Spec => []ClausesGone
<1>1. IInv => ClausesGone
  <2> SUFFICES ASSUME IInv, NEW k \in DOMAIN output, NEW p \in Live(output[k]),
                      output[k].toks[p] \in Clauses
               PROVE  Overlooked(content, from[k], p)
    BY DEF ClausesGone
  <2> DEFINE l == content[from[k]]
             r == Remains(content, from[k])
  <2>1. /\ from[k] \in DOMAIN content /\ Stays(content, from[k]) /\ content \in Seq(Lines)
        /\ output[k] = r \/ output[k] = EndWithSemicolon(r)
        /\ r \in Kept /\ DOMAIN l.toks = 1 .. Len(l.toks) /\ Len(r.toks) = Len(l.toks)
        /\ DOMAIN r.toks = DOMAIN l.toks /\ Len(l.toks) \in Nat
    BY OutputLine, LineFacts, RemainsFacts DEF IInv, Typed
  <2>2. p \in DOMAIN l.toks /\ output[k].toks[p] = r.toks[p]
    <3>1. p \in DOMAIN output[k].toks /\ "semi" \notin Clauses
      BY DEF Live, Clauses, Withs
    <3> HIDE DEF l, r
    <3>2. CASE output[k] = r
      BY <2>1, <3>1, <3>2
    <3>3. CASE output[k] = EndWithSemicolon(r)
      <4> DEFINE e == EndWithSemicolon(r)
      <4>1. /\ DOMAIN e.toks = 1 .. Len(r.toks) + 1 /\ e.toks[Len(r.toks) + 1] = "semi"
            /\ \A q \in 1 .. Len(r.toks) : e.toks[q] = r.toks[q]
        BY <2>1, EndedLine
      <4>2. output[k].toks = e.toks
        BY <3>3
      <4> HIDE DEF e
      <4>3. p \in 1 .. Len(r.toks)
        <5>1. p # Len(r.toks) + 1
          BY <3>1, <4>1, <4>2
        <5> QED BY <2>1, <3>1, <4>1, <4>2, <5>1
      <4> QED BY <2>1, <4>1, <4>2, <4>3
    <3> QED BY <2>1, <3>2, <3>3
  <2>3. \A q \in DOMAIN l.toks : r.toks[q] \in Clauses => Overlooked(content, from[k], q)
    BY <2>1, RemainsFacts
  <2>4. r.toks[p] \in Clauses
    BY <2>2
  <2> HIDE DEF l, r
  <2> QED BY <2>2, <2>3, <2>4, Zenon
<1> QED BY <1>1, Inductive, PTL

=============================================================================
