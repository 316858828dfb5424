------------------------------ MODULE SqlBuffer ------------------------------
(***************************************************************************)
(* How the Studio editor cuts a SQL buffer into the statements it sends to *)
(* Trino, which takes one statement per request: at the semicolons that    *)
(* stand outside comments, strings and quoted identifiers.  A buffer is a  *)
(* sequence of characters; "x" stands for every character without a role,  *)
(* " " for white space that does not end a line.                           *)
(***************************************************************************)
EXTENDS Naturals, Sequences, FiniteSets

CONSTANTS
  MaxLength   \* bound: characters of a buffer

VARIABLE buffer   \* what has been typed so far

ASSUME BufferAssumption == MaxLength \in Nat

NL == "\n"
White == {NL, " "}
Chars == {"x", ";", "'", "\"", "-", "/", "*"} \cup White

BufferInit == buffer = <<>>

Type(c) ==
  /\ Len(buffer) < MaxLength
  /\ buffer' = Append(buffer, c)

Filled == Len(buffer) = MaxLength /\ UNCHANGED buffer

BufferNext == (\E c \in Chars : Type(c)) \/ Filled

BufferSpec == BufferInit /\ [][BufferNext]_buffer

-----------------------------------------------------------------------------
(* The scanner of split_sql_statements: a mode, one or two characters at a *)
(* time.                                                                   *)
Two(s, i, c, d) == i < Len(s) /\ s[i] = c /\ s[i + 1] = d
To(mode, width) == [mode |-> mode, width |-> width]

InQuotes(s, i, q) ==
  IF Two(s, i, q, q) THEN To(q, 2) ELSE To(IF s[i] = q THEN "code" ELSE q, 1)

InLine(s, i) == To(IF s[i] = NL THEN "code" ELSE "line", 1)
InBlock(s, i) == IF Two(s, i, "*", "/") THEN To("code", 2) ELSE To("block", 1)

(* (A mistake: the star that opens a comment may close it again.)          *)
InCodeByOne(s, i) ==
  CASE Two(s, i, "-", "-") -> To("line", 2)
    [] Two(s, i, "/", "*") -> To("block", 1)
    [] s[i] \in {"'", "\""} -> To(s[i], 1)
    [] OTHER -> To("code", 1)

InCode(s, i) ==
  CASE Two(s, i, "-", "-") -> To("line", 2)
    [] Two(s, i, "/", "*") -> To("block", 2)
    [] s[i] \in {"'", "\""} -> To(s[i], 1)
    [] OTHER -> To("code", 1)

Scan(s, i, mode) ==
  CASE mode = "line" -> InLine(s, i)
    [] mode = "block" -> InBlock(s, i)
    [] mode \in {"'", "\""} -> InQuotes(s, i, mode)
    [] mode = "code" -> InCode(s, i)

Modes == {"code", "line", "block", "'", "\""}

(* Where the loop stands after each of its rounds: at a character, in a    *)
(* mode.                                                                   *)
Round(s, p) ==
  IF p[1] > Len(s) THEN p
  ELSE LET next == Scan(s, p[1], p[2]) IN <<p[1] + next.width, next.mode>>

Passed(s) ==
  LET at[n \in 0..Len(s)] == IF n = 0 THEN <<1, "code">> ELSE Round(s, at[n - 1])
  IN  {at[n] : n \in 0..Len(s)}

InTheOpen(s) == {i \in 1..Len(s) : <<i, "code">> \in Passed(s)}

Cuts(s) == {i \in InTheOpen(s) : s[i] = ";"}

(* is_comment_or_whitespace_only: the same loop, that gives up at the      *)
(* first character which is neither.                                       *)
CommentOnly(s) ==
  \A i \in InTheOpen(s) : s[i] \in White \/ InCode(s, i).mode \in {"line", "block"}

Trim(s) ==
  LET solid == {i \in DOMAIN s : s[i] \notin White} IN
  IF solid = {} THEN <<>>
  ELSE SubSeq(s, CHOOSE i \in solid : \A j \in solid : i <= j,
                 CHOOSE i \in solid : \A j \in solid : i >= j)

(* A set of numbers, in order.                                             *)
Ascending(S) ==
  CHOOSE f \in [1..Cardinality(S) -> S] : \A a, b \in DOMAIN f : a < b => f[a] < f[b]

(* The pieces between cuts, trimmed, but for those without a statement.    *)
Pieces(s, cuts) ==
  LET ends == Ascending(cuts \cup {Len(s) + 1}) IN
  [n \in DOMAIN ends |->
     Trim(SubSeq(s, IF n = 1 THEN 1 ELSE ends[n - 1] + 1, ends[n] - 1))]

SplitSqlStatements(s) ==
  LET pieces == Pieces(s, Cuts(s))
      kept == Ascending({n \in DOMAIN pieces : ~CommentOnly(pieces[n])})
  IN  [n \in DOMAIN kept |-> pieces[kept[n]]]

-----------------------------------------------------------------------------
(* What a buffer means: the sequence of its lexemes, each the longest one  *)
(* that starts where the one before it ended.  A lexeme that is not closed *)
(* runs to the end of the buffer; the first end of a block comment closes  *)
(* it, by the rule of ANSI SQL.                                            *)
Begins(t, c, d) == Len(t) >= 2 /\ t[1] = c /\ t[2] = d
Count(t, c) == Cardinality({i \in DOMAIN t : t[i] = c})

LineComment(t) == Begins(t, "-", "-") /\ \A i \in 1..(Len(t) - 1) : t[i] # NL
BlockComment(t) ==
  Begins(t, "/", "*") /\ \A i \in 3..(Len(t) - 2) : ~(t[i] = "*" /\ t[i + 1] = "/")
(* In a string every quote but the first and last is one of a pair.        *)
Quoted(t) ==
  /\ t[1] \in {"'", "\""}
  /\ \A n \in 1..(Len(t) - 1) :
       Count(SubSeq(t, 1, n), t[1]) % 2 = 0 => t[n] = t[1] /\ t[n + 1] = t[1]

Lexeme(t) == Len(t) = 1 \/ LineComment(t) \/ BlockComment(t) \/ Quoted(t)

(* The first character after the longest lexeme that starts at i.          *)
After(s, i) ==
  CHOOSE j \in (i + 1)..(Len(s) + 1) :
    /\ Lexeme(SubSeq(s, i, j - 1))
    /\ \A k \in (j + 1)..(Len(s) + 1) : ~Lexeme(SubSeq(s, i, k - 1))

Starts(s) ==
  LET start[n \in 0..Len(s)] ==
        IF n = 0 THEN 1
        ELSE IF start[n - 1] > Len(s) THEN start[n - 1] ELSE After(s, start[n - 1])
  IN  {start[n] : n \in 0..Len(s)} \ {Len(s) + 1}

Solid(t) == ~LineComment(t) /\ ~BlockComment(t) /\ t[1] \notin White

TopLevel(s) == {i \in Starts(s) : s[i] = ";"}

(* The pieces between top-level semicolons that hold some other lexeme.    *)
Meant(s) ==
  LET ends == Ascending(TopLevel(s) \cup {Len(s) + 1})
      From(n) == IF n = 1 THEN 1 ELSE ends[n - 1] + 1
      Holds(n) == \E i \in Starts(s) \cap From(n)..(ends[n] - 1) :
                    Solid(SubSeq(s, i, After(s, i) - 1))
      kept == Ascending({n \in DOMAIN ends : Holds(n)})
  IN  [n \in DOMAIN kept |-> Trim(SubSeq(s, From(kept[n]), ends[kept[n]] - 1))]

-----------------------------------------------------------------------------
(* "Split a SQL buffer on TOP-LEVEL semicolons": the scanner cuts every    *)
(* buffer where its lexemes say, and drops the pieces that hold nothing    *)
(* but comments and white space, and no others.  Block comments do not     *)
(* nest, as the comment inside the function has it, and a buffer without a *)
(* statement has no pieces; the comment above the function says otherwise  *)
(* of both.                                                                *)
SplitsAsMeant == SplitSqlStatements(buffer) = Meant(buffer)
=============================================================================
