----------------------------- MODULE DiskSelect -----------------------------
(***************************************************************************)
(* The disk selection language of `disk add --osd-match` (dsl/): lexer,    *)
(* parser, validation and evaluation, and the selection of disks with it   *)
(* (ceph/osd.go, common/storage.go). All of it is pure: a behaviour writes  *)
(* an input, one character, token or operand after the other, and the      *)
(* properties compare the operators with a reference on every input.       *)
(***************************************************************************)
EXTENDS Integers, SequencesExt

CONSTANTS
    MaxRecursionDepth,  \* nesting of an expression
    Disks,              \* records [type, size, busy]
    MinOSDSize,
    Tokens, MaxTokens,  \* tokens an input is written of
    Alphabet, MaxText,  \* characters an input is written of
    Operands, Operators \* expressions and functions an input is written of

VARIABLE input          \* [text], [tokens] or [expr]

-----------------------------------------------------------------------------
(* Lexer, on characters by kind: ' " \ newline, blank, letter, the letter n  *)
(* of an escape, digit, punctuation, and any other.                          *)

Letters == {"x", "n"}
Punctuation == {"(", ")", ",", "@"}
Chars == Letters \cup Punctuation \cup {"'", "\"", "\\", "nl", " ", "9", ".", "-", "?"}

\* The first position from p on whose character is none of cs.
Span(s, p, cs) == Min({i \in p .. (Len(s) + 1) : i = Len(s) + 1 \/ s[i] \notin cs})
Char(s, i) == IF i <= Len(s) THEN s[i] ELSE "end"
Token(type, value, next) == [type |-> type, value |-> value, next |-> next]
TokenError(p) == Token("error", <<>>, p)

\* Single quotes: '' stands for a quote.
RECURSIVE scanRawString(_, _, _)
scanRawString(s, i, value) ==
    IF i > Len(s) THEN TokenError(i)
    ELSE IF s[i] # "'" THEN scanRawString(s, i + 1, Append(value, s[i]))
    ELSE IF Char(s, i + 1) = "'" THEN scanRawString(s, i + 2, Append(value, "'"))
    ELSE Token("string", value, i + 1)

\* Double quotes: \\ \" \n (and \t \r) are escapes, any other is an error, and so
\* is a newline.
Escaped(c) == IF c = "n" THEN "nl" ELSE c

RECURSIVE scanEscapedString(_, _, _)
scanEscapedString(s, i, value) ==
    IF i > Len(s) \/ Char(s, i) = "nl" THEN TokenError(i)
    ELSE IF s[i] = "\"" THEN Token("string", value, i + 1)
    ELSE IF s[i] # "\\" THEN scanEscapedString(s, i + 1, Append(value, s[i]))
    ELSE IF Char(s, i + 1) \notin {"\\", "\"", "n"} THEN TokenError(i + 1)
    ELSE scanEscapedString(s, i + 2, Append(value, Escaped(s[i + 1])))

scanIdentOrKeyword(s, p) ==
    LET e == Span(s, p, Letters \cup {"9"}) IN Token("ident", SubSeq(s, p, e - 1), e)

\* A sign, digits with a point among them, letters of a unit.
scanNumber(s, p) ==
    LET sign == IF s[p] = "-" THEN p + 1 ELSE p
        whole == Span(s, sign, {"9"})
        point == IF Char(s, whole) = "." THEN whole + 1 ELSE whole
        digits == Span(s, point, {"9"})
        e == Span(s, digits, Letters)
    IN  IF whole = sign /\ digits = point THEN TokenError(digits)
        ELSE Token("number", SubSeq(s, p, e - 1), e)

\* A character that starts no token is skipped with the error.
UnexpectedKept(p) == TokenError(p)
Unexpected(p) == TokenError(p + 1)
NextToken(s, from) ==
    LET p == Span(s, from, {" ", "nl"}) IN
    IF p > Len(s) THEN Token("EOF", <<>>, p)
    ELSE CASE s[p] \in Punctuation -> Token(s[p], <<s[p]>>, p + 1)
           [] s[p] = "'" -> scanRawString(s, p + 1, <<>>)
           [] s[p] = "\"" -> scanEscapedString(s, p + 1, <<>>)
           [] s[p] \in Letters -> scanIdentOrKeyword(s, p)
           [] s[p] \in {"9", ".", "-"} -> scanNumber(s, p)
           [] OTHER -> Unexpected(p)
-----------------------------------------------------------------------------
(* Parser, on tokens [type, value]; an expression is a call, a variable or a *)
(* literal.                                                                  *)

Fail == [ok |-> FALSE]
Tok(ts, i) == IF i <= Len(ts) THEN ts[i].type ELSE "EOF"
Parsed(e, i, d) == [ok |-> TRUE, e |-> e, i |-> i, d |-> d]

\* p.depth goes up when an expression begins and down when it ends.
Stay(d) == d
Leave(d) == d - 1

\* ParseNumberWithUnit: KiB counts in 1024s, KB and the shorthand K in 1000s (M
\* and up likewise); a unit of any other name is an error.
unitMultipliers == [B |-> 1, KIB |-> 1024, KB |-> 1000, K |-> 1000]
ParseNumberWithUnit(v) ==
    CASE v.unit = "" -> [ok |-> TRUE, bytes |-> v.n]
      [] v.unit \in DOMAIN unitMultipliers -> [ok |-> TRUE, bytes |-> v.n * unitMultipliers[v.unit]]
      [] OTHER -> [ok |-> FALSE]
parseNumber(ts, i, d) ==
    LET n == ParseNumberWithUnit(ts[i].value) IN
    IF n.ok THEN Parsed([num |-> n.bytes], i + 1, d) ELSE Fail

RECURSIVE parseExpression(_, _, _), parseArgs(_, _, _)
parseFunctionCall(ts, i, d) ==
    IF Tok(ts, i + 1) # "(" THEN Fail
    ELSE LET Call(args) == [call |-> ts[i].value, args |-> args] IN
         IF Tok(ts, i + 2) = ")" THEN Parsed(Call(<<>>), i + 3, d)
         ELSE LET a == parseArgs(ts, i + 2, d) IN
              IF ~a.ok \/ (a.ok /\ Tok(ts, a.i) # ")") THEN Fail
              ELSE Parsed(Call(a.e), a.i + 1, a.d)
parseArgs(ts, i, d) ==
    LET a == parseExpression(ts, i, d) IN
    IF ~a.ok THEN Fail
    ELSE IF Tok(ts, a.i) # "," THEN Parsed(<<a.e>>, a.i, a.d)
    ELSE LET rest == parseArgs(ts, a.i + 1, a.d) IN
         IF ~rest.ok THEN Fail ELSE [rest EXCEPT !.e = <<a.e>> \o @]
parseVariable(ts, i, d) ==
    IF Tok(ts, i + 1) # "ident" THEN Fail
    ELSE Parsed([var |-> ts[i + 1].value], i + 2, d)
parseExpression(ts, i, d) ==
    LET r == CASE d + 1 > MaxRecursionDepth -> Fail
               [] Tok(ts, i) = "ident" -> parseFunctionCall(ts, i, d + 1)
               [] Tok(ts, i) = "@" -> parseVariable(ts, i, d + 1)
               [] Tok(ts, i) = "string" -> Parsed([str |-> ts[i].value], i + 1, d + 1)
               [] Tok(ts, i) = "number" -> parseNumber(ts, i, d + 1)
               [] Tok(ts, i) = "bool" -> Parsed([bool |-> ts[i].value], i + 1, d + 1)
               [] OTHER -> Fail
    IN  IF r.ok THEN [r EXCEPT !.d = Leave(@)] ELSE Fail
Parse(ts) ==
    LET r == parseExpression(ts, 1, 0) IN
    IF r.ok THEN IF Tok(ts, r.i) = "EOF" THEN [ok |-> TRUE, e |-> r.e] ELSE Fail ELSE Fail
-----------------------------------------------------------------------------
(* Validation and evaluation. *)

KnownFunctions == {"and", "or", "not", "in", "re", "eq", "ne", "gt", "ge", "lt", "le"}
KnownVariables == {"type", "vendor", "model", "size", "devnode", "host"}
IsCall(e) == "call" \in DOMAIN e

RECURSIVE Validate(_)
Validate(e) ==
    IF IsCall(e) THEN e.call \in KnownFunctions /\ \A i \in DOMAIN e.args : Validate(e.args[i])
    ELSE "var" \in DOMAIN e => e.var \in KnownVariables

\* Values by type. A string is given with its rank in byte order and its form
\* without case.
Strings == {"", "1", "SSD", "hdd", "ssd", "true"}
Rank == [x \in Strings |-> CASE x = "" -> 0 [] x = "1" -> 1 [] x = "SSD" -> 2
                              [] x = "hdd" -> 3 [] x = "ssd" -> 4 [] x = "true" -> 5]
Fold(x) == IF x = "SSD" THEN "ssd" ELSE x
B(b) == [t |-> "bool", b |-> b]
S(x) == [t |-> "string", s |-> x]
N(n) == [t |-> "number", n |-> n]
Err(why) == [t |-> "error", why |-> why]
IsErr(v) == v.t = "error"
Bool(v) == CASE v.t = "bool" -> v.b [] v.t = "string" -> v.s # "" [] v.t = "number" -> v.n # 0
String(v) == CASE v.t = "bool" -> (IF v.b THEN "true" ELSE "false")
               [] v.t = "string" -> v.s
               [] v.t = "number" -> (IF v.n = 1 THEN "1" ELSE "other")

\* The four variables about the model, node and host are strings like type.
ResolveVariable(name, disk) ==
    CASE name = "size" -> N(disk.size)
      [] name \in KnownVariables \ {"size"} -> S(disk.type)
      [] OTHER -> Err("unknown")

valuesEqual(a, b) ==
    CASE a.t = "number" /\ b.t = "number" -> a.n = b.n
      [] a.t = "bool" /\ b.t = "bool" -> a.b = b.b
      [] OTHER -> Fold(String(a)) = Fold(String(b))
compareValues(a, b) ==
    CASE a.t = "number" /\ b.t = "number" -> N(a.n - b.n)
      [] a.t = "string" /\ b.t = "string" -> N(Rank[a.s] - Rank[b.s])
      [] OTHER -> Err("mixed")

\* The regular expressions of the examples are literals.
Matches(pattern, value) == Fold(pattern) \in {"", Fold(value)}

\* Arguments are evaluated from the left until one decides or fails.
FirstError(vs) == vs[Min({i \in DOMAIN vs : IsErr(vs[i])})]
DecidesFirst(vs, stop) == IF vs = <<>> THEN B(~stop) ELSE IF IsErr(vs[1]) THEN vs[1] ELSE B(Bool(vs[1]))
Decides(vs, stop) ==
    LET at == {i \in DOMAIN vs : IsErr(vs[i]) \/ Bool(vs[i]) = stop} IN
    IF at = {} THEN B(~stop)
    ELSE IF IsErr(vs[Min(at)]) THEN vs[Min(at)] ELSE B(stop)
evalIn(vs) ==
    LET at == {i \in 2 .. Len(vs) : IsErr(vs[i]) \/ valuesEqual(vs[1], vs[i])} IN
    IF IsErr(vs[1]) THEN vs[1]
    ELSE IF at = {} THEN B(FALSE)
    ELSE IF IsErr(vs[Min(at)]) THEN vs[Min(at)] ELSE B(TRUE)
Ordered(op, c) ==
    IF IsErr(c) THEN c
    ELSE B(CASE op = "gt" -> c.n > 0 [] op = "ge" -> c.n >= 0
             [] op = "lt" -> c.n < 0 [] op = "le" -> c.n <= 0)
evalComparison(op, vs) ==
    IF \E i \in 1..2 : IsErr(vs[i]) THEN FirstError(vs)
    ELSE CASE op = "eq" -> B(valuesEqual(vs[1], vs[2]))
           [] op = "ne" -> B(~valuesEqual(vs[1], vs[2]))
           [] op = "re" -> B(Matches(String(vs[1]), String(vs[2])))
           [] OTHER -> Ordered(op, compareValues(vs[1], vs[2]))

RECURSIVE Eval(_, _)
evalFunction(e, disk) ==
    LET vs == [i \in DOMAIN e.args |-> Eval(e.args[i], disk)]
        n == Len(e.args)
    IN  CASE e.call = "and" -> Decides(vs, FALSE)
          [] e.call = "or" -> Decides(vs, TRUE)
          [] e.call = "not" -> IF n # 1 THEN Err("arity")
                               ELSE IF IsErr(vs[1]) THEN vs[1] ELSE B(~Bool(vs[1]))
          [] e.call = "in" -> IF n < 2 THEN Err("arity") ELSE evalIn(vs)
          [] e.call \in KnownFunctions \ {"and", "or", "not", "in"} ->
                IF n # 2 THEN Err("arity") ELSE evalComparison(e.call, vs)
          [] OTHER -> Err("unknown")
Eval(e, disk) ==
    CASE IsCall(e) -> evalFunction(e, disk)
      [] "var" \in DOMAIN e -> ResolveVariable(e.var, disk)
      [] "str" \in DOMAIN e -> S(e.str)
      [] "num" \in DOMAIN e -> N(e.num)
      [] OTHER -> B(e.bool)

\* FilterAvailableDisks: writable, without partitions, large enough, and not
\* configured, mounted or used by an OSD.
FilterAvailableDisks == {d \in Disks : ~d.busy /\ d.size >= MinOSDSize}

\* matchOSDDisksWithDSL: an error on one disk, even one that would not match,
\* rejects the request.
matchOSDDisksWithDSL(e) ==
    LET failed == {d \in FilterAvailableDisks : IsErr(Eval(e, d))} IN
    IF ~Validate(e) \/ failed # {} THEN [ok |-> FALSE, disks |-> {}]
    ELSE [ok |-> TRUE, disks |-> {d \in FilterAvailableDisks : Bool(Eval(e, d))}]
-----------------------------------------------------------------------------
(* Inputs. *)

Init == input \in {[text |-> <<>>], [tokens |-> <<>>]} \cup [expr : Operands]

Is(kind) == kind \in DOMAIN input
Type == /\ Is("text") /\ Len(input.text) < MaxText
        /\ \E c \in Alphabet : input' = [text |-> Append(input.text, c)]
Put == /\ Is("tokens") /\ Len(input.tokens) < MaxTokens
       /\ \E t \in Tokens : input' = [tokens |-> Append(input.tokens, t)]
Apply == /\ Is("expr") /\ input.expr \in Operands
         /\ \E f \in Operators, as \in {<<>>} \cup {<<x>> : x \in Operands} :
               input' = [expr |-> [call |-> f, args |-> <<input.expr>> \o as]]

Next == Type \/ Put \/ Apply

Spec == Init /\ [][Next]_input
-----------------------------------------------------------------------------
\* How an expression is written.
RECURSIVE Written(_), WrittenArgs(_)
Sign(c) == [type |-> c, value |-> c]
Bytes(n) == [type |-> "number", value |-> [n |-> n, unit |-> ""]]
WrittenArgs(as) ==
    CASE as = <<>> -> <<>>
      [] Len(as) = 1 -> Written(as[1])
      [] OTHER -> Written(as[1]) \o <<Sign(",")>> \o WrittenArgs(Tail(as))
Written(e) ==
    CASE IsCall(e) -> <<[type |-> "ident", value |-> e.call], Sign("(")>>
                          \o WrittenArgs(e.args) \o <<Sign(")")>>
      [] "var" \in DOMAIN e -> <<Sign("@"), [type |-> "ident", value |-> e.var]>>
      [] "str" \in DOMAIN e -> <<[type |-> "string", value |-> e.str]>>
      [] "num" \in DOMAIN e -> <<Bytes(e.num)>>
      [] OTHER -> <<[type |-> "bool", value |-> e.bool]>>
RECURSIVE Height(_)
Height(e) == 1 + IF IsCall(e) THEN Max({0} \cup {Height(e.args[i]) : i \in DOMAIN e.args}) ELSE 0
-----------------------------------------------------------------------------
\* Every text has a token of a known type, every expression a value or an
\* error on every disk, and only disks in no other use are ever selected.
SelectTypeOK ==
    /\ Is("text") => NextToken(input.text, 1).type \in Punctuation \cup {"EOF", "error", "string", "ident", "number"}
    /\ Is("tokens") => Parse(input.tokens).ok \in BOOLEAN
    /\ Is("expr") => /\ \A d \in Disks : Eval(input.expr, d).t \in {"bool", "string", "number", "error"}
                     /\ matchOSDDisksWithDSL(input.expr).disks \subseteq {d \in Disks : ~d.busy}

InBytes == [u \in {"", "KIB", "K"} |-> CASE u = "" -> 1 [] u = "KIB" -> 1024 [] u = "K" -> 1000]
\* The parser accepts exactly what the grammar writes: an expression comes
\* back as it was written if and only if it is not nested too deep, and no
\* other sequence of tokens is accepted; sizes come back in bytes.
ParseInvertsWriting ==
    /\ Is("expr") => LET e == input.expr IN
          IF Height(e) <= MaxRecursionDepth THEN Parse(Written(e)) = [ok |-> TRUE, e |-> e]
          ELSE ~Parse(Written(e)).ok
    /\ Is("tokens") => LET r == Parse(input.tokens) IN 
          r.ok => Written(r.e) = [i \in DOMAIN input.tokens |->
                                    LET t == input.tokens[i] IN
                                    IF t.type = "number" THEN Bytes(InBytes[t.value.unit] * t.value.n) ELSE t]

\* The lexer never stands still, never reads past the input and never skips
\* more than blanks, so the parser, which stops at the first error, ends on
\* every input and has read all of what it accepts.
LexerAdvances ==
    Is("text") => \A p \in DOMAIN input.text :
        LET s == input.text
            t == NextToken(s, p)
        IN  /\ t.next > p /\ t.next <= Len(s) + 1
            /\ t.type = "EOF" => \A i \in p .. Len(s) : s[i] \in {" ", "nl"}

\* Where its operands can be evaluated on every available disk, and, or and not
\* select the intersection, the union and the complement of what they select.
SelectionIsLogical ==
    Is("expr") /\ IsCall(input.expr) =>
        LET e == input.expr
            Sel(x) == matchOSDDisksWithDSL(x)
            sound == \A i \in DOMAIN e.args : Sel(e.args[i]).ok
            chosen == {Sel(e.args[i]).disks : i \in DOMAIN e.args}
        IN  CASE ~sound -> TRUE
              [] e.call = "and" -> Sel(e).disks = {d \in FilterAvailableDisks : \A X \in chosen : d \in X}
              [] e.call = "or" -> Sel(e).disks = UNION chosen
              [] e.call = "not" /\ Len(e.args) = 1 -> Sel(e).disks = FilterAvailableDisks \ UNION chosen
              [] OTHER -> TRUE
=============================================================================
