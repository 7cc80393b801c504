------------------------------- MODULE Cells -------------------------------
(***************************************************************************)
(* What a cell's displayed text means: to a column filter (lib/filters.ts) *)
(* and on its way from the stored record (server/services/tables.ts).  A   *)
(* text is a sequence of characters, where a word, a year or a day of the  *)
(* month counts as one character; letters stand for both of their cases.  A*)
(* parser that may answer null answers the empty set, and the set of its   *)
(* one result otherwise.                                                   *)
(***************************************************************************)
EXTENDS Integers, Sequences, FiniteSets

DigitChars == <<"0", "1", "2", "3", "4", "5", "6", "7", "8", "9">>
Digits == {DigitChars[i] : i \in 1..10}
DigitOf == [c \in Digits |-> (CHOOSE i \in 1..10 : DigitChars[i] = c) - 1]
Letters == {"A", "B", "C", "D"}
Symbols == {"$", "%"}
Blanks == {" ", "newline"}

(* The bounds of the arithmetic: a number is kept in units of 10^-PLACES.  *)
PLACES == 5

LeastOf(S) == CHOOSE n \in S : \A m \in S : n <= m
GreatestOf(S) == CHOOSE n \in S : \A m \in S : n >= m
Places(s, C) == {i \in 1..Len(s) : s[i] \in C}
Without(s, C) == SelectSeq(s, LAMBDA c : c \notin C)
Trim(s) == LET ink == 1..Len(s) \ Places(s, Blanks) IN
    IF ink = {} THEN <<>> ELSE SubSeq(s, LeastOf(ink), GreatestOf(ink))
From(s, i) == SubSeq(s, i, Len(s))
StartsWith(s, c) == s # <<>> /\ Head(s) = c

(***************************************************************************)
(* Operators                                                               *)
(***************************************************************************)
NumericOperators == <<"gt", "lt", "gte", "lte", "eq", "between", "isEmpty">>
Operators(type) ==
    CASE type = "text" -> <<"contains", "notContains", "is", "isNot", "isEmpty", "isNotEmpty">>
      [] type \in {"number", "currency"} -> NumericOperators
      [] type = "date" -> <<"after", "before", "on", "between", "isEmpty">>
      [] type = "boolean" -> <<"isYes", "isNo", "isEmpty">>
      [] type = "list" -> <<"hasItem", "lacksItem", "isEmpty">>
FieldTypes == {"text", "number", "currency", "date", "boolean", "list"}
Offered(type) == {Operators(type)[i] : i \in DOMAIN Operators(type)}
Arity(op) ==
    CASE op = "between" -> 2
      [] op \in {"isYes", "isNo", "isEmpty", "isNotEmpty"} -> 0
      [] OTHER -> 1
IsApplied(f) ==
    /\ Arity(f.op) > 0 => Trim(f.value) # <<>>
    /\ Arity(f.op) > 1 => Trim(f.value2) # <<>>

(***************************************************************************)
(* Numbers                                                                 *)
(***************************************************************************)
(* Number(text) of digits with at most one point, scaled; {} is NaN.       *)
Decimal(s) ==
    LET points == Places(s, {"."})
        point == IF points = {} THEN Len(s) + 1 ELSE LeastOf(points)
        figures == Without(s, {"."})
        value[i \in 0..Len(figures)] ==
            IF i = 0 THEN 0 ELSE value[i - 1] * 10 + DigitOf[figures[i]]
        decimals == IF points = {} THEN 0 ELSE Len(s) - point
    IN IF figures = <<>> \/ Cardinality(points) > 1 \/ Places(figures, Digits) # 1..Len(figures)
       THEN {} ELSE {value[Len(figures)] * 10 ^ (PLACES - decimals)}

FirstAs(s, c, d) == LET at == Places(s, {c}) IN
    [i \in 1..Len(s) |-> IF at # {} /\ i = LeastOf(at) THEN d ELSE s[i]]

(* With both marks the last one is the decimal point; with one it is only  *)
(* if it stands once and before one or two digits.                         *)
ResolveSeparators(s) ==
    LET commas == Places(s, {","})
        dots == Places(s, {"."})
        comma == IF commas = {} THEN 0 ELSE GreatestOf(commas)
        dot == IF dots = {} THEN 0 ELSE GreatestOf(dots)
        mark == IF commas # {} THEN "," ELSE "."
        last == IF commas # {} THEN comma ELSE dot
        decimal == Cardinality(Places(s, {mark})) = 1 /\ Len(s) - last \in 1..2
    IN IF comma > 0 /\ dot > 0
       THEN IF comma > dot THEN FirstAs(Without(s, {"."}), ",", ".") ELSE Without(s, {","})
       ELSE IF decimal THEN FirstAs(s, mark, ".") ELSE Without(s, {mark})

(* A run of two or three letters apart from the digits is a currency code. *)
WithoutCode(s) ==
    LET Code(t) == t # <<>> /\ Len(t) \in 2..3 /\ Places(t, Letters) = 1..Len(t)
        front == {n \in 2..3 : n < Len(s) /\ Code(SubSeq(s, 1, n)) /\ s[n + 1] \in Blanks}
        rest == IF front = {} THEN s ELSE From(s, GreatestOf(front) + 1)
        back == {n \in 2..3 : n < Len(rest) /\ Code(From(rest, Len(rest) - n + 1))
                              /\ rest[Len(rest) - n] \in Blanks}
    IN Trim(IF back = {} THEN rest ELSE SubSeq(rest, 1, Len(rest) - GreatestOf(back)))

Negated(yes, numbers) == IF yes THEN {-n : n \in numbers} ELSE numbers

ParseNumber(display) ==
    LET text == Trim(display)
        bracketed == text # <<>> /\ Head(text) = "(" /\ text[Len(text)] = ")"
        inner == IF bracketed THEN Trim(SubSeq(text, 2, Len(text) - 1)) ELSE text
        bare == Trim(Without(WithoutCode(inner), Symbols))
        minus == StartsWith(bare, "-")
        figures == Without(IF minus \/ StartsWith(bare, "+") THEN Tail(bare) ELSE bare, Blanks)
    IN IF Places(figures, Digits \cup {".", ","}) # 1..Len(figures) \/ Places(figures, Digits) = {}
       THEN {} ELSE Negated(bracketed \/ minus, Decimal(ResolveSeparators(figures)))

(***************************************************************************)
(* Dates: ISO first, then day first; never a date that does not exist.     *)
(***************************************************************************)
Years == [t \in {"2023", "2024"} |-> IF t = "2023" THEN 2023 ELSE 2024]
Names == [t \in {"Jan", "Feb"} |-> IF t = "Jan" THEN 1 ELSE 2]
DayOrMonth == [t \in {"1", "2", "02", "13", "29", "30"} |->
    CASE t = "1" -> 1 [] t \in {"2", "02"} -> 2 [] t = "13" -> 13 [] t = "29" -> 29 [] t = "30" -> 30]

DaysIn(year, month) ==
    IF month = 2 THEN (IF year % 4 = 0 /\ (year % 100 # 0 \/ year % 400 = 0) THEN 29 ELSE 28)
    ELSE IF month \in {4, 6, 9, 11} THEN 30 ELSE 31
Utc(year, month, day) ==
    IF month \in 1..12 /\ day \in 1..DaysIn(year, month)
    THEN {(year * 12 + month) * 31 + day} ELSE {}
ParseDate(display) ==
    LET s == Trim(display)
        comma == Len(s) = 6 /\ s[4] = "," /\ s[5] \in Blanks
        t == IF comma THEN SubSeq(s, 1, 3) \o From(s, 5) ELSE s
        At(i, S) == i <= Len(t) /\ t[i] \in S
        Is(A, B, C, marks) == Len(t) = 5 /\ At(1, DOMAIN A) /\ At(3, DOMAIN B) /\ At(5, DOMAIN C)
                              /\ t[2] \in marks /\ t[4] \in marks
        D == DayOrMonth
    IN CASE Is(Years, D, D, {"-"}) -> Utc(Years[t[1]], D[t[3]], D[t[5]])
         [] Is(D, D, Years, {"-", "/"}) -> Utc(Years[t[5]], D[t[3]], D[t[1]])
         [] Is(D, Names, Years, {" "}) -> Utc(Years[t[5]], Names[t[3]], D[t[1]])
         [] Is(Names, D, Years, {" "}) -> Utc(Years[t[5]], Names[t[1]], D[t[3]])
         [] OTHER -> {}

(***************************************************************************)
(* Lists, yes and no, and what a blank is                                  *)
(***************************************************************************)
ParseList(display) ==
    LET cuts == Places(display, {",", ";", "newline"}) \cup {0, Len(display) + 1}
        Next(i) == LeastOf({j \in cuts : j > i})
    IN {Trim(SubSeq(display, i + 1, Next(i) - 1)) : i \in cuts \ {Len(display) + 1}} \ {<<>>}
ParseBoolean(display) ==
    CASE Trim(display) \in {<<"yes">>, <<"true">>, <<"1">>} -> {TRUE}
      [] Trim(display) \in {<<"no">>, <<"false">>, <<"0">>} -> {FALSE}
      [] OTHER -> {}

(* A cell is {} where the row has none, and {[state, text]} otherwise.     *)
IsBlank(cell) == \A c \in cell : c.state = "not-found" \/ Trim(c.text) = <<>>

(***************************************************************************)
(* Whether a cell passes a filter                                          *)
(***************************************************************************)
Includes(text, part) == \E i \in 0..(Len(text) - Len(part)) : SubSeq(text, i + 1, i + Len(part)) = part

(* One table for numbers and dates; upper is what value2 parses to.        *)
Compare(cell, op, operand, upper) ==
    \/ op \in {"gt", "after"} /\ cell > operand
    \/ op \in {"lt", "before"} /\ cell < operand
    \/ op = "gte" /\ cell >= operand
    \/ op = "lte" /\ cell <= operand
    \/ op \in {"eq", "on"} /\ cell = operand
    \/ op = "between" /\ \E other \in upper : \/ operand <= cell /\ cell <= other
                                              \/ other <= cell /\ cell <= operand
MatchesParsed(Parse(_), text, f) ==
    \E cell \in Parse(text), operand \in Parse(f.value) : Compare(cell, f.op, operand, Parse(f.value2))
MatchesText(text, f) == LET operand == Trim(f.value) IN
    \/ f.op = "contains" /\ Includes(text, operand)
    \/ f.op = "notContains" /\ ~Includes(text, operand)
    \/ f.op = "is" /\ text = operand
    \/ f.op = "isNot" /\ text # operand
MatchesBoolean(text, f) == (f.op = "isYes") \in ParseBoolean(text) /\ f.op \in {"isYes", "isNo"}
MatchesList(text, f) == LET has == Trim(f.value) \in ParseList(text) IN
    \/ f.op = "hasItem" /\ has
    \/ f.op = "lacksItem" /\ ~has

Matches(type, cell, f) ==
    \/ f.op = "isEmpty" /\ IsBlank(cell)
    \/ f.op = "isNotEmpty" /\ ~IsBlank(cell)
    \/ /\ f.op \notin {"isEmpty", "isNotEmpty"} /\ ~IsBlank(cell)
       /\ \E c \in cell : LET text == Trim(c.text) IN
            CASE type \in {"number", "currency"} -> MatchesParsed(ParseNumber, text, f)
              [] type = "date" -> MatchesParsed(ParseDate, text, f)
              [] type = "boolean" -> MatchesBoolean(text, f)
              [] type = "list" -> MatchesList(text, f)
              [] type = "text" -> MatchesText(text, f)

(***************************************************************************)
(* From the stored record to the cell: an error names the field or the row.*)
(***************************************************************************)
Display(raw) == IF raw = {} THEN <<>> ELSE CHOOSE t \in raw : TRUE
ToCell(raw, reason) ==
    CASE reason -> [state |-> "marked", text |-> Display(raw)]
      [] ~reason /\ Display(raw) = <<>> -> [state |-> "not-found", text |-> <<>>]
      [] OTHER -> [state |-> "value", text |-> Display(raw)]
=============================================================================
