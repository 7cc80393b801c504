----------------------------- MODULE TableView -----------------------------
(***************************************************************************)
(* A table on screen: the page that opens it (table/[schemaId]/page.tsx),  *)
(* the filters, search and column order of DataTable.tsx and the form a    *)
(* filter is made in (ColumnFilter.tsx).  The rows come from the records   *)
(* of the server by toTableData; Cells says what their texts mean.         *)
(***************************************************************************)
EXTENDS Cells

CONSTANTS
    Keys,         \* the fields of the table
    Natural,      \* the order the schema gives its fields
    Tables,       \* what the server may hold: the types of the fields and the records
    Sources,      \* the source of the n-th row of a merged table
    Operands,     \* [FieldTypes -> what a person types into a value box]
    Searches,     \* what a person types into the search box, <<>> among it
    MaxFilters,   \* bound: filters in force at a time
    Amount        \* [texts a document shows as figures -> the amount meant]

SOURCE_ID == "__source"

ASSUME TableViewAssumption ==
    /\ \A t \in Tables : t.types \in [Keys -> FieldTypes]
    /\ SOURCE_ID \notin Keys
    /\ Natural \in Seq(Keys)
    /\ \A k \in Keys : \E i \in DOMAIN Natural : Natural[i] = k
    /\ \A i, j \in DOMAIN Natural : Natural[i] = Natural[j] => i = j

VARIABLES
    page,         \* loading, failed or open
    typeOf,       \* the types of the fields
    records,      \* what the server answers
    merged,       \* a merged table, which has the source column
    search,       \* the text of the search box
    columnFilters,\* what is in force: a set of [id, value]
    columnOrder,  \* the ids of the columns as they stand
    form          \* {} or the open form: {[id, draft]}

table == <<typeOf, records, merged>>
vars == <<page, table, search, columnFilters, columnOrder, form>>

(***************************************************************************)
(* The rows                                                                *)
(***************************************************************************)
Value(n, k) == ToCell(records[n].data[k], k \in records[n].flagged)
Failed(n) == records[n].bad
Source(n) == [state |-> "value", text |-> Sources[n]]

ColumnIds == IF merged THEN Keys \cup {SOURCE_ID} ELSE Keys
NaturalOrder == IF merged THEN <<SOURCE_ID>> \o Natural ELSE Natural
TypeOfColumn(id) == IF id = SOURCE_ID THEN "text" ELSE typeOf[id]

\* Mutation: a failed row is filtered by what the worker left in it.
CellAsStored(n, id) == IF id = SOURCE_ID THEN {Source(n)} ELSE {Value(n, id)}

(* What filterFn reads: the source off the row, no value off a failed row. *)
CellFor(n, id) ==
    IF id = SOURCE_ID THEN {Source(n)}
    ELSE IF Failed(n) THEN {} ELSE {Value(n, id)}

(* The search reads what the accessors give: the text of every column.     *)
Found(n) == LET texts == {Value(n, k).text : k \in Keys}
                         \cup (IF merged THEN {Sources[n]} ELSE {})
            IN search = <<>> \/ \E t \in texts : Includes(t, search)

(* The rows in the model: the searched ones that every filter lets through.*)
ModelRows == {n \in DOMAIN records : /\ Found(n)
    /\ \A f \in columnFilters : Matches(TypeOfColumn(f.id), CellFor(n, f.id), f.value)}

(***************************************************************************)
(* The page and what it renders                                            *)
(***************************************************************************)
Init ==
    /\ page = "loading"
    /\ \E t \in Tables : typeOf = t.types /\ records = t.records
    /\ merged \in BOOLEAN
    /\ search = <<>>
    /\ columnFilters = {}
    /\ columnOrder = NaturalOrder
    /\ form = {}

(* The table comes from the cache of this browser or from the server.      *)
Opened ==
    /\ page = "loading"
    /\ page' = "open"
    /\ UNCHANGED <<table, search, columnFilters, columnOrder, form>>
OpeningFailed ==
    /\ page = "loading"
    /\ page' = "failed"
    /\ UNCHANGED <<table, search, columnFilters, columnOrder, form>>
Reload ==
    /\ page = "failed"
    /\ page' = "loading"
    /\ UNCHANGED <<table, search, columnFilters, columnOrder, form>>

(* sourceColumnFor makes a new object whenever the page renders, so that   *)
(* naturalOrder changes for a merged table and its effect runs.            *)
PageRenders == columnOrder' = IF merged THEN NaturalOrder ELSE columnOrder

SearchTyped == \E text \in Searches \ {search} :
    /\ page = "open" /\ form = {}
    /\ search' = text
    /\ PageRenders
    /\ UNCHANGED <<page, table, columnFilters, form>>

(* The density, or a list of batches that changed in another tab.          *)
Rerendered ==
    /\ page = "open"
    /\ PageRenders
    /\ UNCHANGED <<page, table, search, columnFilters, form>>

(* There is a table only while some row is left: otherwise the chips and   *)
(* an explanation stand in its place.                                      *)
Standing == page = "open" /\ ModelRows # {}

(***************************************************************************)
(* Column order                                                            *)
(***************************************************************************)
(* next.splice(to, 0, next.splice(from, 1)[0])                             *)
Spliced(s, from, to) == [i \in DOMAIN s |->
    IF i = to THEN s[from]
    ELSE IF from <= i /\ i < to THEN s[i + 1]
    ELSE IF to < i /\ i <= from THEN s[i - 1]
    ELSE s[i]]

MoveColumn(id, to) ==
    \E from \in DOMAIN columnOrder :
        /\ columnOrder[from] = id
        /\ to \in DOMAIN columnOrder \ {from}
        /\ columnOrder' = Spliced(columnOrder, from, to)
        /\ UNCHANGED <<page, table, search, columnFilters, form>>

(* Dropped on a header, or moved by an arrow key on its grip.              *)
Dropped ==
    /\ form = {} /\ Standing
    /\ \E id \in ColumnIds, to \in DOMAIN columnOrder : MoveColumn(id, to)
ArrowPressed ==
    /\ form = {} /\ Standing
    /\ \E i \in DOMAIN columnOrder, step \in {-1, 1} : MoveColumn(columnOrder[i], i + step)

(***************************************************************************)
(* Filters                                                                 *)
(***************************************************************************)
SetFilter(id, values) ==
    columnFilters' = {f \in columnFilters : f.id # id}
                     \cup {[id |-> id, value |-> v] : v \in {w \in values : IsApplied(w)}}

InForce(id) == {f.value : f \in {g \in columnFilters : g.id = id}}
Blank(op) == [op |-> op, value |-> <<>>, value2 |-> <<>>]

(* The form is mounted on opening and starts from what is in force.        *)
FormOpened ==
    /\ form = {} /\ Standing
    /\ \E id \in ColumnIds : \E draft \in IF InForce(id) # {} THEN InForce(id) ELSE {Blank(Operators(TypeOfColumn(id))[1])} :
        form' = {[id |-> id, draft |-> draft]}
    /\ UNCHANGED <<page, table, search, columnFilters, columnOrder>>

FormDismissed ==
    /\ form # {}
    /\ form' = {}
    /\ UNCHANGED <<page, table, search, columnFilters, columnOrder>>

Redrafted(f, draft) ==
    /\ form' = {[f EXCEPT !.draft = draft]}
    /\ UNCHANGED <<page, table, search, columnFilters, columnOrder>>

(* A value is kept as far as the new operator has a box for it.            *)
Chosen(draft, op) == [op |-> op,
    value |-> IF Arity(op) = 0 THEN <<>> ELSE draft.value,
    value2 |-> IF Arity(op) = 2 THEN draft.value2 ELSE <<>>]

OperatorChosen == \E f \in form : \E op \in Offered(TypeOfColumn(f.id)) :
    Redrafted(f, Chosen(f.draft, op))

ValueTyped == \E f \in form : \E text \in Operands[TypeOfColumn(f.id)] :
    \/ Arity(f.draft.op) >= 1 /\ Redrafted(f, [f.draft EXCEPT !.value = text])
    \/ Arity(f.draft.op) = 2 /\ Redrafted(f, [f.draft EXCEPT !.value2 = text])

FilterApplied == \E f \in form :
    /\ SetFilter(f.id, {f.draft})
    /\ IsApplied(f.draft)
    /\ Cardinality(columnFilters') <= MaxFilters
    /\ form' = {}
    /\ UNCHANGED <<page, table, search, columnOrder>>

FilterCleared == \E f \in form :
    /\ InForce(f.id) # {} \/ IsApplied(f.draft)
    /\ SetFilter(f.id, {})
    /\ form' = {}
    /\ UNCHANGED <<page, table, search, columnOrder>>

(* The chips are there when the table is not.                              *)
ChipRemoved == \E f \in columnFilters :
    /\ page = "open" /\ form = {}
    /\ SetFilter(f.id, {})
    /\ UNCHANGED <<page, table, search, columnOrder, form>>

AllCleared ==
    /\ page = "open" /\ form = {}
    /\ Cardinality(columnFilters) > 1
    /\ columnFilters' = {}
    /\ UNCHANGED <<page, table, search, columnOrder, form>>

Next ==
    \/ Opened \/ OpeningFailed \/ Reload
    \/ SearchTyped \/ Rerendered \/ Dropped \/ ArrowPressed
    \/ FormOpened \/ FormDismissed \/ OperatorChosen \/ ValueTyped
    \/ FilterApplied \/ FilterCleared \/ ChipRemoved \/ AllCleared

Spec == Init /\ [][Next]_vars

(***************************************************************************)
(* Properties                                                              *)
(***************************************************************************)
(* What a reader sees in a cell: nothing found, or its text.               *)
OnScreen(n, id) ==
    IF id = SOURCE_ID THEN Sources[n]
    ELSE LET cell == Value(n, id) IN
         IF Failed(n) \/ cell.state = "not-found" THEN <<>> ELSE cell.text

(* The items a reader finds between two separators, or between one and the *)
(* beginning or the end.                                                   *)
ReadAsList(text) == {SubSeq(text, ij[1], ij[2]) : ij \in
    {ij \in (DOMAIN text) \X (DOMAIN text) :
        LET Ends(k) == k \notin DOMAIN text \/ text[k] \in {",", ";", " "} IN
        /\ Ends(ij[1] - 1) /\ Ends(ij[2] + 1)
        /\ \A k \in ij[1]..ij[2] : ~Ends(k)}} \ {<<>>}

(* What a reader knows of a text, and that its parser agrees: on whether it*)
(* is an amount or a day at all, on which of two is the larger, on what a  *)
(* list holds.  So it is of every text of a table, and of every text typed.*)
Meant(text) == IF text \in DOMAIN Amount THEN {Amount[text]} ELSE {}
Parsed(type, text) == IF type = "date" THEN ParseDate(text) ELSE ParseNumber(text)
ReadAsMeant(type, text) ==
    /\ Trim(text) = text
    /\ type \in {"number", "currency", "date"} =>
          /\ Parsed(type, text) \subseteq Int /\ (Parsed(type, text) = {} <=> Meant(text) = {})
          /\ \A typed \in Operands[type] :
                \A a \in Parsed(type, text), b \in Parsed(type, typed), x \in Meant(text), y \in Meant(typed) :
                    (a < b <=> x < y) /\ (a = b <=> x = y)
    /\ type = "list" => ParseList(text) \cap Operands[type] = ReadAsList(text) \cap Operands[type]

ASSUME TextsAreRead ==
    /\ <<>> \notin DOMAIN Amount /\ \A text \in DOMAIN Amount : Amount[text] \in Int
    /\ \A t \in Tables : \A n \in DOMAIN t.records :
          /\ Trim(Sources[n]) = Sources[n]
          /\ \A k \in Keys : ReadAsMeant(t.types[k], Display(t.records[n].data[k]))
    /\ \A type \in FieldTypes : \A text \in Operands[type] :
          Trim(text) = <<>> \/ ReadAsMeant(type, text)

(* Whether a reader who knows the amounts meant would say a row passes.    *)
ReaderAgrees(n, f) ==
    LET shown == OnScreen(n, f.id)
        v == f.value
        Figures(Holds(_, _)) == \E a \in Meant(shown), b \in Meant(v.value) : Holds(a, b)
    IN CASE v.op = "isEmpty" -> shown = <<>>
         [] v.op = "isNotEmpty" -> shown # <<>>
         [] v.op \in {"gt", "after"} -> Figures(LAMBDA a, b : a > b)
         [] v.op \in {"lt", "before"} -> Figures(LAMBDA a, b : a < b)
         [] v.op = "gte" -> Figures(LAMBDA a, b : a >= b)
         [] v.op = "lte" -> Figures(LAMBDA a, b : a <= b)
         [] v.op \in {"eq", "on"} -> Figures(LAMBDA a, b : a = b)
         [] v.op = "between" -> \E a \in Meant(shown), b \in Meant(v.value), c \in Meant(v.value2) :
                a \in {b, c} \/ (a > b) # (a > c)
         [] v.op = "contains" -> shown # <<>> /\ Includes(shown, v.value)
         [] v.op = "notContains" -> shown # <<>> /\ ~Includes(shown, v.value)
         [] v.op = "is" -> shown = v.value
         [] v.op = "isNot" -> shown \notin {<<>>, v.value}
         [] v.op = "isYes" -> shown \in {<<"yes">>, <<"true">>, <<"1">>}
         [] v.op = "isNo" -> shown \in {<<"no">>, <<"false">>, <<"0">>}
         [] v.op = "hasItem" -> v.value \in ReadAsList(shown)
         [] v.op = "lacksItem" -> shown # <<>> /\ v.value \notin ReadAsList(shown)

(* Without a search, the rows on screen are those that pass every chip by  *)
(* what is on screen: a failed row by the "not found" it shows, a figure by*)
(* the amount it was written for, whatever its separators (filters.ts).    *)
ShownPassesTheChips ==
    search = <<>> => ModelRows = {n \in DOMAIN records : \A f \in columnFilters : ReaderAgrees(n, f)}
=============================================================================
