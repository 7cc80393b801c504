------------------------------- MODULE Review -------------------------------
(***************************************************************************)
(* The review of a request's shapes: the schema panel of a browser tab     *)
(* (schemas/page.tsx, SchemaEditor.tsx, UpdateOthersControl.tsx,           *)
(* UpdateTargetsPicker.tsx) over what the tab holds (batch.tsx,            *)
(* lib/schema.ts), and the server that writes an edit (updateSchemas,      *)
(* validateEdit) until Convert closes the gate.                            *)
(*                                                                         *)
(* A table's fields are a function from key to type and currency code.     *)
(* Labels, order and the marks that compare with what a tab first read are *)
(* left out; a hash of a shape is the shape.                               *)
(***************************************************************************)
EXTENDS Naturals, Sequences, FiniteSets, SequencesExt

CONSTANTS
    Tables,
    FileOf,       \* [Tables -> file]: a file's tables come back together
    Detected,     \* [Tables -> fields]: original_fields
    NewKeys,      \* keys a person may add
    FieldTypes, Codes,
    Tabs,         \* browser tabs on the request
    MaxSaves,     \* bound: writes under way at once
    MaxVersion,   \* bound: versions of one table
    MaxMoves,     \* bound: things a person does to a panel
    MaxFaults,    \* bound: calls that fail
    None

(* A field: a code is "only ever set when `type` is currency".             *)
Field == {f \in [type : FieldTypes, code : Codes \cup {None}] : f.type # "currency" => f.code = None}

ASSUME ReviewAssumption ==
    /\ None \notin Tables \cup FieldTypes \cup Codes
    /\ "currency" \in FieldTypes
    /\ IsFiniteSet(Tables)
    /\ \A t \in Tables : Detected[t] \in [DOMAIN Detected[t] -> Field]

VARIABLES
    fields,     \* [Tables -> fields] on the server
    version,    \* [Tables -> Nat] on the server
    convertedAt, \* requests.converted_at is set
    tab,        \* [Tabs -> what a tab holds]
    save,       \* [1..MaxSaves -> an updateSchemas call]
    moves,
    faults

reviewVars == <<fields, version, convertedAt, tab, save, moves, faults>>

Plain(type) == [type |-> type, code |-> None]
Keys == NewKeys \cup UNION {DOMAIN Detected[t] : t \in Tables}
Shape(fs) == [k \in DOMAIN fs |-> fs[k].type]

----------------------------------------------------------------------------
(* What a tab shows.                                                       *)

NoEdit == [on |-> None, baseline |-> <<>>, draft |-> <<>>, picking |-> FALSE, done |-> None]
NewTab == [held |-> <<>>, current |-> [t \in Tables |-> <<>>], version |-> [t \in Tables |-> 0],
           picked |-> None, dismissed |-> FALSE, edit |-> NoEdit, chosen |-> {}, busy |-> FALSE,
           frozen |-> FALSE]

(* The table in the panel: the one picked, or the first that came back.    *)
OpenTable(b) == IF tab[b].picked # None THEN tab[b].picked
                ELSE IF tab[b].dismissed \/ tab[b].held = <<>> THEN None
                ELSE Head(tab[b].held)

(* carriesOver: an edit in hand follows the panel to a table of one shape. *)
CarriesOver(e, current) == e.on # None /\ e.draft # e.baseline /\ current = e.baseline

(* The editor's state for the table it is on.                              *)
Edit(b) ==
    LET t == OpenTable(b)
        e == tab[b].edit
    IN IF e.on = t THEN e
       ELSE IF CarriesOver(e, tab[b].current[t]) THEN [e EXCEPT !.on = t, !.picking = FALSE, !.done = None]
       ELSE [NoEdit EXCEPT !.on = t, !.baseline = tab[b].current[t], !.draft = tab[b].current[t]]

(* After a write, what is on the server is what was sent.                  *)
Committed(b) == IF Edit(b).done # None THEN Edit(b).done.fields ELSE tab[b].current[OpenTable(b)]
Dirty(b) == OpenTable(b) # None /\ Edit(b).draft # Committed(b)
Unpriced(fs) == {k \in DOMAIN fs : fs[k].type = "currency" /\ fs[k].code = None}
Spreadable(b) == \/ Dirty(b)
                 \/ Edit(b).done # None /\ Edit(b).done.kind = "save"
                 \/ tab[b].version[OpenTable(b)] > 1

(* updateTargetsFor: the held tables of the same original shape that hold  *)
(* no key this one lacks, and lack at most one of its own.                 *)
\* Mutation: offered by the column names alone.
TargetsOfAnyShape(b) ==
    LET s == OpenTable(b)
        mine == DOMAIN tab[b].current[s]
    IN {t \in ToSet(tab[b].held) \ {s} :
            LET theirs == DOMAIN tab[b].current[t]
            IN theirs \subseteq mine /\ Cardinality(mine \ theirs) <= 1}
\* Mutation: one column apart, whichever side lacks it.
TargetsOneApart(b) ==
    LET s == OpenTable(b)
        mine == DOMAIN tab[b].current[s]
    IN {t \in ToSet(tab[b].held) \ {s} :
            LET theirs == DOMAIN tab[b].current[t]
            IN /\ Shape(Detected[t]) = Shape(Detected[s])
               /\ Cardinality(SymDiff(mine, theirs)) <= 1}
Targets(b) ==
    LET s == OpenTable(b)
        mine == DOMAIN tab[b].current[s]
    IN {t \in ToSet(tab[b].held) \ {s} :
            LET theirs == DOMAIN tab[b].current[t]
            IN /\ Shape(Detected[t]) = Shape(Detected[s])
               /\ theirs \subseteq mine
               /\ Cardinality(mine \ theirs) <= 1}

CanEdit(b) == /\ OpenTable(b) # None /\ ~tab[b].frozen /\ ~tab[b].busy
              /\ ~Edit(b).picking
CanWrite(b) == CanEdit(b) /\ Unpriced(Edit(b).draft) = {}

----------------------------------------------------------------------------
(* A person edits.                                                         *)

Moves == moves < MaxMoves /\ moves' = moves + 1
Patch(b, e) == tab' = [tab EXCEPT ![b].edit = e]
Redraft(b, draft) == /\ draft # Edit(b).draft
                     /\ Moves
                     /\ Patch(b, [Edit(b) EXCEPT !.draft = draft, !.done = None])

ChangeType(b, k, type) ==
    /\ CanEdit(b) /\ k \in DOMAIN Edit(b).draft
    /\ LET f == Edit(b).draft[k]
       IN Redraft(b, [Edit(b).draft EXCEPT ![k] =
                        [type |-> type, code |-> IF type = "currency" THEN f.code ELSE None]])
    /\ UNCHANGED <<fields, version, convertedAt, save, faults>>

ChangeCurrency(b, k, code) ==
    /\ CanEdit(b) /\ k \in DOMAIN Edit(b).draft /\ Edit(b).draft[k].type = "currency"
    /\ Redraft(b, [Edit(b).draft EXCEPT ![k].code = code])
    /\ UNCHANGED <<fields, version, convertedAt, save, faults>>

AddField(b, k, type) ==
    /\ CanEdit(b) /\ k \notin DOMAIN Edit(b).draft
    /\ Redraft(b, [j \in DOMAIN Edit(b).draft \cup {k} |->
                      IF j = k THEN Plain(type) ELSE Edit(b).draft[j]])
    /\ UNCHANGED <<fields, version, convertedAt, save, faults>>

(* The panel goes to another table, from its own list or from a card: only *)
(* the list waits for a write.                                             *)
Open(b, t) ==
    /\ t \in ToSet(tab[b].held) /\ t # OpenTable(b) /\ Moves
    /\ tab' = [tab EXCEPT ![b].picked = t, ![b].dismissed = FALSE, ![b].chosen = {}]
    /\ UNCHANGED <<fields, version, convertedAt, save, faults>>

(* The panel shuts, and the editor goes with its state: a write under way  *)
(* has nobody to tell.  A press outside the panel does it too, when there  *)
(* is no draft to lose.                                                    *)
Forget(b) == [tab[b] EXCEPT !.edit = NoEdit, !.chosen = {}, !.busy = FALSE]
Orphan(b) == [i \in DOMAIN save |-> IF save[i].by = b THEN [save[i] EXCEPT !.heard = FALSE]
                                    ELSE save[i]]
Close(b) ==
    /\ OpenTable(b) # None /\ Moves
    /\ tab' = [tab EXCEPT ![b] = [Forget(b) EXCEPT !.picked = None, !.dismissed = TRUE]]
    /\ save' = Orphan(b)
    /\ UNCHANGED <<fields, version, convertedAt, faults>>

(* The page of tables to choose from, and the way back: a control that a   *)
(* write under way does not shut.  The page keeps what is ticked for as    *)
(* long as it stands; ticks are set among the tables it offers, and the    *)
(* tick of a table that it offers no more stays.                           *)
SelectTables(b) ==
    /\ CanWrite(b) /\ Spreadable(b) /\ Targets(b) # {} /\ Moves
    /\ Patch(b, [Edit(b) EXCEPT !.picking = TRUE])
    /\ UNCHANGED <<fields, version, convertedAt, save, faults>>
BackToFields(b) ==
    /\ OpenTable(b) # None /\ Edit(b).picking
    /\ tab' = [tab EXCEPT ![b].edit = [Edit(b) EXCEPT !.picking = FALSE], ![b].chosen = {}]
    /\ UNCHANGED <<fields, version, convertedAt, save, moves, faults>>
Tick(b, some) ==
    /\ OpenTable(b) # None /\ Edit(b).picking /\ some \subseteq Targets(b)
    /\ tab' = [tab EXCEPT ![b].chosen = (@ \ Targets(b)) \cup some]
    /\ UNCHANGED <<fields, version, convertedAt, save, moves, faults>>

----------------------------------------------------------------------------
(* A write: this table and the others chosen take the draft.               *)

NoSave == [by |-> None, heard |-> FALSE, at |-> "idle", kind |-> "save", from |-> NoEdit,
           others |-> {}, versions |-> <<>>, seen |-> <<>>]
Entries(s) == {s.from.on} \cup s.others

CommitDraft(b, kind, others) ==
    /\ \E i \in DOMAIN save :
        /\ save[i] = NoSave /\ \A j \in 1..(i - 1) : save[j] # NoSave
        /\ save' = [save EXCEPT ![i] =
                       [by |-> b, heard |-> TRUE, at |-> "sent", kind |-> kind, from |-> Edit(b),
                        others |-> others, versions |-> <<>>,
                        seen |-> [t \in {OpenTable(b)} \cup (others \cap Targets(b)) |->
                                     DOMAIN tab[b].current[t]]]]
    /\ tab' = [tab EXCEPT ![b].busy = TRUE, ![b].edit = Edit(b)]
    /\ UNCHANGED <<fields, version, convertedAt, moves, faults>>

Update(b) == CanWrite(b) /\ Dirty(b) /\ CommitDraft(b, "save", {})
UpdateAll(b) == /\ CanWrite(b) /\ Spreadable(b) /\ Targets(b) # {}
                /\ CommitDraft(b, "update", Targets(b))
(* What is ticked is sent as it is, the tables included that an answer     *)
(* nobody heard has made no targets since.                                 *)
UpdateChosen(b) == /\ OpenTable(b) # None /\ Edit(b).picking /\ ~tab[b].busy
                   /\ CommitDraft(b, "update", tab[b].chosen)

(* updateSchemas asks whether the request was converted on a connection of *)
(* its own, which no lock holds to the transaction that writes.            *)
Answer(i, ok) == [save[i] EXCEPT !.at = IF ok THEN "written" ELSE "refused"]
SaveGate(i) ==
    /\ save[i].at = "sent"
    /\ save' = [save EXCEPT ![i] = IF convertedAt THEN Answer(i, FALSE) ELSE [@ EXCEPT !.at = "passed"]]
    /\ UNCHANGED <<fields, version, convertedAt, tab, moves, faults>>

(* validateEdit: every detected key is still there, and a code is kept on  *)
(* a currency only.  One entry that is refused refuses the call.           *)
Accepted(s) ==
    /\ \A t, u \in Entries(s) : Shape(Detected[t]) = Shape(Detected[u])
    /\ \A t \in Entries(s) : DOMAIN Detected[t] \subseteq DOMAIN s.from.draft
Validated(fs) == [k \in DOMAIN fs |-> IF fs[k].type = "currency" THEN fs[k] ELSE Plain(fs[k].type)]

SaveWrites(i) ==
    LET s == save[i]
    IN /\ s.at = "passed"
       /\ IF Accepted(s)
          THEN /\ \A t \in Entries(s) : version[t] < MaxVersion
               /\ fields' = [t \in Tables |-> IF t \in Entries(s) THEN Validated(s.from.draft) ELSE fields[t]]
               /\ version' = [t \in Tables |-> IF t \in Entries(s) THEN version[t] + 1 ELSE version[t]]
               /\ save' = [save EXCEPT ![i] =
                              [Answer(i, TRUE) EXCEPT !.versions = [t \in Entries(s) |-> version'[t]]]]
          ELSE save' = [save EXCEPT ![i] = Answer(i, FALSE)] /\ UNCHANGED <<fields, version>>
    /\ UNCHANGED <<convertedAt, tab, moves, faults>>

(* The answer: the tab takes the fields and their versions (schema-saved), *)
(* and the editor that asked is back where it was when it did: it says so, *)
(* or keeps the draft and the page if it was refused.                      *)
\* Mutation: only the table in the panel takes the fields.
SaveAnsweredForOne(i) ==
    LET s == save[i]
        b == tab[s.by]
    IN /\ s.by # None /\ s.at = "written"
       /\ tab' = [tab EXCEPT ![s.by].busy = FALSE,
                             ![s.by].current = [b.current EXCEPT ![s.from.on] = s.from.draft],
                             ![s.by].version = [t \in Tables |-> IF t \in Entries(s) THEN s.versions[t] ELSE @[t]]]
       /\ save' = [save EXCEPT ![i] = NoSave]
       /\ UNCHANGED <<fields, version, convertedAt, moves, faults>>
SaveAnswered(i) ==
    LET s == save[i]
        b == tab[s.by]
        told == IF ~s.heard THEN b
                ELSE IF s.at = "refused" THEN [b EXCEPT !.busy = FALSE, !.edit = s.from]
                ELSE [b EXCEPT !.busy = FALSE,
                               !.chosen = {},
                               !.edit = [s.from EXCEPT !.picking = FALSE,
                                           !.done = [kind |-> s.kind, fields |-> s.from.draft]]]
    IN /\ s.by # None /\ s.at \in {"written", "refused"}
       /\ tab' = [tab EXCEPT ![s.by] =
            IF s.at = "refused" THEN told
            ELSE [told EXCEPT !.current = [t \in Tables |-> IF t \in Entries(s) THEN s.from.draft ELSE @[t]],
                              !.version = [t \in Tables |-> IF t \in Entries(s) THEN s.versions[t] ELSE @[t]]]]
       /\ save' = [save EXCEPT ![i] = NoSave]
       /\ UNCHANGED <<fields, version, convertedAt, moves, faults>>

(* It is lost: to the tab it failed, and the server may still write it.    *)
Deaf(s) == IF s.at \in {"written", "refused"} THEN {NoSave}
           ELSE {[s EXCEPT !.by = None, !.heard = FALSE]}
                \cup (IF s.at = "sent" THEN {NoSave} ELSE {})
SaveLost(i) ==
    /\ save[i].by # None /\ faults < MaxFaults
    /\ faults' = faults + 1
    /\ tab' = IF save[i].heard THEN [tab EXCEPT ![save[i].by].busy = FALSE, ![save[i].by].edit = save[i].from]
              ELSE tab
    /\ \E s \in Deaf(save[i]) : save' = [save EXCEPT ![i] = s]
    /\ UNCHANGED <<fields, version, convertedAt, moves>>
SaveUnheard(i) ==
    /\ save[i].by = None /\ save[i].at \in {"written", "refused"}
    /\ save' = [save EXCEPT ![i] = NoSave]
    /\ UNCHANGED <<fields, version, convertedAt, tab, moves, faults>>

----------------------------------------------------------------------------
(* A poll brings a file's tables, as the server has them now, once.        *)
FileArrives(b, f) ==
    LET its == {t \in Tables : FileOf[t] = f}
    IN /\ its \cap ToSet(tab[b].held) = {} /\ its # {}
       /\ tab' = [tab EXCEPT ![b].held = @ \o SetToSeq(its),
                             ![b].current = [t \in Tables |-> IF t \in its THEN fields[t] ELSE @[t]],
                             ![b].version = [t \in Tables |-> IF t \in its THEN version[t] ELSE @[t]]]
       /\ UNCHANGED <<fields, version, convertedAt, save, moves, faults>>

(* Convert, from a screen that is not frozen: the tab that pressed it goes *)
(* on to the results, and comes back to a record.                          *)
Convert(b) ==
    /\ ~tab[b].frozen /\ ~convertedAt
    /\ convertedAt' = TRUE
    /\ tab' = [tab EXCEPT ![b] = [Forget(b) EXCEPT !.frozen = TRUE, !.picked = None, !.dismissed = FALSE]]
    /\ save' = Orphan(b)
    /\ UNCHANGED <<fields, version, moves, faults>>

(* A reload of a tab: what it held and what it was waiting for are gone.   *)
(* The note of Convert is in the browser's storage, so it survives.        *)
Reload(b) ==
    /\ faults < MaxFaults /\ faults' = faults + 1
    /\ tab' = [tab EXCEPT ![b] = [NewTab EXCEPT !.frozen = convertedAt]]
    /\ save' = [i \in DOMAIN save |-> IF save[i].by = b THEN CHOOSE s \in Deaf(save[i]) : s.by = None
                                      ELSE save[i]]
    /\ UNCHANGED <<fields, version, convertedAt, moves>>

----------------------------------------------------------------------------
ReviewInit ==
    /\ fields = [t \in Tables |-> Detected[t]]
    /\ version = [t \in Tables |-> 1]
    /\ convertedAt = FALSE
    /\ tab = [b \in Tabs |-> NewTab]
    /\ save = [i \in 1..MaxSaves |-> NoSave]
    /\ moves = 0 /\ faults = 0

EditDraft(b) == \E k \in Keys, type \in FieldTypes, code \in Codes :
                   ChangeType(b, k, type) \/ ChangeCurrency(b, k, code) \/ AddField(b, k, type)
Person(b) == \/ EditDraft(b)
             \/ \E t \in Tables : Open(b, t)
             \/ Close(b) \/ SelectTables(b) \/ BackToFields(b)
             \/ \E some \in SUBSET Tables : Tick(b, some)
             \/ Update(b) \/ UpdateAll(b) \/ UpdateChosen(b)
             \/ Convert(b) \/ Reload(b)
             \/ \E t \in Tables : FileArrives(b, FileOf[t])
Saving(i) == SaveGate(i) \/ SaveWrites(i) \/ SaveAnswered(i) \/ SaveLost(i) \/ SaveUnheard(i)

ReviewNext == (\E b \in Tabs : Person(b)) \/ (\E i \in DOMAIN save : Saving(i))
ReviewSpec == ReviewInit /\ [][ReviewNext]_reviewVars

----------------------------------------------------------------------------
(* What the panel offers, the server takes: a table offered as a target    *)
(* started from the same shape, and no draft has lost a key, whatever the  *)
(* other tabs have written meanwhile (updateTargetsFor, validateEdit).     *)
OfferedIsAccepted == \A i \in DOMAIN save : save[i].at = "passed" => Accepted(save[i])

(* A tab whose version of a table is the server's holds its fields: the    *)
(* answers to two writes may arrive in either order.                       *)
VersionNamesTheFields ==
    \A b \in Tabs : \A t \in ToSet(tab[b].held) :
        tab[b].version[t] = version[t] => tab[b].current[t] = fields[t]

(* A write that keeps the columns its tab showed of the table in the panel *)
(* keeps those of every table that was offered with it when the button was *)
(* pressed: one with a column this table lacks is never a target           *)
(* (updateTargetsFor).  A table ticked while it was a target and no longer *)
(* one is not among them: it is written all the same, and may lose one.    *)
SpreadTakesNothingAway ==
    [][\A i \in DOMAIN save :
        LET s == save[i]
        IN s.at = "passed" /\ save'[i].at = "written" /\ s.seen[s.from.on] \subseteq DOMAIN s.from.draft
            => \A t \in s.others \cap DOMAIN s.seen : s.seen[t] \subseteq DOMAIN fields'[t]]_reviewVars

=============================================================================
