------------------------------- MODULE Merges -------------------------------
(***************************************************************************)
(* Combining finished tables: the service (merges.ts, lib/merge.ts), the   *)
(* screen that asks for it (merge/page.tsx, MergePicker.tsx,               *)
(* MergeGroupCard.tsx, MergedTableList.tsx), and the two reads that fold   *)
(* members into one table: the result poll (pollResult in convert.ts) and  *)
(* the merged table (getMergedTable in tables.ts).                         *)
(*                                                                         *)
(* A call reads and writes in several transactions, and other calls and    *)
(* discards fall between.  The batch has finished, as the screen says it   *)
(* must have, so what each table came to is a constant.  Names are left    *)
(* out; a hash of a shape is the shape.                                    *)
(***************************************************************************)
EXTENDS Naturals, Sequences, FiniteSets, SequencesExt, FiniteSetsExt, Orders

CONSTANTS
    Listing,     \* the request's tables, in the order of listSchemas
    FileOf,      \* [tables -> file]
    Fields,      \* [tables -> [column -> type]], as approved
    Rows,        \* [tables -> number of rows]
    MAX_ROWS,
    Done,        \* tables whose result row is DONE
    Failed,      \* files that are FAILED, whatever their tables came to
    Tabs,        \* merge screens open on the request
    MaxMerges,   \* bound: merges ever made
    MaxCalls,    \* bound: createMerges calls under way
    MaxGone      \* bound: files discarded

Tables == ToSet(Listing)
Files == {FileOf[t] : t \in Tables}

ASSUME MergesAssumption ==
    /\ Listing \in Seq(Tables) /\ \A i, j \in DOMAIN Listing : Listing[i] = Listing[j] => i = j
    /\ MaxCalls \in Nat /\ MAX_ROWS \in Nat
    /\ DOMAIN FileOf = Tables /\ DOMAIN Fields = Tables /\ Rows \in [Tables -> Nat]
    /\ Done \subseteq Tables /\ Failed \subseteq Files

VARIABLES
    gone,     \* files that were discarded
    merges,   \* sequence of [members, live]: table_merges and their members,
              \* whose ord is their place in the listing
    screen,   \* [Tabs -> what the merge screen shows]
    call,     \* [1..MaxCalls -> a createMerges call]
    reader    \* a result poll or a merged table being opened: what it has read

server == <<gone, merges>>
vars == <<server, screen, call, reader>>

MergeIds == DOMAIN merges
Live == {m \in MergeIds : merges[m].live}
Members(m) == merges[m].members
Taken == UNION {Members(m) : m \in Live}

(* loadCandidates: tables of the files that were not discarded.            *)
Candidates == {t \in Tables : FileOf[t] \notin gone}
Free == (Candidates \cap Done) \ Taken

----------------------------------------------------------------------------
(* The shape rules that the server enforces and the screen explains.       *)

ShapeKey(t) == {<<k, Fields[t][k]>> : k \in DOMAIN Fields[t]}

(* Columns that some of the tables lack, or that they disagree about.      *)
MergeConflicts(S) ==
    {k \in UNION {DOMAIN Fields[t] : t \in S} :
        \/ \E t \in S : k \notin DOMAIN Fields[t]
        \/ \E t, u \in S : Fields[t][k] # Fields[u][k]}

(* groupByShape.                                                           *)
Groups(free) == {{u \in free : ShapeKey(u) = ShapeKey(t)} : t \in free}

----------------------------------------------------------------------------
(* The screen.  Its picker is mounted while an overview is shown, so what  *)
(* is ticked does not outlive a reload, and a call of an earlier picker has*)
(* nobody to shut the button of this one.  Ticks change nothing but what   *)
(* the next press submits, so the press chooses them.                      *)

NoScreen == [at |-> "reading", free |-> {}, ids |-> {}]
Combinable(groups) == {G \in groups : Cardinality(G) > 1}
\* Mutation: a group with one tick is submitted too.
PlannedAnyTick(groups, picked) == {G \cap picked : G \in groups} \ {{}}
Planned(groups, picked) == {S \in {G \cap picked : G \in groups} : Cardinality(S) > 1}
Merging(b) == \E i \in DOMAIN call : call[i].by = b /\ call[i].mounted

NoCall == [by |-> "none", mounted |-> FALSE, at |-> "idle", subs |-> {}]
Unmount(b) == [i \in DOMAIN call |-> IF call[i].by = b THEN [call[i] EXCEPT !.mounted = FALSE]
                                     ELSE call[i]]

(* getMergeOverview: the candidates, then the merges.                      *)
OverviewReads(b) ==
    /\ screen[b].at = "reading"
    /\ screen' = [screen EXCEPT ![b].at = "halfway", ![b].free = Free]
    /\ UNCHANGED <<server, call, reader>>
OverviewAnswered(b) ==
    /\ screen[b].at = "halfway"
    /\ screen' = [screen EXCEPT ![b].at = "ready", ![b].ids = Live]
    /\ UNCHANGED <<server, call, reader>>

Merge(b) ==
    /\ screen[b].at = "ready" /\ ~Merging(b)
    /\ \E i \in DOMAIN call :
        /\ i = Min({j \in DOMAIN call : call[j] = NoCall} \cup {MaxCalls + 1})
        /\ LET groups == Groups(screen[b].free)
           IN \E subs \in {Planned(groups, picked) : picked \in SUBSET UNION Combinable(groups)} \ {{}} :
                 call' = [call EXCEPT ![i] = [by |-> b, mounted |-> TRUE, at |-> "sent", subs |-> subs]]
    /\ UNCHANGED <<server, screen, reader>>

(* deleteMerge takes the members with it.  One that is there no more is    *)
(* refused, and then, or when the answer is lost, the screen stays.        *)
Undo(b, m) ==
    /\ screen[b].at = "ready" /\ m \in screen[b].ids
    /\ merges' = [merges EXCEPT ![m].live = FALSE]
    /\ \/ m \in Live /\ screen' = [screen EXCEPT ![b] = NoScreen] /\ call' = Unmount(b)
       \/ UNCHANGED <<screen, call>>
    /\ UNCHANGED <<gone, reader>>

(* "Combine more tables", or the page again.                               *)
Reload(b) ==
    /\ screen[b].at \in {"ready", "merged"}
    /\ screen' = [screen EXCEPT ![b] = NoScreen] /\ call' = Unmount(b)
    /\ UNCHANGED <<server, reader>>

----------------------------------------------------------------------------
(* createMerges.                                                           *)

(* The refusals, against candidates read outside the transaction.  The     *)
(* screen's submissions are apart, so none lists a table twice.            *)
Unavailable(s) == (UNION s) \ Free
Refused(subs) ==
    \/ Unavailable(subs) # {}
    \/ \E S, T \in subs : S # T /\ S \cap T # {}
    \/ \E S \in subs : Cardinality(S) < 2 \/ MergeConflicts(S) # {}
Over(i, answer) == [call EXCEPT ![i].at = answer, ![i].subs = {}]
CheckMerges(i) ==
    /\ call[i].at = "sent"
    /\ call' = IF Refused(call[i].subs) THEN Over(i, "refused") ELSE [call EXCEPT ![i].at = "checked"]
    /\ UNCHANGED <<server, screen, reader>>

(* A merge keeps its members in the order in which they were ticked, and   *)
(* every list of them comes back in it.  Here it is the listing's: which   *)
(* order it is makes no difference to what is stated of merges below.      *)
Ordered(S) == AtPlaces(Listing, {i \in DOMAIN Listing : Listing[i] \in S})
(* One transaction writes them all; a member that another merge has taken  *)
(* raises, and none is written.                                            *)
NewMerges(subs) == {[members |-> S, live |-> TRUE] : S \in subs}
\* Mutation: ON CONFLICT DO NOTHING.
WriteMergesOfTheRest(i) ==
    /\ call[i].at = "checked" /\ Len(merges) + Cardinality(call[i].subs) <= MaxMerges
    /\ \E s \in SetToSeqs(NewMerges({S \ Taken : S \in call[i].subs})) : merges' = merges \o s
    /\ call' = Over(i, "written")
    /\ UNCHANGED <<gone, screen, reader>>
\* Mutation: each merge in a transaction of its own.
WriteMergesApart(i) ==
    /\ call[i].at = "checked" /\ Len(merges) + Cardinality(call[i].subs) <= MaxMerges
    /\ \E s \in SetToSeqs(NewMerges({S \in call[i].subs : S \cap Taken = {}})) : merges' = merges \o s
    /\ call' = Over(i, "written")
    /\ UNCHANGED <<gone, screen, reader>>
WriteMerges(i) ==
    /\ call[i].at = "checked"
    /\ IF (UNION call[i].subs) \cap Taken # {}
       THEN /\ call' = Over(i, "refused") /\ UNCHANGED merges
       ELSE /\ Len(merges) + Cardinality(call[i].subs) <= MaxMerges
            /\ \E s \in SetToSeqs(NewMerges(call[i].subs)) : merges' = merges \o s
            /\ call' = Over(i, "written")
    /\ UNCHANGED <<gone, screen, reader>>

(* The answer: what was made is shown, whatever the screen had come to; a  *)
(* refusal, an error and an answer that is lost leave it as it is.         *)
MergeAnswered(i) ==
    /\ call[i].at \in {"refused", "written"}
    /\ \/ call[i].at = "written"
          /\ screen' = [screen EXCEPT ![call[i].by] = [NoScreen EXCEPT !.at = "merged"]]
       \/ UNCHANGED screen
    /\ call' = [call EXCEPT ![i] = NoCall]
    /\ UNCHANGED <<server, reader>>

----------------------------------------------------------------------------
Discard(f) ==
    /\ Cardinality(gone) < MaxGone /\ f \notin gone /\ gone' = gone \cup {f}
    /\ UNCHANGED <<merges, screen, call, reader>>

----------------------------------------------------------------------------
(* pollResult: its queries run side by side, each on a connection of its   *)
(* own; the answer is worked out from what they read.                      *)

NoReader == [at |-> "none", left |-> {}, listed |-> <<>>, merges |-> <<>>, merge |-> 0, members |-> <<>>, got |-> <<>>]
PollStarts ==
    /\ reader = NoReader
    /\ reader' = [NoReader EXCEPT !.at = "polling", !.left = {"files", "members"}]
    /\ UNCHANGED <<server, screen, call>>
PollReads(q) ==
    /\ reader.at = "polling" /\ q \in reader.left
    /\ reader' = [reader EXCEPT !.left = @ \ {q},
                    !.listed = IF q = "files" THEN Ordered(Candidates) ELSE @,
                    !.merges = IF q = "members"
                               THEN [m \in MergeIds |-> IF merges[m].live THEN Members(m) ELSE {}]
                               ELSE @]
    /\ UNCHANGED <<server, screen, call>>
Polled == reader.at = "polling" /\ reader.left = {}

MergedInto(t) == {m \in DOMAIN reader.merges : t \in reader.merges[m]}
\* Mutation: a member stays on the list beside what it went into.
SingleOrNot == reader.listed
Single == AtPlaces(reader.listed, {n \in DOMAIN reader.listed : MergedInto(reader.listed[n]) = {}})
Standing == {m \in DOMAIN reader.merges : reader.merges[m] \cap ToSet(reader.listed) # {}}
StageOf(t) == IF FileOf[t] \in Failed THEN "FAILED"
              ELSE IF t \in Done THEN "DONE" ELSE "QUEUED"
MergeStage(m) == IF \A t \in reader.merges[m] \cap ToSet(reader.listed) : StageOf(t) = "DONE"
                 THEN "DONE" ELSE "FAILED"

(* Where the first listed member stood, and how many single tables were    *)
(* before it; merges go in from the back.                                  *)
FirstAt(m) == Min({n \in DOMAIN reader.listed : reader.listed[n] \in reader.merges[m]})
At(m) == Cardinality({n \in 1..FirstAt(m) : MergedInto(reader.listed[n]) = {}})
\* Mutation: from the front, where every splice moves what follows.
FrontToBack == CHOOSE s \in SetToSeqs(Standing) :
    \A i, j \in DOMAIN s : i < j => FirstAt(s[i]) < FirstAt(s[j])
SplicedBefore(m, n) == At(m) > At(n) \/ (At(m) = At(n) /\ FirstAt(m) < FirstAt(n))
SpliceOrder == CHOOSE s \in SetToSeqs(Standing) :
    \A i, j \in DOMAIN s : i < j => SplicedBefore(s[i], s[j])
Table(t) == [merge |-> 0, members |-> {t}, stage |-> StageOf(t)]
Merged(m) ==
    [merge |-> m, members |-> reader.merges[m] \cap ToSet(reader.listed), stage |-> MergeStage(m)]
Entries == FoldLeft(LAMBDA es, m : InsertAt(es, At(m) + 1, Merged(m)),
                    [n \in DOMAIN Single |-> Table(Single[n])], SpliceOrder)
Count(es, s) == Cardinality({n \in DOMAIN es : es[n].stage = s})

----------------------------------------------------------------------------
(* getMergedTable: the merge, its members, then each member's rows, every  *)
(* one of them a query of its own.                                         *)

OpenMerged(m) ==
    /\ reader = NoReader /\ m \in Live
    /\ reader' = [NoReader EXCEPT !.at = "found", !.merge = m]
    /\ UNCHANGED <<server, screen, call>>
ReadMembers ==
    /\ reader.at = "found"
    /\ reader' = [reader EXCEPT !.at = "loading",
                    !.members = IF reader.merge \in Live THEN Ordered(Members(reader.merge)) ELSE <<>>]
    /\ UNCHANGED <<server, screen, call>>

(* loadOne refuses a table whose file was discarded, and that or one row   *)
(* too many refuses the whole.                                             *)
RowsOf(s) == FoldLeft(LAMBDA n, t : n + Rows[t], 0, s)
\* Mutation: a table that cannot be read is left out.
LoadNextLeniently ==
    /\ reader.at = "loading" /\ reader.members # <<>>
    /\ LET t == Head(reader.members)
       IN reader' = [reader EXCEPT !.members = Tail(@),
                       !.got = IF t \in Candidates THEN Append(@, t) ELSE @]
    /\ UNCHANGED <<server, screen, call>>
LoadNext ==
    /\ reader.at = "loading" /\ reader.members # <<>>
    /\ LET t == Head(reader.members)
           got == Append(reader.got, t)
       IN reader' = IF t \notin Candidates \cap Done \/ RowsOf(got) > MAX_ROWS
                    THEN [reader EXCEPT !.at = "refused"]
                    ELSE [reader EXCEPT !.members = Tail(@), !.got = got]
    /\ UNCHANGED <<server, screen, call>>
(* Either has answered.                                                    *)
ReadEnds ==
    /\ Polled \/ reader.at = "refused" \/ (reader.at = "loading" /\ reader.members = <<>>)
    /\ reader' = NoReader
    /\ UNCHANGED <<server, screen, call>>

----------------------------------------------------------------------------
Init ==
    /\ gone = {} /\ merges = <<>>
    /\ screen = [b \in Tabs |-> NoScreen]
    /\ call = [i \in 1..MaxCalls |-> NoCall]
    /\ reader = NoReader

Screen(b) == \/ OverviewReads(b) \/ OverviewAnswered(b) \/ Merge(b) \/ Reload(b)
             \/ \E m \in MergeIds : Undo(b, m)
Calls == \E i \in DOMAIN call : CheckMerges(i) \/ WriteMerges(i) \/ MergeAnswered(i)
Reads == \/ \E q \in {"files", "members"} : PollReads(q)
         \/ PollStarts
         \/ \E m \in MergeIds : OpenMerged(m)
         \/ ReadMembers \/ LoadNext \/ ReadEnds

Next == (\E b \in Tabs : Screen(b)) \/ Calls \/ (\E f \in Files : Discard(f)) \/ Reads
Spec == Init /\ [][Next]_vars

----------------------------------------------------------------------------
(* A merge stands for at least two finished tables of one shape, and a     *)
(* table for one merge at most, whoever submits beside whom (the primary   *)
(* key of table_merge_members, createMerges).                              *)
MembersAreApart ==
    /\ \A m \in Live : /\ Cardinality(Members(m)) > 1 /\ Members(m) \subseteq Done
                       /\ \A t, u \in Members(m) : ShapeKey(t) = ShapeKey(u)
    /\ \A m, n \in Live : Members(m) \cap Members(n) # {} => m = n

(* Several merges of one press are made together or not at all.            *)
AllOrNothing ==
    [][\A i \in DOMAIN call : call[i].at = "checked" /\ call'[i].at # "checked" =>
          LET made == {merges'[m].members : m \in DOMAIN merges' \ DOMAIN merges}
          IN made = (IF call'[i].at = "written" THEN call[i].subs ELSE {})]_vars

(* The screen never offers what the server refuses for its shape or size:  *)
(* a refusal means that a table is taken or gone (lib/merge.ts).           *)
RefusedOnlyWhenTaken ==
    [][\A i \in DOMAIN call : call[i].at = "sent" /\ call'[i].at = "refused"
                                => Unavailable(call[i].subs) # {}]_vars

(* Every table of a live file is on the list once, by itself or in a merged*)
(* entry, and the counts come to as many as the list has, though the       *)
(* queries of a poll read at different times (pollResult).                 *)
ListedOnce ==
    Polled =>
        LET es == Entries
        IN /\ \A t \in ToSet(reader.listed) : Cardinality({n \in DOMAIN es : t \in es[n].members}) = 1
           /\ UNION {e.members : e \in ToSet(es)} = ToSet(reader.listed)
           /\ Count(es, "QUEUED") + Count(es, "DONE") + Count(es, "FAILED") = Len(es)

(* A merged entry stands between the tables its first member stood between.*)
StandsInPlace ==
    Polled =>
        LET es == Entries
        IN \A i, j \in DOMAIN es :
              es[i].merge # 0 /\ es[j].merge = 0 =>
                  \A n \in DOMAIN reader.listed : reader.listed[n] \in es[j].members =>
                      (j < i <=> n < FirstAt(es[i].merge))

(* A merged table is shown with all its members, each once, or with none   *)
(* when it was undone while it was read, and never past the cap            *)
(* (getMergedTable).                                                       *)
OpenedIsWhole ==
    reader.at = "loading" /\ reader.members = <<>> =>
        /\ reader.got # <<>> => IsInjective(reader.got) /\ ToSet(reader.got) = Members(reader.merge)
        /\ RowsOf(reader.got) <= MAX_ROWS

=============================================================================
