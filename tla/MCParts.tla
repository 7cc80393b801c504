------------------------------ MODULE MCParts ------------------------------
(***************************************************************************)
(* The parts that share no state with another, each explored by itself: a  *)
(* table on screen, files on their way in, the dialog that downloads a     *)
(* batch, what the browser caches, the screen of a batch that converts, the*)
(* identity and its list of batches, and the credentials and connections of*)
(* the API.                                                                *)
(***************************************************************************)
EXTENDS TableView, Intake, Downloads, Cache, Converting, Workspace, Credentials, TLC

CONSTANT Parts   \* the parts to explore
VARIABLE shown   \* the one of them that is

everything == <<vars, intakeVars, downloadVars, cacheVars, convertingVars, workspaceVars, credentialVars, shown>>
OneTable == ~merged /\ records = (CHOOSE t \in Tables : TRUE).records
OneExport == tables = CHOOSE e \in Exports : TRUE
OneBatch == shaped = Documents
PartsInit ==
    /\ shown \in Parts
    /\ Init /\ IntakeInit /\ DownloadInit /\ CacheInit /\ ConvertingInit
    /\ WorkspaceInit /\ CredentialInit
    /\ shown # "table" => OneTable
    /\ shown # "downloads" => OneExport
    /\ shown # "converting" => OneBatch
    /\ shown # "credentials" => ~federated
PartsNext ==
    /\ UNCHANGED shown
    /\ \/ shown = "table" /\ Next
          /\ UNCHANGED <<intakeVars, downloadVars, cacheVars, convertingVars, workspaceVars,
                         credentialVars>>
       \/ shown = "intake" /\ IntakeNext
          /\ UNCHANGED <<vars, downloadVars, cacheVars, convertingVars, workspaceVars,
                         credentialVars>>
       \/ shown = "downloads" /\ DownloadNext
          /\ UNCHANGED <<vars, intakeVars, cacheVars, convertingVars, workspaceVars,
                         credentialVars>>
       \/ shown = "cache" /\ CacheNext
          /\ UNCHANGED <<vars, intakeVars, downloadVars, convertingVars, workspaceVars,
                         credentialVars>>
       \/ shown = "converting" /\ ConvertingNext
          /\ UNCHANGED <<vars, intakeVars, downloadVars, cacheVars, workspaceVars, credentialVars>>
       \/ shown = "workspace" /\ WorkspaceNext
          /\ UNCHANGED <<vars, intakeVars, downloadVars, cacheVars, convertingVars, credentialVars>>
       \/ shown = "credentials" /\ CredentialNext
          /\ UNCHANGED <<vars, intakeVars, downloadVars, cacheVars, convertingVars, workspaceVars>>
PartsSpec == PartsInit /\ [][PartsNext]_everything

(* A table of two fields, of four sorts of texts.                          *)
TotalThenDue == <<"total", "due">>
European == <<"1", ".", "2", "3", "4", ",", "5", "0">>
Accounts == <<"(", "$", "1", ",", "2", "3", "4", ".", "5", ")">>
Coded == <<"A", "B", "C", " ", "9", "9">>
Bare == <<"9", "9", ".", "0">>
Invoice == <<"A", "B", "-", "9", "9">>
LeapDay == <<"2024", "-", "02", "-", "29">>
NoDay == <<"2023", "-", "02", "-", "29">>
DayFirst == <<"2", "/", "1", "/", "2024">>
Said == <<"2", " ", "Feb", ",", " ", "2023">>
Rec(total, due, flagged, bad) ==
    [data |-> [k \in {"total", "due"} |-> IF k = "total" THEN total ELSE due],
     flagged |-> flagged, bad |-> bad]
Types(total, due) == [k \in {"total", "due"} |-> IF k = "total" THEN total ELSE due]
Table(total, due, recs) == [types |-> Types(total, due), records |-> recs]
FourTables == {
    Table("currency", "date", <<Rec({European}, {LeapDay}, {}, FALSE), Rec({Coded}, {DayFirst}, {}, TRUE)>>),
    Table("number", "date", <<Rec({Accounts}, {NoDay}, {"total"}, FALSE), Rec({Coded}, {Said}, {}, FALSE)>>),
    Table("currency", "text", <<Rec({Invoice}, {Coded}, {"due"}, FALSE), Rec({}, {}, {"total"}, FALSE)>>),
    Table("list", "boolean", <<Rec({<<"A", ";", " ", "B", "9">>}, {<<"yes">>}, {}, FALSE),
                               Rec({<<"B", "9">>}, {<<"0">>}, {}, TRUE)>>)}
Boxes == [t \in {"text", "number", "currency", "date", "boolean", "list"} |->
    CASE t = "text" -> {<<"A">>, <<" ">>}
      [] t \in {"number", "currency"} -> {Bare, <<"1", ",", "2", "3", "4">>}
      [] t = "date" -> {<<"2024", "-", "1", "-", "30">>, <<"2023", "-", "2", "-", "13">>}
      [] t = "boolean" -> {}
      [] t = "list" -> {<<"B", "9">>}]
SomeSearches == {<<>>, <<"9">>}
TwoSources == <<<<"A">>, <<"A", " ", "B">>>>
(* Amounts in units of 10^-5, dates in days after the first of 2023.       *)
Amounts ==
    LET said == {<<European, 123450000>>, <<Accounts, -123450000>>, <<Coded, 9900000>>, <<Bare, 9900000>>,
                 <<<<"1", ",", "2", "3", "4">>, 123400000>>,
                 <<LeapDay, 424>>, <<DayFirst, 366>>, <<Said, 32>>,
                 <<<<"2024", "-", "1", "-", "30">>, 394>>, <<<<"2023", "-", "2", "-", "13">>, 43>>}
    IN [text \in {s[1] : s \in said} |-> (CHOOSE s \in said : s[1] = text)[2]]

Interchangeable == Permutations(Surfaces)
(* A loose file, a folder of three and a folder inside folders.            *)
Lies == [t \in {"loose", "a", "b", "c", "deep"} |->
    IF t = "loose" THEN "top" ELSE IF t = "deep" THEN "inner" ELSE "folder"]
Depth == [t \in {"loose", "a", "b", "c", "deep"} |->
    IF t = "loose" THEN 0 ELSE IF t = "deep" THEN 3 ELSE 1]
ThreeDrops == {{}, {"loose", "a"}, {"b", "c", "deep"}}

(* Three batches: of names that agree as far as a tab shows them, of names *)
(* that agree once they are legal, and of names that agree but for the case*)
(* of their letters.                                                       *)
ThreeExports == {
    <<<<"A", "B", "C", "D", "A", "B", "C", ".", "D">>,
      <<"A", "B", "C", "D", "A", "B", "D">>,
      <<"A", "B", " ", "(", "2", ")">>>>,
    <<<<"A", "?", " ", "B">>, <<"A", " ", "B", ".", "C">>, <<"[", "\\">>>>,
    <<<<"A", "B", ".", "C">>, <<"a", "b", ".", "C">>, <<"A", "B">>>>}
Small == [c \in {"A", "B", "C", "D"} |->
    CASE c = "A" -> "a" [] c = "B" -> "b" [] c = "C" -> "c" [] c = "D" -> "d"]

TwoToFour == <<"2", "3", "4">>

About == [k \in {"result of 1", "table of 1", "table of 2"} |->
    IF k = "table of 2" THEN "batch 2" ELSE "batch 1"]

(* One batch was made in another browser.                                  *)
OneShared == [r \in {"r2"} |-> "u1"]

(* Two files, of two tables and of one.                                    *)
TwoAndOne == [f \in Documents |-> IF f = "f1" THEN 2 ELSE 1]
=============================================================================
