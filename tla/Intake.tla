------------------------------- MODULE Intake -------------------------------
(***************************************************************************)
(* Files on their way in: dropped on or picked through one of the two      *)
(* surfaces of the workspace (useFileIntake.tsx, DropZone, DropStrip), the *)
(* walk through dropped folders (dropped.ts), preflight, and the hand-over *)
(* to the batch screen (app/page.tsx onFiles, staged.ts).                  *)
(***************************************************************************)
EXTENDS Naturals, Sequences, FiniteSets

CONSTANTS
    Things,       \* the files that can be dropped or picked
    FolderOf,     \* [Things -> the folder a file lies in, "top" for none]
    Above,        \* [Things -> how many folders lie above the file]
    Silent,       \* files whose item gives no entry
    Broken,       \* files that cannot be read any more
    Unfit,        \* files that preflight refuses
    Selections,   \* what a person may drop or pick: sets of Things
    Surfaces,     \* the card and the strip
    BATCH,        \* how many entries readEntries answers with at most
    MAX_DEPTH,
    MaxRequests,  \* bound: batches made
    MaxVisits     \* bound: returns to the workspace

ASSUME IntakeAssumption ==
    /\ FolderOf \in [Things -> STRING] /\ Above \in [Things -> Nat]
    /\ BATCH \in Nat \ {0} /\ MAX_DEPTH \in Nat
    /\ Selections \subseteq SUBSET Things

VARIABLES
    session,      \* the user id is known; until then the surfaces are inert
    surface,      \* [Surfaces -> [handing, emptyDrop, picking]]
    walk,         \* [Surfaces -> the walk through what was dropped on it]
    batch,        \* the batches made: by which surface, of what
    screen,       \* the number of the batch whose screen is shown, 0 for the workspace
    leaving,      \* the batch the router is on its way to, 0 for none
    visits

intakeVars == <<session, surface, walk, batch, screen, leaving, visits>>

Fresh == [s \in Surfaces |-> [handing |-> FALSE, emptyDrop |-> FALSE, picking |-> FALSE]]
NoWalk == [live |-> FALSE, visit |-> 0, dropped |-> {}, left |-> {}, got |-> {}, lost |-> {}]
Inert(s) == ~session \/ surface[s].handing

IntakeInit ==
    /\ session = FALSE
    /\ surface = Fresh
    /\ walk = [s \in Surfaces |-> NoWalk]
    /\ batch = <<>>
    /\ screen = 0
    /\ leaving = 0
    /\ visits = 0

SessionKnown ==
    /\ ~session
    /\ session' = TRUE
    /\ UNCHANGED <<surface, walk, batch, screen, leaving, visits>>

(***************************************************************************)
(* The hand-over: every file goes along, the refused ones with a reason.   *)
(***************************************************************************)
StageFiles(files) == {[thing |-> t, refused |-> t \in Unfit] : t \in files}
OnFiles(s, visit, chosen, files, lost) ==
    /\ Len(batch) < MaxRequests
    /\ batch' = Append(batch, [by |-> s, visit |-> visit, chosen |-> chosen,
                               staged |-> StageFiles(files), lost |-> lost])
    /\ leaving' = Len(batch) + 1

(* hand(files).  A surface that is gone hands over all the same, but what  *)
(* it remembers of that is gone with it.                                   *)
Hand(s, visit, chosen, files, lost, emptyDrop) ==
    /\ surface' = IF screen # 0 \/ visit # visits THEN surface
                  ELSE [surface EXCEPT ![s] = [handing |-> files # {}, emptyDrop |-> emptyDrop,
                                               picking |-> FALSE]]
    /\ IF files = {} THEN UNCHANGED <<batch, leaving>>
       ELSE OnFiles(s, visit, chosen, files, lost)

(***************************************************************************)
(* Drops and folders                                                       *)
(***************************************************************************)
(* What the entries of a drop lead to; without any, the flat list.         *)
Entered(chosen) ==
    IF chosen \subseteq Silent THEN {t \in chosen : FolderOf[t] = "top"} ELSE chosen \ Silent

WalkThrough(chosen) ==
    [live |-> TRUE, visit |-> visits, dropped |-> chosen, left |-> Entered(chosen),
     got |-> {}, lost |-> chosen \ Entered(chosen)]

\* Mutation: the surface shuts once the folder has been read.
DropWithoutLock(s, chosen) ==
    /\ screen = 0 /\ ~Inert(s) /\ ~walk[s].live
    /\ walk' = [walk EXCEPT ![s] = WalkThrough(chosen)]
    /\ UNCHANGED <<session, surface, batch, screen, leaving, visits>>

(* A drop shuts the surface before the walk begins (bound: one walk at a   *)
(* time for each surface, also when it comes back).                        *)
Drop(s, chosen) ==
    /\ screen = 0 /\ ~Inert(s) /\ ~walk[s].live
    /\ walk' = [walk EXCEPT ![s] = WalkThrough(chosen)]
    /\ surface' = [surface EXCEPT ![s].handing = TRUE]
    /\ UNCHANGED <<session, batch, screen, leaving, visits>>

Walked(s, read, gone) ==
    /\ walk' = [walk EXCEPT ![s].left = @ \ (read \cup gone),
                            ![s].got = @ \cup (read \ Broken),
                            ![s].lost = @ \cup gone \cup (read \cap Broken)]
    /\ UNCHANGED <<session, surface, batch, screen, leaving, visits>>

InFolder(s, d) == {t \in walk[s].left : FolderOf[t] = d}
Folders(s) == {FolderOf[t] : t \in walk[s].left}
TooDeep(t) == Above[t] > MAX_DEPTH

\* Mutation: a folder is what the first answer of its reader says.
ReadFirstAnswer(s) ==
    /\ walk[s].live
    /\ \E d \in Folders(s) : \E read \in SUBSET InFolder(s, d) :
        /\ Cardinality(read) <= BATCH
        /\ read = InFolder(s, d) \/ Cardinality(read) = BATCH
        /\ walk' = [walk EXCEPT ![s].left = @ \ InFolder(s, d), ![s].got = @ \cup (read \ Broken),
                                ![s].lost = @ \cup (read \cap Broken)]
    /\ UNCHANGED <<session, surface, batch, screen, leaving, visits>>

(* readEntries gives some of a folder's entries, again and again until it  *)
(* gives none; or it fails, and what has come so far stands.  A folder too *)
(* deep down is not read at all.                                           *)
ReadEntries(s) ==
    /\ walk[s].live
    /\ \E d \in Folders(s) :
        LET here == InFolder(s, d) IN
        \/ /\ \E t \in here : TooDeep(t)
           /\ Walked(s, {}, here)
        \/ /\ \A t \in here : ~TooDeep(t)
           /\ \/ \E read \in SUBSET here :
                    /\ read # {} /\ (d # "top" => Cardinality(read) <= BATCH)
                    /\ Walked(s, read, {})
              \/ d # "top" /\ Walked(s, {}, here)

WalkEnded(s) ==
    /\ walk[s].live /\ walk[s].left = {}
    /\ walk' = [walk EXCEPT ![s] = NoWalk]
    /\ Hand(s, walk[s].visit, walk[s].dropped, walk[s].got, walk[s].lost, walk[s].got = {})
    /\ UNCHANGED <<session, screen, visits>>

(***************************************************************************)
(* The pickers: one that is open may answer after the surface has shut.    *)
(***************************************************************************)
PickerOpened(s) ==
    /\ screen = 0 /\ ~Inert(s) /\ ~surface[s].picking
    /\ surface' = [surface EXCEPT ![s].picking = TRUE]
    /\ UNCHANGED <<session, walk, batch, screen, leaving, visits>>

PickerAnswered(s, chosen) ==
    /\ screen = 0 /\ surface[s].picking
    /\ IF Inert(s)
       THEN /\ surface' = [surface EXCEPT ![s].picking = FALSE]
            /\ UNCHANGED <<batch, leaving>>
       ELSE Hand(s, visits, chosen, chosen, {}, surface[s].emptyDrop /\ chosen = {})
    /\ UNCHANGED <<session, walk, screen, visits>>

(***************************************************************************)
(* The navigation                                                          *)
(***************************************************************************)
(* The batch screen takes what is staged for it, and the surfaces go.      *)
Arrive ==
    /\ leaving # 0
    /\ screen' = leaving
    /\ leaving' = 0
    /\ surface' = Fresh
    /\ UNCHANGED <<session, walk, batch, visits>>

BackToWorkspace ==
    /\ screen # 0 /\ leaving = 0 /\ visits < MaxVisits
    /\ screen' = 0
    /\ visits' = visits + 1
    /\ UNCHANGED <<session, surface, walk, batch, leaving>>

IntakeNext ==
    \/ SessionKnown \/ Arrive \/ BackToWorkspace
    \/ \E s \in Surfaces :
        \/ ReadEntries(s) \/ WalkEnded(s) \/ PickerOpened(s)
        \/ \E chosen \in Selections : Drop(s, chosen) \/ PickerAnswered(s, chosen)

IntakeSpec == IntakeInit /\ [][IntakeNext]_intakeVars

(***************************************************************************)
(* Properties                                                              *)
(***************************************************************************)
(* Every file of a drop is staged, the unfit ones with their reason, unless*)
(* it is one of those the walk gives up by design: it cannot be read, its  *)
(* folder fails or lies too deep, or its item gives no entry.  A folder of *)
(* more files than one answer of readEntries holds comes in whole.         *)
EveryDroppedFileIsStaged ==
    \A i \in DOMAIN batch :
        /\ {f.thing : f \in batch[i].staged} = batch[i].chosen \ batch[i].lost
        /\ {f.thing : f \in {g \in batch[i].staged : g.refused}} = Unfit \cap (batch[i].chosen \ batch[i].lost)

(* A surface that has taken a selection takes no second one behind it while*)
(* the folders are read or the router is on its way, whatever pickers are  *)
(* still open: the handing lock of useFileIntake.                          *)
OneHandOver ==
    \A i, j \in DOMAIN batch :
        batch[i].by = batch[j].by /\ batch[i].visit = batch[j].visit => i = j

=============================================================================
