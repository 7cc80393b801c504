----------------------------- MODULE Workspace -----------------------------
(***************************************************************************)
(* Who this browser is and what it believes about its batches: the identity*)
(* and its adoption by a link (lib/session.ts), the cookie and the way back*)
(* from a lost one (server/session.ts, register, http.ts), the list of     *)
(* cards and the lists parked for other identities (workspace.tsx), the    *)
(* catching up of the list (useWorkspaceRefresh) and the batch page that   *)
(* decides between preparing and converting (request/[requestId]/page.tsx, *)
(* result.tsx).                                                            *)
(*                                                                         *)
(* Tabs share the storage and the cookie; each has calls of its own under  *)
(* way.  A tab forgets the call it made for a batch when it makes another. *)
(***************************************************************************)
EXTENDS Naturals, Sequences, FiniteSets, SequencesExt

CONSTANTS
    Users, Requests, Tabs,
    Shared,      \* requests that exist already, made in another browser
    OwnerOf,     \* [Shared -> Users]
    MAX_PARKED,
    MaxMoves,    \* bound: links opened
    MaxFaults    \* bound: cookies lost, calls and registrations that fail

ASSUME WorkspaceAssumption ==
    /\ Shared \subseteq Requests /\ OwnerOf \in [Shared -> Users]
    /\ "none" \notin Users /\ MAX_PARKED \in Nat \ {0}

VARIABLES
    key,         \* quarry.userId
    registered,  \* quarry.registered: a guess about the cookie
    cookie,      \* whose session the server reads
    list,        \* quarry.workspace: [request -> phase], <<>> when there is none
    parked,      \* [user -> list or <<>>]
    parkedOrder, \* the parked ids, oldest first
    evicted,     \* users whose parked list was dropped (history)
    owner,       \* [request -> user, "none" before it is made]
    stage,       \* [request -> how far the server is with it]
    tab,         \* [tab -> page, session and what the refresh has asked]
    ensure,      \* [tab -> the id it is registering, "none"]
    reauth,      \* [tab -> the id it registers again after a 401, "none"]
    call,        \* [tab -> [request -> poll, probe or convert under way]]
    moves, faults

storage == <<key, registered, list, parked, parkedOrder, evicted>>
server == <<cookie, owner, stage>>
browser == <<tab, ensure, reauth, call>>
workspaceVars == <<storage, server, browser, moves, faults>>

NoCards == [r \in Requests |-> "none"]
Cards == IF list = <<>> THEN NoCards ELSE list
Running == {r \in Requests : Cards[r] = "converting"}
NoCall == [at |-> "idle", kind |-> "poll", claim |-> "none", live |-> FALSE, said |-> "none", quiet |-> FALSE]
Idle == [r \in Requests |-> NoCall]
Page(at, user, r) == [at |-> at, user |-> user, req |-> r, running |-> {}, ran |-> "none",
                      asked |-> {}, askedFor |-> "none", probe |-> "unknown", stopped |-> FALSE]
Closed == Page("closed", "none", "none")

(* updateBatch and addBatch read the list as it is and write one card.     *)
WriteCard(r, phase) == list' = [Cards EXCEPT ![r] = phase]
Fault == faults < MaxFaults /\ faults' = faults + 1
Disturbed(b) == [c \in Tabs |-> [r \in Requests |-> [b[c][r] EXCEPT !.quiet = FALSE]]]

----------------------------------------------------------------------------
(* Adopting an identity.                                                   *)

(* switchWorkspace: the outgoing list is parked as the newest, the oldest  *)
(* past the cap are dropped, and the incoming one comes back.              *)
\* Mutation: the incoming list is fetched before the outgoing one is kept.
SwitchWithoutParking(from, to) ==
    IF from = "none"
    THEN UNCHANGED <<list, parked, parkedOrder, evicted>>
    ELSE /\ list' = parked[to]
         /\ parked' = [parked EXCEPT ![to] = <<>>]
         /\ parkedOrder' = SelectSeq(parkedOrder, LAMBDA u : u # to)
         /\ UNCHANGED evicted
LeftOver(s) == IF Len(s) > MAX_PARKED THEN SubSeq(s, Len(s) - MAX_PARKED + 1, Len(s)) ELSE s
SwitchWorkspace(from, to) ==
    LET touched == Append(SelectSeq(parkedOrder, LAMBDA u : u # from), from)
        kept == IF list = <<>> THEN parkedOrder ELSE LeftOver(touched)
        lists == [u \in Users |-> IF list # <<>> /\ u = from THEN list
                                  ELSE IF u \in ToSet(kept) THEN parked[u] ELSE <<>>]
    IN IF from = "none"
       THEN UNCHANGED <<list, parked, parkedOrder, evicted>>
       ELSE /\ list' = lists[to]
            /\ parked' = [lists EXCEPT ![to] = <<>>]
            /\ parkedOrder' = IF lists[to] = <<>> THEN kept ELSE SelectSeq(kept, LAMBDA u : u # to)
            /\ evicted' = evicted \cup {u \in Users : parked[u] # <<>> /\ u # from /\ lists[u] = <<>>}

(* ensureSession up to its first await.  An id that the note calls         *)
(* registered is used at once.                                             *)
Enters(b, id, page) ==
    /\ tab' = [tab EXCEPT ![b] = IF registered' = id THEN [page EXCEPT !.user = id] ELSE page]
    /\ ensure' = [ensure EXCEPT ![b] = IF registered' = id THEN "none" ELSE id]
EnsureSession(b, id, page) ==
    /\ key' = id
    /\ IF id = key THEN UNCHANGED <<registered, list, parked, parkedOrder, evicted>>
       ELSE registered' = "none" /\ SwitchWorkspace(key, id)
    /\ Enters(b, id, page)

(* A page is loaded, by a link or not; a new browser makes up an id.       *)
Load(b, id) ==
    /\ id = key \/ key = "none" \/ moves < MaxMoves
    /\ moves' = IF key \in {id, "none"} THEN moves ELSE moves + 1
    /\ tab[b].at = "closed" /\ EnsureSession(b, id, Page("list", "none", "none"))
    /\ call' = IF id = key THEN call ELSE Disturbed(call)
    /\ UNCHANGED <<server, reauth, faults>>

(* "Switch back to it": the page stays, and its session with it until the  *)
(* other one is registered.                                                *)
SwitchBack(b, id) ==
    /\ tab[b].at = "list" /\ tab[b].user # "none" /\ id \in Users \ {key}
    /\ moves < MaxMoves /\ moves' = moves + 1
    /\ EnsureSession(b, id, tab[b])
    /\ call' = Disturbed(call)
    /\ UNCHANGED <<server, reauth, faults>>

(* The answer brings the cookie; the page has its session.                 *)
Registered(b) ==
    /\ ensure[b] # "none"
    /\ ensure' = [ensure EXCEPT ![b] = "none"]
    /\ \/ /\ cookie' = ensure[b] /\ registered' = ensure[b]
          /\ tab' = [tab EXCEPT ![b].user = ensure[b]]
          /\ call' = IF ensure[b] = key THEN call ELSE Disturbed(call)
          /\ UNCHANGED faults
       \/ Fault /\ UNCHANGED <<cookie, registered, tab, call>>
    /\ UNCHANGED <<key, list, parked, parkedOrder, evicted, owner, stage, reauth, moves>>

----------------------------------------------------------------------------
(* Calls.  The server believes the cookie, and the claim only when the two *)
(* agree; a 401 is answered once by registering whoever the storage names. *)

Send(b, r, kind) ==
    [NoCall EXCEPT !.at = "sent", !.kind = kind, !.claim = tab[b].user, !.live = TRUE,
                   !.quiet = tab[b].user = key]

Serve(b, r) ==
    LET c == call[b][r]
        own == cookie = c.claim /\ owner[r] = c.claim
    IN
    /\ c.at \in {"sent", "resent"}
    /\ stage' = IF own /\ c.kind = "convert" /\ stage[r] \in {"empty", "shaped"}
                THEN [stage EXCEPT ![r] = "converting"] ELSE stage
    /\ call' = [call EXCEPT ![b][r] =
                  IF cookie # c.claim
                  THEN [c EXCEPT !.at = IF c.at = "sent" THEN "denied" ELSE "refused"]
                  ELSE IF owner[r] # c.claim
                  THEN [c EXCEPT !.at = "refused", !.quiet = FALSE]
                  ELSE [c EXCEPT !.at = "answer", !.said = stage'[r]]]
    /\ UNCHANGED <<storage, cookie, owner, tab, ensure, reauth, moves, faults>>

CallFails(b, r) ==
    /\ call[b][r].at \in {"sent", "resent"} /\ Fault
    /\ call' = [call EXCEPT ![b][r].at = "refused", ![b][r].quiet = FALSE]
    /\ UNCHANGED <<storage, server, tab, ensure, reauth, moves>>

(* reauthenticate: one registration for all the calls that were denied.    *)
Reauthenticate(b) ==
    /\ reauth[b] = "none" /\ \E r \in Requests : call[b][r].at = "denied"
    /\ reauth' = [reauth EXCEPT ![b] = key]
    /\ UNCHANGED <<storage, server, tab, ensure, call, moves, faults>>
Retried(b, at) == [call EXCEPT ![b] = [r \in Requests |->
                      IF call[b][r].at = "denied" THEN [call[b][r] EXCEPT !.at = at] ELSE call[b][r]]]
\* Mutation: the note is believed before the server is asked.
ReauthenticatedByNote(b) ==
    /\ reauth[b] # "none" /\ reauth' = [reauth EXCEPT ![b] = "none"]
    /\ cookie' = IF registered = key THEN cookie ELSE reauth[b]
    /\ call' = Retried(b, "resent")
    /\ UNCHANGED <<storage, owner, stage, tab, ensure, moves, faults>>
Reauthenticated(b) ==
    /\ reauth[b] # "none" /\ reauth' = [reauth EXCEPT ![b] = "none"]
    /\ \/ /\ cookie' = reauth[b] /\ UNCHANGED faults
          /\ call' = IF reauth[b] = key THEN Retried(b, "resent") ELSE Disturbed(Retried(b, "resent"))
       \/ /\ Fault /\ UNCHANGED cookie
          /\ call' = Disturbed(Retried(b, "refused"))
    /\ UNCHANGED <<storage, owner, stage, tab, ensure, moves>>
LoseCookie ==
    /\ cookie # "none" /\ Fault /\ cookie' = "none"
    /\ call' = Disturbed(call)
    /\ UNCHANGED <<storage, owner, stage, tab, ensure, reauth, moves>>

----------------------------------------------------------------------------
(* The list.                                                               *)

(* The effect of useWorkspaceRefresh runs again when the running batches or*)
(* the session change: what it had asked before is answered to nobody.     *)
Ask(b, new) ==
    [r \in Requests |-> IF r \in new THEN Send(b, r, "poll") ELSE [call[b][r] EXCEPT !.live = FALSE]]
Refresh(b) ==
    LET t == tab[b]
        user == t.user
        asked == IF t.askedFor = user THEN t.asked ELSE {}
    IN /\ t.at = "list" /\ (t.running # Running \/ t.ran # user)
       /\ IF user = "none" \/ Running = {}
          THEN /\ tab' = [tab EXCEPT ![b].running = Running, ![b].ran = user]
               /\ call' = [call EXCEPT ![b] = Ask(b, {})]
          ELSE /\ tab' = [tab EXCEPT ![b].running = Running, ![b].ran = user,
                            ![b].asked = asked \cup Running, ![b].askedFor = user]
               /\ call' = [call EXCEPT ![b] = Ask(b, Running \ asked)]
       /\ UNCHANGED <<storage, server, ensure, reauth, moves, faults>>

(* batchPatch: everything that has not ended is converting, for the poll   *)
(* answers CONVERTING to whatever the request is.                          *)
PhaseOf(said) == IF said = "done" THEN "done" ELSE "converting"
Answered(b, r) ==
    /\ tab[b].at = "list" /\ call[b][r].at \in {"answer", "refused"}
    /\ IF call[b][r].at = "answer"
       THEN /\ IF call[b][r].live THEN WriteCard(r, PhaseOf(call[b][r].said)) ELSE UNCHANGED list
            /\ UNCHANGED tab
       ELSE tab' = [tab EXCEPT ![b].asked = @ \ {r}] /\ UNCHANGED list
    /\ call' = [call EXCEPT ![b][r] = NoCall]
    /\ UNCHANGED <<key, registered, parked, parkedOrder, evicted, server, ensure, reauth, moves, faults>>

(* Files are dropped: a card, and the batch page.                          *)
DropFiles(b, r) ==
    /\ tab[b].at = "list" /\ tab[b].user # "none" /\ owner[r] = "none"
    /\ WriteCard(r, "prepare") /\ owner' = [owner EXCEPT ![r] = tab[b].user]
    /\ tab' = [tab EXCEPT ![b] = Page("batch", tab[b].user, r)]
    /\ call' = [call EXCEPT ![b] = Idle]
    /\ UNCHANGED <<key, registered, parked, parkedOrder, evicted, cookie, stage, ensure, reauth, moves, faults>>

----------------------------------------------------------------------------
(* The batch page.                                                         *)

\* Mutation: the page knows of a batch that converts, and of no other.
NotedWhileRunning(r) == Cards[r] = "converting"
Noted(r) == Cards[r] \in {"converting", "done"}
Converting(b) == Noted(tab[b].req) \/ tab[b].probe = "started"

(* By its card, or by its address.  The session is asked for again.        *)
OpenBatch(b, r) ==
    /\ tab[b].at = "list" /\ ensure[b] = "none" /\ owner[r] # "none" /\ key # "none"
    /\ EnsureSession(b, key, Page("batch", "none", r))
    /\ call' = [call EXCEPT ![b] = Idle]
    /\ UNCHANGED <<server, reauth, moves, faults>>

(* useConversionProbe asks only while this browser holds no card; the      *)
(* result poll goes on while the batch converts.                           *)
AskBatch(b) ==
    LET r == tab[b].req IN
    /\ tab[b].at = "batch" /\ tab[b].user # "none" /\ call[b][r] = NoCall
    /\ \/ /\ Cards[r] = "none" /\ tab[b].probe = "unknown"
          /\ call' = [call EXCEPT ![b][r] = Send(b, r, "probe")]
       \/ /\ Converting(b) /\ ~tab[b].stopped
          /\ call' = [call EXCEPT ![b][r] = Send(b, r, "poll")]
       \/ /\ ~Converting(b)
          /\ call' = [call EXCEPT ![b][r] = Send(b, r, "convert")]
    /\ UNCHANGED <<storage, server, tab, ensure, reauth, moves, faults>>

(* What the poll lists is one entry for every schema, whether or not the   *)
(* request was converted.                                                  *)
ProbeOf(said) == IF said = "empty" THEN "not-started" ELSE "started"
BatchAnswered(b) ==
    LET r == tab[b].req
        c == call[b][r]
    IN /\ tab[b].at = "batch" /\ c.at \in {"answer", "refused"}
       /\ IF c.at = "refused" THEN UNCHANGED <<list, tab>>
          ELSE CASE c.kind = "probe" ->
                      /\ tab' = [tab EXCEPT ![b].probe = ProbeOf(c.said)]
                      /\ IF ProbeOf(c.said) = "started" /\ ~Noted(r) THEN WriteCard(r, "converting")
                         ELSE UNCHANGED list
                 [] c.kind = "poll" ->
                      /\ tab' = [tab EXCEPT ![b].stopped = c.said = "done"]
                      /\ WriteCard(r, PhaseOf(c.said))
                 [] OTHER -> WriteCard(r, "converting") /\ UNCHANGED tab
       /\ call' = [call EXCEPT ![b][r] = NoCall]
       /\ UNCHANGED <<key, registered, parked, parkedOrder, evicted, server, ensure, reauth, moves, faults>>

(* closeBatch: the last file was discarded.                                *)
CloseBatch(b) ==
    /\ tab[b].at = "batch" /\ tab[b].user # "none" /\ ~Converting(b)
    /\ WriteCard(tab[b].req, "none") /\ stage' = [stage EXCEPT ![tab[b].req] = "closed"]
    /\ UNCHANGED registered /\ Enters(b, key, Page("list", "none", "none"))
    /\ call' = [call EXCEPT ![b] = Idle]
    /\ UNCHANGED <<key, parked, parkedOrder, evicted, cookie, owner, reauth, moves, faults>>

(* Back to the workspace, or the tab is closed: what was asked is aborted. *)
Leave(b) ==
    /\ tab[b].at # "closed" /\ ensure[b] = "none"
    /\ tab' = [tab EXCEPT ![b] = Closed] /\ call' = [call EXCEPT ![b] = Idle]
    /\ reauth' = [reauth EXCEPT ![b] = "none"]
    /\ UNCHANGED <<storage, server, ensure, moves, faults>>

----------------------------------------------------------------------------
(* The server goes on: shapes come back, the conversion ends.              *)
ServerMoves(r) ==
    /\ owner[r] # "none" /\ stage[r] \in {"empty", "converting"}
    /\ stage' = [stage EXCEPT ![r] = IF @ = "empty" THEN "shaped" ELSE "done"]
    /\ UNCHANGED <<storage, cookie, owner, browser, moves, faults>>

WorkspaceInit ==
    /\ key = "none" /\ registered = "none" /\ cookie = "none"
    /\ list = <<>> /\ parked = [u \in Users |-> <<>>] /\ parkedOrder = <<>> /\ evicted = {}
    /\ owner = [r \in Requests |-> IF r \in Shared THEN OwnerOf[r] ELSE "none"]
    /\ stage = [r \in Requests |-> "empty"]
    /\ tab = [b \in Tabs |-> Closed]
    /\ ensure = [b \in Tabs |-> "none"] /\ reauth = [b \in Tabs |-> "none"]
    /\ call = [b \in Tabs |-> Idle]
    /\ moves = 0 /\ faults = 0

WorkspaceNext ==
    \/ \E b \in Tabs :
        \/ \E u \in Users : Load(b, u) \/ SwitchBack(b, u)
        \/ Registered(b) \/ Reauthenticate(b) \/ Reauthenticated(b)
        \/ Refresh(b) \/ AskBatch(b) \/ BatchAnswered(b) \/ CloseBatch(b) \/ Leave(b)
        \/ \E r \in Requests : Serve(b, r) \/ CallFails(b, r) \/ Answered(b, r)
                               \/ DropFiles(b, r) \/ OpenBatch(b, r)
    \/ LoseCookie
    \/ \E r \in Requests : ServerMoves(r)

WorkspaceSpec == WorkspaceInit /\ [][WorkspaceNext]_workspaceVars

----------------------------------------------------------------------------
(* While no list was dropped for want of room, a card made in this browser *)
(* is on the list or on a parked one, whatever links are opened in whatever*)
(* tab (switchWorkspace, updateBatch).                                     *)
Holds(cards, r) == cards # <<>> /\ cards[r] # "none"
NoCardIsLost ==
    evicted = {} =>
        \A r \in Requests \ Shared : owner[r] # "none" /\ stage[r] # "closed" =>
            Holds(list, r) \/ \E u \in Users : Holds(parked[u], r)

(* A lost cookie is recovered from: a call is refused for want of a session*)
(* only if the identity changed, or another fault struck, while it was     *)
(* under way (http.ts).                                                    *)
DeniedOnlyWhenDisturbed ==
    \A b \in Tabs, r \in Requests : call[b][r].at = "refused" => ~call[b][r].quiet

(* No answer throws a page out of a batch that it knows has converted, as  *)
(* long as this browser stays who it is ("it never demotes").              *)
NeverThrownOut ==
    [][\A b \in Tabs : /\ tab[b].at = "batch" /\ tab'[b].at = "batch" /\ key' = key
                       /\ tab'[b].req = tab[b].req /\ Converting(b)
                       => Converting(b)']_workspaceVars

=============================================================================
