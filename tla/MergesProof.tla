---------------------------- MODULE MergesProof -----------------------------
(***************************************************************************)
(* Proofs about Merges, for any number of tables, screens and calls: a     *)
(* table goes into one merge at most, a press makes all of its merges or   *)
(* none, and the screen offers nothing that the server refuses for its     *)
(* shape; and what is read back is whole, a poll's list and a merged table *)
(* that is opened.                                                         *)
(*                                                                         *)
(* The argument follows the submissions: a screen plans them from groups of*)
(* one shape, so they are apart and of one shape while they are under way; *)
(* the check adds that their tables were done, and the transaction that    *)
(* their tables are free.  A reader relies on two things only: merges that *)
(* live are apart, and no step changes what a merge stands for.  The rest  *)
(* is about the answer that is worked out from what was read, and is       *)
(* counted: splicing from the back leaves what is before a splice in place.*)
(***************************************************************************)
EXTENDS Merges, Counting, SequenceTheorems

\* Tables that may go into one merge.
Sound(S) ==
    /\ Cardinality(S) > 1 /\ S \subseteq Tables
    /\ \A t, u \in S : ShapeKey(t) = ShapeKey(u)
Apart(subs) == \A S, T \in subs : S \cap T # {} => S = T

Submissions == {subs \in SUBSET SUBSET Tables : Apart(subs) /\ \A S \in subs : Sound(S)}
Screens == [at : {"reading", "halfway", "ready", "merged"}, free : SUBSET Tables, ids : SUBSET Nat]
CallsOf == [by : Tabs \cup {"none"}, mounted : BOOLEAN,
            at : {"idle", "sent", "checked", "refused", "written"}, subs : Submissions]

\* What is under way and what was written.
MergesInv ==
    /\ merges \in Seq([members : SUBSET Tables, live : BOOLEAN])
    /\ screen \in [Tabs -> Screens]
    /\ call \in [1..MaxCalls -> CallsOf]
    /\ \A i \in 1..MaxCalls : call[i].at = "checked" => UNION call[i].subs \subseteq Done
    /\ MembersAreApart

-----------------------------------------------------------------------------
(* The tables are finitely many, and so are the submissions of a press.    *)
LEMMA FiniteTables == IsFiniteSet(Tables)
<1>1. Listing \in Seq(Tables) /\ Tables = {Listing[i] : i \in DOMAIN Listing}
  BY MergesAssumption DEF Tables, ToSet
<1>2. DOMAIN Listing = 1..Len(Listing) /\ Len(Listing) \in Nat
  BY <1>1
<1>3. IsFiniteSet(DOMAIN Listing)
  BY <1>2, FS_Interval
<1>4. Listing \in Surjection(DOMAIN Listing, Tables)
  BY <1>1 DEF Surjection
<1> QED
  BY <1>3, <1>4, FS_Surjection

LEMMA FiniteSubmissions == ASSUME NEW subs \in SUBSET SUBSET Tables PROVE IsFiniteSet(subs)
<1>1. IsFiniteSet(SUBSET Tables)
  BY FiniteTables, FS_SUBSET
<1> QED
  BY <1>1, FS_Subset

\* Tables of one shape have no conflicting columns.
LEMMA SoundHasNoConflict == ASSUME NEW S, Sound(S) PROVE MergeConflicts(S) = {}
<1> SUFFICES ASSUME NEW t \in S, NEW u \in S, NEW k \in DOMAIN Fields[t]
             PROVE  k \in DOMAIN Fields[u] /\ Fields[t][k] = Fields[u][k]
  BY DEF MergeConflicts
<1>1. <<k, Fields[t][k]>> \in ShapeKey(t)
  BY DEF ShapeKey
<1>2. <<k, Fields[t][k]>> \in ShapeKey(u)
  BY <1>1 DEF Sound
<1>3. PICK j \in DOMAIN Fields[u] : <<k, Fields[t][k]>> = <<j, Fields[u][j]>>
  BY <1>2 DEF ShapeKey
<1> QED
  BY <1>3

\* What a press submits is sound and apart, whatever is ticked.
LEMMA PlannedIsSubmission ==
  ASSUME NEW free \in SUBSET Tables, NEW picked
  PROVE  Planned(Groups(free), picked) \in Submissions
<1> DEFINE subs == Planned(Groups(free), picked)
<1>1. ASSUME NEW S \in subs
      PROVE  \E t \in free : S = {u \in free : ShapeKey(u) = ShapeKey(t)} \cap picked /\ Cardinality(S) > 1
  BY <1>1 DEF Planned, Groups
<1>2. ASSUME NEW S \in subs PROVE Sound(S)
  BY <1>1, <1>2 DEF Sound
<1>3. Apart(subs)
  <2> SUFFICES ASSUME NEW S \in subs, NEW T \in subs, NEW x, x \in S, x \in T PROVE S = T
    BY DEF Apart
  <2> HIDE DEF subs
  <2>1. PICK t \in free : S = {u \in free : ShapeKey(u) = ShapeKey(t)} \cap picked
    BY <1>1
  <2>2. PICK v \in free : T = {u \in free : ShapeKey(u) = ShapeKey(v)} \cap picked
    BY <1>1
  <2>3. ShapeKey(t) = ShapeKey(v)
    BY <2>1, <2>2
  <2> QED
    BY <2>1, <2>2, <2>3
<1>4. subs \in SUBSET SUBSET Tables
  BY <1>2 DEF Sound
<1> QED
  BY <1>2, <1>3, <1>4 DEF Submissions

\* The first slot that is free is one.
LEMMA SlotIsFree ==
  ASSUME MergesInv, NEW i \in DOMAIN call,
         i = Min({j \in DOMAIN call : call[j] = NoCall} \cup {MaxCalls + 1})
  PROVE  call[i] = NoCall
<1> DEFINE S == {j \in DOMAIN call : call[j] = NoCall} \cup {MaxCalls + 1}
<1>1. DOMAIN call = 1..MaxCalls
  BY DEF MergesInv
<1>2. S \in SUBSET Nat /\ S # {}
  BY <1>1, MergesAssumption
<1>3. \E t \in S : \A u \in S : t <= u
  <2> HIDE DEF S
  <2> QED
    BY <1>2, Least
<1>4. i \in S
  BY <1>3 DEF Min
<1> QED
  BY <1>1, <1>4, MergesAssumption

-----------------------------------------------------------------------------
\* One row for each submission.
LEMMA NewRows ==
  ASSUME NEW subs \in SUBSET SUBSET Tables
  PROVE  LET new == NewMerges(subs) IN
         /\ \A e \in new : e \in [members : SUBSET Tables, live : BOOLEAN]
         /\ \A e \in new : e.live /\ e.members \in subs
         /\ \A e, d \in new : e.members = d.members => e = d
         /\ \A S \in subs : \E e \in new : e.members = S
         /\ IsFiniteSet(new)
<1> DEFINE new == NewMerges(subs)
           R(S) == [members |-> S, live |-> TRUE]
           f == [S \in subs |-> R(S)]
<1>1. \A S \in subs : R(S) \in new /\ R(S).members = S
  BY DEF NewMerges
<1>2. \A e \in new : \E S \in subs : e = R(S)
  BY DEF NewMerges
<1>3. \A S \in subs : R(S) \in [members : SUBSET Tables, live : BOOLEAN] /\ R(S).live
  OBVIOUS
<1> HIDE DEF new, R
<1>4. f \in Surjection(subs, new)
  <2>1. \A S \in subs : f[S] = R(S)
    OBVIOUS
  <2>2. f \in [subs -> new]
    BY <1>1
  <2>3. \A e \in new : \E S \in subs : f[S] = e
    BY <1>2, <2>1
  <2> QED
    BY <2>2, <2>3 DEF Surjection
<1>5. IsFiniteSet(new)
  BY <1>4, FiniteSubmissions, FS_Surjection
<1> QED
  BY <1>1, <1>2, <1>3, <1>5 DEF new

\* A sequence of all the elements of a finite set.
LEMMA AllInTurn ==
  ASSUME NEW S, IsFiniteSet(S), NEW s \in SetToSeqs(S)
  PROVE  /\ Cardinality(S) \in Nat /\ s \in Seq(S) /\ Len(s) = Cardinality(S)
         /\ \A i, j \in 1..Len(s) : s[i] = s[j] => i = j
         /\ \A e \in S : \E i \in 1..Len(s) : s[i] = e
<1> DEFINE N == Cardinality(S)
<1>1. N \in Nat
  BY FS_CardinalityType
<1>2. s \in [1..N -> S] /\ \A i, j \in 1..N : i # j => s[i] # s[j]
  BY DEF SetToSeqs
<1>3. s \in Injection(1..N, S)
  BY <1>2 DEF Injection, IsInjective
<1>4. s \in Surjection(1..N, S)
  <2>1. IsFiniteSet(1..N) /\ Cardinality(1..N) = N
    BY <1>1, FS_Interval
  <2> QED
    BY <1>3, <2>1, FS_Injection
<1>5. \A e \in S : \E i \in 1..N : s[i] = e
  BY <1>4 DEF Surjection
<1> HIDE DEF N
<1>6. s \in Seq(S) /\ Len(s) = N
  BY <1>1, <1>2
<1> QED
  BY <1>1, <1>2, <1>5, <1>6 DEF N

\* What a transaction writes: one merge for each submission, after those there
\* are.
LEMMA Written ==
  ASSUME merges \in Seq([members : SUBSET Tables, live : BOOLEAN]),
         NEW subs \in SUBSET SUBSET Tables,
         NEW s \in SetToSeqs(NewMerges(subs)), merges' = merges \o s
  PROVE  /\ merges' \in Seq([members : SUBSET Tables, live : BOOLEAN])
         /\ \A m \in DOMAIN merges : m \in DOMAIN merges' /\ merges'[m] = merges[m]
         /\ \A m \in DOMAIN merges' \ DOMAIN merges :
              merges'[m].live /\ merges'[m].members \in subs
         /\ \A m, n \in DOMAIN merges' \ DOMAIN merges :
              merges'[m].members = merges'[n].members => m = n
         /\ \A S \in subs : \E m \in DOMAIN merges' \ DOMAIN merges : merges'[m].members = S
<1> DEFINE new == NewMerges(subs)
           row == [members : SUBSET Tables, live : BOOLEAN]
<1>1. /\ \A e \in new : e \in row /\ e.live /\ e.members \in subs
      /\ \A e, d \in new : e.members = d.members => e = d
      /\ \A S \in subs : \E e \in new : e.members = S
      /\ IsFiniteSet(new)
  BY NewRows
<1>2. s \in SetToSeqs(new)
  OBVIOUS
<1> HIDE DEF new
<1>3. /\ s \in Seq(new)
      /\ \A i, j \in 1..Len(s) : s[i] = s[j] => i = j
      /\ \A e \in new : \E i \in 1..Len(s) : s[i] = e
  <2>1. IsFiniteSet(new)
    BY <1>1
  <2> HIDE <1>1
  <2> QED
    BY <2>1, <1>2, AllInTurn, Zenon
<1> DEFINE L == Len(merges)
           N == Len(s)
<1>4. /\ L \in Nat /\ DOMAIN merges = 1..L
      /\ N \in Nat /\ \A i \in 1..N : s[i] \in new
  BY <1>3
<1> HIDE DEF row
<1>5. s \in Seq(row) /\ merges \in Seq(row)
  <2>1. merges \in Seq(row)
    BY DEF row
  <2>2. new \subseteq row
    BY <1>1
  <2>3. ASSUME NEW A, NEW B, A \subseteq B, NEW q \in Seq(A) PROVE q \in Seq(B)
    BY <2>3
  <2> QED
    BY <1>3, <2>1, <2>2, <2>3
<1>6. /\ merges' \in Seq(row) /\ DOMAIN merges' = 1..(L + N)
      /\ \A m \in 1..L : merges'[m] = merges[m]
      /\ \A i \in 1..N : merges'[L + i] = s[i]
  <2>1. ASSUME NEW q \in Seq(row), NEW r \in Seq(row)
        PROVE  /\ q \o r \in Seq(row) /\ Len(q \o r) = Len(q) + Len(r)
               /\ \A m \in 1..Len(q) : (q \o r)[m] = q[m]
               /\ \A i \in 1..Len(r) : (q \o r)[Len(q) + i] = r[i]
    OBVIOUS
  <2>2. merges' = merges \o s
    OBVIOUS
  <2>3. /\ merges' \in Seq(row) /\ Len(merges') = L + N
        /\ \A m \in 1..L : merges'[m] = merges[m]
        /\ \A i \in 1..N : merges'[L + i] = s[i]
    BY <1>5, <2>1, <2>2
  <2> QED
    BY <2>3
<1> HIDE DEF L, N
<1>7. ASSUME NEW m \in DOMAIN merges' \ DOMAIN merges
      PROVE  m - L \in 1..N /\ merges'[m] = s[m - L] /\ m = L + (m - L)
  <2>1. m - L \in 1..N /\ m = L + (m - L)
    BY <1>4, <1>6
  <2> QED
    BY <1>6, <2>1
<1>8. ASSUME NEW m \in DOMAIN merges' \ DOMAIN merges
      PROVE  merges'[m].live /\ merges'[m].members \in subs
  BY <1>1, <1>4, <1>7
<1>9. ASSUME NEW m \in DOMAIN merges' \ DOMAIN merges, NEW n \in DOMAIN merges' \ DOMAIN merges,
             merges'[m].members = merges'[n].members
      PROVE  m = n
  <2>1. s[m - L] = s[n - L]
    BY <1>1, <1>4, <1>7, <1>9
  <2>2. m - L = n - L
    BY <1>3, <1>7, <2>1 DEF N
  <2> QED
    BY <1>7, <2>2
<1>10. ASSUME NEW S \in subs
       PROVE  \E m \in DOMAIN merges' \ DOMAIN merges : merges'[m].members = S
  <2>1. PICK e \in new : e.members = S
    BY <1>1
  <2>2. PICK i \in 1..N : s[i] = e
    BY <1>3 DEF N
  <2>3. L + i \in DOMAIN merges' \ DOMAIN merges
    BY <1>4, <1>6
  <2> QED
    BY <1>6, <2>1, <2>2, <2>3
<1>11. \A m \in DOMAIN merges : m \in DOMAIN merges' /\ merges'[m] = merges[m]
  BY <1>4, <1>6
<1> QED
  BY <1>6, <1>8, <1>9, <1>10, <1>11 DEF row

-----------------------------------------------------------------------------
\* Two merges of one table are one merge, and each is of finished tables of one
\* shape, if that is true of what is there and of what is written beside it.
LEMMA WrittenIsApart ==
  ASSUME MergesInv, NEW subs \in Submissions, UNION subs \subseteq Done,
         (UNION subs) \cap Taken = {},
         NEW s \in SetToSeqs(NewMerges(subs)), merges' = merges \o s
  PROVE  MembersAreApart'
<1> DEFINE new == DOMAIN merges' \ DOMAIN merges
<1>1. /\ merges' \in Seq([members : SUBSET Tables, live : BOOLEAN])
      /\ \A m \in DOMAIN merges : m \in DOMAIN merges' /\ merges'[m] = merges[m]
      /\ \A m \in new : merges'[m].live /\ merges'[m].members \in subs
      /\ \A m, n \in new : merges'[m].members = merges'[n].members => m = n
  BY Written DEF MergesInv, Submissions
<1> HIDE DEF new
<1>2. \A m \in DOMAIN merges' : m \in new \/ m \in DOMAIN merges
  BY DEF new
<1>3. \A m \in DOMAIN merges : merges[m].live => merges[m].members \subseteq Taken
  BY DEF Taken, Live, Members, MergeIds
<1>4. \A S, T \in subs : S \cap T # {} => S = T
  BY DEF Submissions, Apart
<1>5. \A S \in subs : Sound(S) /\ S \subseteq Done /\ S \cap Taken = {}
  <2>1. \A S \in subs : S \subseteq UNION subs
    OBVIOUS
  <2> QED
    BY <2>1 DEF Submissions
<1>6. ASSUME NEW m \in DOMAIN merges', merges'[m].live
      PROVE  /\ Cardinality(merges'[m].members) > 1 /\ merges'[m].members \subseteq Done
             /\ \A t, u \in merges'[m].members : ShapeKey(t) = ShapeKey(u)
  <2>1. CASE m \in new
    BY <1>1, <1>5, <2>1 DEF Sound
  <2>2. CASE m \in DOMAIN merges
    BY <1>1, <1>6, <2>2 DEF MergesInv, MembersAreApart, Live, Members, MergeIds
  <2> QED
    BY <1>2, <2>1, <2>2
<1>7. ASSUME NEW m \in DOMAIN merges', NEW n \in DOMAIN merges', merges'[m].live, merges'[n].live,
             merges'[m].members \cap merges'[n].members # {}
      PROVE  m = n
  <2>1. CASE m \in new /\ n \in new
    BY <1>1, <1>4, <1>7, <2>1
  <2>2. CASE m \in DOMAIN merges /\ n \in DOMAIN merges
    BY <1>1, <1>7, <2>2 DEF MergesInv, MembersAreApart, Live, Members, MergeIds
  <2>3. CASE m \in new /\ n \in DOMAIN merges
    BY <1>1, <1>3, <1>5, <1>7, <2>3
  <2>4. CASE n \in new /\ m \in DOMAIN merges
    BY <1>1, <1>3, <1>5, <1>7, <2>4
  <2> QED
    BY <1>2, <2>1, <2>2, <2>3, <2>4
<1> QED
  BY <1>6, <1>7 DEF MembersAreApart, Live, Members, MergeIds

\* Undoing a merge takes nothing but itself away.
LEMMA UndoneIsApart ==
  ASSUME MergesInv, NEW m \in MergeIds, merges' = [merges EXCEPT ![m].live = FALSE]
  PROVE  /\ merges' \in Seq([members : SUBSET Tables, live : BOOLEAN])
         /\ DOMAIN merges' = DOMAIN merges
         /\ MembersAreApart'
<1> DEFINE row == [members : SUBSET Tables, live : BOOLEAN]
<1>1. merges \in Seq(row) /\ m \in DOMAIN merges /\ merges[m] \in row
  <2>1. merges \in Seq(row) /\ m \in DOMAIN merges
    BY DEF MergesInv, MergeIds
  <2> HIDE DEF row
  <2> QED
    BY <2>1
<1>2. [merges[m] EXCEPT !.live = FALSE] \in row
  BY <1>1
<1>3. /\ merges'[m] = [merges[m] EXCEPT !.live = FALSE]
      /\ \A n \in DOMAIN merges : n # m => merges'[n] = merges[n]
      /\ DOMAIN merges' = DOMAIN merges
  BY <1>1
<1>4. merges' \in Seq(row)
  <2> HIDE DEF row
  <2> DEFINE e == [merges[m] EXCEPT !.live = FALSE]
  <2>1. merges' = [merges EXCEPT ![m] = e] /\ e \in row
    BY <1>2
  <2> HIDE DEF e
  <2>2. ASSUME NEW q \in Seq(row), NEW d \in row PROVE [q EXCEPT ![m] = d] \in Seq(row)
    <3>1. PICK n \in Nat : q \in [1..n -> row]
      OBVIOUS
    <3>2. [q EXCEPT ![m] = d] \in [1..n -> row]
      BY <3>1
    <3> QED
      BY <3>2
  <2> QED
    BY <1>1, <2>1, <2>2
<1>5. \A n \in DOMAIN merges' : /\ merges'[n].members = merges[n].members
                                /\ merges'[n].live => merges[n].live
  BY <1>1, <1>3
<1> QED
  BY <1>3, <1>4, <1>5 DEF MergesInv, MembersAreApart, Live, Members, MergeIds

\* A call that is at another point is a call, of what it was submitted.
LEMMA CallTypes ==
  ASSUME MergesInv
  PROVE  /\ NoCall \in CallsOf
         /\ \A b \in Tabs, subs \in Submissions :
              [by |-> b, mounted |-> TRUE, at |-> "sent", subs |-> subs] \in CallsOf
         /\ \A i \in 1..MaxCalls, at \in {"idle", "sent", "checked", "refused", "written"} :
              /\ [call[i] EXCEPT !.at = at] \in CallsOf
              /\ [[call[i] EXCEPT !.at = at] EXCEPT !.subs = {}] \in CallsOf
         /\ \A i \in 1..MaxCalls : [call[i] EXCEPT !.mounted = FALSE] \in CallsOf
<1>1. {} \in Submissions
  BY DEF Submissions, Apart
<1>2. \A i \in 1..MaxCalls : call[i] \in CallsOf
  BY DEF MergesInv
<1> QED
  BY <1>1, <1>2 DEF NoCall, CallsOf

LEMMA UnmountKeeps ==
  ASSUME MergesInv, NEW b \in Tabs
  PROVE  /\ Unmount(b) \in [1..MaxCalls -> CallsOf]
         /\ \A i \in 1..MaxCalls : Unmount(b)[i].at = call[i].at /\ Unmount(b)[i].subs = call[i].subs
<1>1. DOMAIN call = 1..MaxCalls /\ \A i \in 1..MaxCalls : call[i] \in CallsOf
  BY DEF MergesInv
<1>2. \A i \in 1..MaxCalls : /\ [call[i] EXCEPT !.mounted = FALSE] \in CallsOf
                             /\ [call[i] EXCEPT !.mounted = FALSE].at = call[i].at
                             /\ [call[i] EXCEPT !.mounted = FALSE].subs = call[i].subs
  <2>1. \A i \in 1..MaxCalls : [call[i] EXCEPT !.mounted = FALSE] \in CallsOf
    BY CallTypes
  <2>2. ASSUME NEW c \in CallsOf
        PROVE  [c EXCEPT !.mounted = FALSE].at = c.at /\ [c EXCEPT !.mounted = FALSE].subs = c.subs
    BY DEF CallsOf
  <2> QED
    BY <1>1, <2>1, <2>2
<1> QED
  BY <1>1, <1>2 DEF Unmount


\* Another value of one call leaves the others what they were.
LEMMA CallStep ==
  ASSUME MergesInv, NEW i \in 1..MaxCalls, NEW c \in CallsOf, call' = [call EXCEPT ![i] = c],
         c.at = "checked" => UNION c.subs \subseteq Done
  PROVE  /\ call' \in [1..MaxCalls -> CallsOf] /\ call'[i] = c
         /\ \A j \in 1..MaxCalls : j # i => call'[j] = call[j]
         /\ \A j \in 1..MaxCalls : call'[j].at = "checked" => UNION call'[j].subs \subseteq Done
<1>1. call \in [1..MaxCalls -> CallsOf]
      /\ \A j \in 1..MaxCalls : call[j].at = "checked" => UNION call[j].subs \subseteq Done
  BY DEF MergesInv
<1>2. call' \in [1..MaxCalls -> CallsOf] /\ call'[i] = c
      /\ \A j \in 1..MaxCalls : j # i => call'[j] = call[j]
  BY <1>1
<1> QED
  BY <1>1, <1>2

\* A call that is over has nothing submitted any more.
LEMMA OverStep ==
  ASSUME MergesInv, NEW i \in 1..MaxCalls, NEW answer \in {"refused", "written"},
         call' = Over(i, answer)
  PROVE  /\ call' \in [1..MaxCalls -> CallsOf] /\ call'[i].at = answer /\ call'[i].by = call[i].by
         /\ \A j \in 1..MaxCalls : j # i => call'[j] = call[j]
         /\ \A j \in 1..MaxCalls : call'[j].at = "checked" => UNION call'[j].subs \subseteq Done
<1> DEFINE c == [[call[i] EXCEPT !.at = answer] EXCEPT !.subs = {}]
<1>1. call[i] \in CallsOf /\ DOMAIN call = 1..MaxCalls
  BY DEF MergesInv
<1>2. c \in CallsOf
  BY CallTypes
<1>3. c.at = answer /\ c.by = call[i].by
  BY <1>1 DEF CallsOf
<1>4. call' = [call EXCEPT ![i] = c]
  BY <1>1 DEF Over, CallsOf
<1> HIDE DEF c
<1> QED
  BY <1>2, <1>3, <1>4, CallStep

-----------------------------------------------------------------------------
(* A step of a screen.                                                     *)
LEMMA OverviewKeeps ==
  ASSUME MergesInv, NEW b \in Tabs, OverviewReads(b) \/ OverviewAnswered(b)
  PROVE  MergesInv' /\ call' = call /\ merges' = merges
<1>1. screen \in [Tabs -> Screens]
  BY DEF MergesInv
<1>2. Free \in SUBSET Tables /\ Live \in SUBSET Nat
  <2>1. merges \in Seq([members : SUBSET Tables, live : BOOLEAN])
    BY DEF MergesInv
  <2> QED
    BY <2>1 DEF Free, Candidates, Live, MergeIds
<1>3. CASE OverviewReads(b)
  <2> DEFINE c == [[screen[b] EXCEPT !.at = "halfway"] EXCEPT !.free = Free]
  <2>1. c \in Screens
    BY <1>1, <1>2 DEF Screens
  <2>2. screen' = [screen EXCEPT ![b] = c]
    BY <1>1, <1>3 DEF OverviewReads, Screens
  <2> HIDE DEF c
  <2>3. screen' \in [Tabs -> Screens]
    BY <1>1, <2>1, <2>2
  <2>4. call' = call /\ merges' = merges
    BY <1>3 DEF OverviewReads, server
  <2> QED
    BY <2>3, <2>4 DEF MergesInv, MembersAreApart, Live, Members, MergeIds
<1>4. CASE OverviewAnswered(b)
  <2> DEFINE c == [[screen[b] EXCEPT !.at = "ready"] EXCEPT !.ids = Live]
  <2>1. c \in Screens
    BY <1>1, <1>2 DEF Screens
  <2>2. screen' = [screen EXCEPT ![b] = c]
    BY <1>1, <1>4 DEF OverviewAnswered, Screens
  <2> HIDE DEF c
  <2>3. screen' \in [Tabs -> Screens]
    BY <1>1, <2>1, <2>2
  <2>4. call' = call /\ merges' = merges
    BY <1>4 DEF OverviewAnswered, server
  <2> QED
    BY <2>3, <2>4 DEF MergesInv, MembersAreApart, Live, Members, MergeIds
<1> QED
  BY <1>3, <1>4

LEMMA MergeKeeps ==
  ASSUME MergesInv, NEW b \in Tabs, Merge(b)
  PROVE  /\ MergesInv' /\ merges' = merges
         /\ \A j \in 1..MaxCalls : call[j].at # "idle" => call'[j] = call[j]
<1>1. DOMAIN call = 1..MaxCalls /\ screen[b].free \in SUBSET Tables
  BY DEF MergesInv, Screens
<1>2. PICK i \in 1..MaxCalls :
        /\ i = Min({j \in DOMAIN call : call[j] = NoCall} \cup {MaxCalls + 1})
        /\ LET groups == Groups(screen[b].free)
           IN \E subs \in {Planned(groups, picked) : picked \in SUBSET UNION Combinable(groups)} \ {{}} :
                 call' = [call EXCEPT ![i] = [by |-> b, mounted |-> TRUE, at |-> "sent", subs |-> subs]]
  BY <1>1 DEF Merge
<1>3. PICK picked : call' = [call EXCEPT ![i] =
                [by |-> b, mounted |-> TRUE, at |-> "sent", subs |-> Planned(Groups(screen[b].free), picked)]]
  BY <1>2
<1> DEFINE c == [by |-> b, mounted |-> TRUE, at |-> "sent", subs |-> Planned(Groups(screen[b].free), picked)]
<1>4. c \in CallsOf /\ c.at = "sent"
  BY <1>1, PlannedIsSubmission, CallTypes
<1>5. call[i] = NoCall
  BY <1>1, <1>2, SlotIsFree
<1>6. call[i].at = "idle"
  BY <1>5 DEF NoCall
<1>7. call' = [call EXCEPT ![i] = c]
  BY <1>3
<1> HIDE DEF c
<1>8. /\ call' \in [1..MaxCalls -> CallsOf]
      /\ \A j \in 1..MaxCalls : j # i => call'[j] = call[j]
      /\ \A j \in 1..MaxCalls : call'[j].at = "checked" => UNION call'[j].subs \subseteq Done
  BY <1>4, <1>7, CallStep
<1>9. merges' = merges /\ screen' = screen
  BY DEF Merge, server
<1> QED
  BY <1>6, <1>8, <1>9 DEF MergesInv, MembersAreApart, Live, Members, MergeIds

\* Leaving a screen, or undoing a merge on it, stops no call.
LEMMA ScreenLeft ==
  ASSUME MergesInv, NEW b \in Tabs,
         \/ screen' = [screen EXCEPT ![b] = NoScreen] /\ call' = Unmount(b)
         \/ UNCHANGED <<screen, call>>
  PROVE  /\ screen' \in [Tabs -> Screens] /\ call' \in [1..MaxCalls -> CallsOf]
         /\ \A j \in 1..MaxCalls : call'[j].at = call[j].at /\ call'[j].subs = call[j].subs
<1>1. NoScreen \in Screens
  BY DEF NoScreen, Screens
<1> QED
  BY <1>1, UnmountKeeps DEF MergesInv

LEMMA UndoKeeps ==
  ASSUME MergesInv, NEW b \in Tabs, NEW m \in MergeIds, Undo(b, m)
  PROVE  /\ MergesInv' /\ DOMAIN merges' = DOMAIN merges
         /\ \A j \in 1..MaxCalls : call'[j].at = call[j].at
<1>1. merges' = [merges EXCEPT ![m].live = FALSE]
      /\ (\/ screen' = [screen EXCEPT ![b] = NoScreen] /\ call' = Unmount(b)
          \/ UNCHANGED <<screen, call>>)
  BY DEF Undo
<1>2. /\ screen' \in [Tabs -> Screens] /\ call' \in [1..MaxCalls -> CallsOf]
      /\ \A j \in 1..MaxCalls : call'[j].at = call[j].at /\ call'[j].subs = call[j].subs
  BY <1>1, ScreenLeft
<1>3. /\ merges' \in Seq([members : SUBSET Tables, live : BOOLEAN])
      /\ DOMAIN merges' = DOMAIN merges /\ MembersAreApart'
  BY <1>1, UndoneIsApart
<1> QED
  BY <1>2, <1>3 DEF MergesInv

LEMMA ReloadKeeps ==
  ASSUME MergesInv, NEW b \in Tabs, Reload(b)
  PROVE  /\ MergesInv' /\ merges' = merges
         /\ \A j \in 1..MaxCalls : call'[j].at = call[j].at
<1>1. merges' = merges /\ screen' = [screen EXCEPT ![b] = NoScreen] /\ call' = Unmount(b)
  BY DEF Reload, server
<1>2. /\ screen' \in [Tabs -> Screens] /\ call' \in [1..MaxCalls -> CallsOf]
      /\ \A j \in 1..MaxCalls : call'[j].at = call[j].at /\ call'[j].subs = call[j].subs
  BY <1>1, ScreenLeft
<1> QED
  BY <1>1, <1>2 DEF MergesInv, MembersAreApart, Live, Members, MergeIds

-----------------------------------------------------------------------------
(* A step of a call.                                                       *)
LEMMA CheckKeeps ==
  ASSUME MergesInv, NEW i \in 1..MaxCalls, CheckMerges(i)
  PROVE  /\ MergesInv' /\ merges' = merges /\ call[i].at = "sent"
         /\ \A j \in 1..MaxCalls : j # i => call'[j] = call[j]
         /\ call'[i].at = "refused" => Refused(call[i].subs)
<1>1. call[i].at = "sent" /\ merges' = merges /\ screen' = screen
  BY DEF CheckMerges, server
<1>2. /\ call' \in [1..MaxCalls -> CallsOf]
      /\ \A j \in 1..MaxCalls : j # i => call'[j] = call[j]
      /\ \A j \in 1..MaxCalls : call'[j].at = "checked" => UNION call'[j].subs \subseteq Done
      /\ call'[i].at = "refused" => Refused(call[i].subs)
  <2>1. CASE Refused(call[i].subs)
    <3>1. call' = Over(i, "refused")
      BY <2>1 DEF CheckMerges
    <3> QED
      BY <2>1, <3>1, OverStep
  <2>2. CASE ~Refused(call[i].subs)
    <3> DEFINE c == [call[i] EXCEPT !.at = "checked"]
    <3>1. call[i] \in CallsOf /\ DOMAIN call = 1..MaxCalls
      BY DEF MergesInv
    <3>2. c \in CallsOf
      BY CallTypes
    <3>3. c.at = "checked" /\ c.subs = call[i].subs
      BY <3>1 DEF CallsOf
    <3>4. UNION call[i].subs \subseteq Done
      BY <2>2 DEF Refused, Unavailable, Free
    <3>5. call' = [call EXCEPT ![i] = c]
      BY <2>2, <3>1 DEF CheckMerges
    <3> HIDE DEF c
    <3> QED
      BY <3>2, <3>3, <3>4, <3>5, CallStep
  <2> QED
    BY <2>1, <2>2
<1> QED
  BY <1>1, <1>2 DEF MergesInv, MembersAreApart, Live, Members, MergeIds

LEMMA WriteKeeps ==
  ASSUME MergesInv, NEW i \in 1..MaxCalls, WriteMerges(i)
  PROVE  /\ MergesInv' /\ call[i].at = "checked" /\ call'[i].at # "checked"
         /\ \A j \in 1..MaxCalls : j # i => call'[j] = call[j]
         /\ {merges'[m].members : m \in DOMAIN merges' \ DOMAIN merges} =
              (IF call'[i].at = "written" THEN call[i].subs ELSE {})
<1>1. /\ call[i].at = "checked" /\ screen' = screen
      /\ call[i].subs \in Submissions /\ UNION call[i].subs \subseteq Done
  BY DEF WriteMerges, MergesInv, CallsOf
<1>2. CASE (UNION call[i].subs) \cap Taken # {}
  <2>1. call' = Over(i, "refused") /\ merges' = merges
    BY <1>2 DEF WriteMerges
  <2>2. /\ call' \in [1..MaxCalls -> CallsOf] /\ call'[i].at = "refused"
        /\ \A j \in 1..MaxCalls : j # i => call'[j] = call[j]
        /\ \A j \in 1..MaxCalls : call'[j].at = "checked" => UNION call'[j].subs \subseteq Done
    BY <2>1, OverStep
  <2>3. MergesInv'
    BY <1>1, <2>1, <2>2 DEF MergesInv, MembersAreApart, Live, Members, MergeIds
  <2> QED
    BY <1>1, <2>1, <2>2, <2>3
<1>3. CASE (UNION call[i].subs) \cap Taken = {}
  <2>1. /\ call' = Over(i, "written")
        /\ \E s \in SetToSeqs(NewMerges(call[i].subs)) : merges' = merges \o s
    BY <1>3 DEF WriteMerges
  <2>2. PICK s \in SetToSeqs(NewMerges(call[i].subs)) : merges' = merges \o s
    BY <2>1
  <2>3. /\ call' \in [1..MaxCalls -> CallsOf] /\ call'[i].at = "written"
        /\ \A j \in 1..MaxCalls : j # i => call'[j] = call[j]
        /\ \A j \in 1..MaxCalls : call'[j].at = "checked" => UNION call'[j].subs \subseteq Done
    BY <2>1, OverStep
  <2>4. MembersAreApart'
    BY <1>1, <1>3, <2>2, WrittenIsApart
  <2>5. /\ merges' \in Seq([members : SUBSET Tables, live : BOOLEAN])
        /\ \A m \in DOMAIN merges' \ DOMAIN merges : merges'[m].members \in call[i].subs
        /\ \A S \in call[i].subs :
             \E m \in DOMAIN merges' \ DOMAIN merges : merges'[m].members = S
    <3>1. merges \in Seq([members : SUBSET Tables, live : BOOLEAN])
      BY DEF MergesInv
    <3>2. call[i].subs \in SUBSET SUBSET Tables
      BY <1>1 DEF Submissions
    <3> QED
      BY <2>2, <3>1, <3>2, Written
  <2>6. MergesInv'
    BY <1>1, <2>3, <2>4, <2>5 DEF MergesInv
  <2> QED
    BY <1>1, <2>3, <2>5, <2>6
<1> QED
  BY <1>2, <1>3

LEMMA AnswerKeeps ==
  ASSUME MergesInv, NEW i \in 1..MaxCalls, MergeAnswered(i)
  PROVE  /\ MergesInv' /\ merges' = merges /\ call[i].at \in {"refused", "written"}
         /\ \A j \in 1..MaxCalls : j # i => call'[j] = call[j]
<1>1. merges' = merges /\ call[i].at \in {"refused", "written"} /\ call' = [call EXCEPT ![i] = NoCall]
  BY DEF MergeAnswered, server
<1>2. NoCall \in CallsOf /\ NoCall.at = "idle"
  BY CallTypes DEF NoCall
<1>3. /\ call' \in [1..MaxCalls -> CallsOf]
      /\ \A j \in 1..MaxCalls : j # i => call'[j] = call[j]
      /\ \A j \in 1..MaxCalls : call'[j].at = "checked" => UNION call'[j].subs \subseteq Done
  BY <1>1, <1>2, CallStep
<1>4. screen' \in [Tabs -> Screens]
  <2> DEFINE merged == [NoScreen EXCEPT !.at = "merged"]
  <2>1. merged \in Screens
    BY DEF NoScreen, Screens
  <2>2. screen' = screen \/ screen' = [screen EXCEPT ![call[i].by] = merged]
    BY DEF MergeAnswered
  <2> HIDE DEF merged
  <2> QED
    BY <2>1, <2>2 DEF MergesInv
<1> QED
  BY <1>1, <1>3, <1>4 DEF MergesInv, MembersAreApart, Live, Members, MergeIds

-----------------------------------------------------------------------------
\* A discard and a reader write neither a merge nor a call.
LEMMA ElseKeeps ==
  ASSUME MergesInv, (\E f \in Files : Discard(f)) \/ Reads \/ UNCHANGED vars
  PROVE  MergesInv' /\ merges' = merges /\ call' = call
<1>1. UNCHANGED <<merges, screen, call>>
  BY DEF Discard, Reads, PollReads, PollStarts, OpenMerged, ReadMembers, LoadNext, ReadEnds, vars, server
<1> QED
  BY <1>1 DEF MergesInv, MembersAreApart, Live, Members, MergeIds

\* The invariant, and what a step does to a call that was sent or checked.
LEMMA Step ==
  ASSUME MergesInv, [Next]_vars
  PROVE  /\ MergesInv'
         /\ \A i \in 1..MaxCalls : call[i].at = "sent" /\ call'[i].at = "refused" => Refused(call[i].subs)
         /\ \A i \in 1..MaxCalls : call[i].at = "checked" /\ call'[i].at # "checked" =>
              {merges'[m].members : m \in DOMAIN merges' \ DOMAIN merges} =
                (IF call'[i].at = "written" THEN call[i].subs ELSE {})
<1>1. DOMAIN call = 1..MaxCalls
  BY DEF MergesInv
<1>2. ASSUME NEW b \in Tabs, OverviewReads(b) \/ OverviewAnswered(b)
      PROVE  MergesInv' /\ \A i \in 1..MaxCalls : call'[i] = call[i]
  BY <1>2, OverviewKeeps
<1>3. ASSUME NEW b \in Tabs, Merge(b)
      PROVE  MergesInv' /\ \A i \in 1..MaxCalls : call[i].at # "idle" => call'[i] = call[i]
  BY <1>3, MergeKeeps
<1>4. ASSUME NEW b \in Tabs, Reload(b)
      PROVE  MergesInv' /\ \A i \in 1..MaxCalls : call'[i].at = call[i].at
  BY <1>4, ReloadKeeps
<1>5. ASSUME NEW b \in Tabs, NEW m \in MergeIds, Undo(b, m)
      PROVE  MergesInv' /\ \A i \in 1..MaxCalls : call'[i].at = call[i].at
  BY <1>5, UndoKeeps
<1>6. ASSUME NEW i \in 1..MaxCalls, CheckMerges(i)
      PROVE  /\ MergesInv' /\ call[i].at = "sent" /\ (call'[i].at = "refused" => Refused(call[i].subs))
             /\ \A j \in 1..MaxCalls : j # i => call'[j] = call[j]
  BY <1>6, CheckKeeps
<1>7. ASSUME NEW i \in 1..MaxCalls, MergeAnswered(i)
      PROVE  /\ MergesInv' /\ call[i].at \in {"refused", "written"}
             /\ \A j \in 1..MaxCalls : j # i => call'[j] = call[j]
  BY <1>7, AnswerKeeps
<1>8. ASSUME NEW i \in 1..MaxCalls, WriteMerges(i)
      PROVE  /\ MergesInv' /\ call[i].at = "checked"
             /\ \A j \in 1..MaxCalls : j # i => call'[j] = call[j]
             /\ {merges'[m].members : m \in DOMAIN merges' \ DOMAIN merges} =
                  (IF call'[i].at = "written" THEN call[i].subs ELSE {})
  BY <1>8, WriteKeeps
<1>9. ASSUME (\E f \in Files : Discard(f)) \/ Reads \/ UNCHANGED vars
      PROVE  MergesInv' /\ \A i \in 1..MaxCalls : call'[i] = call[i]
  BY <1>9, ElseKeeps
<1>10. \/ \E b \in Tabs : \/ OverviewReads(b) \/ OverviewAnswered(b)
                          \/ Merge(b)
                          \/ Reload(b)
                          \/ \E m \in MergeIds : Undo(b, m)
       \/ \E i \in 1..MaxCalls : CheckMerges(i) \/ WriteMerges(i) \/ MergeAnswered(i)
       \/ (\E f \in Files : Discard(f)) \/ Reads \/ UNCHANGED vars
  BY <1>1 DEF Next, Screen, Calls
<1> DEFINE written == {merges'[m].members : m \in DOMAIN merges' \ DOMAIN merges}
<1> HIDE DEF written
<1>11. ASSUME NEW i \in 1..MaxCalls, WriteMerges(i)
       PROVE  written = (IF call'[i].at = "written" THEN call[i].subs ELSE {})
  BY <1>8, <1>11 DEF written
<1>12. /\ MergesInv'
       /\ \A i \in 1..MaxCalls : call[i].at = "sent" /\ call'[i].at = "refused" => Refused(call[i].subs)
       /\ \A i \in 1..MaxCalls : call[i].at = "checked" /\ call'[i].at # "checked" =>
            written = (IF call'[i].at = "written" THEN call[i].subs ELSE {})
  <2>1. CASE \E b \in Tabs : \/ OverviewReads(b) \/ OverviewAnswered(b)
                             \/ Merge(b)
                             \/ Reload(b)
                             \/ \E m \in MergeIds : Undo(b, m)
    BY <1>2, <1>3, <1>4, <1>5, <2>1
  <2>2. CASE \E i \in 1..MaxCalls : CheckMerges(i) \/ WriteMerges(i) \/ MergeAnswered(i)
    <3>1. PICK i \in 1..MaxCalls : CheckMerges(i) \/ WriteMerges(i) \/ MergeAnswered(i)
      BY <2>2
    <3>2. CASE CheckMerges(i)
      BY <1>6, <3>2
    <3>3. CASE WriteMerges(i)
      BY <1>8, <1>11, <3>3
    <3>4. CASE MergeAnswered(i)
      BY <1>7, <3>4
    <3> QED
      BY <3>1, <3>2, <3>3, <3>4
  <2>3. CASE (\E f \in Files : Discard(f)) \/ Reads \/ UNCHANGED vars
    BY <1>9, <2>3
  <2> QED
    BY <1>10, <2>1, <2>2, <2>3
<1> QED
  BY <1>12 DEF written

LEMMA Start == Init => MergesInv
<1> SUFFICES ASSUME Init PROVE MergesInv
  OBVIOUS
<1>1. merges = <<>> /\ screen = [b \in Tabs |-> NoScreen] /\ call = [i \in 1..MaxCalls |-> NoCall]
  BY DEF Init
<1>2. NoScreen \in Screens
  BY DEF NoScreen, Screens
<1>3. NoCall \in CallsOf /\ NoCall.at = "idle"
  BY DEF NoCall, CallsOf, Submissions, Apart
<1> QED
  BY <1>1, <1>2, <1>3 DEF MergesInv, MembersAreApart, Live, MergeIds

\* In every behaviour a merge stands for at least two finished tables of one
\* shape, and no table stands in two merges (createMerges).
THEOREM MembersApart == Spec => []MembersAreApart
<1>1. MergesInv /\ [Next]_vars => MergesInv'
  BY Step
<1>2. MergesInv => MembersAreApart
  BY DEF MergesInv
<1> QED
  BY Start, <1>1, <1>2, PTL DEF Spec

\* In every behaviour a press makes all of the merges it submitted, or none.
THEOREM MadeTogether == Spec => AllOrNothing
<1>1. MergesInv /\ [Next]_vars => MergesInv'
  BY Step
<1>2. MergesInv /\ [Next]_vars =>
        [\A i \in DOMAIN call : call[i].at = "checked" /\ call'[i].at # "checked" =>
          LET made == {merges'[m].members : m \in DOMAIN merges' \ DOMAIN merges}
          IN made = (IF call'[i].at = "written" THEN call[i].subs ELSE {})]_vars
  <2>1. MergesInv => DOMAIN call = 1..MaxCalls
    BY DEF MergesInv
  <2> QED
    BY <2>1, Step
<1> QED
  BY Start, <1>1, <1>2, PTL DEF Spec, AllOrNothing

\* In every behaviour a call that is refused names a table that is taken, not
\* done or gone: it is never refused for a shape or a size the screen allowed.
THEOREM OnlyTakenIsRefused == Spec => RefusedOnlyWhenTaken
<1>1. MergesInv /\ [Next]_vars => MergesInv'
  BY Step
<1>2. ASSUME NEW subs \in Submissions, Refused(subs) PROVE Unavailable(subs) # {}
  <2>1. \A S, T \in subs : S \cap T # {} => S = T
    BY DEF Submissions, Apart
  <2>2. \A S \in subs : Sound(S) /\ MergeConflicts(S) = {} /\ Cardinality(S) \in Nat
    <3>1. \A S \in subs : Sound(S) /\ IsFiniteSet(S)
      BY FiniteTables, FS_Subset DEF Submissions
    <3> QED
      BY <3>1, SoundHasNoConflict, FS_CardinalityType
  <2>3. \A S \in subs : ~(Cardinality(S) < 2)
    BY <2>2 DEF Sound
  <2> QED
    BY <1>2, <2>1, <2>2, <2>3 DEF Refused
<1>3. MergesInv /\ [Next]_vars =>
        [\A i \in DOMAIN call : call[i].at = "sent" /\ call'[i].at = "refused"
                                 => Unavailable(call[i].subs) # {}]_vars
  <2>1. MergesInv => DOMAIN call = 1..MaxCalls /\ \A i \in 1..MaxCalls : call[i].subs \in Submissions
    BY DEF MergesInv, CallsOf
  <2> QED
    BY <1>2, <2>1, Step
<1> QED
  BY Start, <1>1, <1>3, PTL DEF Spec, RefusedOnlyWhenTaken

-----------------------------------------------------------------------------
\* What rows come to is a number.
LEMMA RowsAreSummed ==
  ASSUME NEW s \in Seq(Tables)
  PROVE  RowsOf(s) \in Nat /\ (s = <<>> => RowsOf(s) = 0)
<1> DEFINE E == DOMAIN s
           w == [i \in E |-> Rows[s[i]]]
           sum == CHOOSE g : g = [S \in SUBSET E |-> IF S = {} THEN 0 ELSE g[S \ {Max(S)}] + Rows[s[Max(S)]]]
<1>1. RowsOf(s) = sum[E]
  BY DEF RowsOf, FoldLeft, MapThenFoldSet
<1>2. E \in SUBSET Nat /\ IsFiniteSet(E) /\ w \in [E -> Nat] /\ (s = <<>> => E = {})
  <2>1. E = 1..Len(s) /\ Len(s) \in Nat
    OBVIOUS
  <2>2. \A i \in E : s[i] \in Tables
    OBVIOUS
  <2>3. IsFiniteSet(E)
    BY <2>1, FS_Interval
  <2>4. w \in [E -> Nat]
    BY <2>2, MergesAssumption
  <2>5. E \in SUBSET Nat /\ (s = <<>> => E = {})
    BY <2>1
  <2> QED
    BY <2>3, <2>4, <2>5
<1>3. ASSUME NEW S \in SUBSET E, S # {} PROVE Max(S) \in S
  <2>1. S \in SUBSET Nat /\ Len(s) \in Nat /\ \A m \in S : m <= Len(s)
    BY <1>2
  <2>2. \E t \in S : \A u \in S : u <= t
    BY <1>3, <2>1, Greatest
  <2>3. \E t \in S : \A u \in S : t >= u
    BY <2>1, <2>2
  <2> QED
    BY <2>3 DEF Max
<1> DEFINE G == [S \in SUBSET E |-> SumOf(w, S)]
           H == [S \in SUBSET E |-> IF S = {} THEN 0 ELSE G[S \ {Max(S)}] + Rows[s[Max(S)]]]
<1>4. \A i \in E : w[i] = Rows[s[i]] /\ w[i] \in Nat
  BY <1>2
<1> HIDE DEF E, w
<1>5. /\ SumOf(w, {}) = 0
      /\ \A S \in SUBSET E : SumOf(w, S) \in Nat
      /\ \A S \in SUBSET E : \A e \in S : SumOf(w, S) = w[e] + SumOf(w, S \ {e})
  <2>1. IsFiniteSet(E) /\ w \in [E -> Nat]
    BY <1>2
  <2>2. \A S \in SUBSET E : IsFiniteSet(Piles(w, S)) /\ SumOf(w, S) \in Nat
    BY <2>1, PilesAreFinite, Zenon
  <2>3. /\ SumOf(w, {}) = 0
        /\ \A S \in SUBSET E : \A e \in S : SumOf(w, S) = w[e] + SumOf(w, S \ {e})
    BY <2>1, SumOfOthers
  <2> QED
    BY <2>2, <2>3
<1>6. ASSUME NEW S \in SUBSET E PROVE G[S] = H[S]
  <2>1. CASE S = {}
    BY <1>5, <2>1
  <2>2. CASE S # {}
    <3>1. Max(S) \in S /\ S \ {Max(S)} \in SUBSET E
      BY <1>3, <2>2
    <3>2. SumOf(w, S) = w[Max(S)] + SumOf(w, S \ {Max(S)}) /\ w[Max(S)] \in Nat
          /\ SumOf(w, S \ {Max(S)}) \in Nat /\ w[Max(S)] = Rows[s[Max(S)]]
      BY <1>4, <1>5, <3>1
    <3> QED
      BY <2>2, <3>1, <3>2
  <2> QED
    BY <2>1, <2>2
<1>7. G = H
  BY <1>6
<1>8. sum = [S \in SUBSET E |-> IF S = {} THEN 0 ELSE sum[S \ {Max(S)}] + Rows[s[Max(S)]]]
  <2> HIDE DEF G
  <2> QED
    BY <1>7
<1> HIDE DEF sum, G, H
<1>9. /\ sum[{}] = 0
      /\ \A S \in SUBSET E : S # {} => sum[S] = sum[S \ {Max(S)}] + Rows[s[Max(S)]]
  BY <1>8
<1>10. sum[E] = SumOf(w, E)
  <2>1. IsFiniteSet(E) /\ w \in [E -> Nat]
    BY <1>2
  <2>2. ASSUME NEW S \in SUBSET E, S # {} PROVE \E e \in S : sum[S \ {e}] \in Nat => sum[S] = w[e] + sum[S \ {e}]
    <3>1. Max(S) \in S /\ sum[S] = sum[S \ {Max(S)}] + w[Max(S)] /\ w[Max(S)] \in Nat
      BY <1>2, <1>3, <1>4, <1>9, <2>2
    <3>2. sum[S \ {Max(S)}] \in Nat => sum[S] = w[Max(S)] + sum[S \ {Max(S)}]
      BY <3>1
    <3> QED
      BY <3>1, <3>2, Zenon
  <2>3. sum[{}] = 0
    BY <1>9
  <2>4. \A S \in SUBSET E : S # {} => \E e \in S : sum[S \ {e}] \in Nat => sum[S] = w[e] + sum[S \ {e}]
    BY <2>2, Zenon
  <2>6. AddsUp(E, w, sum)
    BY <2>3, <2>4 DEF AddsUp
  <2>5. \A S \in SUBSET E : sum[S] = SumOf(w, S)
    <3>2. ASSUME NEW g, AddsUp(E, w, g) PROVE \A S \in SUBSET E : g[S] = SumOf(w, S)
      BY <3>2, <2>1, AddedUp
    <3> QED
      BY <3>2, <2>6, Zenon
  <2> QED
    BY <2>5
<1> QED
  BY <1>1, <1>2, <1>5, <1>10

-----------------------------------------------------------------------------
(* The reader: a poll, or a merged table that is being opened.             *)
Readers == [at : {"none", "polling", "found", "loading", "refused"},
            left : SUBSET {"files", "members"}, listed : Seq(Tables), merges : Seq(SUBSET Tables),
            merge : Nat, members : Seq(Tables), got : Seq(Tables)]

\* No element twice; no element in two.
Once(s) == \A i, j \in DOMAIN s : s[i] = s[j] => i = j
Parted(ms) == \A m, n \in DOMAIN ms : ms[m] \cap ms[n] # {} => m = n

\* What was read: each table once, merges apart, and of a merge all its members
\* or none.
ReaderInv ==
    /\ reader \in Readers
    /\ Once(reader.listed) /\ Parted(reader.merges)
    /\ reader.at = "found" => reader.merge \in MergeIds /\ reader.got = <<>>
    /\ reader.at = "loading" =>
         /\ reader.merge \in MergeIds
         /\ reader.got \o reader.members \in {<<>>, Ordered(Members(reader.merge))}
         /\ RowsOf(reader.got) <= MAX_ROWS

\* The members of a merge in the order of the listing are its members, each once.
LEMMA OrderedOnce ==
  ASSUME NEW S
  PROVE  /\ Ordered(S) \in Seq(Tables) /\ Once(Ordered(S))
         /\ \A t \in Tables : t \in S => \E n \in DOMAIN Ordered(S) : Ordered(S)[n] = t
         /\ \A k \in DOMAIN Ordered(S) : Ordered(S)[k] \in S
<1> DEFINE P == {i \in DOMAIN Listing : Listing[i] \in S}
           N == Cardinality(P)
<1>1. Listing \in Seq(Tables) /\ P \in SUBSET DOMAIN Listing /\ Ordered(S) = AtPlaces(Listing, P)
  BY MergesAssumption DEF Ordered
<1>2. \A i, j \in DOMAIN Listing : Listing[i] = Listing[j] => i = j
  BY MergesAssumption
<1>3. \A t \in Tables : \E i \in DOMAIN Listing : Listing[i] = t
  BY DEF Tables, ToSet
<1>4. \A i \in P : Listing[i] \in S
  OBVIOUS
<1>5. \A i \in DOMAIN Listing : Listing[i] \in S => i \in P
  OBVIOUS
<1> HIDE DEF P
<1>6. /\ Ordered(S) \in Seq(Tables) /\ Len(Ordered(S)) = N /\ N \in Nat
      /\ InOrder(P) \in [1..N -> P]
      /\ \A n \in 1..N : Ordered(S)[n] = Listing[InOrder(P)[n]]
      /\ \A i \in P : \E n \in 1..N : InOrder(P)[n] = i
      /\ \A n, m \in 1..N : n < m => InOrder(P)[n] < InOrder(P)[m]
  BY <1>1, AtPlacesHolds
<1> HIDE DEF N
<1>7. DOMAIN Ordered(S) = 1..N
  BY <1>6
<1>8. \A n \in 1..N : InOrder(P)[n] \in P /\ InOrder(P)[n] \in DOMAIN Listing
  BY <1>1, <1>6
<1>9. ASSUME NEW n \in 1..N, NEW m \in 1..N, Ordered(S)[n] = Ordered(S)[m] PROVE n = m
  <2>1. InOrder(P)[n] = InOrder(P)[m] /\ InOrder(P)[n] \in Nat
    BY <1>1, <1>2, <1>6, <1>8, <1>9
  <2>2. ~(n < m) /\ ~(m < n)
    BY <1>6, <2>1
  <2> QED
    BY <1>6, <2>2
<1>10. ASSUME NEW t \in Tables, t \in S PROVE \E n \in 1..N : Ordered(S)[n] = t
  BY <1>3, <1>5, <1>6, <1>10
<1>11. \A n \in 1..N : Ordered(S)[n] \in S
  BY <1>4, <1>6, <1>8
<1> QED
  BY <1>6, <1>7, <1>9, <1>10, <1>11 DEF Once

\* Steps that add merges or take their life leave what they stand for.
LEMMA ReaderStays ==
  ASSUME MergesInv, ReaderInv, reader' = reader,
         \A m \in DOMAIN merges : m \in DOMAIN merges' /\ merges'[m].members = merges[m].members
  PROVE  ReaderInv'
<1>1. reader.at \in {"found", "loading"} => reader.merge \in DOMAIN merges /\ Members(reader.merge)' = Members(reader.merge)
  BY DEF ReaderInv, MergeIds, Members
<1>2. Ordered(Members(reader.merge)') = Ordered(Members(reader.merge)')
  OBVIOUS
<1> QED
  BY <1>1 DEF ReaderInv, MergeIds, Ordered, Members

\* What a poll reads of the merges is apart.
LEMMA LiveIsParted ==
  ASSUME MergesInv, NEW ms, ms = [m \in MergeIds |-> IF merges[m].live THEN Members(m) ELSE {}]
  PROVE  ms \in Seq(SUBSET Tables) /\ Parted(ms)
<1>1. merges \in Seq([members : SUBSET Tables, live : BOOLEAN])
  BY DEF MergesInv
<1>2. DOMAIN merges = 1..Len(merges) /\ Len(merges) \in Nat
      /\ \A m \in DOMAIN merges : merges[m].members \in SUBSET Tables
  <2> DEFINE row == [members : SUBSET Tables, live : BOOLEAN]
  <2>1. \A e \in row : e.members \in SUBSET Tables
    OBVIOUS
  <2>2. merges \in Seq(row)
    BY <1>1
  <2> HIDE DEF row
  <2>3. DOMAIN merges = 1..Len(merges) /\ Len(merges) \in Nat /\ \A m \in DOMAIN merges : merges[m] \in row
    BY <2>2
  <2> QED
    BY <2>1, <2>3
<1>3. ms \in [1..Len(merges) -> SUBSET Tables]
  BY <1>2 DEF MergeIds, Members
<1>4. ms \in Seq(SUBSET Tables)
  BY <1>2, <1>3
<1>5. ASSUME NEW m \in DOMAIN ms, NEW n \in DOMAIN ms, ms[m] \cap ms[n] # {} PROVE m = n
  <2>1. m \in Live /\ n \in Live /\ Members(m) \cap Members(n) # {}
    BY <1>5 DEF Live, MergeIds
  <2> QED
    BY <2>1 DEF MergesInv, MembersAreApart
<1> QED
  BY <1>4, <1>5 DEF Parted

\* Reading on moves the first of what is left behind what was read.
LEMMA HeadMoves ==
  ASSUME NEW T, NEW r \in Seq(T), NEW s \in Seq(T), s # <<>>
  PROVE  /\ Head(s) \in T /\ Append(r, Head(s)) \in Seq(T) /\ Tail(s) \in Seq(T)
         /\ Append(r, Head(s)) \o Tail(s) = r \o s
<1>1. PICK h : h = Head(s)
  OBVIOUS
<1>2. PICK p : p = Tail(s)
  OBVIOUS
<1>3. PICK q : q = Append(r, h)
  OBVIOUS
<1>4. /\ h \in T /\ p \in Seq(T) /\ Len(p) = Len(s) - 1 /\ h = s[1]
      /\ \A i \in 1..Len(p) : p[i] = s[i + 1]
  BY <1>1, <1>2, HeadTailProperties
<1>5. /\ q \in Seq(T) /\ Len(q) = Len(r) + 1
      /\ \A i \in 1..Len(r) : q[i] = r[i]
      /\ q[Len(r) + 1] = h
  BY <1>3, <1>4, AppendProperties
<1>6. /\ q \o p \in Seq(T) /\ Len(q \o p) = Len(q) + Len(p)
      /\ \A i \in 1..Len(q) + Len(p) : (q \o p)[i] = IF i <= Len(q) THEN q[i] ELSE p[i - Len(q)]
  BY <1>4, <1>5, ConcatProperties
<1>7. /\ r \o s \in Seq(T) /\ Len(r \o s) = Len(r) + Len(s)
      /\ \A i \in 1..Len(r) + Len(s) : (r \o s)[i] = IF i <= Len(r) THEN r[i] ELSE s[i - Len(r)]
  BY ConcatProperties
<1>8. PICK x : x = q \o p
  OBVIOUS
<1>9. PICK y : y = r \o s
  OBVIOUS
<1>10. Len(r) \in Nat /\ Len(s) \in Nat /\ Len(p) \in Nat /\ Len(s) >= 1
  BY <1>4
<1>11. x \in Seq(T) /\ y \in Seq(T) /\ Len(x) = Len(y) /\ Len(y) = Len(r) + Len(s)
  <2>1. x \in Seq(T) /\ Len(x) = Len(q) + Len(p)
    BY <1>6, <1>8
  <2>2. y \in Seq(T) /\ Len(y) = Len(r) + Len(s)
    BY <1>7, <1>9
  <2> QED
    BY <1>4, <1>5, <1>10, <2>1, <2>2
<1>12. ASSUME NEW i \in 1..Len(y) PROVE x[i] = y[i]
  <2>1. x[i] = IF i <= Len(q) THEN q[i] ELSE p[i - Len(q)]
    BY <1>4, <1>5, <1>6, <1>8, <1>10, <1>11
  <2>2. y[i] = IF i <= Len(r) THEN r[i] ELSE s[i - Len(r)]
    BY <1>7, <1>9, <1>11
  <2>3. CASE i <= Len(r)
    BY <1>5, <1>10, <2>1, <2>2, <2>3
  <2>4. CASE i = Len(r) + 1
    BY <1>4, <1>5, <1>10, <2>1, <2>2, <2>4
  <2>5. CASE i > Len(r) + 1
    <3>1. i - Len(q) \in 1..Len(p) /\ i - Len(q) + 1 = i - Len(r) /\ ~(i <= Len(q)) /\ ~(i <= Len(r))
      BY <1>4, <1>5, <1>10, <1>11, <2>5
    <3> QED
      BY <1>4, <2>1, <2>2, <3>1
  <2> QED
    BY <1>10, <1>11, <2>3, <2>4, <2>5
<1>13. x = y
  BY <1>11, <1>12, SeqEqual
<1> QED
  BY <1>1, <1>2, <1>3, <1>4, <1>5, <1>8, <1>9, <1>13

\* A read adds to what was read.
LEMMA ReaderSteps ==
  ASSUME MergesInv, ReaderInv, Reads
  PROVE  ReaderInv'
<1>1. merges' = merges
  BY DEF Reads, PollReads, PollStarts, OpenMerged, ReadMembers, LoadNext, ReadEnds, server
<1>2. reader \in Readers /\ Once(reader.listed) /\ Parted(reader.merges)
  BY DEF ReaderInv
<1>3. /\ NoReader \in Readers /\ Once(<<>>) /\ Parted(<<>>)
      /\ NoReader.listed = <<>> /\ NoReader.merges = <<>> /\ NoReader.got = <<>>
  BY DEF NoReader, Readers, Once, Parted
<1>4. CASE PollStarts
  <2>1. reader' = [NoReader EXCEPT !.at = "polling", !.left = {"files", "members"}]
    BY <1>4 DEF PollStarts
  <2>2. reader' \in Readers /\ reader'.at = "polling" /\ reader'.listed = <<>> /\ reader'.merges = <<>>
    BY <1>3, <2>1 DEF Readers
  <2> QED
    BY <1>3, <2>2 DEF ReaderInv
<1>5. ASSUME NEW q \in {"files", "members"}, PollReads(q) PROVE ReaderInv'
  <2>1. PICK listed : listed = Ordered(Candidates)
    OBVIOUS
  <2>2. PICK ms : ms = [m \in MergeIds |-> IF merges[m].live THEN Members(m) ELSE {}]
    OBVIOUS
  <2>3. listed \in Seq(Tables) /\ Once(listed) /\ ms \in Seq(SUBSET Tables) /\ Parted(ms)
    BY <2>1, <2>2, OrderedOnce, LiveIsParted
  <2>4. reader.at = "polling" /\ reader' = [reader EXCEPT !.left = reader.left \ {q},
                    !.listed = IF q = "files" THEN listed ELSE reader.listed,
                    !.merges = IF q = "members" THEN ms ELSE reader.merges]
    BY <1>5, <2>1, <2>2, <1>2 DEF PollReads, Readers
  <2>5. /\ reader' \in Readers /\ reader'.at = "polling"
        /\ reader'.listed = IF q = "files" THEN listed ELSE reader.listed
        /\ reader'.merges = IF q = "members" THEN ms ELSE reader.merges
    BY <1>2, <2>3, <2>4 DEF Readers
  <2> QED
    BY <1>2, <2>3, <2>5 DEF ReaderInv
<1>6. ASSUME NEW m \in MergeIds, OpenMerged(m) PROVE ReaderInv'
  <2>1. reader' = [NoReader EXCEPT !.at = "found", !.merge = m]
    BY <1>6 DEF OpenMerged
  <2>2. m \in Nat
    BY DEF MergesInv, MergeIds
  <2>3. /\ reader' \in Readers /\ reader'.at = "found" /\ reader'.listed = <<>> /\ reader'.merges = <<>>
        /\ reader'.merge = m /\ reader'.got = <<>>
    BY <1>3, <2>1, <2>2 DEF Readers
  <2> QED
    BY <1>1, <1>3, <2>3 DEF ReaderInv, MergeIds
<1>7. CASE ReadMembers
  <2>1. PICK members : members = IF reader.merge \in Live THEN Ordered(Members(reader.merge)) ELSE <<>>
    OBVIOUS
  <2>2. members \in Seq(Tables)
    BY <2>1, OrderedOnce
  <2>3. reader.at = "found" /\ reader' = [reader EXCEPT !.at = "loading", !.members = members]
    BY <1>7, <2>1 DEF ReadMembers
  <2>4. /\ reader' \in Readers /\ reader'.at = "loading" /\ reader'.listed = reader.listed
        /\ reader'.merges = reader.merges /\ reader'.merge = reader.merge
        /\ reader'.got = reader.got /\ reader'.members = members
    BY <1>2, <2>2, <2>3 DEF Readers
  <2>5. reader.merge \in MergeIds /\ reader.got = <<>>
    BY <2>3 DEF ReaderInv
  <2>6. RowsOf(<<>>) = 0 /\ 0 <= MAX_ROWS
    <3>1. ASSUME NEW s \in Seq(Tables), s = <<>> PROVE RowsOf(s) = 0
      BY <3>1, RowsAreSummed
    <3>2. <<>> \in Seq(Tables)
      OBVIOUS
    <3>3. PICK s : s = <<>>
      OBVIOUS
    <3>4. RowsOf(s) = 0
      BY <3>1, <3>2, <3>3
    <3> QED
      BY <3>3, <3>4, MergesAssumption
  <2>7. <<>> \o members = members
    BY <2>2
  <2>8. reader'.got \o reader'.members \in {<<>>, Ordered(Members(reader.merge))}
    BY <2>1, <2>4, <2>5, <2>7
  <2>9. MergeIds' = MergeIds /\ \A m : Ordered(Members(m))' = Ordered(Members(m))
    BY <1>1 DEF MergeIds, Members, Ordered
  <2> QED
    BY <1>2, <2>4, <2>5, <2>6, <2>8, <1>1 DEF ReaderInv, MergeIds, Members, Ordered
<1>8. CASE LoadNext
  <2>1. PICK t : t = Head(reader.members)
    OBVIOUS
  <2>2. PICK got : got = Append(reader.got, t)
    OBVIOUS
  <2>3. /\ reader.at = "loading" /\ reader.members # <<>>
        /\ \/ reader' = [reader EXCEPT !.at = "refused"]
           \/ ~(RowsOf(got) > MAX_ROWS)
              /\ reader' = [reader EXCEPT !.members = Tail(reader.members), !.got = got]
    BY <1>8, <1>2, <2>1, <2>2 DEF LoadNext, Readers
  <2>4. CASE reader' = [reader EXCEPT !.at = "refused"]
    <3>1. /\ reader' \in Readers /\ reader'.at = "refused" /\ reader'.listed = reader.listed
          /\ reader'.merges = reader.merges
      BY <1>2, <2>4 DEF Readers
    <3> QED
      BY <1>2, <3>1 DEF ReaderInv
  <2>5. CASE ~(RowsOf(got) > MAX_ROWS) /\ reader' = [reader EXCEPT !.members = Tail(reader.members), !.got = got]
    <3>1. reader.members \in Seq(Tables) /\ reader.got \in Seq(Tables)
      BY <1>2 DEF Readers
    <3>2. /\ t \in Tables /\ got \in Seq(Tables) /\ Tail(reader.members) \in Seq(Tables)
          /\ got \o Tail(reader.members) = reader.got \o reader.members
      <4>1. PICK r : r = reader.got
        OBVIOUS
      <4>2. PICK l : l = reader.members
        OBVIOUS
      <4>3. r \in Seq(Tables) /\ l \in Seq(Tables) /\ l # <<>>
        BY <2>3, <3>1, <4>1, <4>2
      <4>4. /\ Head(l) \in Tables /\ Append(r, Head(l)) \in Seq(Tables) /\ Tail(l) \in Seq(Tables)
            /\ Append(r, Head(l)) \o Tail(l) = r \o l
        BY <4>3, HeadMoves, Zenon
      <4>5. t = Head(l) /\ got = Append(r, Head(l))
        BY <2>1, <2>2, <4>1, <4>2
      <4> QED
        BY <4>1, <4>2, <4>4, <4>5
    <3>3. /\ reader' \in Readers /\ reader'.at = "loading" /\ reader'.listed = reader.listed
          /\ reader'.merges = reader.merges /\ reader'.merge = reader.merge
          /\ reader'.got = got /\ reader'.members = Tail(reader.members)
      BY <1>2, <2>3, <2>5, <3>2 DEF Readers
    <3>4. RowsOf(got) <= MAX_ROWS
      BY <2>5, <3>2, RowsAreSummed, MergesAssumption
    <3> QED
      BY <1>1, <1>2, <2>3, <3>2, <3>3, <3>4 DEF ReaderInv, MergeIds, Members, Ordered
  <2> QED
    BY <2>3, <2>4, <2>5
<1>9. CASE ReadEnds
  <2>1. reader' = NoReader
    BY <1>9 DEF ReadEnds
  <2>2. NoReader.at = "none" /\ NoReader.listed = <<>> /\ NoReader.merges = <<>>
    BY DEF NoReader
  <2> QED
    BY <1>3, <2>1, <2>2 DEF ReaderInv
<1> QED
  BY <1>4, <1>5, <1>6, <1>7, <1>8, <1>9 DEF Reads

\* No step takes a table out of a merge, undone or not, or adds one to it.
LEMMA MembersStay ==
  ASSUME MergesInv, [Next]_vars
  PROVE  \A m \in DOMAIN merges : m \in DOMAIN merges' /\ merges'[m].members = merges[m].members
<1>1. DOMAIN call = 1..MaxCalls /\ merges \in Seq([members : SUBSET Tables, live : BOOLEAN])
  BY DEF MergesInv
<1>2. ASSUME NEW b \in Tabs, NEW m \in MergeIds, Undo(b, m)
      PROVE  \A n \in DOMAIN merges : n \in DOMAIN merges' /\ merges'[n].members = merges[n].members
  <2>1. merges' = [merges EXCEPT ![m] = [merges[m] EXCEPT !.live = FALSE]] /\ m \in DOMAIN merges
    BY <1>2 DEF Undo, MergeIds
  <2>2. merges[m] \in [members : SUBSET Tables, live : BOOLEAN]
    <3> DEFINE row == [members : SUBSET Tables, live : BOOLEAN]
    <3>1. merges \in Seq(row)
      BY <1>1
    <3> HIDE DEF row
    <3>2. merges[m] \in row
      BY <2>1, <3>1
    <3> QED
      BY <3>2 DEF row
  <2>3. [merges[m] EXCEPT !.live = FALSE].members = merges[m].members
    BY <2>2
  <2> QED
    BY <2>1, <2>3
<1>3. ASSUME NEW i \in 1..MaxCalls, WriteMerges(i)
      PROVE  \A n \in DOMAIN merges : n \in DOMAIN merges' /\ merges'[n].members = merges[n].members
  <2>1. call[i].subs \in SUBSET SUBSET Tables
    BY DEF MergesInv, CallsOf, Submissions
  <2>2. merges' = merges \/ \E s \in SetToSeqs(NewMerges(call[i].subs)) : merges' = merges \o s
    BY <1>3 DEF WriteMerges
  <2> QED
    BY <1>1, <2>1, <2>2, Written
<1>4. ASSUME merges' = merges
      PROVE  \A n \in DOMAIN merges : n \in DOMAIN merges' /\ merges'[n].members = merges[n].members
  BY <1>4
<1>5. \/ \E b \in Tabs, m \in MergeIds : Undo(b, m)
      \/ \E i \in 1..MaxCalls : WriteMerges(i)
      \/ merges' = merges
  BY <1>1 DEF Next, Screen, Calls, OverviewReads, OverviewAnswered, Merge, Reload, CheckMerges, MergeAnswered,
              Discard, Reads, PollReads, PollStarts, OpenMerged, ReadMembers, LoadNext, ReadEnds, vars, server
<1> QED
  BY <1>2, <1>3, <1>4, <1>5

\* The invariant of the reader.
LEMMA ReaderKeeps ==
  ASSUME MergesInv, ReaderInv, [Next]_vars
  PROVE  ReaderInv'
<1>1. \A m \in DOMAIN merges : m \in DOMAIN merges' /\ merges'[m].members = merges[m].members
  BY MembersStay
<1>2. Reads \/ reader' = reader
  BY DEF Next, Screen, Calls, OverviewReads, OverviewAnswered, Merge, Reload, Undo, CheckMerges, WriteMerges,
         MergeAnswered, Discard, vars, server
<1> QED
  BY <1>1, <1>2, ReaderSteps, ReaderStays

LEMMA ReaderStarts == Init => ReaderInv
<1> SUFFICES ASSUME Init PROVE ReaderInv
  OBVIOUS
<1>1. reader = NoReader
  BY DEF Init
<1> QED
  BY <1>1 DEF ReaderInv, NoReader, Readers, Once, Parted

\* In every behaviour a merged table that has been read holds all its members, each
\* once, or none, and no more rows than the cap, whatever was undone or discarded
\* between the queries (getMergedTable).
THEOREM OpenedWhole == Spec => []OpenedIsWhole
<1>1. MergesInv /\ ReaderInv /\ [Next]_vars => MergesInv' /\ ReaderInv'
  BY Step, ReaderKeeps
<1>2. MergesInv /\ ReaderInv => OpenedIsWhole
  <2> DEFINE M == Members(reader.merge)
  <2> SUFFICES ASSUME MergesInv, ReaderInv, reader.at = "loading", reader.members = <<>>
               PROVE  /\ reader.got # <<>> => IsInjective(reader.got) /\ ToSet(reader.got) = M
                      /\ RowsOf(reader.got) <= MAX_ROWS
    BY DEF OpenedIsWhole
  <2>1. reader.got \in Seq(Tables)
    BY DEF ReaderInv, Readers
  <2>2. reader.got \o <<>> = reader.got
    BY <2>1
  <2>3. reader.got \in {<<>>, Ordered(M)} /\ RowsOf(reader.got) <= MAX_ROWS
    BY <2>2 DEF ReaderInv
  <2>4. M \subseteq Tables
    <3>1. merges \in Seq([members : SUBSET Tables, live : BOOLEAN]) /\ reader.merge \in DOMAIN merges
      BY DEF ReaderInv, MergesInv, MergeIds
    <3>2. merges[reader.merge] \in [members : SUBSET Tables, live : BOOLEAN]
      <4> DEFINE entry == [members : SUBSET Tables, live : BOOLEAN]
      <4>1. merges \in Seq(entry) /\ reader.merge \in DOMAIN merges
        BY <3>1
      <4> HIDE DEF entry
      <4>2. merges[reader.merge] \in entry
        BY <4>1
      <4> QED
        BY <4>2 DEF entry
    <3>3. merges[reader.merge].members \subseteq Tables
      BY <3>2
    <3> QED
      BY <3>3 DEF Members
  <2> HIDE DEF M
  <2>5. /\ Once(Ordered(M))
        /\ \A t \in Tables : t \in M => \E n \in DOMAIN Ordered(M) : Ordered(M)[n] = t
        /\ \A n \in DOMAIN Ordered(M) : Ordered(M)[n] \in M
    BY OrderedOnce
  <2>6. IsInjective(Ordered(M)) /\ ToSet(Ordered(M)) = M
    <3>1. IsInjective(Ordered(M))
      BY <2>5 DEF Once, IsInjective
    <3>2. ToSet(Ordered(M)) = M
      BY <2>4, <2>5 DEF ToSet
    <3> QED
      BY <3>1, <3>2
  <2> QED
    BY <2>3, <2>6 DEF M
<1> QED
  BY Start, ReaderStarts, <1>1, <1>2, PTL DEF Spec

-----------------------------------------------------------------------------
(* Splicing, whatever is spliced.                                         *)
\* What is inserted stands at its place, and what stood there and after it
\* moves on by one.
StandsAfter(T, s, c, e, x) ==
    /\ x \in Seq(T) /\ Len(x) = Len(s) + 1
    /\ \A a \in 1..c : x[a] = s[a]
    /\ x[c + 1] = e
    /\ \A a \in (c + 1)..Len(s) : x[a + 1] = s[a]
LEMMA Inserted ==
  ASSUME NEW T, NEW s \in Seq(T), NEW c \in 0..Len(s), NEW e \in T, NEW x, x = InsertAt(s, c + 1, e)
  PROVE  StandsAfter(T, s, c, e, x)
<1>1. Len(s) \in Nat /\ c \in Nat /\ c <= Len(s)
  OBVIOUS
<1>2. PICK l : l = SubSeq(s, 1, c)
  OBVIOUS
<1>3. PICK r : r = SubSeq(s, c + 1, Len(s))
  OBVIOUS
<1>4. \A i \in 1..Len(s) : s[i] \in T
  OBVIOUS
<1>5. l \in Seq(T) /\ Len(l) = c /\ \A i \in 1..c : l[i] = s[i]
  BY <1>1, <1>2, <1>4
<1>6. r \in Seq(T) /\ Len(r) = Len(s) - c /\ \A i \in 1..(Len(s) - c) : r[i] = s[c + i]
  BY <1>1, <1>3, <1>4
<1>7. PICK m : m = l \o <<e>>
  OBVIOUS
<1>8. m \in Seq(T) /\ Len(m) = c + 1 /\ m[c + 1] = e /\ \A i \in 1..c : m[i] = s[i]
  <2>1. <<e>> \in Seq(T) /\ Len(<<e>>) = 1 /\ <<e>>[1] = e
    OBVIOUS
  <2>2. /\ m \in Seq(T) /\ Len(m) = Len(l) + 1
        /\ \A i \in 1..Len(l) + 1 : m[i] = IF i <= Len(l) THEN l[i] ELSE <<e>>[i - Len(l)]
    BY <1>5, <1>7, <2>1, ConcatProperties
  <2> QED
    BY <1>1, <1>5, <2>1, <2>2
<1>9. x = m \o r
  <2>1. c + 1 - 1 = c
    BY <1>1
  <2>2. PICK d : d = c + 1
    OBVIOUS
  <2>3. InsertAt(s, d, e) = (SubSeq(s, 1, d - 1) \o <<e>>) \o SubSeq(s, d, Len(s))
    BY DEF InsertAt
  <2>4. SubSeq(s, 1, d - 1) = l /\ SubSeq(s, d, Len(s)) = r
    BY <1>2, <1>3, <2>1, <2>2
  <2> QED
    BY <1>7, <2>2, <2>3, <2>4
<1>10. /\ x \in Seq(T) /\ Len(x) = Len(m) + Len(r)
       /\ \A i \in 1..Len(m) + Len(r) : x[i] = IF i <= Len(m) THEN m[i] ELSE r[i - Len(m)]
  <2>1. m \in Seq(T) /\ r \in Seq(T)
    BY <1>6, <1>8
  <2> QED
    BY <1>9, <2>1, ConcatProperties
<1>12. Len(x) = Len(s) + 1 /\ Len(m) + Len(r) = Len(s) + 1
  BY <1>1, <1>6, <1>8, <1>10
<1>16. \A i \in 1..Len(s) + 1 : x[i] = IF i <= c + 1 THEN m[i] ELSE r[i - (c + 1)]
  BY <1>8, <1>10, <1>12, Zenon
<1>13. ASSUME NEW a \in 1..c PROVE x[a] = s[a]
  BY <1>1, <1>8, <1>16
<1>14. x[c + 1] = e
  BY <1>1, <1>8, <1>16
<1>15. ASSUME NEW a \in (c + 1)..Len(s) PROVE x[a + 1] = s[a]
  <2>1. a + 1 \in 1..Len(s) + 1 /\ ~(a + 1 <= c + 1) /\ a + 1 - (c + 1) = a - c
        /\ a - c \in 1..(Len(s) - c) /\ c + (a - c) = a
    BY <1>1
  <2>2. x[a + 1] = r[a - c]
    BY <1>16, <2>1
  <2> QED
    BY <1>6, <2>1, <2>2
<1> QED
  BY <1>10, <1>12, <1>13, <1>14, <1>15 DEF StandsAfter

\* Where every part of a finite set has a last element, it can be lined up.
LEMMA LinedUp ==
  ASSUME NEW S, IsFiniteSet(S), NEW R,
         \A U \in SUBSET S : U # {} => \E e \in U : \A d \in U \ {e} : <<d, e>> \in R
  PROVE  \E s \in SetToSeqs(S) : \A i, j \in DOMAIN s : i < j => <<s[i], s[j]>> \in R
<1> DEFINE Line(f, n, U) == /\ f \in [1..n -> U]
                            /\ \A i, j \in 1..n : f[i] = f[j] => i = j
                            /\ \A i, j \in 1..n : i < j => <<f[i], f[j]>> \in R
           K == {n \in Nat : \A U \in SUBSET S : Cardinality(U) = n => \E f : Line(f, n, U)}
<1>1. \A U \in SUBSET S : IsFiniteSet(U) /\ Cardinality(U) \in Nat
  BY FS_Subset, FS_CardinalityType
<1>2. 0 \in K
  <2>1. \A U : Line(<<>>, 0, U)
    OBVIOUS
  <2> QED
    BY <2>1
<1>3. ASSUME NEW n \in K PROVE n + 1 \in K
  <2> SUFFICES ASSUME NEW U \in SUBSET S, Cardinality(U) = n + 1 PROVE \E f : Line(f, n + 1, U)
    OBVIOUS
  <2>1. U # {}
    <3>1. n + 1 # 0
      OBVIOUS
    <3> QED
      BY <3>1, FS_EmptySet, Zenon
  <2>2. PICK e \in U : \A d \in U \ {e} : <<d, e>> \in R
    BY <2>1
  <2>3. Cardinality(U \ {e}) = n
    <3>1. n \in Nat /\ n + 1 - 1 = n
      OBVIOUS
    <3>2. Cardinality(U \ {e}) = Cardinality(U) - 1
      BY <1>1, FS_RemoveElement
    <3> QED
      BY <3>1, <3>2
  <2>4. PICK f : Line(f, n, U \ {e})
    BY <2>3
  <2> DEFINE g == [i \in 1..(n + 1) |-> IF i = n + 1 THEN e ELSE f[i]]
  <2>5. g \in [1..(n + 1) -> U]
    BY <2>4
  <2>6. \A i \in 1..n : g[i] = f[i] /\ f[i] \in U /\ f[i] # e /\ g[n + 1] = e
    BY <2>4
  <2>7. ASSUME NEW i \in 1..(n + 1), NEW j \in 1..(n + 1), i < j PROVE g[i] # g[j] /\ <<g[i], g[j]>> \in R
    <3> HIDE DEF g
    <3>1. i \in 1..n
      BY <2>7
    <3>2. CASE j \in 1..n
      BY <2>4, <2>6, <2>7, <3>1, <3>2
    <3>3. CASE j = n + 1
      BY <2>2, <2>6, <3>1, <3>3
    <3> QED
      BY <3>2, <3>3
  <2>8. ASSUME NEW i \in 1..(n + 1), NEW j \in 1..(n + 1), g[i] = g[j] PROVE i = j
    <3>1. ~(i < j) /\ ~(j < i)
      BY <2>7, <2>8
    <3> QED
      BY <3>1
  <2>9. Line(g, n + 1, U)
    BY <2>5, <2>7, <2>8
  <2> QED
    BY <2>9
<1>4. K = Nat
  <2> HIDE DEF K
  <2>1. K \in SUBSET Nat
    BY DEF K
  <2> QED
    BY <1>2, <1>3, <2>1, FromZero
<1>5. PICK f : Line(f, Cardinality(S), S)
  BY <1>1, <1>4
<1>6. f \in SetToSeqs(S) /\ DOMAIN f = 1..Cardinality(S)
  BY <1>5 DEF SetToSeqs
<1> QED
  BY <1>5, <1>6

\* The greatest of a set of places is one of them.
LEMMA LastPlace ==
  ASSUME NEW n \in Nat, NEW S \in SUBSET (1..n), S # {}
  PROVE  Max(S) \in S /\ \A u \in S : u <= Max(S)
<1>1. S \in SUBSET Nat /\ \A m \in S : m <= n
  OBVIOUS
<1>2. \E t \in S : \A u \in S : u <= t
  BY <1>1, Greatest
<1>3. \E t \in S : \A u \in S : t >= u
  BY <1>1, <1>2
<1>4. Max(S) \in S /\ \A u \in S : Max(S) >= u
  BY <1>3 DEF Max
<1> QED
  BY <1>1, <1>4

\* What is folded place by place is a function of the places.
Folding(k, base, at, what, g) ==
  g = [S \in SUBSET (1..k) |-> IF S = {} THEN base
                               ELSE InsertAt(g[S \ {Max(S)}], at[Max(S)] + 1, what[Max(S)])]
\* There is such a function.
LEMMA Folded ==
  ASSUME NEW k \in Nat, NEW base, NEW at, NEW what
  PROVE  \E g : Folding(k, base, at, what, g)
<1> DEFINE K == {n \in Nat : \E g : Folding(n, base, at, what, g)}
<1>1. 0 \in K
  <2> DEFINE g == [S \in SUBSET (1..0) |-> base]
  <2>1. \A S \in SUBSET (1..0) : S = {}
    OBVIOUS
  <2>2. Folding(0, base, at, what, g)
    BY <2>1 DEF Folding
  <2> QED
    BY <2>2
<1>2. ASSUME NEW n \in K PROVE n + 1 \in K
  <2>1. PICK g : Folding(n, base, at, what, g)
    OBVIOUS
  <2>2. \A S \in SUBSET (1..n) : g[S] = IF S = {} THEN base
                                   ELSE InsertAt(g[S \ {Max(S)}], at[Max(S)] + 1, what[Max(S)])
    BY <2>1 DEF Folding
  <2> DEFINE h == [S \in SUBSET (1..(n + 1)) |->
                     IF n + 1 \in S THEN InsertAt(g[S \ {n + 1}], at[n + 1] + 1, what[n + 1]) ELSE g[S]]
  <2>3. \A S \in SUBSET (1..n) : h[S] = g[S]
    <3>1. \A S \in SUBSET (1..n) : n + 1 \notin S /\ S \in SUBSET (1..(n + 1))
      OBVIOUS
    <3> QED
      BY <3>1
  <2>4. ASSUME NEW S \in SUBSET (1..(n + 1))
        PROVE  h[S] = IF S = {} THEN base ELSE InsertAt(h[S \ {Max(S)}], at[Max(S)] + 1, what[Max(S)])
    <3>1. CASE n + 1 \in S
      <4>1. n + 1 \in Nat /\ S # {}
        BY <3>1
      <4>2. Max(S) \in S /\ n + 1 <= Max(S)
        BY <3>1, <4>1, LastPlace
      <4>3. Max(S) = n + 1
        <5>1. Max(S) \in 1..(n + 1) /\ n \in Nat
          BY <4>2
        <5> QED
          BY <4>2, <5>1
      <4>4. S \ {n + 1} \in SUBSET (1..n)
        OBVIOUS
      <4>5. h[S] = InsertAt(g[S \ {n + 1}], at[n + 1] + 1, what[n + 1])
        BY <3>1
      <4> QED
        BY <2>3, <4>1, <4>3, <4>4, <4>5
    <3>2. CASE n + 1 \notin S
      <4>1. S \in SUBSET (1..n)
        BY <3>2
      <4>2. S \ {Max(S)} \in SUBSET (1..n)
        BY <4>1
      <4>3. h[S] = g[S] /\ h[S \ {Max(S)}] = g[S \ {Max(S)}]
        BY <2>3, <4>1, <4>2
      <4> HIDE DEF h
      <4> QED
        BY <2>2, <4>1, <4>3
    <3> QED
      BY <3>1, <3>2
  <2>5. Folding(n + 1, base, at, what, h)
    <3>1. h = [S \in SUBSET (1..(n + 1)) |-> h[S]]
      OBVIOUS
    <3> HIDE DEF h
    <3> QED
      BY <2>4, <3>1 DEF Folding
  <2> QED
    BY <2>5
<1>3. K = Nat
  <2> HIDE DEF K
  <2>1. K \in SUBSET Nat
    BY DEF K
  <2> QED
    BY <1>1, <1>2, <2>1, FromZero
<1> QED
  BY <1>3

\* What has been spliced into a sequence, from the back: what was there is there
\* in its order, and what was spliced stands behind as many of it as it should.
Spliced(T, base, at, what, n, e) ==
    /\ e \in Seq(T) /\ Len(e) = Len(base) + n /\ Once(e)
    /\ \A p \in 1..Len(base) : \E a \in 1..Len(e) : e[a] = base[p]
    /\ \A q \in 1..n : \E a \in 1..Len(e) : e[a] = what[q]
    /\ \A a \in 1..Len(e) : \/ \E p \in 1..Len(base) : e[a] = base[p]
                            \/ \E q \in 1..n : e[a] = what[q]
    /\ \A a \in 1..Len(base) : n = 0 \/ a <= at[n] => e[a] = base[a]
    /\ \A a, b \in 1..Len(e), q \in 1..n, p \in 1..Len(base) :
          e[a] = what[q] /\ e[b] = base[p] => (b < a <=> p <= at[q])

Splicing(T, base, at, what, k) ==
    /\ k \in Nat /\ base \in Seq(T) /\ Once(base)
    /\ what \in [1..k -> T] /\ at \in [1..k -> 0..Len(base)]
    /\ \A i, j \in 1..k : what[i] = what[j] => i = j
    /\ \A q \in 1..k, p \in 1..Len(base) : what[q] # base[p]
    /\ \A i, j \in 1..k : i < j => at[j] <= at[i]

\* One more is spliced in.
LEMMA SpliceStep ==
  ASSUME NEW T, NEW base, NEW at, NEW what, NEW k, Splicing(T, base, at, what, k),
         NEW n \in Nat, n < k, NEW e, Spliced(T, base, at, what, n, e)
  PROVE  Spliced(T, base, at, what, n + 1, InsertAt(e, at[n + 1] + 1, what[n + 1]))
<1>1. PICK L : L = Len(base)
  OBVIOUS
<1>2. PICK c : c = at[n + 1]
  OBVIOUS
<1>3. PICK w : w = what[n + 1]
  OBVIOUS
<1>4. PICK x : x = InsertAt(e, c + 1, w)
  OBVIOUS
<1>5. /\ L \in Nat /\ k \in Nat /\ n + 1 \in 1..k /\ c \in 0..L /\ w \in T
      /\ e \in Seq(T) /\ Len(e) = L + n
  BY <1>1, <1>2, <1>3 DEF Splicing, Spliced
<1>6. c \in 0..Len(e)
  BY <1>5
<1>7. /\ x \in Seq(T) /\ Len(x) = Len(e) + 1
      /\ \A a \in 1..c : x[a] = e[a]
      /\ x[c + 1] = w
      /\ \A a \in (c + 1)..Len(e) : x[a + 1] = e[a]
  <2>1. e \in Seq(T) /\ w \in T
    BY <1>5
  <2>2. StandsAfter(T, e, c, w, x)
    BY <1>4, <1>6, <2>1, Inserted
  <2> QED
    BY <2>2 DEF StandsAfter
<1>8. Len(x) = L + (n + 1) /\ DOMAIN x = 1..(L + n + 1) /\ DOMAIN e = 1..(L + n)
  BY <1>5, <1>7
<1>22. /\ \A p \in 1..L : \E a \in 1..(L + n) : e[a] = base[p]
       /\ \A q \in 1..n : \E a \in 1..(L + n) : e[a] = what[q]
       /\ \A a \in 1..(L + n) : \/ \E p \in 1..L : e[a] = base[p]
                                \/ \E q \in 1..n : e[a] = what[q]
       /\ \A a \in 1..L : n = 0 \/ a <= at[n] => e[a] = base[a]
       /\ \A a, b \in 1..(L + n), q \in 1..n, p \in 1..L :
             e[a] = what[q] /\ e[b] = base[p] => (b < a <=> p <= at[q])
  <2>1. 1..Len(e) = 1..(L + n) /\ 1..Len(base) = 1..L
    BY <1>1, <1>5
  <2>2. /\ \A p \in 1..Len(base) : \E a \in 1..Len(e) : e[a] = base[p]
        /\ \A q \in 1..n : \E a \in 1..Len(e) : e[a] = what[q]
        /\ \A a \in 1..Len(e) : \/ \E p \in 1..Len(base) : e[a] = base[p]
                                \/ \E q \in 1..n : e[a] = what[q]
    BY DEF Spliced
  <2>3. \A a \in 1..Len(base) : n = 0 \/ a <= at[n] => e[a] = base[a]
    BY DEF Spliced
  <2>4. \A a, b \in 1..Len(e), q \in 1..n, p \in 1..Len(base) :
             e[a] = what[q] /\ e[b] = base[p] => (b < a <=> p <= at[q])
    BY DEF Spliced
  <2>5. PICK E : E = 1..Len(e)
    OBVIOUS
  <2>6. PICK B : B = 1..Len(base)
    OBVIOUS
  <2>7. E = 1..(L + n) /\ B = 1..L
    BY <2>1, <2>5, <2>6
  <2>8. \A a, b \in E, q \in 1..n, p \in B :
             e[a] = what[q] /\ e[b] = base[p] => (b < a <=> p <= at[q])
    BY <2>4, <2>5, <2>6
  <2>9. \A a, b \in 1..(L + n), q \in 1..n, p \in 1..L :
             e[a] = what[q] /\ e[b] = base[p] => (b < a <=> p <= at[q])
    BY <2>7, <2>8
  <2>10. /\ \A p \in B : \E a \in E : e[a] = base[p]
         /\ \A q \in 1..n : \E a \in E : e[a] = what[q]
         /\ \A a \in E : (\E p \in B : e[a] = base[p]) \/ \E q \in 1..n : e[a] = what[q]
         /\ \A a \in B : n = 0 \/ a <= at[n] => e[a] = base[a]
    BY <2>2, <2>3, <2>5, <2>6
  <2> QED
    BY <2>7, <2>9, <2>10
<1> DEFINE o == [a \in 1..(L + n + 1) |-> IF a <= c THEN a ELSE a - 1]
<1>9. ASSUME NEW a \in 1..(L + n + 1), a # c + 1
      PROVE  o[a] \in 1..(L + n) /\ x[a] = e[o[a]]
  <2>1. CASE a <= c
    BY <1>5, <1>7, <2>1
  <2>2. CASE ~(a <= c)
    <3>1. a - 1 \in (c + 1)..Len(e) /\ (a - 1) + 1 = a
      BY <1>5, <1>9, <2>2
    <3>2. x[a] = e[a - 1]
      BY <1>7, <3>1
    <3> QED
      BY <1>5, <2>2, <3>1, <3>2
  <2> QED
    BY <2>1, <2>2
<1>10. ASSUME NEW a \in 1..(L + n + 1), NEW b \in 1..(L + n + 1), a # c + 1, b # c + 1
       PROVE  (b < a <=> o[b] < o[a]) /\ (o[a] = o[b] => a = b)
  BY <1>5, <1>10
<1>11. ASSUME NEW b \in 1..(L + n)
       PROVE  \E a \in 1..(L + n + 1) : a # c + 1 /\ o[a] = b
  <2>1. CASE b <= c
    BY <1>5, <2>1
  <2>2. CASE ~(b <= c)
    <3>1. b + 1 \in 1..(L + n + 1) /\ b + 1 # c + 1 /\ o[b + 1] = b
      BY <1>5, <2>2
    <3> QED
      BY <3>1
  <2> QED
    BY <2>1, <2>2
<1> HIDE DEF o
\* What is there and what is new differ.
<1>12. \A a \in 1..(L + n) : e[a] # w
  <2>1. \A p \in 1..L : base[p] # w
    BY <1>1, <1>3, <1>5 DEF Splicing
  <2>2. \A q \in 1..n : what[q] # w
    <3>1. \A q \in 1..n : q \in 1..k /\ q # n + 1
      BY <1>5
    <3> QED
      BY <1>3, <1>5, <3>1 DEF Splicing
  <2> QED
    BY <1>22, <2>1, <2>2
<1>13. Once(x)
  <2> SUFFICES ASSUME NEW a \in 1..(L + n + 1), NEW b \in 1..(L + n + 1), x[a] = x[b] PROVE a = b
    BY <1>8 DEF Once
  <2>1. CASE a = c + 1
    BY <1>7, <1>9, <1>12, <2>1
  <2>2. CASE b = c + 1
    BY <1>7, <1>9, <1>12, <2>2
  <2>3. CASE a # c + 1 /\ b # c + 1
    <3>1. e[o[a]] = e[o[b]] /\ o[a] \in DOMAIN e /\ o[b] \in DOMAIN e
      BY <1>8, <1>9, <2>3
    <3>2. o[a] = o[b]
      <4>1. Once(e)
        BY DEF Spliced
      <4> QED
        BY <3>1, <4>1 DEF Once
    <3> QED
      BY <1>10, <2>3, <3>2
  <2> QED
    BY <2>1, <2>2, <2>3
<1>14. ASSUME NEW v, \E b \in 1..(L + n) : e[b] = v
       PROVE  \E a \in 1..(L + n + 1) : x[a] = v
  <2>1. PICK b \in 1..(L + n) : e[b] = v
    BY <1>14
  <2>2. PICK a \in 1..(L + n + 1) : a # c + 1 /\ o[a] = b
    BY <1>11
  <2> QED
    BY <1>9, <2>1, <2>2
<1>15. \A p \in 1..L : \E a \in 1..(L + n + 1) : x[a] = base[p]
  <2>1. \A p \in 1..L : \E b \in 1..(L + n) : e[b] = base[p]
    BY <1>22
  <2> QED
    BY <1>14, <2>1
<1>16. \A q \in 1..(n + 1) : \E a \in 1..(L + n + 1) : x[a] = what[q]
  <2>1. \A q \in 1..n : \E b \in 1..(L + n) : e[b] = what[q]
    BY <1>22
  <2>2. c + 1 \in 1..(L + n + 1)
    BY <1>5
  <2>3. \A q \in 1..(n + 1) : q \in 1..n \/ q = n + 1
    OBVIOUS
  <2> QED
    BY <1>3, <1>7, <1>14, <2>1, <2>2, <2>3
<1>17. \A a \in 1..(L + n + 1) : \/ \E p \in 1..L : x[a] = base[p]
                                 \/ \E q \in 1..(n + 1) : x[a] = what[q]
  <2> SUFFICES ASSUME NEW a \in 1..(L + n + 1)
               PROVE  (\E p \in 1..L : x[a] = base[p]) \/ \E q \in 1..(n + 1) : x[a] = what[q]
    OBVIOUS
  <2>1. CASE a = c + 1
    <3>1. n + 1 \in 1..(n + 1)
      OBVIOUS
    <3> QED
      BY <1>3, <1>7, <2>1, <3>1
  <2>2. CASE a # c + 1
    <3>1. x[a] = e[o[a]] /\ o[a] \in 1..(L + n)
      BY <1>9, <2>2
    <3>2. (\E p \in 1..L : e[o[a]] = base[p]) \/ \E q \in 1..n : e[o[a]] = what[q]
      BY <1>22, <3>1
    <3> QED
      BY <3>1, <3>2
  <2> QED
    BY <2>1, <2>2
<1>18. \A a \in 1..L : a <= c => e[a] = base[a]
  <2>1. n = 0 \/ (n \in 1..k /\ c <= at[n] /\ at[n] \in Nat)
    BY <1>1, <1>2, <1>5 DEF Splicing
  <2> QED
    BY <1>5, <1>22, <2>1
<1>19. \A a \in 1..L : a <= c => x[a] = base[a]
  BY <1>5, <1>7, <1>18
<1>20. ASSUME NEW a \in 1..(L + n + 1), NEW b \in 1..(L + n + 1), NEW q \in 1..(n + 1), NEW p \in 1..L,
              x[a] = what[q], x[b] = base[p]
       PROVE  b < a <=> p <= at[q]
  <2>1. b # c + 1
    BY <1>1, <1>3, <1>5, <1>7, <1>20 DEF Splicing
  <2>2. x[b] = e[o[b]] /\ o[b] \in 1..(L + n)
    BY <1>9, <2>1
  <2>3. CASE q = n + 1
    <3>1. a = c + 1
      <4>1. a # c + 1 => x[a] # w
        BY <1>9, <1>12
      <4> QED
        BY <1>3, <1>20, <2>3, <4>1
    <3>2. CASE p <= c
      <4>1. x[p] = base[p] /\ p \in 1..(L + n + 1)
        BY <1>5, <1>19, <3>2
      <4>2. p = b
        <5>1. p \in DOMAIN x /\ b \in DOMAIN x /\ x[p] = x[b]
          BY <1>8, <1>20, <4>1
        <5> QED
          BY <1>13, <5>1 DEF Once
      <4> QED
        BY <1>2, <1>5, <2>3, <3>1, <3>2, <4>2
    <3>3. CASE ~(p <= c)
      <4>1. b <= c => x[b] = base[b] /\ b \in 1..L
        BY <1>5, <1>19
      <4>2. b <= c => b = p
        <5>1. DOMAIN base = 1..L
          BY <1>1 DEF Splicing
        <5> QED
          BY <1>20, <4>1, <5>1 DEF Splicing, Once
      <4>3. ~(b <= c)
        BY <1>5, <3>3, <4>2
      <4> QED
        BY <1>2, <1>5, <2>3, <3>1, <3>3, <4>3
    <3> QED
      BY <3>2, <3>3
  <2>4. CASE q # n + 1
    <3>1. q \in 1..n
      BY <2>4
    <3>2. a # c + 1
      <4>1. what[q] # what[n + 1]
        BY <1>5, <2>4, <3>1 DEF Splicing
      <4> QED
        BY <1>3, <1>7, <1>20, <4>1
    <3>3. x[a] = e[o[a]] /\ o[a] \in 1..(L + n)
      BY <1>9, <3>2
    <3>4. o[b] < o[a] <=> p <= at[q]
      <4>1. PICK i \in 1..(L + n) : i = o[a] /\ e[i] = what[q]
        BY <1>20, <3>3
      <4>2. PICK j \in 1..(L + n) : j = o[b] /\ e[j] = base[p]
        BY <1>20, <2>2
      <4>3. j < i <=> p <= at[q]
        BY <1>22, <3>1, <4>1, <4>2
      <4> QED
        BY <4>1, <4>2, <4>3
    <3> QED
      BY <1>10, <2>1, <3>2, <3>4
  <2> QED
    BY <2>3, <2>4
<1>21. Spliced(T, base, at, what, n + 1, x)
  BY <1>1, <1>2, <1>7, <1>8, <1>13, <1>15, <1>16, <1>17, <1>19, <1>20 DEF Spliced
<1> QED
  BY <1>2, <1>3, <1>4, <1>21

\* All of it.
LEMMA AllSpliced ==
  ASSUME NEW T, NEW base, NEW at, NEW what, NEW k, Splicing(T, base, at, what, k),
         NEW g, Folding(k, base, at, what, g)
  PROVE  Spliced(T, base, at, what, k, g[1..k])
<1>1. k \in Nat
  BY DEF Splicing
<1>2. \A S \in SUBSET (1..k) : g[S] = IF S = {} THEN base
                                 ELSE InsertAt(g[S \ {Max(S)}], at[Max(S)] + 1, what[Max(S)])
  BY DEF Folding
<1> DEFINE K == {n \in Nat : n <= k => Spliced(T, base, at, what, n, g[1..n])}
<1>3. 0 \in K
  <2>1. g[1..0] = base
    <3>1. 1..0 = {} /\ 1..0 \in SUBSET (1..k)
      BY <1>1
    <3> QED
      BY <1>2, <3>1
  <2>2. base \in Seq(T) /\ Once(base)
    BY DEF Splicing
  <2>3. Spliced(T, base, at, what, 0, base)
    BY <2>2 DEF Spliced
  <2> QED
    BY <2>1, <2>3
<1>4. ASSUME NEW n \in K PROVE n + 1 \in K
  <2> SUFFICES ASSUME n + 1 <= k PROVE Spliced(T, base, at, what, n + 1, g[1..(n + 1)])
    OBVIOUS
  <2>1. n \in Nat /\ n < k /\ n <= k /\ Spliced(T, base, at, what, n, g[1..n])
    BY <1>1
  <2>2. 1..(n + 1) \in SUBSET (1..k) /\ 1..(n + 1) # {} /\ (1..(n + 1)) \ {n + 1} = 1..n
    <3>1. n + 1 \in 1..(n + 1)
      BY <2>1
    <3>2. 1..(n + 1) \in SUBSET (1..k)
      BY <1>1, <2>1
    <3>3. (1..(n + 1)) \ {n + 1} = 1..n
      BY <2>1
    <3> QED
      BY <3>1, <3>2, <3>3
  <2>3. Max(1..(n + 1)) = n + 1
    <3>1. PICK S : S = 1..(n + 1)
      OBVIOUS
    <3>2. n + 1 \in Nat /\ S \in SUBSET (1..(n + 1)) /\ S # {} /\ n + 1 \in S
      BY <2>1, <2>2, <3>1
    <3>3. Max(S) \in S /\ n + 1 <= Max(S)
      BY <3>2, LastPlace
    <3> QED
      BY <2>1, <3>1, <3>3
  <2>4. g[1..(n + 1)] = InsertAt(g[1..n], at[n + 1] + 1, what[n + 1])
    <3>1. PICK S : S = 1..(n + 1)
      OBVIOUS
    <3>2. g[S] = InsertAt(g[S \ {Max(S)}], at[Max(S)] + 1, what[Max(S)])
      BY <1>2, <2>2, <3>1
    <3>3. Max(S) = n + 1 /\ S \ {Max(S)} = 1..n
      BY <2>2, <2>3, <3>1
    <3> QED
      BY <3>1, <3>2, <3>3
  <2>5. Spliced(T, base, at, what, n + 1, InsertAt(g[1..n], at[n + 1] + 1, what[n + 1]))
    BY <2>1, SpliceStep
  <2> QED
    BY <2>4, <2>5
<1>5. K = Nat
  <2> HIDE DEF K
  <2>1. K \in SUBSET Nat
    BY DEF K
  <2> QED
    BY <1>3, <1>4, <2>1, FromZero
<1> QED
  BY <1>1, <1>5

-----------------------------------------------------------------------------
\* What a poll has read: the tables on its list, which of them are single, and
\* where each merge's first member stands.
LEMMA PolledList ==
  ASSUME ReaderInv
  PROVE  /\ reader.listed \in Seq(Tables) /\ Once(reader.listed)
         /\ reader.merges \in Seq(SUBSET Tables) /\ Parted(reader.merges)
  BY DEF ReaderInv, Readers

\* The least of a set of places is one of them.
LEMMA FirstPlace ==
  ASSUME NEW n \in Nat, NEW S \in SUBSET (1..n), S # {}
  PROVE  Min(S) \in S /\ \A u \in S : Min(S) <= u
<1>1. \E t \in S : \A u \in S : t <= u
  <2>1. S \in SUBSET Nat
    OBVIOUS
  <2> QED
    BY <2>1, Least
<1> QED
  BY <1>1 DEF Min

SinglePlaces == {n \in DOMAIN reader.listed : MergedInto(reader.listed[n]) = {}}

\* A merge that stands on the list stands at its first listed member, which is
\* no single table and is a member of no other merge.
LEMMA FirstMember ==
  ASSUME ReaderInv, NEW m \in Standing
  PROVE  /\ FirstAt(m) \in DOMAIN reader.listed /\ reader.listed[FirstAt(m)] \in reader.merges[m]
         /\ \A n \in DOMAIN reader.listed : reader.listed[n] \in reader.merges[m] => FirstAt(m) <= n
         /\ FirstAt(m) \notin SinglePlaces
         /\ \A n \in Standing : FirstAt(n) = FirstAt(m) => n = m
         /\ At(m) = Cardinality({n \in SinglePlaces : n <= FirstAt(m)})
         /\ At(m) \in 0..Cardinality(SinglePlaces)
<1>1. PICK l : l = reader.listed
  OBVIOUS
<1>2. PICK ms : ms = reader.merges
  OBVIOUS
<1>3. l \in Seq(Tables) /\ Once(l) /\ ms \in Seq(SUBSET Tables) /\ Parted(ms)
  BY <1>1, <1>2, PolledList
<1>4. DOMAIN l = 1..Len(l) /\ Len(l) \in Nat
  BY <1>3
<1>5. ASSUME NEW k \in Standing
      PROVE  /\ FirstAt(k) \in 1..Len(l) /\ l[FirstAt(k)] \in ms[k] /\ k \in DOMAIN ms
             /\ \A n \in 1..Len(l) : l[n] \in ms[k] => FirstAt(k) <= n
  <2> DEFINE S == {n \in DOMAIN l : l[n] \in ms[k]}
  <2>1. k \in DOMAIN ms /\ S \in SUBSET (1..Len(l)) /\ S # {}
    BY <1>1, <1>2, <1>4, <1>5 DEF Standing, ToSet
  <2>2. FirstAt(k) = Min(S)
    BY <1>1, <1>2 DEF FirstAt
  <2>3. Min(S) \in S /\ \A u \in S : Min(S) <= u
    <3> HIDE DEF S
    <3> QED
      BY <1>4, <2>1, FirstPlace
  <2> QED
    BY <1>4, <2>1, <2>2, <2>3
<1>6. PICK F : F = FirstAt(m)
  OBVIOUS
<1>7. F \in 1..Len(l) /\ l[F] \in ms[m] /\ m \in DOMAIN ms
  BY <1>5, <1>6
<1>8. F \notin SinglePlaces
  BY <1>1, <1>2, <1>7 DEF SinglePlaces, MergedInto
<1>9. ASSUME NEW n \in Standing, FirstAt(n) = F PROVE n = m
  <2>1. l[F] \in ms[n] \cap ms[m] /\ n \in DOMAIN ms
    BY <1>5, <1>7, <1>9
  <2> QED
    BY <1>3, <1>7, <2>1 DEF Parted
<1>10. {n \in 1..F : MergedInto(l[n]) = {}} = {n \in SinglePlaces : n <= F}
  BY <1>1, <1>4, <1>7 DEF SinglePlaces
<1>11. At(m) = Cardinality({n \in SinglePlaces : n <= F})
  BY <1>1, <1>6, <1>10 DEF At
<1>12. IsFiniteSet(SinglePlaces)
  <2>1. SinglePlaces \in SUBSET (1..Len(l))
    BY <1>1, <1>4 DEF SinglePlaces
  <2>2. IsFiniteSet(1..Len(l))
    BY <1>4, FS_Interval
  <2> QED
    BY <2>1, <2>2, FS_Subset
<1>13. At(m) \in 0..Cardinality(SinglePlaces)
  <2> DEFINE U == {n \in SinglePlaces : n <= F}
  <2>1. U \in SUBSET SinglePlaces
    OBVIOUS
  <2> HIDE DEF U
  <2>2. IsFiniteSet(U) /\ Cardinality(U) <= Cardinality(SinglePlaces)
    BY <1>12, <2>1, FS_Subset
  <2>3. Cardinality(U) \in Nat /\ Cardinality(SinglePlaces) \in Nat
    BY <1>12, <2>2, FS_CardinalityType
  <2> QED
    BY <1>11, <2>2, <2>3 DEF U
<1> QED
  BY <1>1, <1>2, <1>4, <1>5, <1>6, <1>7, <1>8, <1>9, <1>11, <1>13

\* There is an order to splice in.
LEMMA OrderOfSplices ==
  ASSUME ReaderInv
  PROVE  /\ IsFiniteSet(Standing) /\ SpliceOrder \in SetToSeqs(Standing)
         /\ \A i, j \in DOMAIN SpliceOrder : i < j => SplicedBefore(SpliceOrder[i], SpliceOrder[j])
<1>1. reader.merges \in Seq(SUBSET Tables) /\ Len(reader.listed) \in Nat
      /\ DOMAIN reader.listed = 1..Len(reader.listed)
  BY PolledList
<1>2. IsFiniteSet(Standing)
  <2>1. DOMAIN reader.merges = 1..Len(reader.merges) /\ Len(reader.merges) \in Nat
    BY <1>1
  <2>2. IsFiniteSet(1..Len(reader.merges))
    BY <2>1, FS_Interval
  <2>3. Standing \in SUBSET (1..Len(reader.merges))
    BY <2>1 DEF Standing
  <2> QED
    BY <2>2, <2>3, FS_Subset
<1>3. \A m \in Standing : At(m) \in Nat /\ FirstAt(m) \in Nat /\ FirstAt(m) <= Len(reader.listed)
  <2> SUFFICES ASSUME NEW m \in Standing
               PROVE  At(m) \in Nat /\ FirstAt(m) \in Nat /\ FirstAt(m) <= Len(reader.listed)
    OBVIOUS
  <2>1. FirstAt(m) \in DOMAIN reader.listed /\ At(m) \in 0..Cardinality(SinglePlaces)
    BY FirstMember
  <2> QED
    BY <1>1, <2>1
<1>4. \A m, n \in Standing : FirstAt(n) = FirstAt(m) => n = m
  BY FirstMember
<1> DEFINE R == {p \in Standing \X Standing : SplicedBefore(p[1], p[2])}
<1>5. ASSUME NEW U \in SUBSET Standing, U # {} PROVE \E e \in U : \A d \in U \ {e} : <<d, e>> \in R
  <2> DEFINE A == {At(m) : m \in U}
  <2>1. PICK a \in A : \A x \in A : a <= x
    <3>1. A \in SUBSET Nat /\ A # {}
      BY <1>3, <1>5
    <3> HIDE DEF A
    <3> QED
      BY <3>1, Least
  <2> DEFINE F == {FirstAt(m) : m \in {n \in U : At(n) = a}}
  <2>2. PICK f \in F : \A x \in F : x <= f
    <3>1. F \in SUBSET Nat /\ F # {} /\ \A x \in F : x <= Len(reader.listed)
      BY <1>3, <1>5
    <3> HIDE DEF F
    <3> QED
      BY <1>1, <3>1, Greatest
  <2>3. PICK e \in U : At(e) = a /\ FirstAt(e) = f
    BY <2>2
  <2>4. ASSUME NEW d \in U \ {e} PROVE SplicedBefore(d, e)
    <3>1. a <= At(d) /\ At(d) \in Nat /\ FirstAt(d) \in Nat /\ a \in Nat /\ f \in Nat
      BY <1>3, <2>1, <2>3
    <3>2. At(d) = a => FirstAt(d) <= f
      BY <2>2
    <3>3. FirstAt(d) # f
      BY <1>4, <2>3
    <3> QED
      BY <2>3, <3>1, <3>2, <3>3 DEF SplicedBefore
  <2> QED
    BY <2>4
<1>6. \E s \in SetToSeqs(Standing) : \A i, j \in DOMAIN s : i < j => <<s[i], s[j]>> \in R
  <2> HIDE DEF R
  <2> QED
    BY <1>2, <1>5, LinedUp
<1>7. \E s \in SetToSeqs(Standing) : \A i, j \in DOMAIN s : i < j => SplicedBefore(s[i], s[j])
  BY <1>6
<1> QED
  BY <1>2, <1>7 DEF SpliceOrder

EntrySet == [merge : Nat, members : SUBSET Tables, stage : {"FAILED", "DONE", "QUEUED"}]
SinglesListed == [n \in DOMAIN Single |-> Table(Single[n])]
SpliceAt == [q \in 1..Len(SpliceOrder) |-> At(SpliceOrder[q])]
SplicedEntry == [q \in 1..Len(SpliceOrder) |-> Merged(SpliceOrder[q])]

\* The answer's list is the single tables with the merges spliced in.
LEMMA EntriesAreFolded ==
  ASSUME ReaderInv
  PROVE  \E g : /\ Folding(Len(SpliceOrder), SinglesListed, SpliceAt, SplicedEntry, g)
                /\ Entries = g[1..Len(SpliceOrder)]
<1> DEFINE s == SpliceOrder
           k == Len(SpliceOrder)
           F(g) == [S \in SUBSET (1..k) |-> IF S = {} THEN SinglesListed
                       ELSE InsertAt(g[S \ {Max(S)}], At(s[Max(S)]) + 1, Merged(s[Max(S)]))]
           f == CHOOSE g : g = F(g)
<1>1. k \in Nat /\ DOMAIN s = 1..k
  BY OrderOfSplices, AllInTurn
<1>2. Entries = f[1..k]
  BY <1>1 DEF Entries, FoldLeft, MapThenFoldSet, SinglesListed
<1>3. PICK g : Folding(k, SinglesListed, SpliceAt, SplicedEntry, g)
  BY <1>1, Folded
<1>4. ASSUME NEW h PROVE Folding(k, SinglesListed, SpliceAt, SplicedEntry, h) <=> h = F(h)
  <2> DEFINE G == [S \in SUBSET (1..k) |-> IF S = {} THEN SinglesListed
                     ELSE InsertAt(h[S \ {Max(S)}], SpliceAt[Max(S)] + 1, SplicedEntry[Max(S)])]
  <2>1. ASSUME NEW S \in SUBSET (1..k), S # {}
        PROVE  SpliceAt[Max(S)] = At(s[Max(S)]) /\ SplicedEntry[Max(S)] = Merged(s[Max(S)])
    <3>1. Max(S) \in 1..k
      BY <1>1, <2>1, LastPlace
    <3> QED
      BY <3>1 DEF SpliceAt, SplicedEntry
  <2>2. G = F(h)
    BY <2>1
  <2>3. Folding(k, SinglesListed, SpliceAt, SplicedEntry, h) <=> h = G
    BY DEF Folding
  <2> QED
    BY <2>2, <2>3
<1>5. Folding(k, SinglesListed, SpliceAt, SplicedEntry, f)
  <2>1. g = F(g)
    BY <1>3, <1>4
  <2> HIDE DEF F
  <2>2. f = F(f)
    BY <2>1
  <2> HIDE DEF f
  <2> QED
    BY <1>4, <2>2
<1> QED
  BY <1>2, <1>5

\* A stage is one of three.
LEMMA Stages ==
  /\ \A t : StageOf(t) \in {"FAILED", "DONE", "QUEUED"}
  /\ \A m : MergeStage(m) \in {"FAILED", "DONE", "QUEUED"}
  BY DEF StageOf, MergeStage

\* The single tables are the listed ones at the single places, in order.
LEMMA SinglesAre ==
  ASSUME ReaderInv
  PROVE  /\ Single \in Seq(Tables) /\ Once(Single) /\ Len(Single) = Cardinality(SinglePlaces)
         /\ Len(Single) \in Nat
         /\ InOrder(SinglePlaces) \in [1..Len(Single) -> SinglePlaces]
         /\ \A p \in 1..Len(Single) : Single[p] = reader.listed[InOrder(SinglePlaces)[p]]
         /\ \A n \in SinglePlaces : \E p \in 1..Len(Single) : InOrder(SinglePlaces)[p] = n
         /\ \A p, q \in 1..Len(Single) : p < q => InOrder(SinglePlaces)[p] < InOrder(SinglePlaces)[q]
<1>1. PICK l : l = reader.listed
  OBVIOUS
<1>2. PICK P : P = SinglePlaces
  OBVIOUS
<1>3. l \in Seq(Tables) /\ Once(l)
  BY <1>1, PolledList
<1>4. P \in SUBSET DOMAIN l /\ Single = AtPlaces(l, P)
  BY <1>1, <1>2 DEF SinglePlaces, Single
<1>5. PICK x : x = Single
  OBVIOUS
<1>6. PICK o : o = InOrder(P)
  OBVIOUS
<1>7. /\ x \in Seq(Tables) /\ Len(x) = Cardinality(P) /\ Cardinality(P) \in Nat
      /\ o \in [1..Cardinality(P) -> P]
      /\ \A n \in 1..Cardinality(P) : x[n] = l[o[n]]
      /\ \A i \in P : \E n \in 1..Cardinality(P) : o[n] = i
      /\ \A n, m \in 1..Cardinality(P) : n < m => o[n] < o[m]
  BY <1>3, <1>4, <1>5, <1>6, AtPlacesHolds
<1>8. Once(x)
  <2> SUFFICES ASSUME NEW i \in 1..Cardinality(P), NEW j \in 1..Cardinality(P), x[i] = x[j] PROVE i = j
    BY <1>7 DEF Once
  <2>1. l[o[i]] = l[o[j]] /\ o[i] \in DOMAIN l /\ o[j] \in DOMAIN l
    BY <1>4, <1>7
  <2>2. o[i] = o[j] /\ o[i] \in Nat
    BY <1>3, <2>1 DEF Once
  <2>3. ~(i < j) /\ ~(j < i)
    BY <1>7, <2>2
  <2> QED
    BY <1>7, <2>3
<1> QED
  BY <1>1, <1>2, <1>5, <1>6, <1>7, <1>8

\* What is spliced is spliced from the back.
LEMMA SplicesFit ==
  ASSUME ReaderInv
  PROVE  /\ Splicing(EntrySet, SinglesListed, SpliceAt, SplicedEntry, Len(SpliceOrder))
         /\ Len(SinglesListed) = Len(Single)
<1>1. PICK s : s = SpliceOrder
  OBVIOUS
<1>2. /\ s \in Seq(Standing) /\ Len(s) \in Nat /\ DOMAIN s = 1..Len(s)
      /\ \A i, j \in 1..Len(s) : s[i] = s[j] => i = j
      /\ \A i, j \in 1..Len(s) : i < j => SplicedBefore(s[i], s[j])
  <2>1. IsFiniteSet(Standing) /\ s \in SetToSeqs(Standing)
        /\ \A i, j \in DOMAIN s : i < j => SplicedBefore(s[i], s[j])
    BY <1>1, OrderOfSplices
  <2>2. s \in Seq(Standing) /\ \A i, j \in 1..Len(s) : s[i] = s[j] => i = j
    BY <2>1, AllInTurn, Zenon
  <2> QED
    BY <2>1, <2>2
<1>3. PICK x : x = Single
  OBVIOUS
<1>4. x \in Seq(Tables) /\ Once(x) /\ Len(x) = Cardinality(SinglePlaces) /\ Len(x) \in Nat /\ DOMAIN x = 1..Len(x)
  BY <1>3, SinglesAre
<1>5. \A t \in Tables : Table(t) \in EntrySet /\ Table(t).merge = 0 /\ Table(t).members = {t}
  BY Stages DEF Table, EntrySet
<1>6. \A m \in Standing : Merged(m) \in EntrySet /\ Merged(m).merge = m /\ m # 0
  <2> SUFFICES ASSUME NEW m \in Standing
               PROVE  Merged(m) \in EntrySet /\ Merged(m).merge = m /\ m # 0
    OBVIOUS
  <2>1. reader.merges \in Seq(SUBSET Tables) /\ reader.listed \in Seq(Tables)
    BY PolledList
  <2>2. m \in Nat /\ m # 0 /\ reader.merges[m] \in SUBSET Tables
    BY <2>1 DEF Standing
  <2>3. reader.merges[m] \cap ToSet(reader.listed) \in SUBSET Tables
    BY <2>2
  <2> QED
    BY <2>2, <2>3, Stages DEF Merged, EntrySet
<1>7. PICK b : b = SinglesListed
  OBVIOUS
<1>8. b \in Seq(EntrySet) /\ Len(b) = Len(x) /\ \A p \in 1..Len(x) : b[p] = Table(x[p])
  <2>1. b = [p \in 1..Len(x) |-> Table(x[p])]
    BY <1>3, <1>4, <1>7 DEF SinglesListed
  <2>2. b \in [1..Len(x) -> EntrySet]
    <3>1. \A p \in 1..Len(x) : Table(x[p]) \in EntrySet
      BY <1>4, <1>5
    <3> QED
      BY <2>1, <3>1
  <2>3. b \in Seq(EntrySet) /\ Len(b) = Len(x)
    BY <1>4, <2>2
  <2> QED
    BY <2>1, <2>3
<1>9. Once(b)
  <2> SUFFICES ASSUME NEW p \in 1..Len(x), NEW q \in 1..Len(x), b[p] = b[q] PROVE p = q
    BY <1>8 DEF Once
  <2>1. x[p] \in Tables /\ x[q] \in Tables
    BY <1>4
  <2>2. {x[p]} = {x[q]}
    <3>1. Table(x[p]) = Table(x[q])
      BY <1>8
    <3>2. Table(x[p]).members = {x[p]} /\ Table(x[q]).members = {x[q]}
      BY <1>5, <2>1
    <3> QED
      BY <3>1, <3>2
  <2>3. x[p] = x[q]
    BY <2>2
  <2> QED
    BY <1>4, <2>3 DEF Once
<1>10. PICK w : w = SplicedEntry
  OBVIOUS
<1>11. PICK a : a = SpliceAt
  OBVIOUS
<1>12. \A q \in 1..Len(s) : s[q] \in Standing /\ w[q] = Merged(s[q]) /\ a[q] = At(s[q])
  BY <1>1, <1>2, <1>10, <1>11 DEF SplicedEntry, SpliceAt
<1>13. w \in [1..Len(s) -> EntrySet]
  BY <1>1, <1>6, <1>10, <1>12 DEF SplicedEntry
<1>14. a \in [1..Len(s) -> 0..Len(b)]
  <2>1. \A m \in Standing : At(m) \in 0..Len(b)
    BY <1>4, <1>8, FirstMember
  <2> QED
    BY <1>1, <1>11, <1>12, <2>1 DEF SpliceAt
<1>15. ASSUME NEW i \in 1..Len(s), NEW j \in 1..Len(s), w[i] = w[j] PROVE i = j
  <2>1. s[i] = s[j]
    BY <1>6, <1>12, <1>15
  <2> QED
    BY <1>2, <2>1
<1>16. ASSUME NEW q \in 1..Len(s), NEW p \in 1..Len(b) PROVE w[q] # b[p]
  <2>1. b[p] = Table(x[p]) /\ x[p] \in Tables
    BY <1>4, <1>8
  <2>2. w[q].merge # 0
    BY <1>6, <1>12
  <2> QED
    BY <1>5, <2>1, <2>2
<1>17. ASSUME NEW i \in 1..Len(s), NEW j \in 1..Len(s), i < j PROVE a[j] <= a[i]
  <2>1. SplicedBefore(s[i], s[j]) /\ a[i] \in Nat /\ a[j] \in Nat
    BY <1>2, <1>14, <1>17
  <2>2. At(s[i]) > At(s[j]) \/ At(s[i]) = At(s[j])
    BY <2>1 DEF SplicedBefore
  <2> QED
    BY <1>12, <2>1, <2>2
<1> QED
  BY <1>1, <1>2, <1>3, <1>7, <1>8, <1>9, <1>10, <1>11, <1>13, <1>14, <1>15, <1>16, <1>17 DEF Splicing

\* The answer's list: every single table and every merge that stands, each once,
\* and a merge behind the single tables that were before its first member.
EntriesHold(es) ==
    /\ es \in Seq(EntrySet) /\ Once(es)
    /\ \A p \in 1..Len(Single) : \E a \in DOMAIN es : es[a] = Table(Single[p])
    /\ \A m \in Standing : \E a \in DOMAIN es : es[a] = Merged(m)
    /\ \A a \in DOMAIN es : \/ \E p \in 1..Len(Single) : es[a] = Table(Single[p])
                            \/ \E m \in Standing : es[a] = Merged(m)
    /\ \A a, b \in DOMAIN es, m \in Standing, p \in 1..Len(Single) :
          es[a] = Merged(m) /\ es[b] = Table(Single[p]) => (b < a <=> p <= At(m))

LEMMA EntriesAre ==
  ASSUME ReaderInv
  PROVE  EntriesHold(Entries)
<1>1. PICK s : s = SpliceOrder
  OBVIOUS
<1>2. PICK k : k = Len(s)
  OBVIOUS
<1>3. PICK b : b = SinglesListed
  OBVIOUS
<1>4. PICK at : at = SpliceAt
  OBVIOUS
<1>5. PICK w : w = SplicedEntry
  OBVIOUS
<1>6. PICK x : x = Single
  OBVIOUS
<1>7. PICK es : es = Entries
  OBVIOUS
<1>8. Splicing(EntrySet, b, at, w, k) /\ Len(b) = Len(x)
  BY <1>1, <1>2, <1>3, <1>4, <1>5, <1>6, SplicesFit
<1>9. PICK g : Folding(k, b, at, w, g) /\ es = g[1..k]
  BY <1>1, <1>2, <1>3, <1>4, <1>5, <1>7, EntriesAreFolded
<1>10. Spliced(EntrySet, b, at, w, k, es)
  BY <1>8, <1>9, AllSpliced
<1>11. x \in Seq(Tables) /\ Len(x) \in Nat /\ \A p \in 1..Len(x) : b[p] = Table(x[p])
  BY <1>3, <1>6, SinglesAre DEF SinglesListed
<1>12. /\ k \in Nat /\ s \in Seq(Standing)
       /\ \A q \in 1..k : s[q] \in Standing /\ w[q] = Merged(s[q]) /\ at[q] = At(s[q])
       /\ \A m \in Standing : \E q \in 1..k : s[q] = m
  <2>1. IsFiniteSet(Standing) /\ s \in SetToSeqs(Standing)
    BY <1>1, OrderOfSplices
  <2>2. s \in Seq(Standing) /\ \A m \in Standing : \E q \in 1..Len(s) : s[q] = m
    BY <2>1, AllInTurn, Zenon
  <2>3. k \in Nat /\ \A q \in 1..k : s[q] \in Standing
    BY <1>2, <2>2
  <2>4. \A q \in 1..k : w[q] = Merged(s[q]) /\ at[q] = At(s[q])
    BY <1>1, <1>2, <1>4, <1>5 DEF SplicedEntry, SpliceAt
  <2> QED
    BY <1>2, <2>2, <2>3, <2>4
<1>13. es \in Seq(EntrySet) /\ Once(es)
  BY <1>10 DEF Spliced
<1>14. DOMAIN es = 1..Len(es)
  BY <1>13
<1>15. ASSUME NEW p \in 1..Len(x) PROVE \E a \in DOMAIN es : es[a] = Table(x[p])
  <2>1. \E a \in 1..Len(es) : es[a] = b[p]
    BY <1>8, <1>10 DEF Spliced
  <2> QED
    BY <1>11, <1>14, <2>1
<1>16. ASSUME NEW m \in Standing PROVE \E a \in DOMAIN es : es[a] = Merged(m)
  <2>1. PICK q \in 1..k : s[q] = m
    BY <1>12
  <2>2. \E a \in 1..Len(es) : es[a] = w[q]
    BY <1>10 DEF Spliced
  <2> QED
    BY <1>12, <1>14, <2>1, <2>2
<1>17. ASSUME NEW a \in DOMAIN es
       PROVE  \/ \E p \in 1..Len(x) : es[a] = Table(x[p])
              \/ \E m \in Standing : es[a] = Merged(m)
  <2>1. (\E p \in 1..Len(b) : es[a] = b[p]) \/ \E q \in 1..k : es[a] = w[q]
    BY <1>10, <1>14 DEF Spliced
  <2> QED
    BY <1>8, <1>11, <1>12, <2>1
<1>18. ASSUME NEW a \in DOMAIN es, NEW c \in DOMAIN es, NEW m \in Standing, NEW p \in 1..Len(x),
              es[a] = Merged(m), es[c] = Table(x[p])
       PROVE  c < a <=> p <= At(m)
  <2>1. PICK q \in 1..k : s[q] = m /\ w[q] = Merged(m) /\ at[q] = At(m)
    BY <1>12
  <2>2. es[a] = w[q] /\ es[c] = b[p] /\ p \in 1..Len(b)
    BY <1>8, <1>11, <1>18, <2>1
  <2>3. c < a <=> p <= at[q]
    BY <1>10, <1>14, <2>2 DEF Spliced
  <2> QED
    BY <2>1, <2>3
<1>19. EntriesHold(es)
  BY <1>6, <1>13, <1>15, <1>16, <1>17, <1>18 DEF EntriesHold
<1> QED
  BY <1>7, <1>19

\* Behind as many single tables as were before a place is behind those before it.
LEMMA PlaceByCount ==
  ASSUME NEW P \in SUBSET Nat, IsFiniteSet(P), NEW F \in Nat, F \notin P, NEW p \in 1..Cardinality(P)
  PROVE  p <= Cardinality({n \in P : n <= F}) <=> InOrder(P)[p] < F
<1>1. PICK N : N = Cardinality(P)
  OBVIOUS
<1>2. PICK o : o = InOrder(P)
  OBVIOUS
<1>3. /\ N \in Nat /\ o \in [1..N -> P]
      /\ \A i \in P : \E n \in 1..N : o[n] = i
      /\ \A n, m \in 1..N : n < m => o[n] < o[m]
  BY <1>1, <1>2, InOrderRises
<1> DEFINE B == {n \in P : n <= F}
           c == Cardinality(B)
<1>4. B \in SUBSET P
  OBVIOUS
<1> HIDE DEF B
<1>5. IsFiniteSet(B) /\ c \in Nat /\ c <= N
  <2>1. IsFiniteSet(B) /\ c <= N
    BY <1>1, <1>4, FS_Subset
  <2> QED
    BY <2>1, FS_CardinalityType
<1>6. ASSUME NEW q \in 1..N PROVE o[q] \in Nat /\ o[q] # F /\ (o[q] \in B <=> o[q] < F)
  <2>1. o[q] \in P /\ o[q] \in Nat /\ o[q] # F
    BY <1>3
  <2> QED
    BY <2>1 DEF B
\* The first c places are those of B.
<1>7. ASSUME NEW q \in 1..N, o[q] < F PROVE q <= c
  <2> DEFINE f == [n \in 1..q |-> o[n]]
  <2>1. ASSUME NEW n \in 1..q PROVE n \in 1..N /\ o[n] \in B
    <3>1. n \in 1..N /\ (n < q \/ n = q)
      BY <1>3
    <3>2. o[n] <= o[q] /\ o[n] \in Nat /\ o[q] \in Nat
      BY <1>3, <1>6, <3>1
    <3> QED
      BY <1>6, <1>7, <3>1, <3>2
  <2>2. ASSUME NEW n \in 1..q, NEW m \in 1..q, o[n] = o[m] PROVE n = m
    <3>1. ~(n < m) /\ ~(m < n)
      BY <1>3, <1>6, <2>1, <2>2
    <3> QED
      BY <3>1
  <2>3. f \in Injection(1..q, B)
    BY <2>1, <2>2 DEF Injection, IsInjective
  <2>4. Cardinality(1..q) <= c
    <3> HIDE DEF f
    <3> QED
      BY <1>5, <2>3, FS_Injection
  <2> QED
    BY <2>4, FS_Interval
<1>8. ASSUME NEW q \in 1..N, ~(o[q] < F) PROVE ~(q <= c)
  <2> SUFFICES ASSUME q <= c PROVE FALSE
    OBVIOUS
  <2>1. ASSUME NEW i \in B PROVE \E n \in 1..(q - 1) : o[n] = i
    <3>1. PICK n \in 1..N : o[n] = i
      BY <1>3, <1>4
    <3>2. o[n] < F /\ o[q] \in Nat /\ o[n] \in Nat
      BY <1>6, <3>1
    <3>3. ~(q < n) /\ q # n
      BY <1>3, <1>8, <3>2
    <3> QED
      BY <1>3, <3>1, <3>3
  <2> DEFINE D == {n \in 1..(q - 1) : o[n] \in B}
             f == [n \in D |-> o[n]]
  <2>2. f \in Surjection(D, B)
    BY <2>1 DEF Surjection
  <2>3. D \in SUBSET (1..(q - 1)) /\ q - 1 \in Nat
    OBVIOUS
  <2> HIDE DEF D, f
  <2>4. IsFiniteSet(1..(q - 1)) /\ Cardinality(1..(q - 1)) = q - 1
    BY <2>3, FS_Interval
  <2>5. IsFiniteSet(D) /\ Cardinality(D) <= q - 1
    BY <2>3, <2>4, FS_Subset
  <2>6. Cardinality(D) \in Nat
    BY <2>5, FS_CardinalityType
  <2>7. c <= Cardinality(D)
    BY <2>2, <2>5, FS_Surjection
  <2> QED
    BY <1>5, <2>3, <2>5, <2>6, <2>7
<1>9. p \in 1..N
  BY <1>1
<1> QED
  BY <1>2, <1>7, <1>8, <1>9 DEF B

\* What the two kinds of entry are.
LEMMA EntryKinds ==
  ASSUME ReaderInv
  PROVE  /\ \A t : Table(t).merge = 0 /\ Table(t).members = {t}
         /\ \A m : Merged(m).merge = m /\ Merged(m).members = reader.merges[m] \cap ToSet(reader.listed)
         /\ \A m \in Standing : m # 0 /\ m \in DOMAIN reader.merges
         /\ \A e \in EntrySet : e.stage \in {"FAILED", "DONE", "QUEUED"}
<1>1. reader.merges \in Seq(SUBSET Tables)
  BY PolledList
<1>2. \A m \in Standing : m # 0 /\ m \in DOMAIN reader.merges
  BY <1>1 DEF Standing
<1> QED
  BY <1>2 DEF Table, Merged, EntrySet

\* Every listed table is in one entry of the list, and in it alone.
LEMMA EachInOne ==
  ASSUME ReaderInv, NEW es, EntriesHold(es)
  PROVE  /\ \A t \in ToSet(reader.listed) : \E a \in DOMAIN es : t \in es[a].members
         /\ \A t, a, b : a \in DOMAIN es /\ b \in DOMAIN es /\ t \in es[a].members /\ t \in es[b].members
                            => a = b
         /\ \A a \in DOMAIN es : es[a].members \subseteq ToSet(reader.listed)
<1>1. /\ Single \in Seq(Tables) /\ Once(Single)
      /\ \A p \in 1..Len(Single) : Single[p] = reader.listed[InOrder(SinglePlaces)[p]]
                                   /\ InOrder(SinglePlaces)[p] \in SinglePlaces
      /\ \A n \in SinglePlaces : \E p \in 1..Len(Single) : InOrder(SinglePlaces)[p] = n
      /\ DOMAIN Single = 1..Len(Single)
  BY SinglesAre
<1>2. \A p \in 1..Len(Single) : Single[p] \in ToSet(reader.listed) /\ MergedInto(Single[p]) = {}
  <2>1. \A n \in SinglePlaces : reader.listed[n] \in ToSet(reader.listed) /\ MergedInto(reader.listed[n]) = {}
    BY DEF SinglePlaces, ToSet
  <2> QED
    BY <1>1, <2>1
<1>3. Parted(reader.merges)
  BY PolledList
<1>4. /\ \A t : Table(t).members = {t}
      /\ \A m \in Standing : Merged(m).members = reader.merges[m] \cap ToSet(reader.listed)
                             /\ m \in DOMAIN reader.merges
  BY EntryKinds
<1>5. ASSUME NEW t \in ToSet(reader.listed) PROVE \E a \in DOMAIN es : t \in es[a].members
  <2>1. PICK n \in DOMAIN reader.listed : reader.listed[n] = t
    BY DEF ToSet
  <2>2. CASE MergedInto(t) = {}
    <3>1. PICK p \in 1..Len(Single) : Single[p] = t
      BY <1>1, <2>1, <2>2 DEF SinglePlaces
    <3>2. PICK a \in DOMAIN es : es[a] = Table(Single[p])
      BY DEF EntriesHold
    <3> QED
      BY <1>4, <3>1, <3>2
  <2>3. CASE MergedInto(t) # {}
    <3>1. PICK m \in DOMAIN reader.merges : t \in reader.merges[m]
      BY <2>3 DEF MergedInto
    <3>2. m \in Standing
      BY <3>1 DEF Standing
    <3>3. PICK a \in DOMAIN es : es[a] = Merged(m)
      BY <3>2 DEF EntriesHold
    <3> QED
      BY <1>4, <3>1, <3>2, <3>3
  <2> QED
    BY <2>2, <2>3
<1>6. ASSUME NEW a \in DOMAIN es
      PROVE  \/ \E p \in 1..Len(Single) : es[a] = Table(Single[p]) /\ es[a].members = {Single[p]}
             \/ \E m \in Standing : es[a] = Merged(m) /\ es[a].members = reader.merges[m] \cap ToSet(reader.listed)
  <2>1. \/ \E p \in 1..Len(Single) : es[a] = Table(Single[p])
        \/ \E m \in Standing : es[a] = Merged(m)
    BY DEF EntriesHold
  <2> QED
    BY <1>4, <2>1
<1>7. ASSUME NEW t, NEW a \in DOMAIN es, NEW b \in DOMAIN es, t \in es[a].members, t \in es[b].members
      PROVE  es[a] = es[b]
  <2>1. CASE \E p \in 1..Len(Single) : es[a] = Table(Single[p]) /\ es[a].members = {Single[p]}
    <3>1. PICK p \in 1..Len(Single) : es[a] = Table(Single[p]) /\ t = Single[p]
      BY <1>7, <2>1
    <3>2. \A m \in Standing : t \notin reader.merges[m]
      BY <1>2, <1>4, <3>1 DEF MergedInto
    <3>3. PICK q \in 1..Len(Single) : es[b] = Table(Single[q]) /\ t = Single[q]
      BY <1>6, <1>7, <3>2
    <3> QED
      BY <3>1, <3>3
  <2>2. CASE \E m \in Standing : es[a] = Merged(m) /\ es[a].members = reader.merges[m] \cap ToSet(reader.listed)
    <3>1. PICK m \in Standing : es[a] = Merged(m) /\ t \in reader.merges[m]
      BY <1>7, <2>2
    <3>2. \A p \in 1..Len(Single) : t # Single[p]
      BY <1>2, <1>4, <3>1 DEF MergedInto
    <3>3. PICK n \in Standing : es[b] = Merged(n) /\ t \in reader.merges[n]
      BY <1>6, <1>7, <3>2
    <3>4. m = n
      BY <1>3, <1>4, <3>1, <3>3 DEF Parted
    <3> QED
      BY <3>1, <3>3, <3>4
  <2> QED
    BY <1>6, <2>1, <2>2
<1>8. \A t, a, b : a \in DOMAIN es /\ b \in DOMAIN es /\ t \in es[a].members /\ t \in es[b].members => a = b
  BY <1>7 DEF EntriesHold, Once
<1>9. \A a \in DOMAIN es : es[a].members \subseteq ToSet(reader.listed)
  BY <1>2, <1>6
<1> QED
  BY <1>5, <1>8, <1>9

\* As many as are queued, done and failed are on the list.
LEMMA CountsComeOut ==
  ASSUME NEW es \in Seq(EntrySet)
  PROVE  Count(es, "QUEUED") + Count(es, "DONE") + Count(es, "FAILED") = Len(es)
<1>1. DOMAIN es = 1..Len(es) /\ Len(es) \in Nat
  OBVIOUS
<1>2. \A n \in DOMAIN es : es[n].stage \in {"FAILED", "DONE", "QUEUED"}
  <2>1. \A e \in EntrySet : e.stage \in {"FAILED", "DONE", "QUEUED"}
    BY DEF EntrySet
  <2> QED
    BY <2>1
<1> DEFINE Q == {n \in DOMAIN es : es[n].stage = "QUEUED"}
           D == {n \in DOMAIN es : es[n].stage = "DONE"}
           F == {n \in DOMAIN es : es[n].stage = "FAILED"}
<1>3. /\ Q \cup (D \cup F) = 1..Len(es) /\ Q \cap (D \cup F) = {} /\ D \cap F = {}
      /\ Q \in SUBSET (1..Len(es)) /\ D \in SUBSET (1..Len(es)) /\ F \in SUBSET (1..Len(es))
  BY <1>1, <1>2
<1>4. Count(es, "QUEUED") = Cardinality(Q) /\ Count(es, "DONE") = Cardinality(D)
      /\ Count(es, "FAILED") = Cardinality(F)
  BY DEF Count
<1> HIDE DEF Q, D, F
<1>5. IsFiniteSet(1..Len(es)) /\ Cardinality(1..Len(es)) = Len(es)
  BY <1>1, FS_Interval
<1>6. IsFiniteSet(Q) /\ IsFiniteSet(D) /\ IsFiniteSet(F)
  BY <1>3, <1>5, FS_Subset
<1>7. Cardinality(Q) \in Nat /\ Cardinality(D) \in Nat /\ Cardinality(F) \in Nat
  BY <1>6, FS_CardinalityType
<1>8. IsFiniteSet(D \cup F) /\ Cardinality(D \cup F) = Cardinality(D) + Cardinality(F)
  <2>1. IsFiniteSet(D \cup F) /\ Cardinality(D \cup F) = Cardinality(D) + Cardinality(F) - Cardinality(D \cap F)
    BY <1>6, FS_Union
  <2>2. Cardinality(D \cap F) = 0
    BY <1>3, FS_EmptySet
  <2> QED
    BY <1>7, <2>1, <2>2
<1>9. Len(es) = Cardinality(Q) + (Cardinality(D) + Cardinality(F))
  <2>1. Cardinality(Q \cup (D \cup F)) =
          Cardinality(Q) + Cardinality(D \cup F) - Cardinality(Q \cap (D \cup F))
    BY <1>6, <1>8, FS_Union
  <2>2. Cardinality(Q \cap (D \cup F)) = 0
    BY <1>3, FS_EmptySet
  <2>3. Cardinality(Q \cup (D \cup F)) = Len(es)
    BY <1>3, <1>5
  <2> QED
    BY <1>1, <1>7, <1>8, <2>1, <2>2, <2>3
<1> QED
  BY <1>4, <1>7, <1>9

\* What the invariant says of an answer.
LEMMA ListIsWhole == ReaderInv => ListedOnce
<1> SUFFICES ASSUME ReaderInv PROVE ListedOnce
  OBVIOUS
<1>1. PICK es : es = Entries
  OBVIOUS
<1>2. EntriesHold(es)
  BY <1>1, EntriesAre
<1>3. /\ \A t \in ToSet(reader.listed) : \E a \in DOMAIN es : t \in es[a].members
      /\ \A t, a, b : a \in DOMAIN es /\ b \in DOMAIN es /\ t \in es[a].members /\ t \in es[b].members => a = b
      /\ \A a \in DOMAIN es : es[a].members \subseteq ToSet(reader.listed)
  BY <1>2, EachInOne
<1>4. ASSUME NEW t \in ToSet(reader.listed)
      PROVE  Cardinality({n \in DOMAIN es : t \in es[n].members}) = 1
  <2>1. PICK a \in DOMAIN es : t \in es[a].members
    BY <1>3
  <2>2. {n \in DOMAIN es : t \in es[n].members} = {a}
    BY <1>3, <2>1
  <2> QED
    BY <2>2, FS_Singleton
<1>5. UNION {e.members : e \in ToSet(es)} = ToSet(reader.listed)
  BY <1>3 DEF ToSet
<1>6. Count(es, "QUEUED") + Count(es, "DONE") + Count(es, "FAILED") = Len(es)
  BY <1>2, CountsComeOut DEF EntriesHold
<1> QED
  BY <1>1, <1>4, <1>5, <1>6 DEF ListedOnce

LEMMA ListIsInPlace == ReaderInv => StandsInPlace
<1> SUFFICES ASSUME ReaderInv PROVE StandsInPlace
  OBVIOUS
<1>1. PICK es : es = Entries
  OBVIOUS
<1>2. EntriesHold(es)
  BY <1>1, EntriesAre
<1>3. ASSUME NEW i \in DOMAIN es, NEW j \in DOMAIN es, es[i].merge # 0, es[j].merge = 0,
             NEW n \in DOMAIN reader.listed, reader.listed[n] \in es[j].members
      PROVE  j < i <=> n < FirstAt(es[i].merge)
  <2>1. PICK m \in Standing : es[i] = Merged(m) /\ es[i].merge = m
    BY <1>2, <1>3, EntryKinds DEF EntriesHold
  <2>2. PICK p \in 1..Len(Single) : es[j] = Table(Single[p]) /\ reader.listed[n] = Single[p]
    <3>1. ~ \E k \in Standing : es[j] = Merged(k)
      BY <1>3, EntryKinds
    <3>2. PICK p \in 1..Len(Single) : es[j] = Table(Single[p])
      BY <1>2, <1>3, <3>1 DEF EntriesHold
    <3>3. es[j].members = {Single[p]}
      BY <3>2, EntryKinds
    <3> QED
      BY <1>3, <3>2, <3>3
  <2>3. j < i <=> p <= At(m)
    BY <1>2, <1>3, <2>1, <2>2 DEF EntriesHold
  <2>4. PICK o : o = InOrder(SinglePlaces)
    OBVIOUS
  <2>5. PICK P : P = SinglePlaces
    OBVIOUS
  <2>6. n = o[p]
    <3>1. Single[p] = reader.listed[o[p]] /\ o[p] \in SinglePlaces
      BY <2>4, SinglesAre
    <3>2. o[p] \in DOMAIN reader.listed /\ Once(reader.listed)
      BY <3>1, PolledList DEF SinglePlaces
    <3> QED
      BY <1>3, <2>2, <3>1, <3>2 DEF Once
  <2>7. P \in SUBSET Nat /\ IsFiniteSet(P) /\ p \in 1..Cardinality(P)
    <3>1. DOMAIN reader.listed = 1..Len(reader.listed) /\ Len(reader.listed) \in Nat
      BY PolledList
    <3>2. P \in SUBSET (1..Len(reader.listed)) /\ P \in SUBSET Nat
      BY <2>5, <3>1 DEF SinglePlaces
    <3>5. IsFiniteSet(1..Len(reader.listed))
      BY <3>1, FS_Interval
    <3>3. IsFiniteSet(P) /\ P \in SUBSET Nat
      BY <3>2, <3>5, FS_Subset
    <3>4. Len(Single) = Cardinality(P)
      BY <2>5, SinglesAre
    <3> QED
      BY <3>3, <3>4
  <2>8. PICK F : F = FirstAt(m)
    OBVIOUS
  <2>9. F \in Nat /\ F \notin P /\ At(m) = Cardinality({k \in P : k <= F})
    <3>1. FirstAt(m) \in DOMAIN reader.listed /\ FirstAt(m) \notin SinglePlaces
          /\ At(m) = Cardinality({k \in SinglePlaces : k <= FirstAt(m)})
      BY FirstMember
    <3>2. \A k \in DOMAIN reader.listed : k \in Nat
      BY PolledList
    <3> QED
      BY <2>5, <2>8, <3>1, <3>2
  <2>10. p <= At(m) <=> o[p] < F
    BY <2>4, <2>5, <2>7, <2>9, PlaceByCount
  <2> QED
    BY <2>1, <2>3, <2>6, <2>8, <2>10
<1> QED
  BY <1>1, <1>3 DEF StandsInPlace

-----------------------------------------------------------------------------
\* In every behaviour every table of a poll's list is in one entry of its answer
\* and in it alone, and the counts come to as many as there are entries,
\* whatever was merged, undone or discarded between its queries (pollResult).
THEOREM TablesListedOnce == Spec => []ListedOnce
<1>1. MergesInv /\ ReaderInv /\ [Next]_vars => MergesInv' /\ ReaderInv'
  BY Step, ReaderKeeps
<1> QED
  BY Start, ReaderStarts, <1>1, ListIsWhole, PTL DEF Spec

\* In every behaviour a merged entry stands behind the single tables that were
\* listed before its first member and before those after it (pollResult).
THEOREM MergesStandInPlace == Spec => []StandsInPlace
<1>1. MergesInv /\ ReaderInv /\ [Next]_vars => MergesInv' /\ ReaderInv'
  BY Step, ReaderKeeps
<1> QED
  BY Start, ReaderStarts, <1>1, ListIsInPlace, PTL DEF Spec

=============================================================================
