--------------------------- MODULE ProjectWorkProofs ---------------------------
(***************************************************************************)
(* Theorems about the work on a project, for any finite set of milestones  *)
(* and any projects, advances, files and workers.                          *)
(*                                                                         *)
(* Milestones: the positions of a project are 1..N, so every move finds    *)
(* its places free, and the last crossing tells whether all are done.      *)
(*                                                                         *)
(* Advances: a transaction that has passed its checks holds the rows it    *)
(* checked, so what it saw is still true when it commits; and rows are     *)
(* locked in the order of their tables, so only the services that differ   *)
(* in that order can wait for each other.                                  *)
(***************************************************************************)
EXTENDS ProjectWork, FiniteSetTheorems, TLAPS

-------------------------------------------------------------------------------
(* Milestones.                                                             *)

Numbered == \A p \in Projects : Consecutive(p) /\ Unique(Of(p), PositionsNow)

MilestonesInv == MilestonesTypeOK /\ LastCrossingIsTrue /\ Numbered

LEMMA OfFinite ==
    ASSUME NEW p
    PROVE  IsFiniteSet(Of(p)) /\ Cardinality(Of(p)) \in Nat
  <1>1. Of(p) \subseteq Milestones
    BY DEF Of
  <1> QED
    BY <1>1, MilestonesAssumption, FS_Subset, FS_CardinalityType

LEMMA MilestonesInvInit == MilestonesInit => MilestonesInv
  <1> SUFFICES ASSUME MilestonesInit PROVE MilestonesInv
    OBVIOUS
  <1>1. MilestonesTypeOK
    BY DEF MilestonesInit, MilestonesTypeOK, NoMilestone, MilestoneRow, Crossing
  <1>2. ASSUME NEW p \in Projects PROVE Of(p) = {}
    BY MilestonesAssumption DEF MilestonesInit, NoMilestone, Of
  <1>3. LastCrossingIsTrue
    BY <1>2 DEF MilestonesInit, LastCrossingIsTrue, Completed
  <1>4. Numbered
    <2> SUFFICES ASSUME NEW p \in Projects PROVE Consecutive(p) /\ Unique(Of(p), PositionsNow)
      BY DEF Numbered
    <2>1. Cardinality(Of(p)) = 0 /\ Positions(p) = {}
      BY <1>2, FS_EmptySet DEF Positions
    <2> QED
      BY <1>2, <2>1 DEF Consecutive, Unique
  <1> QED
    BY <1>1, <1>3, <1>4 DEF MilestonesInv

\* The last crossing stays true when the step audits what p has become and leaves the
\* milestones of the other projects alone.
LEMMA AuditTellsTruth ==
    ASSUME MilestonesInv, NEW p \in Projects, NEW done \in BOOLEAN, Audit(p, done),
           Completed(p)' = done,
           \A q \in Projects \ {p} : Completed(q)' = Completed(q)
    PROVE  LastCrossingIsTrue' /\ crossing' \in [Projects -> Crossing]
  <1>1. crossing \in [Projects -> Crossing]
    BY DEF MilestonesInv, MilestonesTypeOK
  <1>2. crossing' \in [Projects -> Crossing]
    BY <1>1 DEF Audit, Crossing
  <1>3. ASSUME NEW q \in Projects PROVE crossing'[q] = "reached" <=> Completed(q)'
    <2>1. crossing[q] = "reached" <=> Completed(q)
      BY DEF MilestonesInv, LastCrossingIsTrue
    <2>2. CASE q = p
      <3>1. CASE Completed(p) = done
        BY <2>1, <2>2, <3>1 DEF Audit
      <3>2. CASE Completed(p) # done
        <4>1. crossing' = [crossing EXCEPT ![p] = IF done THEN "reached" ELSE "left"]
          BY <3>2 DEF Audit
        <4>2. crossing'[p] = IF done THEN "reached" ELSE "left"
          BY <1>1, <4>1
        <4> QED
          BY <2>2, <4>2
      <3> QED
        BY <3>1, <3>2
    <2>3. CASE q # p
      <3>1. crossing'[q] = crossing[q]
        BY <1>1, <2>3 DEF Audit
      <3>2. Completed(q)' = Completed(q)
        BY <2>3
      <3> QED
        BY <2>1, <3>1, <3>2
    <2> QED
      BY <2>2, <2>3
  <1> QED
    BY <1>2, <1>3 DEF LastCrossingIsTrue

\* A project whose milestones a step leaves alone.
Untouched(p) == Of(p)' = Of(p) /\ \A m \in Of(p) : milestone'[m] = milestone[m]

LEMMA UntouchedKeeps ==
    ASSUME MilestonesInv, NEW p \in Projects, Untouched(p)
    PROVE  /\ Completed(p)' = Completed(p)
           /\ Consecutive(p)' /\ Unique(Of(p), PositionsNow)'
  <1>1. Of(p) \subseteq Milestones
    BY DEF Of
  <1>2. Completed(p)' = Completed(p)
    <2>1. Completed(p)' <=> Completed(p)
      BY DEF Untouched, Completed
    <2> QED
      BY <2>1 DEF Completed
  <1>3. Positions(p)' = Positions(p)
    BY DEF Untouched, Positions
  <1>4. Consecutive(p)'
    BY <1>3 DEF MilestonesInv, Numbered, Consecutive, Untouched
  <1>5. Unique(Of(p), PositionsNow)'
    BY <1>1 DEF MilestonesInv, Numbered, Unique, Untouched, PositionsNow
  <1> QED
    BY <1>2, <1>4, <1>5

\* A step that changes the milestones of one project only.
LEMMA OneProjectKeeps ==
    ASSUME MilestonesInv, NEW p \in Projects, milestone' \in [Milestones -> MilestoneRow],
           \A q \in Projects \ {p} : Untouched(q),
           LastCrossingIsTrue', crossing' \in [Projects -> Crossing],
           Consecutive(p)', Unique(Of(p), PositionsNow)'
    PROVE  MilestonesInv'
  <1>1. MilestonesTypeOK'
    BY DEF MilestonesTypeOK
  <1>2. ASSUME NEW q \in Projects PROVE (Consecutive(q) /\ Unique(Of(q), PositionsNow))'
    <2>1. CASE q = p
      BY <2>1
    <2>2. CASE q # p
      BY <2>2, UntouchedKeeps
    <2> QED
      BY <2>1, <2>2
  <1>3. Numbered'
    BY <1>2 DEF Numbered
  <1> QED
    BY <1>1, <1>3 DEF MilestonesInv

LEMMA CreateMilestoneKeeps ==
    ASSUME MilestonesInv, NEW m \in Milestones, NEW p \in Projects, CreateMilestone(m, p)
    PROVE  MilestonesInv'
  <1> DEFINE n == Cardinality(Of(p))
             r == [project |-> p, position |-> n + 1, done |-> FALSE]
  <1>1. n \in Nat /\ IsFiniteSet(Of(p))
    BY OfFinite
  <1>2. /\ milestone[m].project = None /\ milestone \in [Milestones -> MilestoneRow]
        /\ milestone' = [milestone EXCEPT ![m] = r]
        /\ Audit(p, FALSE)
    <2>1. milestone[m].project = None
      BY DEF CreateMilestone, NoMilestone
    <2>2. milestone' = [milestone EXCEPT ![m] = r] /\ Audit(p, FALSE)
      BY DEF CreateMilestone
    <2> QED
      BY <2>1, <2>2 DEF MilestonesInv, MilestonesTypeOK
  <1>3. r \in MilestoneRow /\ r.project = p /\ r.position = n + 1 /\ r.done = FALSE
    BY <1>1 DEF MilestoneRow
  <1> HIDE DEF r
  <1>4. /\ milestone' \in [Milestones -> MilestoneRow] /\ milestone'[m] = r
        /\ \A x \in Milestones \ {m} : milestone'[x] = milestone[x]
    BY <1>2, <1>3
  <1>5. Of(p)' = Of(p) \cup {m} /\ m \notin Of(p)
    BY <1>2, <1>3, <1>4, MilestonesAssumption DEF Of
  <1>6. ASSUME NEW q \in Projects \ {p} PROVE Untouched(q)
    BY <1>2, <1>3, <1>4, MilestonesAssumption DEF Of, Untouched
  <1>7. Completed(p)' = FALSE
    BY <1>3, <1>4, <1>5 DEF Completed
  <1>8. LastCrossingIsTrue' /\ crossing' \in [Projects -> Crossing]
    BY <1>2, <1>6, <1>7, AuditTellsTruth, UntouchedKeeps
  <1>9. Cardinality(Of(p))' = n + 1
    BY <1>1, <1>5, FS_AddElement
  <1>10. Positions(p) = 1..n /\ Unique(Of(p), PositionsNow)
    BY DEF MilestonesInv, Numbered, Consecutive
  <1> HIDE DEF n
  <1>11. Consecutive(p)'
    <2>1. Positions(p)' = Positions(p) \cup {n + 1}
      <3>1. \A x \in Of(p) : milestone'[x] = milestone[x]
        BY <1>4, <1>5 DEF Of
      <3> QED
        BY <1>3, <1>4, <1>5, <3>1 DEF Positions
    <2>2. 1..n \cup {n + 1} = 1..(n + 1)
      BY <1>1
    <2> QED
      BY <1>9, <1>10, <2>1, <2>2 DEF Consecutive
  <1>12. Unique(Of(p), PositionsNow)'
    <2> SUFFICES ASSUME NEW x \in Of(p) \cup {m}, NEW y \in Of(p) \cup {m},
                        milestone'[x].position = milestone'[y].position
                 PROVE  x = y
      BY <1>5 DEF Unique, PositionsNow, Of
    <2>1. \A z \in Of(p) : milestone'[z].position = milestone[z].position
                           /\ milestone[z].position \in 1..n
      BY <1>4, <1>5, <1>10 DEF Of, Positions
    <2>2. milestone'[m].position \notin 1..n
      BY <1>1, <1>3, <1>4
    <2>3. \A a, b \in Of(p) : milestone[a].position = milestone[b].position => a = b
      BY <1>10 DEF Unique, PositionsNow, Of
    <2> QED
      BY <2>1, <2>2, <2>3
  <1> QED
    BY <1>4, <1>6, <1>8, <1>11, <1>12, OneProjectKeeps

\* CompleteMilestone and ReopenMilestone.
LEMMA FlagKeeps ==
    ASSUME MilestonesInv, NEW m \in Milestones, CompleteMilestone(m) \/ ReopenMilestone(m)
    PROVE  MilestonesInv'
  <1>1. milestone \in [Milestones -> MilestoneRow] /\ milestone[m].project \in Projects
    BY DEF MilestonesInv, MilestonesTypeOK, CompleteMilestone, ReopenMilestone, MilestoneRow
  <1>p. PICK p \in Projects : p = milestone[m].project
    BY <1>1
  <1>2. PICK done \in BOOLEAN : milestone' = [milestone EXCEPT ![m].done = done]
                                /\ (done => Audit(p, \A n \in Of(p) \ {m} : milestone[n].done))
                                /\ (~done => Audit(p, FALSE))
    <2>1. CASE CompleteMilestone(m)
      BY <1>p, <2>1 DEF CompleteMilestone
    <2>2. CASE ReopenMilestone(m)
      BY <1>p, <2>2 DEF ReopenMilestone
    <2> QED
      BY <2>1, <2>2
  <1>3. /\ milestone' \in [Milestones -> MilestoneRow] /\ milestone'[m].done = done
        /\ \A x \in Milestones : /\ milestone'[x].project = milestone[x].project
                                 /\ milestone'[x].position = milestone[x].position
                                 /\ x # m => milestone'[x] = milestone[x]
    BY <1>1, <1>2 DEF MilestoneRow
  <1>4. /\ \A q : Of(q)' = Of(q)
        /\ m \in Of(p)
    BY <1>p, <1>3 DEF Of
  <1>5. ASSUME NEW q \in Projects \ {p} PROVE Untouched(q)
    BY <1>p, <1>3, <1>4 DEF Of, Untouched
  <1>6. Positions(p)' = Positions(p)
    BY <1>3, <1>4 DEF Positions, Of
  <1>7. Consecutive(p)'
    BY <1>1, <1>4, <1>6 DEF MilestonesInv, Numbered, Consecutive
  <1>8. Unique(Of(p), PositionsNow)'
    <2>1. PositionsNow' = PositionsNow
      BY <1>3 DEF PositionsNow
    <2> QED
      BY <1>1, <1>4, <2>1 DEF MilestonesInv, Numbered, Unique
  <1>9. CASE done
    <2> DEFINE all == \A n \in Of(p) \ {m} : milestone[n].done
    <2>1. Completed(p)' <=> all
      BY <1>3, <1>4, <1>9 DEF Completed, Of
    <2>2. Audit(p, all) /\ all \in BOOLEAN
      BY <1>2, <1>9
    <2>3. Completed(p)' = all
      BY <2>1 DEF Completed
    <2> HIDE DEF all
    <2>4. LastCrossingIsTrue' /\ crossing' \in [Projects -> Crossing]
      BY <1>1, <1>5, <2>2, <2>3, AuditTellsTruth, UntouchedKeeps
    <2> QED
      BY <1>1, <1>3, <1>5, <1>7, <1>8, <2>4, OneProjectKeeps
  <1>10. CASE ~done
    <2>1. Completed(p)' = FALSE
      BY <1>3, <1>4, <1>10 DEF Completed
    <2>2. LastCrossingIsTrue' /\ crossing' \in [Projects -> Crossing]
      BY <1>1, <1>2, <1>5, <1>10, <2>1, AuditTellsTruth, UntouchedKeeps
    <2> QED
      BY <1>1, <1>3, <1>5, <1>7, <1>8, <2>2, OneProjectKeeps
  <1> QED
    BY <1>9, <1>10

LEMMA DeleteMilestoneKeeps ==
    ASSUME MilestonesInv, NEW m \in Milestones, DeleteMilestone(m)
    PROVE  MilestonesInv'
  <1>1. milestone \in [Milestones -> MilestoneRow] /\ milestone[m].project \in Projects
    BY DEF MilestonesInv, MilestonesTypeOK, DeleteMilestone, MilestoneRow
  <1>p. PICK p \in Projects : p = milestone[m].project
    BY <1>1
  <1>n. PICK n \in Nat : n = Cardinality(Of(p))
    BY OfFinite
  <1>k. PICK k \in Nat : k = milestone[m].position
    BY <1>1 DEF MilestoneRow
  <1> DEFINE rest == Of(p) \ {m}
             Moved(x) == IF milestone[x].position > k THEN milestone[x].position - 1
                         ELSE milestone[x].position
             all == rest # {} /\ \A x \in rest : milestone[x].done
  <1>2. /\ m \in Of(p)
        /\ Of(p) \subseteq Milestones
    BY <1>p DEF Of
  <1>3. /\ Positions(p) = 1..n
        /\ \A x, y \in Of(p) : milestone[x].position = milestone[y].position => x = y
    BY <1>n DEF MilestonesInv, Numbered, Consecutive, Unique, PositionsNow, Of
  <1>4. \A x \in Of(p) : milestone[x].position \in 1..n
    BY <1>3 DEF Positions
  <1>5. /\ milestone' = [x \in Milestones |->
                           IF x = m THEN NoMilestone
                           ELSE IF x \in rest
                             THEN [milestone[x] EXCEPT !.position = Compacted(m)[x]]
                           ELSE milestone[x]]
        /\ Audit(p, all)
    BY <1>p DEF DeleteMilestone
  <1>6. \A x \in rest : Compacted(m)[x] = Moved(x) /\ Moved(x) \in Nat
    BY <1>2, <1>4, <1>k DEF Compacted
  <1>7. ASSUME NEW x \in Milestones
        PROVE  /\ milestone'[x] \in MilestoneRow
               /\ x \in rest => /\ milestone'[x].project = p
                                /\ milestone'[x].position = Moved(x)
                                /\ milestone'[x].done = milestone[x].done
               /\ x \notin Of(p) => milestone'[x] = milestone[x]
               /\ x = m => milestone'[x].project = None
    <2>1. CASE x = m
      BY <1>2, <1>5, <2>1 DEF NoMilestone, MilestoneRow
    <2>2. CASE x \in rest
      <3>1. milestone'[x] = [milestone[x] EXCEPT !.position = Moved(x)]
        BY <1>5, <1>6, <2>2
      <3>2. milestone[x].project = p
        BY <2>2 DEF Of
      <3> HIDE DEF Moved
      <3> QED
        BY <1>1, <1>6, <2>2, <3>1, <3>2 DEF MilestoneRow
    <2>3. CASE x # m /\ x \notin rest
      BY <1>1, <1>2, <1>5, <2>3
    <2> QED
      BY <2>1, <2>2, <2>3
  <1>8. milestone' \in [Milestones -> MilestoneRow]
    <2>1. milestone' = [x \in Milestones |-> milestone'[x]]
      BY <1>5
    <2> QED
      BY <1>7, <2>1
  <1>9. Of(p)' = rest
    BY <1>7, MilestonesAssumption DEF Of
  <1>10. ASSUME NEW q \in Projects \ {p} PROVE Untouched(q)
    <2>1. \A x \in Milestones : milestone[x].project = q => milestone'[x] = milestone[x]
      BY <1>7 DEF Of
    <2>2. \A x \in Milestones : milestone'[x].project = q => milestone[x].project = q
      BY <1>7, MilestonesAssumption DEF Of
    <2> QED
      BY <2>1, <2>2 DEF Untouched, Of
  <1>11. LastCrossingIsTrue' /\ crossing' \in [Projects -> Crossing]
    <2>1. Completed(p)' <=> all
      BY <1>2, <1>7, <1>9 DEF Completed
    <2>2. Completed(p)' = all /\ all \in BOOLEAN
      BY <2>1 DEF Completed
    <2>3. Audit(p, all)
      BY <1>5
    <2> HIDE DEF all
    <2> QED
      BY <1>10, <2>2, <2>3, AuditTellsTruth, UntouchedKeeps
  <1>12. k \in 1..n /\ \A x \in rest : milestone[x].position \in 1..n /\ milestone[x].position # k
    BY <1>2, <1>3, <1>4, <1>k
  <1>13. Cardinality(Of(p))' = n - 1
    BY <1>2, <1>9, <1>n, OfFinite, FS_RemoveElement
  <1>14. Consecutive(p)'
    <2>1. Positions(p)' = {Moved(x) : x \in rest}
      BY <1>2, <1>7, <1>9 DEF Positions
    <2>2. \A x \in rest : Moved(x) \in 1..(n - 1)
      BY <1>12
    <2>3. ASSUME NEW j \in 1..(n - 1) PROVE \E x \in rest : Moved(x) = j
      <3>1. CASE j < k
        <4>1. j \in 1..n
          OBVIOUS
        <4>2. PICK x \in Of(p) : milestone[x].position = j
          BY <1>3, <4>1 DEF Positions
        <4>3. x \in rest /\ Moved(x) = j
          BY <1>k, <3>1, <4>2
        <4> QED
          BY <4>3
      <3>2. CASE j >= k
        <4>1. j + 1 \in 1..n
          OBVIOUS
        <4>2. PICK x \in Of(p) : milestone[x].position = j + 1
          BY <1>3, <4>1 DEF Positions
        <4>3. x \in rest /\ Moved(x) = j
          BY <1>k, <3>2, <4>2
        <4> QED
          BY <4>3
      <3> QED
        BY <3>1, <3>2
    <2> HIDE DEF Moved, rest
    <2>4. Positions(p)' = 1..(n - 1)
      BY <2>1, <2>2, <2>3
    <2> QED
      BY <1>13, <2>4 DEF Consecutive
  <1>15. Unique(Of(p), PositionsNow)'
    <2> SUFFICES ASSUME NEW x \in rest, NEW y \in rest,
                        milestone'[x].position = milestone'[y].position
                 PROVE  x = y
      BY <1>2, <1>9 DEF Unique, PositionsNow
    <2>1. Moved(x) = Moved(y)
      BY <1>2, <1>7
    <2>2. milestone[x].position = milestone[y].position
      BY <1>12, <2>1
    <2> QED
      BY <1>3, <2>2
  <1> QED
    BY <1>8, <1>10, <1>11, <1>14, <1>15, OneProjectKeeps

\* The saves of a move go through the free place behind the last milestone, so none of them
\* collides.
LEMMA SavesFit ==
    ASSUME MilestonesInv, NEW m \in Milestones, NEW n \in Milestones,
           milestone[m].project \in Projects, Adjacent(m, n)
    PROVE  /\ \A i \in 1..3 : Unique(Of(milestone[m].project), Saves(m, n, PositionsNow)[i])
           /\ Saves(m, n, PositionsNow)[3] =
                  [PositionsNow EXCEPT ![m] = milestone[n].position, ![n] = milestone[m].position]
           /\ m # n
  <1>1. milestone \in [Milestones -> MilestoneRow]
    BY DEF MilestonesInv, MilestonesTypeOK
  <1>p. PICK p \in Projects : p = milestone[m].project
    OBVIOUS
  <1>k. PICK k \in Nat : k = Cardinality(Of(p))
    BY OfFinite
  <1> DEFINE old == PositionsNow
             one == [old EXCEPT ![m] = k + 1]
             two == [one EXCEPT ![n] = old[m]]
             three == [two EXCEPT ![m] = old[n]]
  <1>2. Saves(m, n, PositionsNow) = <<one, two, three>>
    BY <1>p, <1>k DEF Saves
  <1>3. old \in [Milestones -> Nat] /\ \A x \in Milestones : old[x] = milestone[x].position
    BY <1>1 DEF PositionsNow, MilestoneRow
  <1>4. m # n
    BY <1>1 DEF Adjacent, MilestoneRow
  <1>5. \A x \in Of(p) : x \in Milestones /\ old[x] \in 1..k
    BY <1>3, <1>k DEF MilestonesInv, Numbered, Consecutive, Positions, Of
  <1>6. Unique(Of(p), old) /\ m \in Of(p) /\ n \in Of(p)
    BY <1>p DEF MilestonesInv, Numbered, Adjacent, Of
  <1> HIDE DEF old
  <1>7. Unique(Of(p), one)
    BY <1>3, <1>5, <1>6 DEF Unique
  <1>8. Unique(Of(p), two)
    BY <1>3, <1>4, <1>5, <1>6 DEF Unique
  <1>9. Unique(Of(p), three)
    BY <1>3, <1>4, <1>5, <1>6 DEF Unique
  <1>10. three = [old EXCEPT ![m] = milestone[n].position, ![n] = milestone[m].position]
    BY <1>3, <1>4
  <1> HIDE DEF one, two, three
  <1>11. \A i \in 1..3 : Unique(Of(p), <<one, two, three>>[i])
    BY <1>7, <1>8, <1>9
  <1> QED
    BY <1>2, <1>4, <1>10, <1>11, <1>p DEF old

LEMMA MoveMilestoneKeeps ==
    ASSUME MilestonesInv, NEW m \in Milestones, NEW n \in Milestones, MoveMilestone(m, n)
    PROVE  MilestonesInv'
  <1>1. milestone \in [Milestones -> MilestoneRow] /\ milestone[m].project \in Projects
        /\ Adjacent(m, n)
    BY DEF MilestonesInv, MilestonesTypeOK, MoveMilestone, Movable, MilestoneRow
  <1>p. PICK p \in Projects : p = milestone[m].project
    BY <1>1
  <1>k. PICK k \in Nat : k = Cardinality(Of(p))
    BY OfFinite
  <1> DEFINE new == [PositionsNow EXCEPT ![m] = milestone[n].position,
                                         ![n] = milestone[m].position]
  <1>2. /\ milestone' = [x \in Milestones |-> [milestone[x] EXCEPT !.position = new[x]]]
        /\ m # n /\ UNCHANGED crossing
    <2>1. Saves(m, n, PositionsNow)[3] = new /\ m # n
      BY <1>1, SavesFit
    <2> QED
      BY <2>1 DEF MoveMilestone
  <1>3. /\ new \in [Milestones -> Nat]
        /\ new[m] = milestone[n].position /\ new[n] = milestone[m].position
        /\ \A x \in Milestones \ {m, n} : new[x] = milestone[x].position
    BY <1>1, <1>2 DEF PositionsNow, MilestoneRow
  <1> HIDE DEF new
  <1>4. /\ milestone' \in [Milestones -> MilestoneRow]
        /\ \A x \in Milestones : /\ milestone'[x].project = milestone[x].project
                                 /\ milestone'[x].done = milestone[x].done
                                 /\ milestone'[x].position = new[x]
    BY <1>1, <1>2, <1>3 DEF MilestoneRow
  <1>5. \A q : Of(q)' = Of(q)
    BY <1>4 DEF Of
  <1>6. m \in Of(p) /\ n \in Of(p) /\ Of(p) \subseteq Milestones
    BY <1>1, <1>p DEF Of, Adjacent
  <1>7. ASSUME NEW q \in Projects \ {p} PROVE Untouched(q)
    <2>1. ASSUME NEW x \in Of(q) PROVE milestone'[x] = milestone[x]
      <3>1. x \in Milestones \ {m, n} /\ milestone[x] \in MilestoneRow
        BY <1>1, <1>6, <1>p DEF Of
      <3>2. milestone'[x] = [milestone[x] EXCEPT !.position = milestone[x].position]
        BY <1>2, <1>3, <3>1
      <3> QED
        BY <3>1, <3>2 DEF MilestoneRow
    <2> QED
      BY <1>5, <2>1 DEF Untouched
  <1>8. /\ Positions(p) = 1..k
        /\ \A x, y \in Of(p) : milestone[x].position = milestone[y].position => x = y
    BY <1>k DEF MilestonesInv, Numbered, Consecutive, Unique, PositionsNow, Of
  <1>9. Positions(p)' = Positions(p)
    <2>1. Positions(p)' = {new[x] : x \in Of(p)}
      BY <1>4, <1>5, <1>6 DEF Positions
    <2>2. {new[x] : x \in Of(p)} = {milestone[x].position : x \in Of(p)}
      BY <1>2, <1>3, <1>6
    <2> QED
      BY <2>1, <2>2 DEF Positions
  <1>10. Consecutive(p)'
    BY <1>5, <1>8, <1>9, <1>k DEF Consecutive
  <1>11. Unique(Of(p), PositionsNow)'
    <2> SUFFICES ASSUME NEW x \in Of(p), NEW y \in Of(p), new[x] = new[y] PROVE x = y
      BY <1>4, <1>5, <1>6 DEF Unique, PositionsNow
    <2> QED
      BY <1>2, <1>3, <1>6, <1>8
  <1>12. \A q \in Projects : Completed(q)' <=> Completed(q)
    BY <1>4, <1>5 DEF Completed, Of
  <1>13. LastCrossingIsTrue' /\ crossing' \in [Projects -> Crossing]
    BY <1>2, <1>12 DEF MilestonesInv, MilestonesTypeOK, LastCrossingIsTrue
  <1> QED
    BY <1>4, <1>7, <1>10, <1>11, <1>13, OneProjectKeeps

LEMMA MilestonesStep ==
    ASSUME MilestonesInv, MilestoneStep \/ UNCHANGED milestoneVars
    PROVE  MilestonesInv'
  <1>1. CASE MilestoneStep
    BY <1>1, CreateMilestoneKeeps, FlagKeeps, DeleteMilestoneKeeps, MoveMilestoneKeeps
       DEF MilestoneStep
  <1>2. CASE UNCHANGED milestoneVars
    <2> USE <1>2 DEF milestoneVars
    <2>1. MilestonesTypeOK'
      BY DEF MilestonesInv, MilestonesTypeOK
    <2>2. LastCrossingIsTrue'
      BY DEF MilestonesInv, LastCrossingIsTrue, Completed, Of
    <2>3. Numbered'
      BY DEF MilestonesInv, Numbered, Consecutive, Positions, Unique, PositionsNow, Of
    <2> QED BY <2>1, <2>2, <2>3 DEF MilestonesInv
  <1> QED
    BY <1>1, <1>2

LEMMA AlwaysNumbered == WorkSpec => []MilestonesInv
  <1>1. MilestonesInv /\ [WorkNext]_allVars => MilestonesInv'
    BY MilestonesStep DEF WorkNext, MilestoneWork, allVars
  <1>2. WorkInit => MilestonesInv
    BY MilestonesInvInit DEF WorkInit
  <1> QED
    BY <1>1, <1>2, PTL DEF WorkSpec

\* The audit log never claims or denies 100 % wrongly, for any number of projects and
\* milestones (_audit_project_milestone_completion_crossing).
THEOREM CrossingsAreTrue == WorkSpec => []LastCrossingIsTrue
  <1>1. MilestonesInv => LastCrossingIsTrue
    BY DEF MilestonesInv
  <1> QED
    BY <1>1, AlwaysNumbered, PTL

\* Positions stay 1..N and every move of a milestone finds its places free, whatever was
\* created, moved and deleted (_ensure_consecutive_milestone_positions, _move_project_milestone).
THEOREM MovesAlwaysFit == WorkSpec => []MilestonesStayMovable
  <1>1. MilestonesInv => MilestonesStayMovable
    <2> SUFFICES ASSUME MilestonesInv PROVE MilestonesStayMovable
      OBVIOUS
    <2>1. ASSUME NEW m \in Milestones, NEW n \in Milestones, milestone[m].project # None,
                 Open(milestone[m].project), Adjacent(m, n)
          PROVE  Movable(m, n)
      <3>1. milestone[m].project \in Projects
        BY <2>1 DEF MilestonesInv, MilestonesTypeOK, MilestoneRow
      <3>2. Consecutive(milestone[m].project)
        BY <3>1 DEF MilestonesInv, Numbered
      <3> QED
        BY <2>1, <3>1, <3>2, SavesFit DEF Movable
    <2> QED
      BY <2>1 DEF MilestonesStayMovable, MilestonesInv, Numbered
  <1> QED
    BY <1>1, AlwaysNumbered, PTL

-------------------------------------------------------------------------------
(* Advances: what holds between the steps of the requests.                 *)

Creating == {"register", "update", "upload"}
OnFiles  == {"delete_file", "set_public", "delete_advance"}
OnItself == {"register", "update", "set_public", "delete_advance"}
OnResponse == {"upload", "delete_file", "edit_remediation", "resolve", "submit"}

\* The rows a call of a request names: those to be created are not there yet, the
\* others never leave.
RightCall(c) ==
    /\ c.name # "finish_project" => c.u \in Advances
    /\ c.name \in {"register", "update", "finish_project"} => c.p \in Projects
    /\ c.name \in OnItself => c.of = "advance"
    /\ c.name = "register" => advance[c.u].status = "absent"
    /\ c.name \notin {"register", "finish_project"} => advance[c.u].status # "absent"
    /\ c.name \in Creating => \A k \in c.files : file[k].status = "absent"
    /\ c.name \in OnFiles => \A k \in c.files :
           file[k].status # "absent" /\ file[k].on = c.u /\ file[k].of = c.of
    /\ c.name \in {"delete_file", "set_public"} => \E k \in Files : c.files = {k}

\* What the invariant says of the call of a request.
RightNow(w) ==
    /\ tx[w].phase # "idle" => RightCall(tx[w].call)
    /\ tx[w].phase = "confirming" => tx[w].call.name = "delete_advance"

RightCalls == \A w \in Workers : RightNow(w)

\* Two requests never create the same row.
Apart(c, d) ==
    /\ c.name = "register" /\ d.name = "register" => c.u # d.u
    /\ c.name \in Creating /\ d.name \in Creating => c.files \cap d.files = {}

NothingTwice ==
    \A v, w \in Workers : v # w /\ tx[v].phase # "idle" /\ tx[w].phase # "idle" =>
        Apart(tx[v].call, tx[w].call)

\* A row is locked by one transaction, and only while it runs.
OneHolder ==
    /\ \A v, w \in Workers : v # w => tx[v].held \cap tx[w].held = {}
    /\ \A w \in Workers : tx[w].phase \in {"idle", "confirming", "storing"} => tx[w].held = {}

\* Rows that were created keep what they belong to.
Belongings ==
    /\ \A u \in Advances : advance[u].status # "absent" => advance[u].project \in Projects
    /\ \A k \in Files : file[k].status # "absent" => file[k].on \in Advances

\* What the check of a call found and its locks keep true until the commit.
Promise(t) ==
    LET c == t.call
        u == c.u
    IN
    CASE c.name = "register" -> Open(c.p)
      [] c.name = "update"   -> Editable(u) /\ Open(c.p)
      [] c.name \in {"upload", "delete_file"} ->
             IF c.of = "advance" THEN Editable(u)
             ELSE OpenFor(u) /\ remediation[u].status = "draft"
      [] OTHER -> Allowed(t)

PromisesKept ==
    \A w \in Workers : tx[w].phase = "checked" => Missing(tx[w]) = {} /\ Promise(tx[w])

\* Locks are taken in the order of their tables.
InOrder(t) ==
    \A h \in t.held : \A m \in Missing(t) :
        \/ Rank(t.call.name, h[1]) < Rank(t.call.name, m[1])
        \/ t.call.name = "delete_advance" /\ h[1] = "file" /\ m[1] = "file"

\* Only some services take rows of these tables.
OwnTables(t) ==
    \A h \in t.held :
        /\ h[1] \in Table
        /\ h[1] = "file" => t.call.name \in OnFiles
        /\ h[1] = "remediation" => t.call.name \in OnResponse

LocksInOrder == \A w \in Workers : OwnTables(tx[w]) /\ (tx[w].phase = "locking" => InOrder(tx[w]))

AdvancesInv ==
    /\ TypeOK
    /\ RightCalls
    /\ NothingTwice
    /\ OneHolder
    /\ Belongings
    /\ PromisesKept
    /\ LocksInOrder
    /\ DocumentsStandOnEachOther

\* The project a service locks, if any.
ProjectOf(t) ==
    IF t.call.name \in {"register", "update", "finish_project"} THEN t.call.p
                                                                 ELSE advance[t.call.u].project

-------------------------------------------------------------------------------
(* The plans of the locks.                                                 *)

LEMMA PlanShape ==
    ASSUME NEW t \in TxRow, NEW l \in LockPlan(t)
    PROVE  \/ /\ l[1] \in {"advance", "review", "decision", "remediation"}
              /\ l = Lock(l[1], t.call.u)
              /\ l[1] = "remediation" => t.call.name \in OnResponse
           \/ l = Lock("project", ProjectOf(t))
           \/ t.call.name \in OnFiles /\ \E k \in t.call.files : l = Lock("file", k)
  <1> DEFINE c == t.call
  <1>1. c.name \in Service
    BY DEF TxRow, Call
  <1>2. ASSUME NEW table \in {"advance", "review", "decision", "remediation"},
               c.name \notin {"register", "update", "finish_project"},
               table = "remediation" => c.name \in OnResponse, l \in From(table, c.u)
        PROVE  \/ /\ l[1] \in {"advance", "review", "decision", "remediation"}
                  /\ l = Lock(l[1], c.u)
                  /\ l[1] = "remediation" => c.name \in OnResponse
               \/ l = Lock("project", ProjectOf(t))
    BY <1>2 DEF From, Joined, Lock, ProjectOf
  <1>3. CASE c.name \in {"register", "update", "finish_project"}
    BY <1>3 DEF LockPlan, Alone, Lock, ProjectOf
  <1>4. CASE c.name = "upload"
    BY <1>2, <1>4 DEF LockPlan, Alone, Lock, OnResponse
  <1>5. CASE c.name = "delete_file"
    BY <1>2, <1>5 DEF LockPlan, Alone, Lock, OnResponse, OnFiles, FileLocks
  <1>6. CASE c.name = "set_public"
    BY <1>2, <1>6 DEF LockPlan, OnFiles, FileLocks
  <1>7. CASE c.name = "delete_advance"
    BY <1>7 DEF LockPlan, OnFiles, FileLocks, Alone, Lock
  <1>8. CASE c.name \in {"publish", "review"}
    BY <1>2, <1>8 DEF LockPlan, ReviewLocks
  <1>9. CASE c.name = "decide"
    BY <1>2, <1>9 DEF LockPlan
  <1>10. CASE c.name = "remediate"
    BY <1>2, <1>10 DEF LockPlan
  <1>11. CASE c.name \in {"edit_remediation", "resolve", "submit"}
    BY <1>2, <1>11 DEF LockPlan, OnResponse
  <1> QED
    BY <1>1, <1>3, <1>4, <1>5, <1>6, <1>7, <1>8, <1>9, <1>10, <1>11 DEF Service

LEMMA PlanHasAdvance ==
    ASSUME NEW t \in TxRow, t.call.name \notin {"register", "finish_project"}
    PROVE  Lock("advance", t.call.u) \in LockPlan(t)
  <1>1. t.call.name \in Service
    BY DEF TxRow, Call
  <1>2. \A table \in {"advance", "review", "decision", "remediation"} :
            Lock("advance", t.call.u) \in From(table, t.call.u)
    BY DEF From, Joined, Lock
  <1> QED
    BY <1>1, <1>2 DEF LockPlan, Service, Alone, ReviewLocks

\* The services that hold the project of their advance while they change it.
WithProject(t) ==
    \/ t.call.name \in {"set_public", "publish", "review", "decide", "remediate",
                        "edit_remediation", "resolve", "submit"}
    \/ t.call.name \in {"upload", "delete_file"} /\ t.call.of = "remediation"

LEMMA PlanHasProject ==
    ASSUME NEW t \in TxRow,
           t.call.name \in {"register", "update", "finish_project"} \/ WithProject(t)
    PROVE  Lock("project", ProjectOf(t)) \in LockPlan(t)
  <1>1. t.call.name \in Service
    BY DEF TxRow, Call
  <1>2. \A table \in {"advance", "review", "decision", "remediation"} :
            Lock("project", advance[t.call.u].project) \in From(table, t.call.u)
    BY DEF From
  <1>3. CASE t.call.name \in {"register", "update", "finish_project"}
    BY <1>3 DEF LockPlan, ProjectOf
  <1>4. CASE WithProject(t)
    BY <1>2, <1>4 DEF LockPlan, ProjectOf, WithProject, ReviewLocks
  <1> QED
    BY <1>3, <1>4

LEMMA PlanHasFiles ==
    ASSUME NEW t \in TxRow, t.call.name \in OnFiles, NEW k \in t.call.files
    PROVE  Lock("file", k) \in LockPlan(t)
  BY DEF LockPlan, OnFiles, FileLocks


-------------------------------------------------------------------------------
(* The steps of one request, for the others.                               *)

\* A step of v leaves the other requests as they are, takes no lock of theirs and
\* names nothing they are about to create.
Moves(v) ==
    /\ tx' \in [Workers -> TxRow]
    /\ \A w \in Workers \ {v} : tx'[w] = tx[w]
    /\ \A l \in tx'[v].held : l \in tx[v].held \/ \A w \in Workers \ {v} : l \notin tx[w].held
    /\ tx'[v].phase \in {"idle", "confirming", "storing"} => tx'[v].held = {}
    /\ \A w \in Workers \ {v} : tx'[v].phase # "idle" /\ tx[w].phase # "idle" =>
           Apart(tx'[v].call, tx[w].call) /\ Apart(tx[w].call, tx'[v].call)

\* d is what is left of c.
LeftOf(c, d) ==
    /\ d.u = c.u /\ d.p = c.p /\ d.of = c.of
    /\ d.files \subseteq c.files
    /\ d.name = c.name \/ (c.name \in {"register", "update"} /\ d.name = "upload")

LEMMA IdleType == Idle \in TxRow /\ Idle.phase = "idle" /\ Idle.held = {}
  BY DEF Idle, TxRow, Phase, Call, Service, Owner, Outcome

LEMMA OnlyType ==
    ASSUME NEW c \in Call, NEW phase \in Phase
    PROVE  /\ Only(phase, c) \in TxRow
           /\ Only(phase, c).phase = phase /\ Only(phase, c).call = c /\ Only(phase, c).held = {}
  BY DEF Idle, Only, TxRow

LEMMA ContinueType ==
    ASSUME NEW c \in Call
    PROVE  /\ Continue(c) \in TxRow
           /\ Continue(c).held = {}
           /\ Continue(c).phase \in {"idle", "locking"}
           /\ Continue(c).phase = "locking" =>
                  /\ Continue(c).call = [c EXCEPT !.name = "upload"]
                  /\ Continue(c).call \in Call
                  /\ Continue(c).call.name = "upload"
                  /\ Continue(c).call.u = c.u
                  /\ Continue(c).call.p = c.p
                  /\ Continue(c).call.of = c.of
                  /\ Continue(c).call.files = c.files
  <1> DEFINE d == [c EXCEPT !.name = "upload"]
  <1>1. /\ d \in Call /\ d.name = "upload" /\ d.u = c.u /\ d.p = c.p /\ d.of = c.of
        /\ d.files = c.files
    BY DEF Call, Service
  <1>2. CASE c.files = {}
    BY <1>2, IdleType DEF Continue
  <1>3. CASE c.files # {}
    <2>1. Continue(c) = [Only("locking", d) EXCEPT !.gate = TRUE]
      BY <1>3 DEF Continue
    <2> HIDE DEF d
    <2>2. /\ Continue(c) \in TxRow /\ Continue(c).held = {} /\ Continue(c).phase = "locking"
          /\ Continue(c).call = d
      BY <1>1, <2>1 DEF Only, Idle, TxRow, Phase
    <2> QED
      BY <1>1, <2>2 DEF d
  <1> QED
    BY <1>2, <1>3

LEMMA ApartLeft ==
    ASSUME NEW b \in Call, NEW c \in Call, NEW d \in Call, LeftOf(c, d)
    PROVE  (Apart(b, c) => Apart(b, d)) /\ (Apart(c, b) => Apart(d, b))
  BY DEF Apart, LeftOf, Creating

\* A step that ends the request or leaves a part of it, and releases or keeps its locks.
LEMMA LeftMoves ==
    ASSUME AdvancesInv, NEW v \in Workers, NEW r \in TxRow, tx' = [tx EXCEPT ![v] = r],
           tx[v].phase # "idle",
           r.phase # "idle" => LeftOf(tx[v].call, r.call),
           r.held = {} \/ (r.held = tx[v].held /\ r.phase \in {"locking", "checked"})
    PROVE  Moves(v)
  <1>1. tx \in [Workers -> TxRow]
    BY DEF AdvancesInv, TypeOK
  <1>2. tx' \in [Workers -> TxRow] /\ tx'[v] = r /\ \A w \in Workers \ {v} : tx'[w] = tx[w]
    BY <1>1
  <1>3. ASSUME NEW w \in Workers \ {v}, r.phase # "idle", tx[w].phase # "idle"
        PROVE  Apart(r.call, tx[w].call) /\ Apart(tx[w].call, r.call)
    <2>1. Apart(tx[v].call, tx[w].call) /\ Apart(tx[w].call, tx[v].call)
      BY <1>3 DEF AdvancesInv, NothingTwice
    <2>2. tx[v].call \in Call /\ tx[w].call \in Call /\ r.call \in Call
      BY <1>1 DEF TxRow
    <2> QED
      BY <1>3, <2>1, <2>2, ApartLeft
  <1> QED
    BY <1>2, <1>3 DEF Moves

LEMMA MovesKeep ==
    ASSUME AdvancesInv, NEW v \in Workers, Moves(v)
    PROVE  OneHolder' /\ NothingTwice'
  <1>1. OneHolder'
    <2>1. ASSUME NEW x \in Workers, NEW w \in Workers, x # w
          PROVE  tx'[x].held \cap tx'[w].held = {}
      BY <2>1 DEF Moves, AdvancesInv, OneHolder
    <2>2. ASSUME NEW w \in Workers, tx'[w].phase \in {"idle", "confirming", "storing"}
          PROVE  tx'[w].held = {}
      BY <2>2 DEF Moves, AdvancesInv, OneHolder
    <2> QED
      BY <2>1, <2>2 DEF OneHolder
  <1>2. NothingTwice'
    <2> SUFFICES ASSUME NEW x \in Workers, NEW w \in Workers, x # w,
                        tx'[x].phase # "idle", tx'[w].phase # "idle"
                 PROVE  Apart(tx'[x].call, tx'[w].call)
      BY DEF NothingTwice, Apart
    <2> QED
      BY DEF Moves, AdvancesInv, NothingTwice
  <1> QED
    BY <1>1, <1>2


-------------------------------------------------------------------------------
(* The steps that change no row.                                           *)

\* What the invariant says of one request.
PromiseNow(v) == tx[v].phase = "checked" => Missing(tx[v]) = {} /\ Promise(tx[v])
OrderNow(v) == OwnTables(tx[v]) /\ (tx[v].phase = "locking" => InOrder(tx[v]))

SoundNow(v) == RightNow(v) /\ PromiseNow(v) /\ OrderNow(v)

LEMMA InvSound == ASSUME AdvancesInv, NEW v \in Workers PROVE SoundNow(v)
  BY DEF AdvancesInv, SoundNow, RightNow, PromiseNow, OrderNow, RightCalls, PromisesKept,
     LocksInOrder

LEMMA NoLocks == ASSUME NEW t, t.held = {} PROVE OwnTables(t) /\ InOrder(t)
  BY DEF OwnTables, InOrder

LEMMA TxTypes ==
    ASSUME AdvancesInv, NEW v \in Workers
    PROVE  tx \in [Workers -> TxRow] /\ tx[v] \in TxRow /\ tx[v].call \in Call
  BY DEF AdvancesInv, TypeOK, TxRow

\* A row of the invariant does not depend on more than tx and the rows.
LEMMA SameRows ==
    ASSUME NEW v \in Workers, SoundNow(v), tx'[v] = tx[v], UNCHANGED rows
    PROVE  SoundNow(v)'
  <1>1. /\ project' = project /\ advance' = advance /\ review' = review /\ decision' = decision
        /\ remediation' = remediation /\ file' = file
    BY DEF rows
  <1>2. LockPlan(tx[v])' = LockPlan(tx[v])
    BY <1>1 DEF LockPlan, From, Joined, Alone, ReviewLocks, FileLocks, Lock
  <1>3. Missing(tx[v])' = Missing(tx[v])
    BY <1>2 DEF Missing
  <1>4. RightNow(v)'
    BY <1>1 DEF SoundNow, RightNow, RightCall
  <1>5. Allowed(tx[v])' = Allowed(tx[v])
    BY <1>1 DEF Allowed, Editable, Exists, Open, OpenFor, UploadAllowed, Deletable, FilesOf,
       ReviewAllowed, EditAllowed
  <1>6. Promise(tx[v])' = Promise(tx[v])
    BY <1>1, <1>5 DEF Promise, Editable, Exists, Open, OpenFor
  <1>7. PromiseNow(v)'
    BY <1>3, <1>6 DEF SoundNow, PromiseNow
  <1>8. OrderNow(v)'
    BY <1>3 DEF SoundNow, OrderNow, OwnTables, InOrder
  <1> QED
    BY <1>4, <1>7, <1>8 DEF SoundNow

LEMMA CallsTyped == ASSUME NEW c \in Calls PROVE c \in Call
  BY DEF Calls, Call, Service, Owner, Outcome

\* A request that names rows the database shows it names the right ones.
LEMMA FoundIsRight ==
    ASSUME AdvancesInv, NEW c \in Calls, Found(c)
    PROVE  RightCall(c)
  <1>0. c \in Call /\ c.name \in Service
    BY CallsTyped DEF Call
  <1>1. c.name # "finish_project" => c.u \in Advances
    BY DEF Calls
  <1>2. c.name \in {"register", "update", "finish_project"} => c.p \in Projects
    BY DEF Calls
  <1>3. c.name \in OnItself => c.of = "advance"
    BY DEF Calls, OnItself, Found
  <1>4. c.name = "register" => advance[c.u].status = "absent"
    BY DEF Found
  <1>5. ASSUME c.name \notin {"register", "finish_project"} PROVE advance[c.u].status # "absent"
    <2>1. c.u \in Advances
      BY <1>1, <1>5
    <2>2. /\ review[c.u] => advance[c.u].status = "published"
          /\ decision[c.u] # None => review[c.u]
          /\ remediation[c.u].status # "none" => decision[c.u] = "observed"
      BY <2>1 DEF AdvancesInv, DocumentsStandOnEachOther
    <2>3. "observed" # None
      BY AdvancesAssumption DEF Outcome
    <2>4. CASE c.name \in {"update", "publish", "delete_advance", "review"}
      BY <2>4 DEF Found, Exists
    <2>5. CASE c.name = "upload"
      BY <2>2, <2>3, <2>5 DEF Found, Exists
    <2>6. CASE c.name \in {"delete_file", "set_public"}
      <3>1. PICK k \in FilesOf(c.u, c.of) : c.files = {k}
        BY <2>6 DEF Found
      <3>2. k \in Files /\ file[k].status = "kept" /\ file[k].on = c.u /\ file[k].of = c.of
        BY <3>1 DEF FilesOf
      <3>3. IF c.of = "advance" THEN Exists(c.u) ELSE remediation[c.u].status # "none"
        BY <3>2 DEF AdvancesInv, DocumentsStandOnEachOther
      <3> QED
        BY <2>2, <2>3, <3>3 DEF Exists
    <2>7. CASE c.name \in {"decide", "remediate"}
      BY <2>2, <2>7 DEF Found
    <2>8. CASE c.name \in {"edit_remediation", "submit", "resolve"}
      BY <2>2, <2>3, <2>8 DEF Found
    <2> QED
      BY <1>0, <1>5, <2>4, <2>5, <2>6, <2>7, <2>8 DEF Service
  <1>6. c.name \in Creating => \A k \in c.files : file[k].status = "absent"
    BY DEF Found, Creating
  <1>7. ASSUME c.name \in {"delete_file", "set_public"}
        PROVE  \E k \in Files : /\ c.files = {k}
                                /\ file[k].status = "kept" /\ file[k].on = c.u /\ file[k].of = c.of
    BY <1>7 DEF Found, FilesOf
  <1>8. c.name = "delete_advance" => c.files = {}
    BY DEF Calls
  <1>9. c.name \in OnFiles => \A k \in c.files :
            file[k].status # "absent" /\ file[k].on = c.u /\ file[k].of = c.of
    BY <1>7, <1>8 DEF OnFiles
  <1> QED
    BY <1>1, <1>2, <1>3, <1>4, <1>5, <1>6, <1>7, <1>9 DEF RightCall


\* A request that names the same rows is as right as before.
LEMMA SameCall ==
    ASSUME AdvancesInv, NEW v \in Workers, UNCHANGED rows, tx[v].phase # "idle",
           tx'[v].call = tx[v].call, tx'[v].phase # "confirming"
    PROVE  RightNow(v)'
  <1>1. RightCall(tx[v].call)
    BY DEF AdvancesInv, RightCalls, RightNow
  <1> QED
    BY <1>1 DEF RightNow, RightCall, rows

LEMMA BeginStep ==
    ASSUME AdvancesInv, NEW v \in Workers, NEW c \in Calls, Begin(v, c)
    PROVE  UNCHANGED rows /\ Moves(v) /\ SoundNow(v)'
  <1> DEFINE r == CASE c.name = "delete_advance" -> Only("confirming", c)
                    [] c.name = "upload"         -> Continue(c)
                    [] OTHER                     -> Only("locking", c)
  <1>1. /\ c \in Call
        /\ Found(c)
        /\ Fresh(c)
        /\ tx[v].phase = "idle"
        /\ tx' = [tx EXCEPT ![v] = r]
        /\ UNCHANGED rows
    BY CallsTyped DEF Begin
  <1>2. Only("confirming", c) \in TxRow /\ Only("locking", c) \in TxRow
    BY <1>1, OnlyType DEF Phase
  <1>3. ASSUME c.name = "upload" PROVE Continue(c).call = c
    <2>1. c.files # {}
      BY <1>1, <1>3 DEF Found
    <2>2. [c EXCEPT !.name = "upload"] = c
      BY <1>1, <1>3 DEF Call
    <2> QED
      BY <2>1, <2>2, <1>1, OnlyType DEF Continue, Only, Idle
  <1>4. /\ r \in TxRow /\ r.held = {} /\ r.phase \in {"idle", "confirming", "locking"}
        /\ r.call = c /\ (r.phase = "confirming" => c.name = "delete_advance")
    <2>1. CASE c.name = "delete_advance"
      BY <1>1, <2>1, OnlyType DEF Phase
    <2>2. CASE c.name = "upload"
      BY <1>1, <1>3, <2>2, ContinueType
    <2>3. CASE c.name \notin {"upload", "delete_advance"}
      BY <1>1, <2>3, OnlyType DEF Phase
    <2> QED
      BY <2>1, <2>2, <2>3
  <1> HIDE DEF r
  <1>5. tx' \in [Workers -> TxRow] /\ tx'[v] = r /\ \A w \in Workers \ {v} : tx'[w] = tx[w]
    BY <1>1, <1>4, TxTypes
  <1>6. ASSUME NEW w \in Workers \ {v}, tx[w].phase # "idle"
        PROVE  Apart(c, tx[w].call) /\ Apart(tx[w].call, c)
    BY <1>1, <1>6 DEF Fresh, Apart, Creating
  <1>7. Moves(v)
    BY <1>4, <1>5, <1>6 DEF Moves
  <1>8. RightCall(c)
    BY <1>1, FoundIsRight
  <1>9. RightNow(v)'
    BY <1>1, <1>4, <1>5, <1>8 DEF RightNow, RightCall, rows
  <1>10. PromiseNow(v)'
    BY <1>4, <1>5 DEF PromiseNow
  <1>11. OrderNow(v)'
    BY <1>4, <1>5 DEF OrderNow, OwnTables, InOrder
  <1> QED
    BY <1>1, <1>7, <1>9, <1>10, <1>11 DEF SoundNow

LEMMA ConfirmStep ==
    ASSUME AdvancesInv, NEW v \in Workers, Confirm(v)
    PROVE  UNCHANGED rows /\ Moves(v) /\ SoundNow(v)'
  <1> DEFINE c == tx[v].call
             d == [c EXCEPT !.files = FilesOf(c.u, "advance")]
             r == [tx[v] EXCEPT !.phase = "locking", !.call = d]
  <1>1. /\ tx[v].phase = "confirming"
        /\ UNCHANGED rows
        /\ tx[v] \in TxRow /\ c \in Call /\ tx \in [Workers -> TxRow]
    BY TxTypes DEF Confirm
  <1>2. /\ d \in Call /\ d.name = c.name /\ d.u = c.u /\ d.p = c.p /\ d.of = c.of
        /\ d.files = FilesOf(c.u, "advance")
    BY <1>1 DEF Call, FilesOf
  <1>3. c.name = "delete_advance" /\ tx[v].held = {}
    BY <1>1 DEF AdvancesInv, OneHolder, RightCalls, RightNow
  <1>4. tx' = [tx EXCEPT ![v] = r]
    BY <1>1 DEF Confirm, TxRow, Call
  <1> HIDE DEF d
  <1>5. r \in TxRow /\ r.phase = "locking" /\ r.call = d /\ r.held = {}
    BY <1>1, <1>2, <1>3 DEF TxRow, Phase
  <1> HIDE DEF r
  <1>6. tx' \in [Workers -> TxRow] /\ tx'[v] = r /\ \A w \in Workers \ {v} : tx'[w] = tx[w]
    BY <1>1, <1>4, <1>5
  <1>7. ASSUME NEW w \in Workers \ {v}, tx[w].phase # "idle"
        PROVE  Apart(d, tx[w].call) /\ Apart(tx[w].call, d)
    BY <1>2, <1>3 DEF Apart, Creating
  <1>8. Moves(v)
    BY <1>5, <1>6, <1>7 DEF Moves
  <1>9. RightCall(c)
    BY <1>1 DEF AdvancesInv, RightCalls, RightNow
  <1>10. RightCall(d)
    BY <1>2, <1>3, <1>9 DEF RightCall, OnItself, Creating, OnFiles, FilesOf
  <1>11. RightNow(v)'
    BY <1>1, <1>5, <1>6, <1>10 DEF RightNow, RightCall, rows
  <1>12. PromiseNow(v)'
    BY <1>5, <1>6 DEF PromiseNow
  <1>13. OrderNow(v)'
    BY <1>5, <1>6 DEF OrderNow, OwnTables, InOrder
  <1> QED
    BY <1>1, <1>8, <1>11, <1>12, <1>13 DEF SoundNow


\* The tables of a plan have different ranks, the files of a deletion excepted.
LEMMA RanksDiffer ==
    ASSUME NEW w \in Workers, AdvancesInv, tx[w].phase # "idle",
           NEW l \in LockPlan(tx[w]), NEW m \in LockPlan(tx[w]), l # m
    PROVE  \/ /\ Rank(tx[w].call.name, l[1]) \in Nat /\ Rank(tx[w].call.name, m[1]) \in Nat
              /\ Rank(tx[w].call.name, l[1]) # Rank(tx[w].call.name, m[1])
           \/ tx[w].call.name = "delete_advance" /\ l[1] = "file" /\ m[1] = "file"
  <1>1. PICK t \in TxRow : t = tx[w]
    BY TxTypes
  <1>2. RightCall(t.call)
    BY <1>1 DEF AdvancesInv, RightCalls, RightNow
  <1>3. /\ \/ l[1] \in {"advance", "review", "decision", "remediation"} /\ l = Lock(l[1], t.call.u)
           \/ l = Lock("project", ProjectOf(t))
           \/ t.call.name \in OnFiles /\ \E k \in t.call.files : l = Lock("file", k)
        /\ \/ m[1] \in {"advance", "review", "decision", "remediation"} /\ m = Lock(m[1], t.call.u)
           \/ m = Lock("project", ProjectOf(t))
           \/ t.call.name \in OnFiles /\ \E k \in t.call.files : m = Lock("file", k)
    BY <1>1, PlanShape
  <1>4. CASE l[1] = m[1]
    <2>1. l[1] = "file" /\ t.call.name \in OnFiles /\ \E k, n \in t.call.files : 
              l = Lock("file", k) /\ m = Lock("file", n)
      BY <1>3, <1>4 DEF Lock
    <2>2. t.call.name \notin {"delete_file", "set_public"}
      BY <1>2, <2>1 DEF RightCall
    <2> QED
      BY <1>1, <1>4, <2>1, <2>2 DEF OnFiles
  <1>5. CASE l[1] # m[1]
    <2>1. l[1] \in Table /\ m[1] \in Table
      BY <1>3 DEF Lock, Table
    <2> QED
      BY <1>5, <2>1 DEF Rank, Table
  <1> QED
    BY <1>4, <1>5

LEMMA LockTyped ==
    ASSUME AdvancesInv, NEW w \in Workers, tx[w].phase # "idle", NEW l \in LockPlan(tx[w])
    PROVE  l \in Table \X (Projects \cup Advances \cup Files \cup {None})
  <1>1. PICK t \in TxRow : t = tx[w]
    BY TxTypes
  <1>2. RightCall(t.call) /\ t.call \in Call
    BY <1>1 DEF AdvancesInv, RightCalls, RightNow, TxRow
  <1>3. t.call.u \in Advances \cup {None} /\ t.call.files \subseteq Files
    BY <1>2 DEF Call
  <1>4. ProjectOf(t) \in Projects \cup {None}
    <2>1. CASE t.call.name \in {"register", "update", "finish_project"}
      BY <1>2, <2>1 DEF ProjectOf, Call
    <2>2. CASE t.call.name \notin {"register", "update", "finish_project"}
      <3>1. t.call.u \in Advances
        BY <1>2, <2>2 DEF RightCall
      <3> QED
        BY <2>2, <3>1 DEF ProjectOf, AdvancesInv, TypeOK, AdvanceRow
    <2> QED
      BY <2>1, <2>2
  <1>5. \/ l[1] \in {"advance", "review", "decision", "remediation"} /\ l = Lock(l[1], t.call.u)
        \/ l = Lock("project", ProjectOf(t))
        \/ \E k \in t.call.files : l = Lock("file", k)
    BY <1>1, PlanShape
  <1> QED
    BY <1>3, <1>4, <1>5 DEF Lock, Table

LEMMA LockInTables ==
    ASSUME NEW t \in TxRow, NEW l \in LockPlan(t)
    PROVE  /\ l[1] \in Table
           /\ l[1] = "file" => t.call.name \in OnFiles
           /\ l[1] = "remediation" => t.call.name \in OnResponse
  BY PlanShape DEF Lock, Table

LEMMA LockStep ==
    ASSUME AdvancesInv, NEW v \in Workers, LockRow(v)
    PROVE  UNCHANGED rows /\ Moves(v) /\ SoundNow(v)'
  <1>1. PICK t \in TxRow : t = tx[v]
    BY TxTypes
  <1>2. PICK l \in NextLocks(t) :
            /\ \A w \in Workers \ {v} : l \notin tx[w].held
            /\ tx' = [tx EXCEPT ![v].held = @ \cup {l}]
    BY <1>1 DEF LockRow
  <1>3. t.phase = "locking" /\ UNCHANGED rows
    BY <1>1 DEF LockRow
  <1>4. l \in LockPlan(t) /\ l \in Missing(t)
    BY <1>2 DEF NextLocks, Missing
  <1>5. OwnTables(t) /\ InOrder(t) /\ RightCall(t.call)
    BY <1>1, <1>3 DEF AdvancesInv, LocksInOrder, RightCalls, RightNow
  <1> DEFINE r == [t EXCEPT !.held = @ \cup {l}]
  <1>6. l \in Table \X (Projects \cup Advances \cup Files \cup {None})
    BY <1>1, <1>3, <1>4, <1>5, LockTyped
  <1>7. /\ r \in TxRow /\ r.phase = t.phase /\ r.call = t.call /\ r.held = t.held \cup {l}
    BY <1>6 DEF TxRow
  <1>8. tx' = [tx EXCEPT ![v] = r]
    BY <1>1, <1>2, TxTypes
  <1> HIDE DEF r
  <1>9. tx' \in [Workers -> TxRow] /\ tx'[v] = r /\ \A w \in Workers \ {v} : tx'[w] = tx[w]
    BY <1>7, <1>8, TxTypes
  <1>10. ASSUME NEW w \in Workers \ {v}, tx[w].phase # "idle"
         PROVE  Apart(t.call, tx[w].call) /\ Apart(tx[w].call, t.call)
    BY <1>1, <1>3, <1>10 DEF AdvancesInv, NothingTwice
  <1>11. Moves(v)
    BY <1>1, <1>2, <1>3, <1>7, <1>9, <1>10 DEF Moves
  <1>12. RightNow(v)'
    BY <1>1, <1>3, <1>7, <1>9, SameCall
  <1>13. PromiseNow(v)'
    BY <1>3, <1>7, <1>9 DEF PromiseNow
  <1>14. LockPlan(r)' = LockPlan(t)
    BY <1>3, <1>7 DEF rows, LockPlan, From, Joined, Alone, ReviewLocks, FileLocks, Lock
  <1>15. OwnTables(r)
    BY <1>4, <1>5, <1>7, LockInTables DEF OwnTables
  <1>16. ASSUME NEW h \in r.held, NEW m \in Missing(r)'
         PROVE  \/ Rank(t.call.name, h[1]) < Rank(t.call.name, m[1])
                \/ t.call.name = "delete_advance" /\ h[1] = "file" /\ m[1] = "file"
    <2>1. m \in Missing(t) /\ m # l /\ m \in LockPlan(t)
      BY <1>7, <1>14, <1>16 DEF Missing
    <2>2. CASE h \in t.held
      BY <1>5, <2>1, <2>2 DEF InOrder
    <2>3. CASE h = l
      <3>1. Rank(t.call.name, l[1]) <= Rank(t.call.name, m[1])
        BY <1>2, <2>1 DEF NextLocks
      <3> QED
        BY <1>1, <1>3, <1>4, <2>1, <2>3, <3>1, RanksDiffer
    <2> QED
      BY <1>7, <1>16, <2>2, <2>3
  <1>17. OrderNow(v)'
    BY <1>7, <1>9, <1>15, <1>16 DEF OrderNow, OwnTables, InOrder
  <1> QED
    BY <1>3, <1>11, <1>12, <1>13, <1>17 DEF SoundNow


LEMMA AllowedIsPromised == ASSUME NEW t \in TxRow, Allowed(t) PROVE Promise(t)
  <1>1. t.call.name \in Service
    BY DEF TxRow, Call
  <1>2. CASE t.call.name = "register"
    BY <1>2 DEF Allowed, Promise
  <1>3. CASE t.call.name = "update"
    BY <1>3 DEF Allowed, Promise
  <1>4. CASE t.call.name \in {"upload", "delete_file"}
    BY <1>4 DEF Allowed, Promise, UploadAllowed
  <1>5. CASE t.call.name \notin {"register", "update", "upload", "delete_file"}
    BY <1>5 DEF Promise
  <1> QED
    BY <1>2, <1>3, <1>4, <1>5

\* A promise is about the call and the rows.
LEMMA SamePromise ==
    ASSUME UNCHANGED rows, NEW t \in TxRow, NEW r \in TxRow, r.call = t.call
    PROVE  Promise(t) => Promise(r)'
  <1>1. /\ project' = project /\ advance' = advance /\ review' = review /\ decision' = decision
        /\ remediation' = remediation /\ file' = file
    BY DEF rows
  <1>2. Allowed(t) => Allowed(r)'
    BY <1>1 DEF Allowed, Editable, Exists, Open, OpenFor, UploadAllowed, Deletable, FilesOf,
       ReviewAllowed, EditAllowed
  <1> QED
    BY <1>1, <1>2 DEF Promise, Editable, Exists, Open, OpenFor

LEMMA CheckStep ==
    ASSUME AdvancesInv, NEW v \in Workers, Check(v)
    PROVE  UNCHANGED rows /\ Moves(v) /\ SoundNow(v)'
  <1>1. PICK t \in TxRow : t = tx[v]
    BY TxTypes
  <1>2. PICK r : r = IF Allowed(t) THEN [t EXCEPT !.phase = "checked"] ELSE Idle
    OBVIOUS
  <1>3. /\ t.phase = "locking" /\ Missing(t) = {} /\ UNCHANGED rows
        /\ tx' = [tx EXCEPT ![v] = r]
    BY <1>1, <1>2 DEF Check
  <1>4. /\ r \in TxRow
        /\ \/ r.phase = "idle" /\ r.held = {}
           \/ Allowed(t) /\ r.phase = "checked" /\ r.call = t.call /\ r.held = t.held
    BY <1>2, IdleType DEF TxRow, Phase
  <1>5. tx'[v] = r
    BY <1>3, <1>4, TxTypes
  <1>6. Moves(v)
    BY <1>1, <1>3, <1>4, LeftMoves DEF LeftOf
  <1>7. RightNow(v)'
    <2>1. CASE r.phase = "idle"
      BY <1>5, <2>1 DEF RightNow
    <2>2. CASE r.phase = "checked"
      BY <1>1, <1>3, <1>4, <1>5, <2>2, SameCall
    <2> QED
      BY <1>4, <2>1, <2>2
  <1>8. ASSUME r.phase = "checked" PROVE Missing(r)' = {} /\ Promise(r)'
    <2>1. LockPlan(r)' = LockPlan(t)
      BY <1>3, <1>4, <1>8 DEF rows, LockPlan, From, Joined, Alone, ReviewLocks, FileLocks, Lock
    <2>2. Missing(r)' = {}
      BY <1>3, <1>4, <1>8, <2>1 DEF Missing
    <2>3. Promise(t)
      BY <1>4, <1>8, AllowedIsPromised
    <2> QED
      BY <1>3, <1>4, <1>8, <2>2, <2>3, SamePromise
  <1>9. PromiseNow(v)'
    BY <1>5, <1>8 DEF PromiseNow, Missing, LockPlan, Promise
  <1>10. OwnTables(r)
    <2>1. OwnTables(t)
      BY <1>1 DEF AdvancesInv, LocksInOrder
    <2> QED
      BY <1>4, <2>1 DEF OwnTables
  <1>11. OrderNow(v)'
    BY <1>4, <1>5, <1>10 DEF OrderNow, OwnTables
  <1> QED
    BY <1>3, <1>6, <1>7, <1>9, <1>11 DEF SoundNow

\* A step that releases the locks and goes on with what is left of the call, if anything.
LEMMA ReleaseStep ==
    ASSUME AdvancesInv, NEW v \in Workers, NEW r \in TxRow, UNCHANGED rows,
           tx' = [tx EXCEPT ![v] = r], tx[v].phase # "idle", r.held = {},
           r.phase \in {"idle", "storing", "locking"},
           r.phase # "idle" => r.call = tx[v].call
    PROVE  Moves(v) /\ SoundNow(v)'
  <1>1. tx'[v] = r
    BY TxTypes
  <1>2. Moves(v)
    BY LeftMoves DEF LeftOf
  <1>3. RightNow(v)'
    <2>1. CASE r.phase = "idle"
      BY <1>1, <2>1 DEF RightNow
    <2>2. CASE r.phase # "idle"
      BY <1>1, <2>2, SameCall
    <2> QED
      BY <2>1, <2>2
  <1>4. PromiseNow(v)' /\ OrderNow(v)'
    BY <1>1 DEF PromiseNow, OrderNow, OwnTables, InOrder
  <1> QED
    BY <1>2, <1>3, <1>4 DEF SoundNow

LEMMA GateStep ==
    ASSUME AdvancesInv, NEW v \in Workers, CommitGate(v) \/ Stored(v) \/ Abort(v)
    PROVE  UNCHANGED rows /\ Moves(v) /\ SoundNow(v)'
  <1>1. tx[v] \in TxRow /\ tx[v].call \in Call /\ tx \in [Workers -> TxRow]
    BY TxTypes
  <1>2. CASE CommitGate(v)
    BY <1>1, <1>2, OnlyType, ReleaseStep DEF CommitGate, Phase
  <1>3. CASE Stored(v)
    <2>1. PICK r : r = [tx[v] EXCEPT !.phase = "locking"]
      OBVIOUS
    <2>2. tx[v].held = {}
      BY <1>3 DEF Stored, AdvancesInv, OneHolder
    <2>3. r \in TxRow /\ r.phase = "locking" /\ r.call = tx[v].call /\ r.held = {}
      BY <1>1, <2>1, <2>2 DEF TxRow, Phase
    <2>4. UNCHANGED rows /\ tx' = [tx EXCEPT ![v] = r] /\ tx[v].phase # "idle"
      BY <1>3, <2>1 DEF Stored
    <2> QED
      BY <2>3, <2>4, ReleaseStep
  <1>4. CASE Abort(v)
    BY <1>1, <1>4, IdleType, ReleaseStep DEF Abort
  <1> QED
    BY <1>2, <1>3, <1>4


-------------------------------------------------------------------------------
(* What a commit writes.                                                   *)

TypedRows ==
    /\ project \in [Projects -> {"active", "closed"}]
    /\ advance \in [Advances -> AdvanceRow]
    /\ review \in [Advances -> BOOLEAN]
    /\ decision \in [Advances -> Outcome \cup {None}]
    /\ remediation \in [Advances -> RemediationRow]
    /\ file \in [Files -> FileRow]

\* The rows of other advances, files and projects than those of the call stay.
Frame(c) ==
    /\ \A u \in Advances : u # c.u \/ c.name = "finish_project" =>
           UNCHANGED <<advance[u], review[u], decision[u], remediation[u]>>
    /\ \A u \in Advances : advance[u].status # "absent" => advance'[u].status # "absent"
    /\ \A k \in Files : k \notin c.files \/ c.name \notin OnFiles \cup {"upload"} =>
           file'[k] = file[k]
    /\ \A k \in Files : file'[k] # file[k] => file'[k].on = c.u
    /\ \A k \in Files : file[k].status # "absent" =>
           file'[k].status # "absent" /\ UNCHANGED <<file[k].on, file[k].of>>
    /\ \A p \in Projects : p # c.p \/ c.name # "finish_project" => project'[p] = project[p]

\* A step of the action properties.
PublishedStep ==
    \A u \in Advances :
        /\ advance[u].status = "published" /\ advance'[u].status = "published" =>
               /\ advance'[u] = advance[u]
               /\ FilesOf(u, "advance")' = FilesOf(u, "advance")
        /\ remediation[u].status \in {"submitted", "accepted", "rejected"} =>
               /\ remediation'[u].response = remediation[u].response
               /\ FilesOf(u, "remediation")' = FilesOf(u, "remediation")

ClosedStep ==
    \A u \in Advances : Exists(u) /\ ~Open(advance[u].project) =>
        /\ advance'[u].status \in {advance[u].status, "deleted"}
        /\ UNCHANGED <<review[u], decision[u], remediation[u]>>
        /\ \A k \in FilesOf(u, "advance") : file'[k].public = file[k].public

Written(c) ==
    /\ TypedRows' /\ Frame(c) /\ Belongings' /\ DocumentsStandOnEachOther'
    /\ PublishedStep /\ ClosedStep

\* What a commit may rely on.
AtCommit(t) ==
    /\ t \in TxRow /\ t.call \in Call
    /\ t.call.name # "finish_project" => t.call.u \in Advances
    /\ TypedRows /\ Belongings /\ DocumentsStandOnEachOther
    /\ RightCall(t.call) /\ Promise(t)

LEMMA CommitFacts ==
    ASSUME AdvancesInv, NEW v \in Workers, tx[v].phase = "checked"
    PROVE  AtCommit(tx[v])
  BY TxTypes DEF AdvancesInv, TypeOK, TypedRows, RightCalls, RightNow, PromisesKept, AtCommit,
     RightCall

\* The advance alone: it keeps what stands on it.
LEMMA AdvanceWritten ==
    ASSUME NEW t \in TxRow, AtCommit(t), NEW row \in AdvanceRow, WriteAdvance(t.call.u, row),
           t.call.name \in {"register", "update", "publish"},
           row.project \in Projects,
           row.status = IF t.call.name = "publish" THEN "published" ELSE "unpublished"
    PROVE  Written(t.call)
  <1> DEFINE c == t.call
             u == c.u
  <1>1. /\ u \in Advances
        /\ advance' = [advance EXCEPT ![u] = row]
        /\ project' = project /\ review' = review /\ decision' = decision
        /\ remediation' = remediation /\ file' = file
    BY DEF AtCommit, WriteAdvance
  <1>2. /\ advance' \in [Advances -> AdvanceRow]
        /\ advance'[u] = row /\ \A x \in Advances \ {u} : advance'[x] = advance[x]
    BY <1>1 DEF AtCommit, TypedRows
  <1>3. advance[u].status \in {"absent", "unpublished"}
    BY DEF AtCommit, RightCall, Promise, Allowed, Editable
  <1>4. c.name = "publish" => OpenFor(u)
    BY DEF AtCommit, Promise, Allowed
  <1>5. c.name \in {"update", "publish"} => Exists(u)
    BY DEF AtCommit, Promise, Allowed, Editable, Exists
  <1>6. Frame(c)
    BY <1>1, <1>2 DEF Frame, OnFiles
  <1>7. TypedRows' /\ Belongings'
    BY <1>1, <1>2 DEF AtCommit, TypedRows, Belongings
  <1>8. DocumentsStandOnEachOther'
    <2>1. ~review[u] /\ decision[u] = None /\ remediation[u].status = "none"
      BY <1>1, <1>3, AdvancesAssumption DEF AtCommit, DocumentsStandOnEachOther, Outcome
    <2>2. ASSUME NEW x \in Advances
          PROVE  /\ review'[x] => advance'[x].status = "published"
                 /\ decision'[x] # None => review'[x]
                 /\ remediation'[x].status # "none" => decision'[x] = "observed"
      BY <1>1, <1>2, <2>1 DEF AtCommit, DocumentsStandOnEachOther
    <2>3. ASSUME NEW k \in Files, file'[k].status = "kept"
          PROVE  IF file'[k].of = "advance" THEN Exists(file[k].on)'
                                            ELSE remediation'[file'[k].on].status # "none"
      <3>1. file[k].on \in Advances
        BY <1>1, <2>3 DEF AtCommit, Belongings
      <3> QED
        BY <1>1, <1>2, <2>3, <3>1 DEF AtCommit, DocumentsStandOnEachOther, Exists
    <2> QED
      BY <1>1, <2>2, <2>3 DEF DocumentsStandOnEachOther, Exists
  <1>9. PublishedStep
    BY <1>1, <1>2, <1>3 DEF PublishedStep, FilesOf
  <1>10. ClosedStep
    BY <1>1, <1>2, <1>3, <1>4 DEF ClosedStep, FilesOf, OpenFor, Exists, AtCommit, RightCall
  <1> QED
    BY <1>6, <1>7, <1>8, <1>9, <1>10 DEF Written


\* What the checks of a call promised, call by call.
LEMMA Promised ==
    ASSUME NEW t \in TxRow, Promise(t)
    PROVE  LET c == t.call
               u == c.u
           IN  /\ c.name \in {"register", "finish_project"} => Open(c.p)
               /\ c.name = "update" => Editable(u)
               /\ c.name \in {"upload", "delete_file"} /\ c.of = "advance" => Editable(u)
               /\ c.name \in {"upload", "delete_file"} /\ c.of = "remediation" =>
                      OpenFor(u) /\ remediation[u].status = "draft"
               /\ c.name = "set_public" => OpenFor(u) /\ \A k \in c.files : file[k].status = "kept"
               /\ c.name = "publish" => OpenFor(u) /\ Editable(u)
               /\ c.name = "delete_advance" =>
                      Exists(u) /\ ~review[u] /\ FilesOf(u, "advance") \subseteq c.files
               /\ c.name = "review" => OpenFor(u) /\ advance[u].status = "published" /\ ~review[u]
               /\ c.name = "decide" => OpenFor(u) /\ review[u] /\ decision[u] = None
               /\ c.name = "remediate" =>
                      OpenFor(u) /\ decision[u] = "observed" /\ remediation[u].status = "none"
               /\ c.name \in {"edit_remediation", "submit"} =>
                      OpenFor(u) /\ remediation[u].status = "draft"
               /\ c.name = "resolve" => OpenFor(u) /\ remediation[u].status = "submitted"
  <1> DEFINE c == t.call
             u == c.u
  <1>1. c.name = "register" => Open(c.p)
    BY DEF Promise
  <1>2. c.name = "finish_project" => Open(c.p)
    BY DEF Promise, Allowed
  <1>3. c.name = "update" => Editable(u)
    BY DEF Promise
  <1>4. c.name \in {"upload", "delete_file"} =>
            IF c.of = "advance" THEN Editable(u)
            ELSE OpenFor(u) /\ remediation[u].status = "draft"
    BY DEF Promise
  <1>5. c.name = "set_public" => OpenFor(u) /\ \A k \in c.files : file[k].status = "kept"
    BY DEF Promise, Allowed
  <1>6. c.name = "publish" => OpenFor(u) /\ Editable(u)
    BY DEF Promise, Allowed
  <1>7. c.name = "delete_advance" =>
            Exists(u) /\ ~review[u] /\ FilesOf(u, "advance") \subseteq c.files
    BY DEF Promise, Allowed, Deletable
  <1>8. c.name = "review" => OpenFor(u) /\ advance[u].status = "published" /\ ~review[u]
    BY DEF Promise, Allowed, ReviewAllowed
  <1>9. c.name = "decide" => OpenFor(u) /\ review[u] /\ decision[u] = None
    BY DEF Promise, Allowed
  <1>10. c.name = "remediate" =>
             OpenFor(u) /\ decision[u] = "observed" /\ remediation[u].status = "none"
    BY DEF Promise, Allowed
  <1>11. c.name \in {"edit_remediation", "submit"} => OpenFor(u) /\ remediation[u].status = "draft"
    BY DEF Promise, Allowed, EditAllowed
  <1>12. c.name = "resolve" => OpenFor(u) /\ remediation[u].status = "submitted"
    BY DEF Promise, Allowed
  <1> QED
    BY <1>1, <1>2, <1>3, <1>4, <1>5, <1>6, <1>7, <1>8, <1>9, <1>10, <1>11, <1>12

\* The documents of one advance.
LEMMA DocumentsNow ==
    ASSUME DocumentsStandOnEachOther, Belongings, NEW u \in Advances
    PROVE  /\ review[u] => advance[u].status = "published"
           /\ decision[u] # None => review[u]
           /\ remediation[u].status # "none" => decision[u] = "observed" /\ review[u]
           /\ \A k \in Files : file[k].status = "kept" =>
                  /\ file[k].on \in Advances
                  /\ IF file[k].of = "advance" THEN Exists(file[k].on)
                                               ELSE remediation[file[k].on].status # "none"
  BY AdvancesAssumption DEF DocumentsStandOnEachOther, Belongings, Outcome

\* Documents that stay stand, when no attachment comes.
LEMMA FewerFiles ==
    ASSUME DocumentsStandOnEachOther, Belongings,
           UNCHANGED <<advance, review, decision, remediation>>,
           \A k \in Files : file'[k].status = "kept" =>
               file[k].status = "kept" /\ file'[k].of = file[k].of /\ file'[k].on = file[k].on
    PROVE  DocumentsStandOnEachOther'
  <1>1. ASSUME NEW k \in Files, file'[k].status = "kept"
        PROVE  IF file'[k].of = "advance"
                 THEN advance'[file'[k].on].status \in {"unpublished", "published"}
                 ELSE remediation'[file'[k].on].status # "none"
    <2>1. IF file[k].of = "advance" THEN advance[file[k].on].status \in {"unpublished", "published"}
                                    ELSE remediation[file[k].on].status # "none"
      BY <1>1 DEF DocumentsStandOnEachOther, Exists
    <2> QED
      BY <1>1, <2>1
  <1>2. \A u \in Advances :
           /\ review'[u] => advance'[u].status = "published"
           /\ decision'[u] # None => review'[u]
           /\ remediation'[u].status # "none" => decision'[u] = "observed"
    BY DEF DocumentsStandOnEachOther
  <1> QED
    BY <1>1, <1>2, Zenon DEF DocumentsStandOnEachOther, Exists

LEMMA ReviewWritten ==
    ASSUME NEW t \in TxRow, AtCommit(t), t.call.name = "review", ReviewAdvance(t.call)
    PROVE  Written(t.call)
  <1> DEFINE c == t.call
             u == c.u
  <1>1. /\ u \in Advances
        /\ review' = [review EXCEPT ![u] = TRUE]
        /\ project' = project /\ advance' = advance /\ decision' = decision
        /\ remediation' = remediation /\ file' = file
        /\ TypedRows /\ Belongings /\ DocumentsStandOnEachOther
    BY DEF AtCommit, ReviewAdvance
  <1>2. /\ review' \in [Advances -> BOOLEAN]
        /\ review'[u] = TRUE /\ \A x \in Advances \ {u} : review'[x] = review[x]
    BY <1>1 DEF TypedRows
  <1>3. OpenFor(u) /\ advance[u].status = "published"
    BY Promised DEF AtCommit
  <1>4. Frame(c)
    BY <1>1, <1>2 DEF Frame, OnFiles
  <1>5. TypedRows' /\ Belongings'
    BY <1>1, <1>2 DEF TypedRows, Belongings
  <1>6. DocumentsStandOnEachOther'
    BY <1>1, <1>2, <1>3, Zenon DEF DocumentsStandOnEachOther, Exists
  <1>7. PublishedStep
    BY <1>1 DEF PublishedStep, FilesOf
  <1>8. ClosedStep
    BY <1>1, <1>2, <1>3 DEF ClosedStep, FilesOf, OpenFor
  <1> QED
    BY <1>4, <1>5, <1>6, <1>7, <1>8 DEF Written

LEMMA DecisionWritten ==
    ASSUME NEW t \in TxRow, AtCommit(t), t.call.name = "decide", DecideReview(t.call)
    PROVE  Written(t.call)
  <1> DEFINE c == t.call
             u == c.u
  <1>1. /\ u \in Advances /\ c.choice \in Outcome
        /\ decision' = [decision EXCEPT ![u] = c.choice]
        /\ project' = project /\ advance' = advance /\ review' = review
        /\ remediation' = remediation /\ file' = file
        /\ TypedRows /\ Belongings /\ DocumentsStandOnEachOther
    BY DEF AtCommit, DecideReview, Call
  <1>2. /\ decision' \in [Advances -> Outcome \cup {None}]
        /\ decision'[u] = c.choice /\ \A x \in Advances \ {u} : decision'[x] = decision[x]
    BY <1>1 DEF TypedRows
  <1>3. OpenFor(u) /\ review[u] /\ decision[u] = None
    BY Promised DEF AtCommit
  <1>4. Frame(c)
    BY <1>1, <1>2 DEF Frame, OnFiles
  <1>5. TypedRows' /\ Belongings'
    BY <1>1, <1>2 DEF TypedRows, Belongings
  <1>6. DocumentsStandOnEachOther'
    <2>1. remediation[u].status = "none"
      BY <1>1, <1>3, AdvancesAssumption DEF DocumentsStandOnEachOther, Outcome
    <2> QED
      BY <1>1, <1>2, <1>3, <2>1 DEF DocumentsStandOnEachOther, Exists
  <1>7. PublishedStep
    BY <1>1 DEF PublishedStep, FilesOf
  <1>8. ClosedStep
    BY <1>1, <1>2, <1>3 DEF ClosedStep, FilesOf, OpenFor
  <1> QED
    BY <1>4, <1>5, <1>6, <1>7, <1>8 DEF Written

LEMMA RemediationWritten ==
    ASSUME NEW t \in TxRow, AtCommit(t),
           t.call.name \in {"remediate", "edit_remediation", "submit", "resolve"},
           NEW status \in RemediationStatus \ {"none"}, NEW response \in Text,
           WriteRemediation(t.call.u, status, response),
           t.call.name = "resolve" => response = remediation[t.call.u].response
    PROVE  Written(t.call)
  <1> DEFINE c == t.call
             u == c.u
             row == [status |-> status, response |-> response]
  <1>1. /\ u \in Advances
        /\ remediation' = [remediation EXCEPT ![u] = row]
        /\ project' = project /\ advance' = advance /\ review' = review
        /\ decision' = decision /\ file' = file
        /\ TypedRows /\ Belongings /\ DocumentsStandOnEachOther
    BY DEF AtCommit, WriteRemediation
  <1>2. row \in RemediationRow /\ row.status = status /\ row.response = response
    BY DEF RemediationRow
  <1> HIDE DEF row
  <1>3. /\ remediation' \in [Advances -> RemediationRow]
        /\ remediation'[u] = row /\ \A x \in Advances \ {u} : remediation'[x] = remediation[x]
    BY <1>1, <1>2 DEF TypedRows
  <1>4. /\ OpenFor(u)
        /\ c.name = "remediate" => decision[u] = "observed" /\ remediation[u].status = "none"
        /\ c.name \in {"edit_remediation", "submit"} => remediation[u].status = "draft"
        /\ c.name = "resolve" => remediation[u].status = "submitted"
    BY Promised DEF AtCommit
  <1>5. decision[u] = "observed"
    BY <1>1, <1>4, DocumentsNow
  <1>6. Frame(c)
    BY <1>1, <1>3 DEF Frame, OnFiles
  <1>7. TypedRows' /\ Belongings'
    BY <1>1, <1>3 DEF TypedRows, Belongings
  <1>8. DocumentsStandOnEachOther'
    <2>1. ASSUME NEW k \in Files, file[k].status = "kept", file[k].of # "advance"
          PROVE  remediation'[file[k].on].status # "none"
      <3>1. file[k].on \in Advances /\ remediation[file[k].on].status # "none"
        BY <1>1, <2>1, DocumentsNow
      <3> QED
        BY <1>2, <1>3, <3>1
    <2> QED
      BY <1>1, <1>2, <1>3, <1>5, <2>1 DEF DocumentsStandOnEachOther, Exists
  <1>9. PublishedStep
    BY <1>1, <1>2, <1>3, <1>4 DEF PublishedStep, FilesOf
  <1>10. ClosedStep
    BY <1>1, <1>3, <1>4 DEF ClosedStep, FilesOf, OpenFor
  <1> QED
    BY <1>6, <1>7, <1>8, <1>9, <1>10 DEF Written

LEMMA FinishWritten ==
    ASSUME NEW t \in TxRow, AtCommit(t), t.call.name = "finish_project", FinishProject(t.call)
    PROVE  Written(t.call)
  <1> DEFINE c == t.call
  <1>1. /\ project' = [project EXCEPT ![c.p] = "closed"]
        /\ advance' = advance /\ review' = review /\ decision' = decision
        /\ remediation' = remediation /\ file' = file
        /\ TypedRows /\ Belongings /\ DocumentsStandOnEachOther
    BY DEF AtCommit, FinishProject, Close
  <1>2. /\ project' \in [Projects -> {"active", "closed"}]
        /\ \A p \in Projects : p # c.p => project'[p] = project[p]
    BY <1>1 DEF TypedRows
  <1>3. Frame(c)
    BY <1>1, <1>2 DEF Frame, OnFiles
  <1>4. TypedRows' /\ Belongings' /\ DocumentsStandOnEachOther'
    BY <1>1, <1>2 DEF TypedRows, Belongings, DocumentsStandOnEachOther, Exists
  <1>5. PublishedStep /\ ClosedStep
    BY <1>1 DEF PublishedStep, ClosedStep, FilesOf
  <1> QED
    BY <1>3, <1>4, <1>5 DEF Written


LEMMA FileDeleted ==
    ASSUME NEW t \in TxRow, AtCommit(t), t.call.name = "delete_file", DeleteFile(t.call)
    PROVE  Written(t.call)
  <1> DEFINE c == t.call
             u == c.u
  <1>1. /\ u \in Advances
        /\ file' = [k \in Files |->
                        IF k \in c.files
                          THEN [file[k] EXCEPT !.status = "deleted", !.public = file[k].public]
                          ELSE file[k]]
        /\ project' = project /\ advance' = advance /\ review' = review
        /\ decision' = decision /\ remediation' = remediation
        /\ TypedRows /\ Belongings /\ DocumentsStandOnEachOther
    BY DEF AtCommit, DeleteFile, WriteFiles
  <1>2. \A k \in Files : file[k] \in FileRow
    BY <1>1 DEF TypedRows
  <1>3. ASSUME NEW k \in Files
        PROVE  /\ file'[k] \in FileRow
               /\ k \notin c.files => file'[k] = file[k]
               /\ k \in c.files => file'[k].status = "deleted"
               /\ file'[k].of = file[k].of /\ file'[k].on = file[k].on
               /\ file'[k].public = file[k].public
    BY <1>1, <1>2 DEF FileRow
  <1>4. \A k \in c.files : file[k].status # "absent" /\ file[k].on = u /\ file[k].of = c.of
    BY DEF AtCommit, RightCall, OnFiles
  <1>5. /\ c.of = "advance" => Editable(u)
        /\ c.of = "remediation" => remediation[u].status = "draft"
    BY Promised DEF AtCommit
  <1>6. Frame(c)
    BY <1>1, <1>3, <1>4 DEF Frame, OnFiles
  <1>7. TypedRows' /\ Belongings'
    <2>1. \A k \in Files : file'[k].status # "absent" => file'[k].on \in Advances
      BY <1>1, <1>3, <1>4 DEF Belongings
    <2>2. file' \in [Files -> FileRow]
      BY <1>1, <1>3
    <2> QED
      BY <1>1, <2>1, <2>2 DEF TypedRows, Belongings
  <1>8. DocumentsStandOnEachOther'
    <2>1. ASSUME NEW k \in Files, file'[k].status = "kept"
          PROVE  file'[k] = file[k]
      BY <1>3, <2>1
    <2> QED
      BY <1>1, <2>1, FewerFiles
  <1>9. PublishedStep
    <2>1. ASSUME NEW x \in Advances, NEW owner \in Owner, x # u \/ owner # c.of
          PROVE  FilesOf(x, owner)' = FilesOf(x, owner)
      BY <1>3, <1>4, <2>1 DEF FilesOf
    <2>2. c.of \in Owner
      BY DEF AtCommit, Call
    <2>3. "advance" \in Owner /\ "remediation" \in Owner
      BY DEF Owner
    <2>4. c.of \in {"advance", "remediation"}
      BY <2>2 DEF Owner
    <2>5. ASSUME NEW x \in Advances, advance[x].status = "published"
          PROVE  FilesOf(x, "advance")' = FilesOf(x, "advance")
      BY <1>5, <2>1, <2>3, <2>5 DEF Editable
    <2>6. ASSUME NEW x \in Advances, remediation[x].status \in {"submitted", "accepted", "rejected"}
          PROVE  FilesOf(x, "remediation")' = FilesOf(x, "remediation")
      BY <1>5, <2>1, <2>3, <2>6
    <2> QED
      BY <1>1, <2>5, <2>6 DEF PublishedStep
  <1>10. ClosedStep
    BY <1>1, <1>3 DEF ClosedStep, FilesOf
  <1> QED
    BY <1>6, <1>7, <1>8, <1>9, <1>10 DEF Written

LEMMA FilePublic ==
    ASSUME NEW t \in TxRow, AtCommit(t), t.call.name = "set_public", SetPublic(t.call)
    PROVE  Written(t.call)
  <1> DEFINE c == t.call
             u == c.u
  <1>1. /\ u \in Advances
        /\ file' = [k \in Files |->
                        IF k \in c.files
                          THEN [file[k] EXCEPT !.status = "kept", !.public = ~file[k].public]
                          ELSE file[k]]
        /\ project' = project /\ advance' = advance /\ review' = review
        /\ decision' = decision /\ remediation' = remediation
        /\ TypedRows /\ Belongings /\ DocumentsStandOnEachOther
    BY DEF AtCommit, SetPublic, WriteFiles
  <1>2. \A k \in Files : file[k] \in FileRow
    BY <1>1 DEF TypedRows
  <1>3. /\ \A k \in c.files : file[k].on = u
        /\ \A k \in c.files : file[k].status = "kept"
        /\ OpenFor(u)
    BY Promised DEF AtCommit, RightCall, OnFiles
  <1>4. ASSUME NEW k \in Files
        PROVE  /\ file'[k] \in FileRow
               /\ k \notin c.files => file'[k] = file[k]
               /\ file'[k].status = file[k].status
               /\ file'[k].of = file[k].of /\ file'[k].on = file[k].on
    BY <1>1, <1>2, <1>3 DEF FileRow
  <1>5. Frame(c)
    BY <1>1, <1>3, <1>4 DEF Frame, OnFiles
  <1>6. TypedRows' /\ Belongings'
    <2>1. \A k \in Files : file'[k].status # "absent" => file'[k].on \in Advances
      BY <1>1, <1>4 DEF Belongings
    <2>2. file' \in [Files -> FileRow]
      BY <1>1, <1>4
    <2> QED
      BY <1>1, <2>1, <2>2 DEF TypedRows, Belongings
  <1>7. DocumentsStandOnEachOther'
    BY <1>1, <1>4, FewerFiles
  <1>8. PublishedStep
    <2>1. \A x \in Advances, owner \in Owner : FilesOf(x, owner)' = FilesOf(x, owner)
      <3>1. \A k \in Files : /\ file'[k].status = file[k].status
                             /\ file'[k].of = file[k].of /\ file'[k].on = file[k].on
        BY ONLY <1>4
      <3> QED BY ONLY <3>1 DEF FilesOf
    <2>2. "advance" \in Owner /\ "remediation" \in Owner
      BY ONLY DEF Owner
    <2>3. advance' = advance /\ remediation' = remediation
      BY <1>1
    <2> QED
      BY ONLY <2>1, <2>2, <2>3 DEF PublishedStep
  <1>9. ClosedStep
    <2>1. ASSUME NEW x \in Advances, ~Open(advance[x].project), NEW k \in FilesOf(x, "advance")
          PROVE  file'[k].public = file[k].public
      <3>1. k \in Files /\ file[k].on = x
        BY <2>1 DEF FilesOf
      <3>2. k \notin c.files
        BY <1>3, <2>1, <3>1 DEF OpenFor
      <3> QED
        BY <1>4, <3>1, <3>2
    <2> QED
      BY <1>1, <2>1 DEF ClosedStep
  <1> QED
    BY <1>5, <1>6, <1>7, <1>8, <1>9 DEF Written

LEMMA FileAttached ==
    ASSUME NEW t \in TxRow, AtCommit(t), t.call.name = "upload", NEW n \in t.call.files,
           AttachFile(t.call, n)
    PROVE  Written(t.call)
  <1> DEFINE c == t.call
             u == c.u
             row == [status |-> "kept", of |-> c.of, on |-> u, public |-> FALSE]
  <1>1. /\ u \in Advances /\ c.of \in Owner /\ c.files \subseteq Files
        /\ file' = [file EXCEPT ![n] = row]
        /\ project' = project /\ advance' = advance /\ review' = review
        /\ decision' = decision /\ remediation' = remediation
        /\ TypedRows /\ Belongings /\ DocumentsStandOnEachOther
    BY DEF AtCommit, AttachFile, Call
  <1>2. /\ row \in FileRow
        /\ row.status = "kept" /\ row.of = c.of /\ row.on = u
    BY <1>1 DEF FileRow
  <1> HIDE DEF row
  <1>3. /\ file' \in [Files -> FileRow]
        /\ file'[n] = row /\ \A k \in Files \ {n} : file'[k] = file[k]
        /\ n \in Files
    BY <1>1, <1>2 DEF TypedRows
  <1>4. file[n].status = "absent"
    BY DEF AtCommit, RightCall, Creating
  <1>5. /\ c.of = "advance" => Editable(u)
        /\ c.of = "remediation" => remediation[u].status = "draft"
    BY Promised DEF AtCommit
  <1>6. Frame(c)
    BY <1>1, <1>2, <1>3, <1>4 DEF Frame, OnFiles
  <1>7. TypedRows' /\ Belongings'
    BY <1>1, <1>2, <1>3 DEF TypedRows, Belongings
  <1>8. DocumentsStandOnEachOther'
    <2>1. IF row.of = "advance" THEN Exists(u) ELSE remediation[u].status # "none"
      BY <1>1, <1>2, <1>5 DEF Owner, Editable, Exists
    <2> QED
      BY <1>1, <1>2, <1>3, <2>1 DEF DocumentsStandOnEachOther, Exists
  <1>9. PublishedStep
    <2>1. ASSUME NEW x \in Advances, NEW owner \in Owner, x # u \/ owner # c.of
          PROVE  FilesOf(x, owner)' = FilesOf(x, owner)
      BY <1>2, <1>3, <1>4, <2>1 DEF FilesOf
    <2>2. "advance" \in Owner /\ "remediation" \in Owner
      BY DEF Owner
    <2>3. ASSUME NEW x \in Advances, advance[x].status = "published"
          PROVE  FilesOf(x, "advance")' = FilesOf(x, "advance")
      BY <1>1, <1>5, <2>1, <2>2, <2>3 DEF Editable
    <2>4. ASSUME NEW x \in Advances, remediation[x].status \in {"submitted", "accepted", "rejected"}
          PROVE  FilesOf(x, "remediation")' = FilesOf(x, "remediation")
      BY <1>1, <1>5, <2>1, <2>2, <2>4
    <2> QED
      BY <1>1, <2>3, <2>4 DEF PublishedStep
  <1>10. ClosedStep
    <2>1. ASSUME NEW x \in Advances, NEW k \in FilesOf(x, "advance")
          PROVE  file'[k].public = file[k].public
      BY <1>3, <1>4 DEF FilesOf
    <2> QED
      BY <1>1, <2>1 DEF ClosedStep
  <1> QED
    BY <1>6, <1>7, <1>8, <1>9, <1>10 DEF Written

LEMMA AdvanceDeleted ==
    ASSUME NEW t \in TxRow, AtCommit(t), t.call.name = "delete_advance", DeleteAdvance(t.call)
    PROVE  Written(t.call)
  <1> DEFINE c == t.call
             u == c.u
             row == [advance[u] EXCEPT !.status = "deleted"]
  <1>1. /\ u \in Advances
        /\ advance' = [advance EXCEPT ![u] = row]
        /\ file' = [k \in Files |-> IF k \in c.files THEN [file[k] EXCEPT !.status = "deleted"]
                                                     ELSE file[k]]
        /\ project' = project /\ review' = review
        /\ decision' = decision /\ remediation' = remediation
        /\ TypedRows /\ Belongings /\ DocumentsStandOnEachOther
    BY DEF AtCommit, DeleteAdvance
  <1>2. /\ \A k \in Files : file[k] \in FileRow
        /\ \A x \in Advances : advance[x] \in AdvanceRow
    BY <1>1 DEF TypedRows
  <1>3. ASSUME NEW k \in Files
        PROVE  /\ file'[k] \in FileRow
               /\ k \notin c.files => file'[k] = file[k]
               /\ k \in c.files => file'[k].status = "deleted"
               /\ file'[k].of = file[k].of /\ file'[k].on = file[k].on
               /\ file'[k].public = file[k].public
    BY <1>1, <1>2 DEF FileRow
  <1>4. row \in AdvanceRow /\ row.status = "deleted" /\ row.project = advance[u].project
    BY <1>1, <1>2 DEF AdvanceRow, AdvanceStatus
  <1> HIDE DEF row
  <1>5. /\ advance' \in [Advances -> AdvanceRow]
        /\ advance'[u] = row /\ \A x \in Advances \ {u} : advance'[x] = advance[x]
    BY <1>1, <1>4 DEF TypedRows
  <1>6. \A k \in c.files : file[k].status # "absent" /\ file[k].on = u /\ file[k].of = "advance"
    BY DEF AtCommit, RightCall, OnFiles, OnItself
  <1>7. Exists(u) /\ ~review[u] /\ FilesOf(u, "advance") \subseteq c.files
    BY Promised DEF AtCommit
  <1>8. Frame(c)
    BY <1>1, <1>3, <1>4, <1>5, <1>6 DEF Frame, OnFiles
  <1>9. TypedRows' /\ Belongings'
    <2>1. \A k \in Files : file'[k].status # "absent" => file'[k].on \in Advances
      BY <1>1, <1>3, <1>6 DEF Belongings
    <2>2. file' \in [Files -> FileRow]
      BY <1>1, <1>3
    <2>3. \A x \in Advances : advance'[x].status # "absent" => advance'[x].project \in Projects
      BY <1>1, <1>4, <1>5, <1>7 DEF Belongings, Exists
    <2> QED
      BY <1>1, <1>5, <2>1, <2>2, <2>3 DEF TypedRows, Belongings
  <1>10. DocumentsStandOnEachOther'
    <2>1. decision[u] = None /\ remediation[u].status = "none"
      BY <1>1, <1>7, DocumentsNow
    <2>2. ASSUME NEW x \in Advances
          PROVE  /\ review'[x] => advance'[x].status = "published"
                 /\ decision'[x] # None => review'[x]
                 /\ remediation'[x].status # "none" => decision'[x] = "observed"
      BY <1>1, <1>5, <1>7, <2>1 DEF DocumentsStandOnEachOther
    <2>3. ASSUME NEW k \in Files, file'[k].status = "kept"
          PROVE  IF file'[k].of = "advance"
                   THEN advance'[file'[k].on].status \in {"unpublished", "published"}
                   ELSE remediation'[file'[k].on].status # "none"
      <3>1. file'[k] = file[k] /\ k \notin c.files
        BY <1>3, <2>3
      <3>2. /\ file[k].on \in Advances
            /\ IF file[k].of = "advance" THEN Exists(file[k].on)
                                         ELSE remediation[file[k].on].status # "none"
        BY <1>1, <2>3, <3>1, DocumentsNow
      <3>3. file[k].of = "advance" => file[k].on # u
        BY <1>7, <2>3, <3>1 DEF FilesOf
      <3> QED
        BY <1>1, <1>5, <3>1, <3>2, <3>3 DEF Exists
    <2> QED
      BY <2>2, <2>3, Zenon DEF DocumentsStandOnEachOther, Exists
  <1>11. PublishedStep
    <2>1. ASSUME NEW x \in Advances, NEW owner \in Owner, x # u \/ owner # "advance"
          PROVE  FilesOf(x, owner)' = FilesOf(x, owner)
      BY <1>3, <1>6, <2>1 DEF FilesOf
    <2> QED
      BY <1>1, <1>4, <1>5, <2>1 DEF PublishedStep, Owner
  <1>12. ClosedStep
    BY <1>1, <1>3, <1>4, <1>5 DEF ClosedStep, FilesOf
  <1> QED
    BY <1>8, <1>9, <1>10, <1>11, <1>12 DEF Written


-------------------------------------------------------------------------------
(* A commit, for its own request and for the others.                       *)

LEMMA CommitWrites ==
    ASSUME AdvancesInv, NEW v \in Workers, Commit(v)
    PROVE  Written(tx[v].call)
  <1>1. PICK t \in TxRow : t = tx[v]
    BY TxTypes
  <1> DEFINE c == t.call
             u == c.u
  <1>2. AtCommit(t) /\ c \in Call /\ c.name \in Service
    BY <1>1, CommitFacts DEF Commit, TxRow, Call
  <1>3. c.name \notin {"finish_project"} =>
            u \in Advances /\ advance[u] \in AdvanceRow /\ remediation[u] \in RemediationRow
    BY <1>2 DEF AtCommit, TypedRows
  <1>4. CASE c.name = "register"
    <2>1. RegisterAdvance(c) /\ c.p \in Projects
      BY <1>1, <1>2, <1>4 DEF Commit, AtCommit, RightCall
    <2>2. [status |-> "unpublished", project |-> c.p, text |-> 1] \in AdvanceRow
      BY <2>1 DEF AdvanceRow, AdvanceStatus, Text
    <2> QED
      BY <1>1, <1>2, <1>4, <2>1, <2>2, AdvanceWritten DEF RegisterAdvance
  <1>5. CASE c.name = "update"
    <2>1. UpdateAdvance(c) /\ c.p \in Projects /\ Editable(u)
      BY <1>1, <1>2, <1>5, Promised DEF Commit, AtCommit, RightCall
    <2>2. PICK row : row = [advance[u] EXCEPT !.project = c.p, !.text = Edited(@)]
      OBVIOUS
    <2>3. row \in AdvanceRow /\ row.project = c.p /\ row.status = "unpublished"
      <3>1. Edited(advance[u].text) \in Text
        BY <1>3, <1>5 DEF AdvanceRow, Text, Edited
      <3>2. row = [advance[u] EXCEPT !.project = c.p, !.text = Edited(advance[u].text)]
        BY <1>3, <1>5, <2>2 DEF AdvanceRow
      <3> QED
        BY <1>3, <1>5, <2>1, <3>1, <3>2 DEF AdvanceRow, Editable
    <2>4. WriteAdvance(u, row)
      BY <2>1, <2>2 DEF UpdateAdvance
    <2> QED
      BY <1>1, <1>2, <1>5, <2>1, <2>3, <2>4, AdvanceWritten
  <1>6. CASE c.name = "publish"
    <2>1. PublishAdvance(c) /\ Editable(u)
      BY <1>1, <1>2, <1>6, Promised DEF Commit, AtCommit
    <2>2. PICK row : row = [advance[u] EXCEPT !.status = "published"]
      OBVIOUS
    <2>3. advance[u].project \in Projects
      BY <1>2, <1>3, <1>6, <2>1 DEF AtCommit, Belongings, Editable
    <2>4. row \in AdvanceRow /\ row.project = advance[u].project /\ row.status = "published"
      BY <1>3, <1>6, <2>2 DEF AdvanceRow, AdvanceStatus
    <2>5. WriteAdvance(u, row)
      BY <2>1, <2>2 DEF PublishAdvance
    <2> QED
      BY <1>1, <1>2, <1>6, <2>3, <2>4, <2>5, AdvanceWritten
  <1>7. CASE c.name = "delete_file"
    BY <1>1, <1>2, <1>7, FileDeleted DEF Commit
  <1>8. CASE c.name = "set_public"
    BY <1>1, <1>2, <1>8, FilePublic DEF Commit
  <1>9. CASE c.name = "delete_advance"
    BY <1>1, <1>2, <1>9, AdvanceDeleted DEF Commit
  <1>10. CASE c.name = "review"
    BY <1>1, <1>2, <1>10, ReviewWritten DEF Commit
  <1>11. CASE c.name = "decide"
    BY <1>1, <1>2, <1>11, DecisionWritten DEF Commit
  <1>12. CASE c.name \in {"remediate", "edit_remediation", "submit", "resolve"}
    <2>1. /\ c.name = "remediate" => Remediate(c)
          /\ c.name = "edit_remediation" => EditRemediation(c)
          /\ c.name = "submit" => SubmitRemediation(c)
          /\ c.name = "resolve" => ResolveRemediation(c)
      BY <1>1, <1>12 DEF Commit
    <2>2. c.name = "edit_remediation" => remediation[u].status = "draft"
      BY <1>2, Promised DEF AtCommit
    <2>3. remediation[u].response \in Text /\ Edited(remediation[u].response) \in Text
      BY <1>3, <1>12 DEF RemediationRow, Text, Edited
    <2>4. PICK status \in RemediationStatus \ {"none"}, response \in Text :
              /\ WriteRemediation(u, status, response)
              /\ c.name = "resolve" => response = remediation[u].response
      BY <1>12, <2>1, <2>2, <2>3
         DEF Remediate, EditRemediation, SubmitRemediation, ResolveRemediation,
             RemediationStatus, Text
    <2> QED
      BY <1>1, <1>2, <1>12, <2>4, RemediationWritten
  <1>13. CASE c.name = "finish_project"
    BY <1>1, <1>2, <1>13, FinishWritten DEF Commit
  <1>14. c.name # "upload"
    BY <1>1 DEF Commit
  <1> QED
    BY <1>2, <1>4, <1>5, <1>6, <1>7, <1>8, <1>9, <1>10, <1>11, <1>12, <1>13, <1>14 DEF Service

LEMMA UploadWrites ==
    ASSUME AdvancesInv, NEW v \in Workers, CommitUpload(v)
    PROVE  Written(tx[v].call)
  <1>1. tx[v].phase = "checked" /\ tx[v].call.name = "upload"
    BY DEF CommitUpload
  <1>2. PICK k \in tx[v].call.files : AttachFile(tx[v].call, k)
    BY DEF CommitUpload
  <1>3. AtCommit(tx[v]) /\ tx[v] \in TxRow
    BY <1>1, CommitFacts, TxTypes
  <1> QED
    BY <1>1, <1>2, <1>3, FileAttached

\* What is left of a request after its commit: nothing, or the upload of its files.
LEMMA CommitOwn ==
    ASSUME AdvancesInv, NEW v \in Workers, Commit(v) \/ CommitUpload(v), Written(tx[v].call)
    PROVE  Moves(v) /\ SoundNow(v)'
  <1>1. PICK t \in TxRow : t = tx[v]
    BY TxTypes
  <1> DEFINE c == t.call
  <1>2. t.phase = "checked" /\ AtCommit(t) /\ c \in Call
    BY <1>1, CommitFacts, TxTypes DEF Commit, CommitUpload
  <1>3. PICK r \in TxRow :
            /\ tx' = [tx EXCEPT ![v] = r]
            /\ r.held = {}
            /\ \/ r.phase = "idle"
               \/ /\ r.phase = "locking"
                  /\ c.name \in {"register", "update", "upload"}
                  /\ r.call.name = "upload" /\ r.call.u = c.u /\ r.call.p = c.p /\ r.call.of = c.of
                  /\ r.call.files \subseteq c.files
                  /\ \A k \in r.call.files : file'[k] = file[k]
    <2>1. CASE Commit(v)
      <3>1. CASE c.name \in {"register", "update"}
        <4>1. tx' = [tx EXCEPT ![v] = Continue(c)]
          BY <1>1, <2>1, <3>1 DEF Commit
        <4>2. file' = file
          BY <1>1, <2>1, <3>1 DEF Commit, RegisterAdvance, UpdateAdvance, WriteAdvance
        <4> QED
          BY <1>2, <3>1, <4>1, <4>2, ContinueType
      <3>2. CASE c.name \notin {"register", "update"}
        <4>1. tx' = [tx EXCEPT ![v] = Idle]
          BY <1>1, <2>1, <3>2 DEF Commit
        <4> QED
          BY <4>1, IdleType
      <3> QED
        BY <3>1, <3>2
    <2>2. CASE CommitUpload(v)
      <3>1. PICK k \in c.files :
                /\ AttachFile(c, k)
                /\ tx' = [tx EXCEPT ![v] = Continue([c EXCEPT !.files = @ \ {k}])]
        BY <1>1, <2>2 DEF CommitUpload
      <3>2. PICK d : d = [c EXCEPT !.files = @ \ {k}]
        OBVIOUS
      <3>3. /\ d \in Call /\ d.u = c.u /\ d.p = c.p /\ d.of = c.of /\ d.name = c.name
            /\ d.files = c.files \ {k} /\ d.files \subseteq Files
        BY <1>2, <3>2 DEF Call
      <3>4. file \in [Files -> FileRow]
        BY <1>2 DEF AtCommit, TypedRows
      <3>5. \A n \in d.files : file'[n] = file[n]
        BY <3>1, <3>3, <3>4 DEF AttachFile
      <3>6. c.name = "upload"
        BY <1>1, <2>2 DEF CommitUpload
      <3>7. tx' = [tx EXCEPT ![v] = Continue(d)]
        BY <3>1, <3>2
      <3>8. PICK r \in TxRow : r = Continue(d)
        BY <3>3, ContinueType
      <3>9. r.held = {} /\ (r.phase = "idle" \/ r.phase = "locking")
        BY <3>3, <3>8, ContinueType
      <3>10. r.phase = "locking" =>
                 /\ r.call.name = "upload" /\ r.call.u = c.u /\ r.call.p = c.p /\ r.call.of = c.of
                 /\ r.call.files = d.files
        BY <3>3, <3>8, ContinueType
      <3>11. tx' = [tx EXCEPT ![v] = r]
        BY <3>7, <3>8
      <3> QED
        BY <3>3, <3>5, <3>6, <3>9, <3>10, <3>11
    <2> QED
      BY <2>1, <2>2
  <1>4. tx'[v] = r
    BY <1>3, TxTypes
  <1>5. Moves(v)
    <2>1. r.phase # "idle" => LeftOf(c, r.call)
      BY <1>3 DEF LeftOf
    <2> QED
      BY <1>1, <1>2, <1>3, <2>1, LeftMoves
  <1>6. RightNow(v)'
    <2> SUFFICES ASSUME r.phase = "locking"
                 PROVE  RightCall(r.call)'
      BY <1>3, <1>4 DEF RightNow, RightCall
    <2>1. /\ c.u \in Advances
          /\ c.name = "upload" => advance[c.u].status # "absent"
          /\ \A k \in c.files : file[k].status = "absent"
      BY <1>2, <1>3 DEF AtCommit, RightCall, Creating
    <2>2. advance'[c.u].status # "absent"
      <3>1. CASE c.name \in {"update", "upload"}
        BY <1>1, <1>2, <2>1, <3>1 DEF Written, Frame, AtCommit, RightCall
      <3>2. CASE c.name = "register"
        <4>1. advance' = [advance EXCEPT ![c.u] =
                              [status |-> "unpublished", project |-> c.p, text |-> 1]]
          BY <1>1, <3>2 DEF Commit, CommitUpload, RegisterAdvance, WriteAdvance
        <4> QED
          BY <1>2, <2>1, <4>1 DEF AtCommit, TypedRows
      <3> QED
        BY <1>3, <3>1, <3>2
    <2> QED
      BY <1>3, <2>1, <2>2 DEF RightCall, OnItself, OnFiles, Creating
  <1>7. PromiseNow(v)' /\ OrderNow(v)'
    BY <1>3, <1>4 DEF PromiseNow, OrderNow, OwnTables, InOrder
  <1> QED
    BY <1>5, <1>6, <1>7 DEF SoundNow


\* v commits while w is doing something else.
CommitsBeside(v, w) ==
    /\ AdvancesInv
    /\ v \in Workers /\ w \in Workers /\ v # w
    /\ tx[v].phase = "checked"
    /\ Written(tx[v].call)
    /\ tx'[w] = tx[w]

\* A commit needs the lock of its advance, so it never touches the advance of a request
\* that holds it.
LEMMA HeldAdvanceStays ==
    ASSUME NEW v, NEW w, CommitsBeside(v, w), tx[w].phase # "idle",
           tx[w].call.name \notin {"register", "finish_project"},
           Lock("advance", tx[w].call.u) \in tx[w].held
    PROVE  LET u == tx[w].call.u IN
           /\ u \in Advances
           /\ advance'[u] = advance[u] /\ review'[u] = review[u]
           /\ decision'[u] = decision[u] /\ remediation'[u] = remediation[u]
           /\ FilesOf(u, "advance")' = FilesOf(u, "advance")
  <1>1. PICK s \in TxRow : s = tx[v]
    BY TxTypes DEF CommitsBeside
  <1>2. PICK t \in TxRow : t = tx[w]
    BY TxTypes DEF CommitsBeside
  <1> DEFINE c == s.call
             u == t.call.u
  <1>3. /\ AtCommit(s) /\ Frame(c)
        /\ RightCall(t.call)
        /\ Missing(s) = {}
        /\ s.held \cap t.held = {}
    BY <1>1, <1>2, CommitFacts
       DEF CommitsBeside, AdvancesInv, RightCalls, RightNow, PromisesKept, OneHolder, Written
  <1>4. u \in Advances /\ advance[u].status # "absent"
    BY <1>2, <1>3 DEF RightCall
  <1>5. ASSUME c.name \notin {"register", "finish_project"} PROVE c.u # u
    <2>1. Lock("advance", c.u) \in s.held
      BY <1>3, <1>5, PlanHasAdvance DEF Missing
    <2> QED
      BY <1>2, <1>3, <2>1
  <1>6. c.name = "register" => c.u # u
    BY <1>3, <1>4 DEF AtCommit, RightCall
  <1>7. c.u # u \/ c.name = "finish_project"
    BY <1>5, <1>6
  <1>8. /\ advance'[u] = advance[u] /\ review'[u] = review[u]
        /\ decision'[u] = decision[u] /\ remediation'[u] = remediation[u]
    BY <1>3, <1>4, <1>7 DEF Frame
  <1>9. ASSUME NEW k \in Files, file'[k] # file[k]
        PROVE  (file[k].status = "absent" \/ file[k].on # u) /\ file'[k].on # u
    <2>1. c.name # "finish_project"
      BY <1>3, <1>9 DEF Frame, OnFiles
    <2>2. file'[k].on = c.u
      BY <1>3, <1>9 DEF Frame
    <2>3. file[k].status # "absent" => file[k].on = c.u
      BY <1>3, <1>9, <2>2 DEF Frame
    <2> QED
      BY <1>7, <2>1, <2>2, <2>3
  <1>10. FilesOf(u, "advance")' = FilesOf(u, "advance")
    <2>1. t.call.u = tx[w].call.u /\ tx'[w] = tx[w]
      BY <1>2 DEF CommitsBeside
    <2>2. ASSUME NEW k \in Files
          PROVE  (file'[k].status = "kept" /\ file'[k].on = u /\ file'[k].of = "advance")
                     <=> (file[k].status = "kept" /\ file[k].on = u /\ file[k].of = "advance")
      BY <1>9
    <2> QED
      BY <2>1, <2>2 DEF FilesOf
  <1>11. tx'[w].call.u = u /\ tx[w].call.u = u
    BY <1>2 DEF CommitsBeside
  <1> QED
    BY <1>4, <1>8, <1>10, <1>11 DEF FilesOf

LEMMA HeldProjectStays ==
    ASSUME NEW v, NEW w, CommitsBeside(v, w), NEW p \in Projects, Lock("project", p) \in tx[w].held
    PROVE  project'[p] = project[p]
  <1>1. PICK s \in TxRow : s = tx[v]
    BY TxTypes DEF CommitsBeside
  <1>2. /\ Frame(s.call) /\ Missing(s) = {} /\ s.held \cap tx[w].held = {}
    BY <1>1 DEF CommitsBeside, AdvancesInv, PromisesKept, OneHolder, Written
  <1>3. CASE s.call.name = "finish_project"
    <2>1. Lock("project", s.call.p) \in s.held
      BY <1>2, <1>3, PlanHasProject DEF Missing, ProjectOf
    <2> QED
      BY <1>2, <2>1 DEF Frame
  <1>4. CASE s.call.name # "finish_project"
    BY <1>2, <1>4 DEF Frame
  <1> QED
    BY <1>3, <1>4

LEMMA RightBeside ==
    ASSUME NEW v, NEW w, CommitsBeside(v, w)
    PROVE  RightNow(w)'
  <1> SUFFICES ASSUME tx[w].phase # "idle" PROVE RightNow(w)'
    BY DEF RightNow, CommitsBeside
  <1>1. PICK s \in TxRow : s = tx[v]
    BY TxTypes DEF CommitsBeside
  <1>2. PICK t \in TxRow : t = tx[w]
    BY TxTypes DEF CommitsBeside
  <1> DEFINE c == s.call
             d == t.call
  <1>3. /\ Frame(c) /\ AtCommit(s) /\ RightCall(c) /\ RightCall(d) /\ RightNow(w)
        /\ Apart(c, d) /\ d \in Call
    BY <1>1, <1>2, CommitFacts
       DEF CommitsBeside, AdvancesInv, RightCalls, RightNow, NothingTwice, Written, AtCommit,
           TxRow
  <1>4. d.name = "register" => advance'[d.u].status = "absent"
    <2> SUFFICES ASSUME d.name = "register" PROVE advance'[d.u].status = "absent"
      OBVIOUS
    <2>1. d.u \in Advances /\ advance[d.u].status = "absent"
      BY <1>3 DEF RightCall
    <2>2. c.name = "finish_project" \/ c.u # d.u
      BY <1>3, <2>1 DEF RightCall, Apart
    <2> QED
      BY <1>3, <2>1, <2>2 DEF Frame
  <1>5. d.name \notin {"register", "finish_project"} => advance'[d.u].status # "absent"
    BY <1>3 DEF RightCall, Frame
  <1>6. ASSUME d.name \in Creating, NEW k \in d.files PROVE file'[k].status = "absent"
    <2>1. k \in Files /\ file[k].status = "absent"
      BY <1>3, <1>6 DEF RightCall, Call
    <2>2. k \notin c.files \/ c.name \notin OnFiles \cup {"upload"}
      BY <1>3, <1>6, <2>1 DEF Apart, RightCall, Creating
    <2> QED
      BY <1>3, <2>1, <2>2 DEF Frame
  <1>7. ASSUME d.name \in OnFiles, NEW k \in d.files
        PROVE  file'[k].status # "absent" /\ file'[k].on = d.u /\ file'[k].of = d.of
    <2>1. k \in Files /\ file[k].status # "absent" /\ file[k].on = d.u /\ file[k].of = d.of
      BY <1>3, <1>7 DEF RightCall, Call
    <2> QED
      BY <1>3, <2>1 DEF Frame
  <1>8. RightCall(d)'
    BY <1>3, <1>4, <1>5, <1>6, <1>7 DEF RightCall
  <1>9. tx'[w].call = d /\ tx'[w].phase = tx[w].phase
    BY <1>2 DEF CommitsBeside
  <1> QED
    BY <1>2, <1>3, <1>8, <1>9 DEF RightNow, RightCall

\* The plan of a request changes only by the project of its advance.
LEMMA PlanStays ==
    ASSUME NEW w, tx'[w] = tx[w], tx[w] \in TxRow,
           \/ tx[w].call.name \in {"register", "finish_project"}
           \/ advance'[tx[w].call.u].project = advance[tx[w].call.u].project
    PROVE  LockPlan(tx[w])' = LockPlan(tx[w])
  <1>1. CASE tx[w].call.name \in {"register", "finish_project"}
    BY <1>1 DEF LockPlan, Lock
  <1>2. CASE advance'[tx[w].call.u].project = advance[tx[w].call.u].project
    BY <1>2 DEF LockPlan, From, Joined, Alone, ReviewLocks, FileLocks, Lock
  <1> QED
    BY <1>1, <1>2

LEMMA PlanGrows ==
    ASSUME NEW w, tx'[w] = tx[w], tx[w] \in TxRow, NEW m \in LockPlan(tx[w])'
    PROVE  m \in LockPlan(tx[w]) \/ m = Lock("project", advance'[tx[w].call.u].project)
  <1>1. tx[w].call.name \in Service
    BY DEF TxRow, Call
  <1>2. \A table \in Table : From(table, tx[w].call.u)' \subseteq
            From(table, tx[w].call.u) \cup {Lock("project", advance'[tx[w].call.u].project)}
    BY DEF From, Joined, Lock
  <1> QED
    BY <1>1, <1>2 DEF Service, Table, LockPlan, Alone, ReviewLocks, FileLocks, Lock


LEMMA PromiseBeside ==
    ASSUME NEW v, NEW w, CommitsBeside(v, w)
    PROVE  PromiseNow(w)'
  <1>1. PICK s \in TxRow : s = tx[v]
    BY TxTypes DEF CommitsBeside
  <1>2. PICK t \in TxRow : t = tx[w] /\ t = tx'[w]
    BY TxTypes DEF CommitsBeside
  <1> DEFINE c == s.call
             d == t.call
             u == d.u
  <1> SUFFICES ASSUME t.phase = "checked" PROVE Missing(tx[w])' = {} /\ Promise(tx[w])'
    BY <1>2 DEF PromiseNow
  <1>3. /\ Frame(c) /\ AtCommit(s) /\ AtCommit(t)
        /\ Missing(s) = {} /\ Missing(t) = {} /\ s.held \cap t.held = {}
    BY <1>1, <1>2, CommitFacts DEF CommitsBeside, AdvancesInv, PromisesKept, OneHolder, Written
  <1>4. LockPlan(t) \subseteq t.held /\ LockPlan(s) \subseteq s.held
    BY <1>3 DEF Missing
  <1>5. d.name \in Service
    BY DEF TxRow, Call
  <1>6. CASE d.name \in {"register", "finish_project"}
    <2>1. d.p \in Projects
      BY <1>3, <1>6 DEF AtCommit, RightCall
    <2>2. Lock("project", d.p) \in tx[w].held
      BY <1>2, <1>4, <1>6, PlanHasProject DEF ProjectOf
    <2>3. project'[d.p] = project[d.p]
      BY <2>1, <2>2, HeldProjectStays
    <2>4. LockPlan(tx[w])' = LockPlan(tx[w])
      BY <1>2, <1>6, PlanStays
    <2>5. Missing(tx[w])' = {}
      BY <1>2, <1>3, <2>4 DEF Missing
    <2>6. Open(d.p)
      BY <1>3, <1>6, Promised DEF AtCommit
    <2>7. Promise(tx[w])'
      BY <1>2, <1>6, <2>3, <2>6 DEF Promise, Allowed, Open
    <2> QED
      BY <2>5, <2>7
  <1>7. CASE d.name \notin {"register", "finish_project"}
    <2>1. Lock("advance", u) \in tx[w].held
      BY <1>2, <1>4, <1>7, PlanHasAdvance
    <2>2. /\ u \in Advances
          /\ advance'[u] = advance[u] /\ review'[u] = review[u]
          /\ decision'[u] = decision[u] /\ remediation'[u] = remediation[u]
          /\ FilesOf(tx[w].call.u, "advance")' = FilesOf(u, "advance")
      <3>1. /\ tx[w].phase # "idle" /\ tx[w].call = d
            /\ tx[w].call.name \notin {"register", "finish_project"}
            /\ Lock("advance", tx[w].call.u) \in tx[w].held
        BY <1>2, <1>7, <2>1
      <3>2. /\ tx[w].call.u \in Advances
            /\ advance'[tx[w].call.u] = advance[tx[w].call.u]
            /\ review'[tx[w].call.u] = review[tx[w].call.u]
            /\ decision'[tx[w].call.u] = decision[tx[w].call.u]
            /\ remediation'[tx[w].call.u] = remediation[tx[w].call.u]
            /\ FilesOf(tx[w].call.u, "advance")' = FilesOf(tx[w].call.u, "advance")
        BY <3>1, HeldAdvanceStays
      <3> QED
        BY <3>1, <3>2
    <2>3. LockPlan(tx[w])' = LockPlan(tx[w])
      BY <1>2, <2>2, PlanStays
    <2>4. Missing(tx[w])' = {}
      BY <1>2, <1>3, <2>3 DEF Missing
    <2>5. advance[u].status # "absent" => advance[u].project \in Projects
      BY <1>3, <2>2 DEF AtCommit, Belongings
    <2>6. advance[u].status # "absent"
      BY <1>3, <1>7 DEF AtCommit, RightCall
    <2>7. ASSUME WithProject(t) PROVE project'[advance[u].project] = project[advance[u].project]
      <3>1. ProjectOf(t) = advance[u].project
        BY <2>7 DEF ProjectOf, WithProject
      <3>2. Lock("project", advance[u].project) \in tx[w].held
        BY <1>2, <1>4, <2>7, <3>1, PlanHasProject
      <3>3. PICK p \in Projects : p = advance[u].project
        BY <2>5, <2>6
      <3> QED
        BY <3>2, <3>3, HeldProjectStays
    <2>8. d.name = "update" => Open(d.p) /\ project'[d.p] = project[d.p]
      <3> SUFFICES ASSUME d.name = "update" PROVE Open(d.p) /\ project'[d.p] = project[d.p]
        OBVIOUS
      <3>1. d.p \in Projects /\ Lock("project", d.p) \in tx[w].held
        BY <1>2, <1>3, <1>4, PlanHasProject DEF AtCommit, RightCall, ProjectOf
      <3>2. Open(d.p)
        BY <1>3 DEF AtCommit, Promise
      <3> QED
        BY <3>1, <3>2, HeldProjectStays
    <2>9. ASSUME d.name = "set_public", NEW k \in d.files PROVE file'[k] = file[k]
      <3>1. /\ k \in Files /\ file[k].status # "absent"
            /\ Lock("file", k) \in t.held
        BY <1>3, <1>4, <2>9, PlanHasFiles DEF AtCommit, RightCall, OnFiles, Call
      <3>2. c.name \in OnFiles => k \notin c.files
        BY <1>3, <1>4, <3>1, PlanHasFiles
      <3>3. c.name = "upload" => k \notin c.files
        BY <1>3, <3>1 DEF AtCommit, RightCall, Creating
      <3> QED
        BY <1>3, <3>1, <3>2, <3>3 DEF Frame
    <2>10. Promise(t)
      BY <1>3 DEF AtCommit
    <2>11. CASE d.name = "update"
      BY <1>2, <2>2, <2>4, <2>8, <2>10, <2>11 DEF Promise, Editable, Open
    <2>12. CASE d.name \in {"upload", "delete_file"} /\ d.of = "advance"
      BY <1>2, <2>2, <2>4, <2>10, <2>12 DEF Promise, Editable
    <2>13. CASE d.name \in {"upload", "delete_file"} /\ d.of # "advance"
      <3>1. OpenFor(u) /\ remediation[u].status = "draft"
        BY <2>10, <2>13 DEF Promise
      <3>2. d.of = "remediation"
        BY <2>13 DEF TxRow, Call, Owner
      <3>3. project'[advance[u].project] = project[advance[u].project]
        BY <2>7, <2>13, <3>2 DEF WithProject
      <3> QED
        BY <1>2, <2>2, <2>4, <2>13, <3>1, <3>3 DEF Promise, OpenFor, Exists, Open
    <2>14. CASE d.name = "set_public"
      <3>1. OpenFor(u) /\ \A k \in d.files : file[k].status = "kept"
        BY <2>10, <2>14, Promised
      <3>2. project'[advance[u].project] = project[advance[u].project]
        BY <2>7, <2>14 DEF WithProject
      <3>3. \A k \in d.files : file'[k].status = "kept"
        BY <2>9, <2>14, <3>1
      <3> QED
        BY <1>2, <2>2, <2>4, <2>14, <3>1, <3>2, <3>3
           DEF Promise, Allowed, OpenFor, Exists, Open
    <2>15. CASE d.name = "delete_advance"
      <3>1. Exists(u) /\ ~review[u] /\ FilesOf(u, "advance") \subseteq d.files
        BY <2>10, <2>15, Promised
      <3>2. FilesOf(tx[w].call.u, "advance")' \subseteq tx'[w].call.files
        BY <1>2, <2>2, <3>1
      <3>3. Deletable(tx[w].call.u)'
        BY <1>2, <2>2, <3>1 DEF Deletable, Exists
      <3>4. Allowed(tx[w])'
        BY <1>2, <2>15, <3>2, <3>3 DEF Allowed
      <3> QED
        BY <1>2, <2>4, <2>15, <3>4 DEF Promise
    <2>16. CASE d.name \in {"publish", "review", "decide", "remediate", "edit_remediation",
                            "submit", "resolve"}
      <3>1. project'[advance[u].project] = project[advance[u].project]
        BY <2>7, <2>16 DEF WithProject
      <3>2. Allowed(t)
        BY <2>10, <2>16 DEF Promise
      <3>3. OpenFor(tx[w].call.u)' = OpenFor(u)
        BY <1>2, <2>2, <3>1 DEF OpenFor, Exists, Open
      <3>4. Allowed(tx[w])'
        BY <1>2, <2>2, <2>16, <3>2, <3>3 DEF Allowed, Editable, ReviewAllowed, EditAllowed
      <3> QED
        BY <1>2, <2>4, <2>16, <3>4 DEF Promise
    <2> QED
      BY <1>5, <1>7, <2>4, <2>11, <2>12, <2>13, <2>14, <2>15, <2>16 DEF Service
  <1> QED
    BY <1>6, <1>7

LEMMA OrderBeside ==
    ASSUME NEW v, NEW w, CommitsBeside(v, w)
    PROVE  OrderNow(w)'
  <1>1. PICK t \in TxRow : t = tx[w] /\ t = tx'[w]
    BY TxTypes DEF CommitsBeside
  <1>2. OwnTables(t) /\ (t.phase = "locking" => InOrder(t) /\ RightCall(t.call))
    BY <1>1 DEF CommitsBeside, AdvancesInv, LocksInOrder, RightCalls, RightNow
  <1> SUFFICES ASSUME t.phase = "locking" PROVE InOrder(tx[w])'
    BY <1>1, <1>2 DEF OrderNow, OwnTables
  <1>3. CASE LockPlan(tx[w])' = LockPlan(tx[w])
    BY <1>1, <1>2, <1>3 DEF InOrder, Missing
  <1>4. CASE LockPlan(tx[w])' # LockPlan(tx[w])
    <2>1. /\ t.call.name \notin {"register", "finish_project"}
          /\ advance'[t.call.u].project # advance[t.call.u].project
      BY <1>1, <1>4, PlanStays
    <2>2. Lock("advance", t.call.u) \notin t.held
      <3>1. ASSUME Lock("advance", tx[w].call.u) \in tx[w].held
            PROVE  advance'[tx[w].call.u] = advance[tx[w].call.u]
        <4>1. tx[w].phase # "idle" /\ tx[w].call.name \notin {"register", "finish_project"}
          BY <1>1, <2>1
        <4> QED
          BY ONLY <3>1, <4>1, CommitsBeside(v, w), HeldAdvanceStays
      <3> QED
        BY ONLY <1>1, <2>1, <3>1
    <2>3. Lock("advance", t.call.u) \in Missing(t)
      <3>1. Lock("advance", t.call.u) \in LockPlan(t)
        BY ONLY t \in TxRow, <2>1, PlanHasAdvance
      <3> QED
        BY ONLY <2>2, <3>1 DEF Missing
    <2>4. ASSUME NEW h \in t.held, NEW m \in Missing(tx[w])'
          PROVE  \/ Rank(t.call.name, h[1]) < Rank(t.call.name, m[1])
                 \/ t.call.name = "delete_advance" /\ h[1] = "file" /\ m[1] = "file"
      <3>1. m \in Missing(t) \/ m = Lock("project", advance'[t.call.u].project)
        BY <1>1, <2>4, PlanGrows DEF Missing
      <3>2. CASE m \in Missing(t)
        BY <1>2, <3>2 DEF InOrder
      <3>3. CASE m = Lock("project", advance'[t.call.u].project)
        <4>1. Rank(t.call.name, h[1]) < Rank(t.call.name, "advance")
          BY <1>2, <2>3 DEF InOrder, Lock
        <4>2. h[1] \in Table
          BY <1>2 DEF OwnTables
        <4> QED
          BY <3>3, <4>1, <4>2 DEF Lock, Rank, Table
      <3> QED
        BY <3>1, <3>2, <3>3
    <2> QED
      BY <1>1, <2>4 DEF InOrder
  <1> QED
    BY <1>3, <1>4

-------------------------------------------------------------------------------
(* The invariant.                                                          *)

LEMMA AdvancesInit == WorkInit => AdvancesInv
  <1> SUFFICES ASSUME WorkInit PROVE AdvancesInv
    OBVIOUS
  <1> USE DEF WorkInit, Init
  <1>1. \A w \in Workers : tx[w] = Idle
    OBVIOUS
  <1>2. TypeOK
    <2>1. tx \in [Workers -> TxRow]
      BY IdleType
    <2>2. advance \in [Advances -> AdvanceRow] /\ remediation \in [Advances -> RemediationRow]
      BY DEF AdvanceRow, AdvanceStatus, RemediationRow, RemediationStatus, Text
    <2>3. file \in [Files -> FileRow]
      BY DEF FileRow, Owner
    <2> QED
      BY <2>1, <2>2, <2>3 DEF TypeOK
  <1>3. RightCalls /\ NothingTwice /\ OneHolder /\ PromisesKept /\ LocksInOrder
    BY <1>1, IdleType
       DEF RightCalls, RightNow, NothingTwice, OneHolder, PromisesKept, LocksInOrder, OwnTables
  <1>4. Belongings /\ DocumentsStandOnEachOther
    BY DEF Belongings, DocumentsStandOnEachOther
  <1> QED
    BY <1>2, <1>3, <1>4 DEF AdvancesInv

\* Every step keeps it, and is a step of the action properties.
LEMMA WorkerKeeps ==
    ASSUME AdvancesInv, NEW v \in Workers, WorkerStep(v)
    PROVE  AdvancesInv' /\ PublishedStep /\ ClosedStep
  <1>1. CASE Commit(v) \/ CommitUpload(v)
    <2>1. Written(tx[v].call)
      BY <1>1, CommitWrites, UploadWrites
    <2>2. Moves(v) /\ SoundNow(v)'
      BY <1>1, <2>1, CommitOwn
    <2>3. OneHolder' /\ NothingTwice'
      BY <2>2, MovesKeep
    <2>4. ASSUME NEW w \in Workers PROVE SoundNow(w)'
      <3>1. CASE w = v
        BY <2>2, <3>1
      <3>2. CASE w # v
        <4>1. CommitsBeside(v, w)
          BY <1>1, <2>1, <2>2, <3>2 DEF CommitsBeside, Moves, Commit, CommitUpload
        <4> QED
          BY <4>1, RightBeside, PromiseBeside, OrderBeside DEF SoundNow
      <3> QED
        BY <3>1, <3>2
    <2>5. TypeOK' /\ Belongings' /\ DocumentsStandOnEachOther'
      BY <2>1, <2>2 DEF Written, TypedRows, TypeOK, Moves
    <2> QED
      BY <2>1, <2>3, <2>4, <2>5
         DEF Written, AdvancesInv, SoundNow, RightCalls, PromisesKept, PromiseNow, LocksInOrder,
             OrderNow
  <1>2. CASE ~(Commit(v) \/ CommitUpload(v))
    <2>1. UNCHANGED rows /\ Moves(v) /\ SoundNow(v)'
      BY <1>2, BeginStep, ConfirmStep, LockStep, CheckStep, GateStep DEF WorkerStep
    <2>2. OneHolder' /\ NothingTwice'
      BY <2>1, MovesKeep
    <2>3. ASSUME NEW w \in Workers PROVE SoundNow(w)'
      <3>1. SoundNow(w)
        BY InvSound
      <3>2. w # v => tx'[w] = tx[w]
        BY <2>1 DEF Moves
      <3> QED
        BY <2>1, <3>1, <3>2, SameRows
    <2>4. /\ project' = project /\ advance' = advance /\ review' = review /\ decision' = decision
          /\ remediation' = remediation /\ file' = file
      BY <2>1 DEF rows
    <2>5. TypeOK' /\ Belongings' /\ DocumentsStandOnEachOther'
      BY <2>1, <2>4 DEF AdvancesInv, TypeOK, Moves, Belongings, DocumentsStandOnEachOther, Exists
    <2>6. PublishedStep /\ ClosedStep
      BY <2>4 DEF PublishedStep, ClosedStep, FilesOf
    <2> QED
      BY <2>2, <2>3, <2>5, <2>6
         DEF AdvancesInv, SoundNow, RightCalls, PromisesKept, PromiseNow, LocksInOrder, OrderNow
  <1> QED
    BY <1>1, <1>2


LEMMA WorkKeeps ==
    ASSUME AdvancesInv, [WorkNext]_allVars
    PROVE  /\ AdvancesInv'
           /\ [PublishedStep]_vars /\ [ClosedStep]_vars
  <1>1. CASE Next
    <2>1. PICK v \in Workers : WorkerStep(v)
      BY <1>1 DEF Next
    <2> QED
      BY <2>1, WorkerKeeps
  <1>2. CASE UNCHANGED vars
    <2>1. UNCHANGED rows /\ tx' = tx
      BY <1>2 DEF vars, rows
    <2>2. \A w \in Workers : SoundNow(w)'
      BY <2>1, InvSound, SameRows
    <2>3. TypeOK' /\ NothingTwice' /\ OneHolder' /\ Belongings' /\ DocumentsStandOnEachOther'
      BY <2>1 DEF rows, AdvancesInv, TypeOK, NothingTwice, OneHolder, Belongings,
         DocumentsStandOnEachOther, Exists
    <2> QED
      BY <1>2, <2>2, <2>3
         DEF AdvancesInv, SoundNow, RightCalls, PromisesKept, PromiseNow, LocksInOrder, OrderNow
  <1>3. MilestoneWork => UNCHANGED vars
    BY DEF MilestoneWork, MilestoneStep, CreateMilestone, CompleteMilestone, ReopenMilestone,
       DeleteMilestone, MoveMilestone, vars
  <1> QED
    BY <1>1, <1>2, <1>3 DEF WorkNext, allVars

LEMMA AdvancesAlways == WorkSpec => []AdvancesInv
  BY AdvancesInit, WorkKeeps, PTL DEF WorkSpec

\* Every value of the tables and of the requests keeps its type.
THEOREM WorkTypeCorrect == WorkSpec => []WorkTypeOK
  <1>1. AdvancesInv /\ MilestonesInv => WorkTypeOK
    BY DEF AdvancesInv, MilestonesInv, WorkTypeOK
  <1> QED
    BY <1>1, AdvancesAlways, AlwaysNumbered, PTL

\* A review, a decision, a remediation and an attachment always have what they stand on,
\* for any number of requests at once: each service commits under the lock of the row that
\* its check read (create_project_update_review, delete_project_update, add_..._attachment).
THEOREM DocumentsStand == WorkSpec => []DocumentsStandOnEachOther
  <1>1. AdvancesInv => DocumentsStandOnEachOther
    BY DEF AdvancesInv
  <1> QED
    BY <1>1, AdvancesAlways, PTL

\* Neither the text nor the files of a published advance change any more, nor those of a
\* submitted remediation, whatever had started before (ensure_project_update_is_editable,
\* _require_draft_remediation, under the locks of each transaction).
THEOREM PublishedStays == WorkSpec => PublishedStaysAsItWas
  <1>1. AdvancesInv /\ [WorkNext]_allVars => [PublishedStep]_vars
    BY WorkKeeps
  <1> QED
    BY <1>1, AdvancesAlways, PTL DEF WorkSpec, PublishedStaysAsItWas, PublishedStep

\* Nothing of a closed project is published, reviewed, decided or remediated: the services
\* that do so hold the project's row, which finish_project must have.
THEOREM ClosedStaysFrozen == WorkSpec => ClosedProjectIsFrozen
  <1>1. AdvancesInv /\ [WorkNext]_allVars => [ClosedStep]_vars
    BY WorkKeeps
  <1> QED
    BY <1>1, AdvancesAlways, PTL DEF WorkSpec, ClosedProjectIsFrozen, ClosedStep

(***************************************************************************)
(* Deadlocks.  Requests without a known pair among them lock the tables in *)
(* one order, so in a circle of them every awaited table has a later one.  *)
(***************************************************************************)

Circle(W) == W \in SUBSET Workers /\ \A w \in W : \E v \in W : WaitsFor(w, v)

\* The one order of the requests of W: Rank, as a submission or a deletion of a file has it
\* where there is one.
RankIn(W, table) ==
    CASE table = "decision"    -> IF \E w \in W : tx[w].call.name = "submit" THEN 1 ELSE 3
      [] table = "file"        -> IF \E w \in W : tx[w].call.name = "delete_file" THEN 7 ELSE 0
      [] table = "remediation" -> 2
      [] table = "review"      -> 4
      [] table = "advance"     -> 5
      [] table = "project"     -> 6

\* The tables that requests of W wait for within W come before the k-th.
AwaitedBelow(W, k) ==
    \A w, v \in W : \A l \in NextLocks(tx[w]) \cap tx[v].held : RankIn(W, l[1]) < k

LEMMA RankInTables ==
    ASSUME NEW W, NEW table \in Table
    PROVE  RankIn(W, table) \in 0..7 /\ (RankIn(W, table) = 0 => table = "file")
  BY DEF RankIn, Table

\* What a request of W holds comes before what it waits for, but for the files of an advance
\* that is deleted.
LEMMA OneOrder ==
    ASSUME AdvancesInv, NEW W \in SUBSET Workers, ~HasPair(W),
           NEW v \in W, tx[v].phase = "locking",
           NEW h \in tx[v].held, NEW m \in NextLocks(tx[v])
    PROVE  /\ h[1] \in Table /\ m[1] \in Table
           /\ \/ RankIn(W, h[1]) < RankIn(W, m[1])
              \/ /\ tx[v].call.name = "delete_advance" /\ h[1] = "file" /\ m[1] = "file"
                 /\ RankIn(W, "file") = 0
  <1>1. PICK n : n = tx[v].call.name
    OBVIOUS
  <1>2. /\ h[1] \in Table /\ m[1] \in Table
        /\ h[1] = "file" \/ m[1] = "file" => n \in OnFiles
        /\ h[1] = "remediation" \/ m[1] = "remediation" => n \in OnResponse
    <2>1. m \in LockPlan(tx[v]) /\ tx[v] \in TxRow
      BY TxTypes DEF NextLocks, Missing
    <2>2. /\ m[1] \in Table
          /\ m[1] = "file" => tx[v].call.name \in OnFiles
          /\ m[1] = "remediation" => tx[v].call.name \in OnResponse
      BY ONLY <2>1, LockInTables
    <2>3. OwnTables(tx[v])
      BY DEF AdvancesInv, LocksInOrder
    <2> QED
      BY <1>1, <2>2, <2>3 DEF OwnTables
  <1>3. \/ Rank(n, h[1]) < Rank(n, m[1])
        \/ n = "delete_advance" /\ h[1] = "file" /\ m[1] = "file"
    <2>1. InOrder(tx[v])
      BY DEF AdvancesInv, LocksInOrder
    <2> QED
      BY <1>1, <2>1 DEF InOrder, NextLocks
  <1>4. ASSUME NEW x \in W, {n, tx[x].call.name} \in DeadlockPairs, tx[x].call.name # n
        PROVE  FALSE
    BY <1>1, <1>4 DEF HasPair
  <1>5. n \in {"set_public", "delete_advance"} =>
            ~ \E x \in W : tx[x].call.name = "delete_file"
    BY <1>4 DEF DeadlockPairs
  <1>6. n \in {"edit_remediation", "resolve", "upload", "delete_file"} =>
            ~ \E x \in W : tx[x].call.name = "submit"
    BY <1>4 DEF DeadlockPairs
  <1>7. /\ n = "submit" => \E x \in W : tx[x].call.name = "submit"
        /\ n = "delete_file" => \E x \in W : tx[x].call.name = "delete_file"
    BY <1>1
  <1>8. PICK submits \in BOOLEAN : submits <=> \E x \in W : tx[x].call.name = "submit"
    OBVIOUS
  <1>9. PICK deletes \in BOOLEAN : deletes <=> \E x \in W : tx[x].call.name = "delete_file"
    OBVIOUS
  <1>10. \A table \in Table :
             RankIn(W, table) = CASE table = "decision"    -> IF submits THEN 1 ELSE 3
                                  [] table = "file"        -> IF deletes THEN 7 ELSE 0
                                  [] table = "remediation" -> 2
                                  [] table = "review"      -> 4
                                  [] table = "advance"     -> 5
                                  [] table = "project"     -> 6
    BY <1>8, <1>9 DEF RankIn
  <1>11. CASE n = "delete_advance" /\ h[1] = "file" /\ m[1] = "file"
    BY <1>1, <1>2, <1>5, <1>9, <1>10, <1>11
  <1>12. CASE Rank(n, h[1]) < Rank(n, m[1])
    <2>1. /\ n \in {"set_public", "delete_advance"} => ~deletes
          /\ n \in {"edit_remediation", "resolve", "upload", "delete_file"} => ~submits
          /\ n = "submit" => submits
          /\ n = "delete_file" => deletes
      BY ONLY <1>5, <1>6, <1>7, <1>8, <1>9
    <2>2. RankIn(W, h[1]) < RankIn(W, m[1])
      BY ONLY <1>2, <1>10, <1>12, <2>1 DEF Rank, Table, OnFiles, OnResponse
    <2> QED
      BY <1>2, <2>2
  <1> QED
    BY <1>3, <1>11, <1>12

\* The table that comes last among the awaited ones would be held by a request that waits
\* for a later one.
LEMMA LastIsNotAwaited ==
    ASSUME AdvancesInv, NEW W, Circle(W), ~HasPair(W), NEW k \in 1..7, AwaitedBelow(W, k + 1)
    PROVE  AwaitedBelow(W, k)
  <1> SUFFICES ASSUME NEW w \in W, NEW v \in W, NEW l \in NextLocks(tx[w]) \cap tx[v].held,
                      ~(RankIn(W, l[1]) < k)
               PROVE  FALSE
    BY DEF AwaitedBelow
  <1>1. PICK x \in W : WaitsFor(v, x)
    BY DEF Circle
  <1>2. PICK m \in NextLocks(tx[v]) : m \in tx[x].held /\ tx[v].phase = "locking"
    BY <1>1 DEF WaitsFor
  <1>3. W \in SUBSET Workers
    BY DEF Circle
  <1>4. /\ l[1] \in Table /\ m[1] \in Table
        /\ \/ RankIn(W, l[1]) < RankIn(W, m[1])
           \/ l[1] = "file" /\ RankIn(W, "file") = 0
    BY ONLY AdvancesInv, <1>2, <1>3, ~HasPair(W), v \in W, l \in tx[v].held, OneOrder
  <1>5. RankIn(W, l[1]) \in 0..7 /\ RankIn(W, m[1]) \in 0..7
    BY ONLY <1>4, RankInTables
  <1>6. RankIn(W, m[1]) < k + 1
    BY <1>2 DEF AwaitedBelow
  <1> QED
    BY ONLY <1>4, <1>5, <1>6, k \in 1..7, ~(RankIn(W, l[1]) < k)

LEMMA NoCircle ==
    ASSUME AdvancesInv, NEW W, W # {}, Circle(W), ~HasPair(W)
    PROVE  FALSE
  <1>1. W \in SUBSET Workers
    BY DEF Circle
  <1>2. ASSUME NEW w \in W, NEW v \in W, WaitsFor(w, v)
        PROVE  \E m \in NextLocks(tx[w]) : m \in tx[v].held /\ tx[w].phase = "locking"
    BY <1>2 DEF WaitsFor
  <1>3. AwaitedBelow(W, 8)
    <2> SUFFICES ASSUME NEW w \in W, NEW v \in W, NEW l \in NextLocks(tx[w]) \cap tx[v].held
                 PROVE  RankIn(W, l[1]) < 8
      BY DEF AwaitedBelow
    <2>1. l[1] \in Table
      BY <1>1, TxTypes, LockInTables DEF NextLocks, Missing
    <2>2. RankIn(W, l[1]) \in 0..7
      BY ONLY <2>1, RankInTables
    <2> QED
      BY ONLY <2>2
  <1>4. AwaitedBelow(W, 1)
    <2>1. \A k \in 1..7 : AwaitedBelow(W, k + 1) => AwaitedBelow(W, k)
      BY ONLY AdvancesInv, Circle(W), ~HasPair(W), LastIsNotAwaited
    <2>2. /\ AwaitedBelow(W, 7 + 1) => AwaitedBelow(W, 7)
          /\ AwaitedBelow(W, 6 + 1) => AwaitedBelow(W, 6)
          /\ AwaitedBelow(W, 5 + 1) => AwaitedBelow(W, 5)
          /\ AwaitedBelow(W, 4 + 1) => AwaitedBelow(W, 4)
          /\ AwaitedBelow(W, 3 + 1) => AwaitedBelow(W, 3)
          /\ AwaitedBelow(W, 2 + 1) => AwaitedBelow(W, 2)
          /\ AwaitedBelow(W, 1 + 1) => AwaitedBelow(W, 1)
      BY ONLY <2>1
    <2>3. 7 + 1 = 8 /\ 6 + 1 = 7 /\ 5 + 1 = 6 /\ 4 + 1 = 5 /\ 3 + 1 = 4 /\ 2 + 1 = 3 /\ 1 + 1 = 2
      OBVIOUS
    <2> QED
      BY ONLY <1>3, <2>2, <2>3
  <1>5. ASSUME NEW w \in W, NEW v \in W, NEW l \in NextLocks(tx[w]), l \in tx[v].held
        PROVE  \E x \in W : \E m \in NextLocks(tx[v]) :
                   /\ m \in tx[x].held /\ m \notin tx[v].held
                   /\ tx[v].call.name = "delete_advance"
    <2>1. PICK x \in W : WaitsFor(v, x)
      BY DEF Circle
    <2>2. PICK m \in NextLocks(tx[v]) : m \in tx[x].held /\ tx[v].phase = "locking"
      BY ONLY <1>2, <2>1, v \in W, x \in W
    <2>3. /\ l[1] \in Table /\ m[1] \in Table
          /\ \/ RankIn(W, l[1]) < RankIn(W, m[1])
             \/ tx[v].call.name = "delete_advance"
      BY ONLY AdvancesInv, <1>1, <2>2, ~HasPair(W), v \in W, <1>5, OneOrder
    <2>4. RankIn(W, l[1]) \in 0..7 /\ RankIn(W, m[1]) \in 0..7
      BY ONLY <2>3, RankInTables
    <2>5. RankIn(W, m[1]) < 1
      BY ONLY <1>4, <2>2, v \in W, x \in W DEF AwaitedBelow
    <2>6. m \notin tx[v].held
      BY <2>2 DEF NextLocks, Missing
    <2> QED
      BY ONLY <2>2, <2>3, <2>4, <2>5, <2>6, x \in W
  <1>6. PICK w \in W, v \in W : \E l \in NextLocks(tx[w]) : l \in tx[v].held
    BY <1>2 DEF Circle
  <1>7. PICK x \in W, m \in NextLocks(tx[v]) :
            /\ m \in tx[x].held /\ m \notin tx[v].held
            /\ tx[v].call.name = "delete_advance"
    BY ONLY <1>5, <1>6
  <1>8. tx[x].call.name = "delete_advance" /\ x # v
    BY ONLY <1>5, <1>7, v \in W, x \in W
  <1> QED
    BY <1>7, <1>8 DEF HasPair, DeadlockPairs

\* Requests wait for each other in a circle only if it has one of the pairs of
\* DeadlocksAreKnown: all others take the tables in one order (the select_for_update calls
\* of the services), however many they are.
THEOREM DeadlocksKnown == WorkSpec => []DeadlocksAreKnown
  <1>1. AdvancesInv => DeadlocksAreKnown
    <2> SUFFICES ASSUME AdvancesInv, NEW W \in SUBSET Workers, W # {},
                        \A w \in W : \E v \in W : WaitsFor(w, v)
                 PROVE  HasPair(W)
      BY DEF DeadlocksAreKnown
    <2>1. Circle(W)
      BY DEF Circle
    <2> QED
      BY ONLY AdvancesInv, W # {}, <2>1, NoCircle
  <1> QED
    BY <1>1, AdvancesAlways, PTL

==============================================================================
