------------------------ MODULE ReconstructionProofs ------------------------
(***************************************************************************)
(* The timeline rebuilt from snapshots agrees with the probe's shadow, its *)
(* rows are the instructions that left X, and a trace without gaps gives   *)
(* back every write.                                                       *)
(***************************************************************************)
EXTENDS Recording, FiniteSetTheorems, TLAPS

Row == [pc : Pc, done : BOOLEAN, inX : SUBSET Nat, inM : SUBSET Nat]

(***************************************************************************)
(* Why no warning is possible: after each snapshot `current` is the row of *)
(* the instruction in X, `prev` is what the machine is about to do, and    *)
(* inM is the row of the instruction the shadow names.                     *)
(***************************************************************************)
Follows(u, s) ==
  /\ u.rows \in Seq(Row)
  /\ u.current \in 0..Len(u.rows)
  /\ u.inM \in 0..Len(u.rows)
  /\ u.prev = [stall |-> s.m.stall, issue |-> s.x.issue, owner |-> u.current]
  /\ s.x.valid <=> u.current # NoRow
  /\ s.x.valid => u.rows[u.current].pc = s.x.pc
  /\ s.m.valid <=> u.inM # NoRow
  /\ s.m.valid => u.rows[u.inM].pc = s.m.pc
  /\ u.warnings = {}

InStep ==
  /\ x \in StageX /\ m \in StageM /\ cycles \in Nat /\ shadow.valid \in BOOLEAN
  /\ Follows(timeline, Snapshot)

\* The rows after a pass: the old ones, their addresses unchanged, and perhaps
\* one more.
LEMMA TouchedRows ==
  ASSUME NEW t, t.rows \in Seq(Row), NEW s, s.cycle \in Nat, s.x.pc \in Pc,
         s.x.issue \in BOOLEAN
  PROVE  /\ Touched(t, s) \in Seq(Row)
         /\ Len(Touched(t, s)) = IF StartsRow(t, s) THEN Len(t.rows) + 1 ELSE Len(t.rows)
         /\ \A r \in 1..Len(t.rows) : Touched(t, s)[r].pc = t.rows[r].pc
         /\ StartsRow(t, s) => Touched(t, s)[Len(t.rows) + 1].pc = s.x.pc
<1> DEFINE R == Rows(t, s)
<1>1. NewRow(s.x.pc) \in Row /\ NewRow(s.x.pc).pc = s.x.pc
  BY DEF NewRow, Row
<1>2. /\ R \in Seq(Row)
      /\ Len(R) = IF StartsRow(t, s) THEN Len(t.rows) + 1 ELSE Len(t.rows)
      /\ \A r \in 1..Len(t.rows) : R[r] = t.rows[r]
      /\ StartsRow(t, s) => R[Len(t.rows) + 1] = NewRow(s.x.pc)
  BY <1>1 DEF Rows
<1> HIDE DEF R
<1>3. \A r \in 1..Len(R) :
        /\ Touched(t, s)[r] \in Row
        /\ Touched(t, s)[r].pc = R[r].pc
  <2> SUFFICES ASSUME NEW r \in 1..Len(R)
               PROVE  Touched(t, s)[r] \in Row /\ Touched(t, s)[r].pc = R[r].pc
    OBVIOUS
  <2>1. R[r] \in Row
    BY <1>2
  <2>2. Touched(t, s)[r] =
          [pc   |-> R[r].pc,
           done |-> R[r].done \/ (r = Owner(t, s) /\ s.x.issue),
           inX  |-> IF r = Owner(t, s) THEN R[r].inX \cup {s.cycle} ELSE R[r].inX,
           inM  |-> IF r = InM(t) THEN R[r].inM \cup {s.cycle} ELSE R[r].inM]
    BY DEF Touched, R
  <2> QED
    BY <2>1, <2>2 DEF Row
<1>4. Touched(t, s) \in Seq(Row) /\ Len(Touched(t, s)) = Len(R)
  <2>1. Touched(t, s) = [r \in 1..Len(R) |-> Touched(t, s)[r]]
    BY DEF Touched, R
  <2>2. Len(R) \in Nat
    BY <1>2
  <2> QED
    BY <1>3, <2>1, <2>2
<1>5. Len(t.rows) \in Nat /\ 1..Len(t.rows) \subseteq 1..Len(R)
  BY <1>2
<1> QED
  BY <1>1, <1>2, <1>3, <1>4, <1>5

\* One pass over a snapshot keeps the owner of X and the holder of M right,
\* given that M's content agrees with what the loop expects there.
LEMMA AbsorbKeeps ==
  ASSUME NEW t, NEW s, t.rows \in Seq(Row), s.cycle \in Nat, s.x.pc \in Pc,
         s.x.valid \in BOOLEAN, s.x.issue \in BOOLEAN, s.m.valid \in BOOLEAN,
         t.current \in 0..Len(t.rows), InM(t) \in 0..Len(t.rows), t.warnings = {},
         s.m.valid <=> InM(t) # NoRow,
         s.m.valid => t.rows[InM(t)].pc = s.m.pc
  PROVE  Follows(Absorb(t, s), s)
<1> DEFINE u == Absorb(t, s)
<1>1. /\ u.rows = Touched(t, s) /\ u.current = Owner(t, s) /\ u.inM = InM(t)
      /\ u.prev = [stall |-> s.m.stall, issue |-> s.x.issue, owner |-> Owner(t, s)]
      /\ u.warnings = t.warnings \cup Warnings(t, s)
  BY DEF Absorb
<1> HIDE DEF u
<1>2. Len(t.rows) \in Nat
  OBVIOUS
<1>3. /\ Touched(t, s) \in Seq(Row)
      /\ Len(Touched(t, s)) = IF StartsRow(t, s) THEN Len(t.rows) + 1 ELSE Len(t.rows)
      /\ \A r \in 1..Len(t.rows) : Touched(t, s)[r].pc = t.rows[r].pc
      /\ StartsRow(t, s) => Touched(t, s)[Len(t.rows) + 1].pc = s.x.pc
  BY TouchedRows
<1>4. Owner(t, s) \in 0..Len(Touched(t, s)) /\ (s.x.valid <=> Owner(t, s) # NoRow)
  BY <1>2, <1>3 DEF Owner, StartsRow, NoRow
<1>5. s.x.valid => Touched(t, s)[Owner(t, s)].pc = s.x.pc
  BY <1>2, <1>3 DEF Owner, StartsRow, NoRow
<1>6. InM(t) \in 0..Len(Touched(t, s))
  BY <1>2, <1>3
<1>7. s.m.valid => Touched(t, s)[InM(t)].pc = s.m.pc
  BY <1>2, <1>3 DEF NoRow
<1>8. Warnings(t, s) = {}
  BY DEF Warnings
<1> QED
  BY <1>1, <1>3, <1>4, <1>5, <1>6, <1>7, <1>8 DEF Follows, u

LEMMA InitInStep == Init => InStep
<1> SUFFICES ASSUME Init PROVE InStep
  OBVIOUS
<1> DEFINE t == NoTimeline
<1>1. /\ x \in StageX /\ m \in StageM /\ ~x.valid /\ ~shadow.valid /\ cycles = 0
      /\ shadow = Bubble
  BY CoreAssumption DEF Init, ProbedInit, CoreInit, StarvedX, QuietM, Bubble
<1>2. /\ t.rows = <<>> /\ t.current = 0 /\ InM(t) = 0 /\ t.warnings = {}
  BY DEF NoTimeline, NoPrev, NoRow, InM
<1>3. /\ Snapshot.cycle = cycles
      /\ Snapshot.x.valid = x.valid /\ Snapshot.x.pc = x.pc /\ Snapshot.x.issue = Issue
      /\ Snapshot.m.valid = shadow.valid /\ Snapshot.m.pc = shadow.pc
      /\ Snapshot.m.stall = m.stall
  BY DEF Snapshot
<1>4. x.pc \in Pc /\ x.valid \in BOOLEAN /\ Issue \in BOOLEAN /\ shadow.valid \in BOOLEAN
  BY <1>1 DEF StageX, StageM, Issue, Bubble
<1>5. timeline = Absorb(t, Snapshot)
  BY DEF Init
<1> HIDE DEF t
<1>6. t.rows \in Seq(Row) /\ Len(t.rows) = 0
  BY <1>2
<1> QED
  <2>1. /\ Snapshot.cycle \in Nat /\ Snapshot.x.pc \in Pc /\ Snapshot.x.valid \in BOOLEAN
        /\ Snapshot.x.issue \in BOOLEAN /\ Snapshot.m.valid = FALSE
    BY <1>1, <1>3, <1>4
  <2>2. t.current \in 0..Len(t.rows) /\ InM(t) \in 0..Len(t.rows) /\ InM(t) = NoRow
    BY <1>2, <1>6 DEF NoRow
  <2>3. Follows(Absorb(t, Snapshot), Snapshot)
    BY <1>2, <1>6, <2>1, <2>2, AbsorbKeeps
  <2> QED
    BY <1>1, <1>4, <1>5, <2>3 DEF InStep

LEMMA RecordInStep == InStep /\ Record => InStep'
<1> SUFFICES ASSUME InStep, Record PROVE InStep'
  OBVIOUS
<1> DEFINE t == timeline
<1>0. /\ x \in StageX /\ m \in StageM /\ shadow.valid \in BOOLEAN
      /\ t.rows \in Seq(Row)
      /\ t.current \in 0..Len(t.rows)
      /\ t.inM \in 0..Len(t.rows)
      /\ t.prev = [stall |-> m.stall, issue |-> Issue, owner |-> t.current]
      /\ x.valid <=> t.current # NoRow
      /\ x.valid => t.rows[t.current].pc = x.pc
      /\ shadow.valid <=> t.inM # NoRow
      /\ shadow.valid => t.rows[t.inM].pc = shadow.pc
      /\ t.warnings = {}
  BY DEF InStep, Follows, Snapshot
<1>1. x' \in StageX /\ m' \in StageM /\ cycles' \in Nat
  BY CoreAssumption DEF Record, ProbedEdge, CoreEdge, InStep
<1>2. shadow' = IF m.stall THEN shadow
                ELSE [valid |-> Issue, pc |-> IF Issue THEN x.pc ELSE shadow.pc]
  BY DEF Record, ProbedEdge, ShadowEdge
<1>3. Issue => x.valid
  BY <1>0 DEF Issue, StageX
<1>4. InM(t) = IF m.stall THEN t.inM ELSE IF Issue THEN t.current ELSE NoRow
  BY <1>0 DEF InM
<1>5. Issue \in BOOLEAN /\ m.stall \in BOOLEAN /\ shadow'.valid \in BOOLEAN
  BY <1>0, <1>2 DEF Issue, StageX, StageM
<1>6. InM(t) \in 0..Len(t.rows)
  BY <1>0, <1>4 DEF NoRow
<1>7. shadow'.valid <=> InM(t) # NoRow
  BY <1>0, <1>2, <1>3, <1>4, <1>5
<1>8. shadow'.valid => t.rows[InM(t)].pc = shadow'.pc
  BY <1>0, <1>2, <1>3, <1>4, <1>5
<1>9. /\ Snapshot'.cycle = cycles'
      /\ Snapshot'.x.valid = x'.valid /\ Snapshot'.x.pc = x'.pc /\ Snapshot'.x.issue = Issue'
      /\ Snapshot'.m.valid = shadow'.valid /\ Snapshot'.m.pc = shadow'.pc
      /\ Snapshot'.m.stall = m'.stall
  BY DEF Snapshot
<1>10. x'.pc \in Pc /\ x'.valid \in BOOLEAN /\ Issue' \in BOOLEAN
  BY <1>1 DEF StageX, StageM, Issue
<1>11. timeline' = Absorb(t, Snapshot')
  BY DEF Record
<1> HIDE DEF t
<1>12. Follows(Absorb(t, Snapshot'), Snapshot')
  BY <1>0, <1>1, <1>5, <1>6, <1>7, <1>8, <1>9, <1>10, AbsorbKeeps
<1> QED
  BY <1>1, <1>5, <1>11, <1>12 DEF InStep

\* Over an unbroken record from reset, the reconstruction never disagrees with
\* the shadow, for every core that obeys Hazard3Core.
THEOREM ReconstructionAgrees == Spec => []NeverComplains
<1>1. Init => InStep
  BY InitInStep
<1>2. InStep /\ [Next]_vars => InStep'
  <2>1. InStep /\ UNCHANGED vars => InStep'
    BY DEF InStep, Follows, Snapshot, vars, coreVars, recordVars, Issue
  <2> QED
    BY <2>1, RecordInStep DEF Next
<1>3. InStep => NeverComplains
  BY DEF InStep, Follows, NeverComplains
<1> QED
  BY <1>1, <1>2, <1>3, PTL DEF Spec

-----------------------------------------------------------------------------
(***************************************************************************)
(* Rows and instructions.  The rows that issued are counted off against    *)
(* the instructions that left X; places among them are cardinalities.      *)
(***************************************************************************)

PlaceIn(S, r) == Cardinality({q \in S : q <= r})

LEMMA PlaceBounds ==
  ASSUME NEW S \in SUBSET Nat, IsFiniteSet(S), NEW r \in S
  PROVE  PlaceIn(S, r) \in 1..Cardinality(S)
<1> DEFINE B == {q \in S : q <= r}
<1>1. B \subseteq S /\ r \in B
  OBVIOUS
<1> HIDE DEF B
<1>2. IsFiniteSet(B) /\ Cardinality(B) <= Cardinality(S)
  BY <1>1, FS_Subset
<1>3. Cardinality(B) \in Nat /\ Cardinality(S) \in Nat /\ Cardinality(B) # 0
  BY <1>1, <1>2, FS_CardinalityType, FS_EmptySet
<1> QED
  BY <1>2, <1>3 DEF PlaceIn, B

LEMMA PlacesDiffer ==
  ASSUME NEW S \in SUBSET Nat, IsFiniteSet(S), NEW q \in S, NEW r \in S, q < r
  PROVE  PlaceIn(S, q) < PlaceIn(S, r)
<1> DEFINE A == {k \in S : k <= q}
           B == {k \in S : k <= r}
<1>1. A \subseteq S /\ B \subseteq S /\ r \notin A /\ A \cup {r} \subseteq B
  <2>1. ~(r <= q) /\ r <= r /\ \A k \in S : k <= q => k <= r
    OBVIOUS
  <2> QED
    BY <2>1, Zenon
<1> HIDE DEF A, B
<1>2. IsFiniteSet(A) /\ IsFiniteSet(B)
  BY <1>1, FS_Subset
<1>3. IsFiniteSet(A \cup {r}) /\ Cardinality(A \cup {r}) = Cardinality(A) + 1
  BY <1>1, <1>2, FS_AddElement
<1>4. Cardinality(A \cup {r}) <= Cardinality(B)
  BY <1>1, <1>2, FS_Subset
<1>5. Cardinality(A) \in Nat /\ Cardinality(B) \in Nat
  BY <1>2, FS_CardinalityType
<1> QED
  BY <1>3, <1>4, <1>5 DEF PlaceIn, A, B

\* What comes last takes the place after all others, and moves none of them.
LEMMA PlaceOfLast ==
  ASSUME NEW S \in SUBSET Nat, IsFiniteSet(S), NEW o \in Nat, \A q \in S : q < o
  PROVE  /\ IsFiniteSet(S \cup {o})
         /\ Cardinality(S \cup {o}) = Cardinality(S) + 1
         /\ PlaceIn(S \cup {o}, o) = Cardinality(S) + 1
         /\ \A r \in S : PlaceIn(S \cup {o}, r) = PlaceIn(S, r)
<1>1. o \notin S
  OBVIOUS
<1>2. IsFiniteSet(S \cup {o}) /\ Cardinality(S \cup {o}) = Cardinality(S) + 1
  BY <1>1, FS_AddElement
<1>3. {q \in S \cup {o} : q <= o} = S \cup {o}
  <2>1. \A q \in S \cup {o} : q <= o
    OBVIOUS
  <2> QED
    BY <2>1, Zenon
<1>4. \A r \in S : {q \in S \cup {o} : q <= r} = {q \in S : q <= r}
  OBVIOUS
<1> QED
  BY <1>2, <1>3, <1>4 DEF PlaceIn

\* What a pass does to the marks of the rows.
LEMMA TouchedMarks ==
  ASSUME NEW t, t.rows \in Seq(Row), NEW s, s.x.pc \in Pc
  PROVE  /\ \A r \in 1..Len(t.rows) :
              /\ Touched(t, s)[r].done = (t.rows[r].done \/ (r = Owner(t, s) /\ s.x.issue))
              /\ Touched(t, s)[r].inM = IF r = InM(t) THEN t.rows[r].inM \cup {s.cycle}
                                                      ELSE t.rows[r].inM
         /\ StartsRow(t, s) =>
              LET r == Len(t.rows) + 1
              IN  /\ Touched(t, s)[r].done = (r = Owner(t, s) /\ s.x.issue)
                  /\ Touched(t, s)[r].inM = IF r = InM(t) THEN {s.cycle} ELSE {}
<1> DEFINE R == Rows(t, s)
<1>1. /\ NewRow(s.x.pc) \in Row /\ ~NewRow(s.x.pc).done /\ NewRow(s.x.pc).inM = {}
  BY DEF NewRow, Row
<1>2. /\ Len(R) = IF StartsRow(t, s) THEN Len(t.rows) + 1 ELSE Len(t.rows)
      /\ \A r \in 1..Len(t.rows) : R[r] = t.rows[r]
      /\ StartsRow(t, s) => R[Len(t.rows) + 1] = NewRow(s.x.pc)
      /\ Len(t.rows) \in Nat
  BY <1>1 DEF Rows
<1>3. \A r \in 1..Len(R) :
        /\ Touched(t, s)[r].done = (R[r].done \/ (r = Owner(t, s) /\ s.x.issue))
        /\ Touched(t, s)[r].inM = IF r = InM(t) THEN R[r].inM \cup {s.cycle} ELSE R[r].inM
  BY DEF Touched
<1> HIDE DEF R
<1>4. 1..Len(t.rows) \subseteq 1..Len(R) /\ (StartsRow(t, s) => Len(t.rows) + 1 \in 1..Len(R))
  BY <1>2
<1> QED
  BY <1>1, <1>2, <1>3, <1>4

\* An entry of the history: an instruction that left X.
TruthRow == [pc : Pc, inM : SUBSET Nat]

(***************************************************************************)
(* One row per instruction: the current row is the last, it is done if its *)
(* instruction issues now, and M's row and M's instruction have the same   *)
(* place.                                                                  *)
(***************************************************************************)
Counted ==
  /\ x.use => ~m.stall
  /\ truth \in Seq(TruthRow)
  /\ holder \in 0..Len(truth)
  /\ timeline.current \in {NoRow, Len(timeline.rows)}
  /\ timeline.current # NoRow => (timeline.rows[timeline.current].done <=> Issue)
  /\ holder # NoRow <=> timeline.inM # NoRow
  /\ holder # NoRow => HasLeftX(timeline.inM) /\ Place(timeline.inM) = holder
  /\ OccupancyFaithful

LEMMA IssuedFinite ==
  ASSUME timeline.rows \in Seq(Row)
  PROVE  /\ Issued \subseteq 1..Len(timeline.rows) /\ Issued \subseteq Nat
         /\ IsFiniteSet(Issued) /\ Cardinality(Issued) \in Nat
         /\ \A r : Place(r) = PlaceIn(Issued, r)
<1>1. Issued \subseteq 1..Len(timeline.rows) /\ Len(timeline.rows) \in Nat
  BY DEF Issued
<1>2. IsFiniteSet(1..Len(timeline.rows))
  BY <1>1, FS_Interval
<1>3. IsFiniteSet(Issued) /\ Cardinality(Issued) \in Nat
  BY <1>1, <1>2, FS_Subset, FS_CardinalityType
<1> QED
  BY <1>1, <1>3 DEF Place, PlaceIn

LEMMA InitCounted == Init => Counted
<1> SUFFICES ASSUME Init PROVE Counted
  OBVIOUS
<1> DEFINE t == NoTimeline
<1>1. InStep
  BY InitInStep
<1>2. ~x.valid /\ truth = <<>> /\ holder = NoRow /\ timeline = Absorb(t, Snapshot)
  BY DEF Init, ProbedInit, CoreInit, StarvedX
<1>3. ~x.use /\ ~Issue
  BY <1>1, <1>2 DEF InStep, StageX, Issue
<1>4. ~Snapshot.x.valid
  BY <1>2 DEF Snapshot
<1>5. t.rows = <<>> /\ InM(t) = NoRow
  BY DEF NoTimeline, NoPrev, InM
<1>6. Owner(t, Snapshot) = NoRow /\ Rows(t, Snapshot) = <<>>
  BY <1>4, <1>5 DEF Owner, Rows, StartsRow
<1>7. timeline.rows = Touched(t, Snapshot) /\ timeline.current = NoRow /\ timeline.inM = NoRow
  BY <1>2, <1>5, <1>6 DEF Absorb
<1>8. DOMAIN timeline.rows = {}
  BY <1>6, <1>7 DEF Touched
<1>9. Issued = {}
  BY <1>8 DEF Issued
<1>10. Cardinality(Issued) = 0 /\ <<>> \in Seq(TruthRow) /\ Len(truth) = 0
  BY <1>2, <1>9, FS_EmptySet
<1>11. OccupancyFaithful
  BY <1>3, <1>8, <1>10 DEF OccupancyFaithful
<1> QED
  BY <1>2, <1>3, <1>7, <1>10, <1>11 DEF Counted, NoRow

\* What a cycle adds to the history: the instruction that issues, and the cycle
\* for the one in M.
LEMMA TruthSteps ==
  ASSUME InStep, Counted, Record
  PROVE  /\ truth' \in Seq(TruthRow)
         /\ Len(truth') = Cardinality(Issued) /\ Len(truth') \in Nat
         /\ holder' = IF Issue THEN Cardinality(Issued) ELSE IF m.stall THEN holder ELSE NoRow
         /\ \A i \in 1..Len(truth') :
              /\ truth'[i].pc = IF i <= Len(truth) THEN truth[i].pc ELSE x.pc
              /\ truth'[i].inM = LET old == IF i <= Len(truth) THEN truth[i].inM ELSE {}
                                 IN  IF i = holder' THEN old \cup {cycles'} ELSE old
<1> DEFINE e == [pc |-> x.pc, inM |-> {}]
           T == IF Issue THEN Append(truth, e) ELSE truth
<1>1. Entering <=> Issue
  BY DEF Entering, Issue, Counted
<1>2. /\ holder' = IF Issue THEN Len(truth) + 1 ELSE IF m.stall THEN holder ELSE NoRow
      /\ truth' = HeldInM(T, holder', cycles') /\ cycles' = cycles + 1 /\ cycles' \in Nat
  BY <1>1 DEF Record, Truth, InStep
<1>3. x.pc \in Pc /\ Issue \in BOOLEAN /\ truth \in Seq(TruthRow)
  BY DEF InStep, Counted, StageX, StageM, Issue
<1>4. /\ T \in Seq(TruthRow) /\ Len(truth) \in Nat /\ Len(T) \in Nat
      /\ Len(T) = IF Issue THEN Len(truth) + 1 ELSE Len(truth)
      /\ \A i \in 1..Len(T) :
           T[i] = IF i <= Len(truth) THEN truth[i] ELSE e
  <2>1. e \in TruthRow
    BY <1>3 DEF TruthRow
  <2> HIDE DEF e
  <2>2. CASE Issue
    BY <1>3, <2>1, <2>2
  <2>3. CASE ~Issue
    BY <1>3, <2>1, <2>3
  <2> QED
    BY <1>3, <2>2, <2>3
<1>5. timeline.rows \in Seq(Row)
  BY DEF InStep, Follows
<1>6. Cardinality(Issued) = Len(T) /\ Cardinality(Issued) \in Nat
  BY <1>4, <1>5, IssuedFinite DEF Counted, OccupancyFaithful
<1> HIDE DEF T, e
<1>7. truth' = [i \in 1..Len(T) |->
                  [T[i] EXCEPT !.inM = IF i = holder' THEN @ \cup {cycles'} ELSE @]]
  BY <1>2 DEF HeldInM
<1>8. DOMAIN truth' = 1..Len(T)
  BY <1>7
<1>9. ASSUME NEW i \in 1..Len(T)
      PROVE  /\ truth'[i] \in TruthRow
             /\ truth'[i].pc = T[i].pc
             /\ truth'[i].inM = IF i = holder' THEN T[i].inM \cup {cycles'} ELSE T[i].inM
  <2>1. T[i] \in TruthRow
    BY <1>4
  <2>2. truth'[i] = [T[i] EXCEPT !.inM = IF i = holder' THEN T[i].inM \cup {cycles'}
                                                        ELSE T[i].inM]
    BY <1>7, Zenon
  <2>3. cycles' \in Nat
    BY <1>2
  <2> QED
    BY <2>1, <2>2, <2>3 DEF TruthRow
<1>10. truth' \in Seq(TruthRow) /\ Len(truth') = Len(T)
  <2>1. truth' = [i \in 1..Len(T) |-> truth'[i]]
    BY <1>7, <1>8, Zenon
  <2>2. \A i \in 1..Len(T) : truth'[i] \in TruthRow
    BY <1>9
  <2>3. Len(T) \in Nat
    BY <1>4
  <2> HIDE DEF T
  <2> QED
    BY <2>1, <2>2, <2>3
<1>11. \A i \in 1..Len(truth') :
         /\ truth'[i].pc = IF i <= Len(truth) THEN truth[i].pc ELSE x.pc
         /\ truth'[i].inM = LET old == IF i <= Len(truth) THEN truth[i].inM ELSE {}
                            IN  IF i = holder' THEN old \cup {cycles'} ELSE old
  <2> SUFFICES ASSUME NEW i \in 1..Len(T)
               PROVE  LET old == IF i <= Len(truth) THEN truth[i].inM ELSE {}
                      IN  /\ truth'[i].pc = IF i <= Len(truth) THEN truth[i].pc ELSE x.pc
                          /\ truth'[i].inM = IF i = holder' THEN old \cup {cycles'} ELSE old
    BY <1>10
  <2>1. T[i] = IF i <= Len(truth) THEN truth[i] ELSE e
    BY <1>4
  <2>2. e.pc = x.pc /\ e.inM = {}
    BY DEF e
  <2> QED
    BY <1>9, <2>1, <2>2
<1>12. holder' = IF Issue THEN Cardinality(Issued) ELSE IF m.stall THEN holder ELSE NoRow
  BY <1>2, <1>4, <1>6
<1> QED
  BY <1>4, <1>6, <1>10, <1>11, <1>12

\* What it adds to the rows: their marks, and at most one that issues now.
LEMMA RowsStep ==
  ASSUME InStep, Counted, Record
  PROVE  LET n == Len(timeline.rows)
             o == timeline.current'
         IN  /\ timeline.rows' \in Seq(Row) /\ Len(timeline.rows') \in {n, n + 1} /\ n \in Nat
             /\ o \in {NoRow, Len(timeline.rows')}
             /\ timeline.inM' = IF m.stall THEN timeline.inM
                                ELSE IF Issue THEN timeline.current ELSE NoRow
             /\ \A r \in 1..n :
                  /\ timeline.rows'[r].pc = timeline.rows[r].pc
                  /\ timeline.rows'[r].inM = IF r = timeline.inM'
                                             THEN timeline.rows[r].inM \cup {cycles'}
                                             ELSE timeline.rows[r].inM
             /\ Len(timeline.rows') = n + 1 /\ timeline.inM' # n + 1
                  => timeline.rows'[n + 1].inM = {}
             /\ o # NoRow => (timeline.rows'[o].done <=> Issue')
             /\ Issued' = IF Issue' THEN Issued \cup {o} ELSE Issued
             /\ Issue' => o \in Nat /\ \A q \in Issued : q < o
<1> DEFINE t == timeline
           s == Snapshot'
           n == Len(timeline.rows)
<1>1. /\ t.rows \in Seq(Row) /\ t.current \in 0..n /\ n \in Nat
      /\ t.prev = [stall |-> m.stall, issue |-> Issue, owner |-> t.current]
      /\ x \in StageX /\ m \in StageM
  BY DEF InStep, Follows, Snapshot
<1>2. /\ t.current \in {NoRow, n} /\ (t.current # NoRow => (t.rows[t.current].done <=> Issue))
  BY DEF Counted
<1>3. InStep'
  BY RecordInStep
<1>4. /\ s.cycle = cycles' /\ s.x.valid = x'.valid /\ s.x.pc = x'.pc /\ s.x.issue = Issue'
      /\ s.cycle \in Nat /\ x' \in StageX /\ m' \in StageM
  BY <1>3 DEF Snapshot, InStep
<1>5. s.x.pc \in Pc /\ s.x.issue \in BOOLEAN /\ (s.x.issue => s.x.valid) /\ s.x.valid \in BOOLEAN
  BY <1>4 DEF StageX, StageM, Issue
<1>6. timeline' = Absorb(t, s)
  BY DEF Record
<1>7. /\ timeline'.rows = Touched(t, s) /\ timeline'.current = Owner(t, s)
      /\ timeline'.inM = InM(t)
  BY <1>6 DEF Absorb
<1>8. InM(t) = IF m.stall THEN t.inM ELSE IF Issue THEN t.current ELSE NoRow
  BY <1>1 DEF InM
<1> DEFINE u == Touched(t, s)
           o == Owner(t, s)
<1>9. /\ u \in Seq(Row)
      /\ Len(u) = IF StartsRow(t, s) THEN n + 1 ELSE n
      /\ \A r \in 1..n : u[r].pc = t.rows[r].pc
  BY <1>1, <1>4, <1>5, TouchedRows
<1>10. /\ \A r \in 1..n :
            /\ u[r].done = (t.rows[r].done \/ (r = o /\ s.x.issue))
            /\ u[r].inM = IF r = InM(t) THEN t.rows[r].inM \cup {s.cycle} ELSE t.rows[r].inM
       /\ StartsRow(t, s) =>
              /\ u[n + 1].done = (n + 1 = o /\ s.x.issue)
              /\ u[n + 1].inM = IF n + 1 = InM(t) THEN {s.cycle} ELSE {}
  BY <1>1, <1>5, TouchedMarks
<1>11. /\ o = IF ~s.x.valid THEN NoRow ELSE IF StartsRow(t, s) THEN n + 1 ELSE t.current
       /\ s.x.valid /\ ~StartsRow(t, s) => t.current # NoRow /\ ~t.rows[t.current].done
  BY DEF Owner, StartsRow
<1>12. StartsRow(t, s) => s.x.valid
  BY DEF StartsRow
<1> HIDE DEF s, u, o
<1>13. o \in {NoRow, Len(u)}
  BY <1>1, <1>2, <1>9, <1>11 DEF NoRow
<1>14. o # NoRow => o \in 1..Len(u) /\ (u[o].done <=> s.x.issue)
  <2>1. CASE s.x.valid /\ StartsRow(t, s)
    <3>1. o = n + 1 /\ Len(u) = n + 1
      BY <1>9, <1>11, <2>1
    <3>2. u[n + 1].done = s.x.issue
      BY <1>5, <1>10, <2>1, <3>1
    <3> QED
      BY <1>1, <3>1, <3>2
  <2>2. CASE s.x.valid /\ ~StartsRow(t, s)
    <3>1. o = t.current /\ o \in 1..n /\ ~t.rows[o].done /\ Len(u) = n
      BY <1>1, <1>9, <1>11, <2>2 DEF NoRow
    <3> QED
      BY <1>10, <3>1
  <2>3. CASE ~s.x.valid
    BY <1>11, <2>3
  <2> QED
    BY <1>5, <2>1, <2>2, <2>3
<1>15. Issued \subseteq 1..n /\ \A r \in 1..n : r \in Issued <=> t.rows[r].done
  BY <1>1 DEF Issued
<1>16. Issued' = {r \in 1..Len(u) : u[r].done}
  BY <1>7, <1>9 DEF Issued, u
<1>17. s.x.issue => o \in Nat /\ o \notin Issued /\ \A q \in Issued : q < o
  <2>1. CASE s.x.issue /\ StartsRow(t, s)
    BY <1>1, <1>5, <1>11, <1>15, <2>1
  <2>2. CASE s.x.issue /\ ~StartsRow(t, s)
    <3>1. o = t.current /\ o = n /\ o \in 1..n /\ ~t.rows[o].done
      BY <1>1, <1>2, <1>5, <1>11, <2>2 DEF NoRow
    <3> QED
      BY <1>15, <3>1
  <2> QED
    BY <2>1, <2>2
<1>18. Issued' = IF s.x.issue THEN Issued \cup {o} ELSE Issued
  <2>1. \A r \in 1..n : u[r].done <=> r \in Issued \/ (r = o /\ s.x.issue)
    BY <1>10, <1>15
  <2>2. StartsRow(t, s) => (u[n + 1].done <=> n + 1 = o /\ s.x.issue)
    BY <1>10
  <2>3. s.x.issue => o \in 1..Len(u)
    BY <1>5, <1>11, <1>14, <1>1 DEF NoRow
  <2>4. \A r : r \in 1..Len(u) <=> r \in 1..n \/ (StartsRow(t, s) /\ r = n + 1)
    BY <1>1, <1>9
  <2>5. n + 1 \notin Issued
    BY <1>1, <1>15
  <2>6. \A r : r \in Issued' <=> r \in Issued \/ (r = o /\ s.x.issue)
    BY <1>15, <1>16, <2>1, <2>2, <2>3, <2>4, <2>5
  <2> QED
    BY <2>6
<1>19. Len(u) = n + 1 /\ InM(t) # n + 1 => u[n + 1].inM = {}
  BY <1>1, <1>9, <1>10
<1>20. /\ \A r \in 1..n :
            /\ u[r].pc = t.rows[r].pc
            /\ u[r].inM = IF r = InM(t) THEN t.rows[r].inM \cup {cycles'} ELSE t.rows[r].inM
       /\ Len(u) \in {n, n + 1}
  BY <1>4, <1>9, <1>10
<1>21. timeline.rows' = u /\ timeline.current' = o /\ timeline.inM' = InM(t)
  BY <1>7 DEF u, o
<1>22. s.x.issue <=> Issue'
  BY <1>4
<1> HIDE DEF n, t
<1> QED
  BY <1>1, <1>8, <1>9, <1>13, <1>14, <1>17, <1>18, <1>19, <1>20, <1>21, <1>22 DEF n, t

LEMMA RecordCounted == InStep /\ Counted /\ Record => Counted'
<1> SUFFICES ASSUME InStep, Counted, Record PROVE Counted'
  OBVIOUS
<1> DEFINE n == Len(timeline.rows)
           o == timeline.current'
           k == Cardinality(Issued)
           left == Len(truth')
<1>1. /\ truth' \in Seq(TruthRow)
      /\ left = k /\ left \in Nat
      /\ holder' = IF Issue THEN k ELSE IF m.stall THEN holder ELSE NoRow
      /\ \A i \in 1..left :
           /\ truth'[i].pc = IF i <= Len(truth) THEN truth[i].pc ELSE x.pc
           /\ truth'[i].inM = LET old == IF i <= Len(truth) THEN truth[i].inM ELSE {}
                              IN  IF i = holder' THEN old \cup {cycles'} ELSE old
  BY TruthSteps
<1>2. /\ timeline.rows' \in Seq(Row) /\ Len(timeline.rows') \in {n, n + 1} /\ n \in Nat
      /\ o \in {NoRow, Len(timeline.rows')}
      /\ timeline.inM' = IF m.stall THEN timeline.inM
                         ELSE IF Issue THEN timeline.current ELSE NoRow
      /\ \A r \in 1..n :
           /\ timeline.rows'[r].pc = timeline.rows[r].pc
           /\ timeline.rows'[r].inM = IF r = timeline.inM'
                                      THEN timeline.rows[r].inM \cup {cycles'}
                                      ELSE timeline.rows[r].inM
      /\ Len(timeline.rows') = n + 1 /\ timeline.inM' # n + 1
           => timeline.rows'[n + 1].inM = {}
      /\ o # NoRow => (timeline.rows'[o].done <=> Issue')
      /\ Issued' = IF Issue' THEN Issued \cup {o} ELSE Issued
      /\ Issue' => o \in Nat /\ \A q \in Issued : q < o
  BY RowsStep
<1>3. /\ timeline.rows \in Seq(Row) /\ x \in StageX /\ m \in StageM
      /\ x.valid <=> timeline.current # NoRow
      /\ x.valid => timeline.rows[timeline.current].pc = x.pc
  BY DEF InStep, Follows, Snapshot
<1>4. /\ Issued \subseteq 1..n /\ Issued \in SUBSET Nat /\ IsFiniteSet(Issued) /\ k \in Nat
      /\ \A r : Place(r) = PlaceIn(Issued, r)
  BY <1>3, IssuedFinite
<1>5. \A r : Place(r)' = PlaceIn(Issued', r)
  BY DEF Place, PlaceIn
<1>6. /\ Cardinality(Issued') = k + (IF Issue' THEN 1 ELSE 0)
      /\ \A r \in Issued : Place(r)' = Place(r) /\ Place(r) \in 1..k
      /\ Issue' => PlaceIn(Issued', o) = k + 1
  <2>1. \A r \in Issued : Place(r) \in 1..k
    BY <1>4, PlaceBounds
  <2>2. CASE Issue'
    <3>1. o \in Nat /\ \A q \in Issued : q < o
      BY <1>2, <2>2
    <3>2. /\ Cardinality(Issued \cup {o}) = k + 1
          /\ PlaceIn(Issued \cup {o}, o) = k + 1
          /\ \A r \in Issued : PlaceIn(Issued \cup {o}, r) = PlaceIn(Issued, r)
      BY <1>4, <3>1, PlaceOfLast
    <3>3. Issued' = Issued \cup {o}
      BY <1>2, <2>2
    <3> HIDE DEF o
    <3> QED
      BY <1>4, <1>5, <2>1, <2>2, <3>2, <3>3
  <2>3. CASE ~Issue'
    BY <1>2, <1>4, <1>5, <2>1, <2>3
  <2> QED
    BY <2>2, <2>3
<1>7. \A q, r \in Issued : Place(q) = Place(r) => q = r
  <2> SUFFICES ASSUME NEW q \in Issued, NEW r \in Issued, Place(q) = Place(r), q # r
               PROVE  FALSE
    OBVIOUS
  <2>1. q < r \/ r < q
    BY <1>4
  <2>2. Place(q) < Place(r) \/ Place(r) < Place(q)
    BY <1>4, <2>1, PlacesDiffer
  <2> QED
    BY <1>6, <2>2
<1>8. /\ x.use => ~m.stall
      /\ truth \in Seq(TruthRow) /\ holder \in 0..Len(truth) /\ Len(truth) \in Nat
      /\ timeline.current \in {NoRow, n}
      /\ timeline.current # NoRow => (timeline.rows[timeline.current].done <=> Issue)
      /\ holder # NoRow <=> timeline.inM # NoRow
      /\ holder # NoRow => /\ timeline.inM \in Issued
                           /\ Place(timeline.inM) <= Len(truth) /\ Place(timeline.inM) = holder
      /\ k = Len(truth) + (IF Issue THEN 1 ELSE 0)
      /\ \A r \in 1..n :
           /\ HasLeftX(r) => timeline.rows[r].pc = truth[Place(r)].pc
           /\ timeline.rows[r].inM = IF HasLeftX(r) THEN truth[Place(r)].inM ELSE {}
      /\ \A r : HasLeftX(r) <=> r \in Issued /\ Place(r) <= Len(truth)
  BY <1>3 DEF Counted, OccupancyFaithful, HasLeftX
<1>9. Issue => x.valid /\ ~m.stall
  BY <1>3, <1>8 DEF Issue, StageX
\* The row that issued is the last one: it has the last place.
<1>10. Issue => /\ timeline.current = n /\ n \in Issued /\ Place(n) = k
                /\ timeline.rows[n].pc = x.pc
  <2> SUFFICES ASSUME Issue
               PROVE  /\ timeline.current = n /\ n \in Issued /\ Place(n) = k
                      /\ timeline.rows[n].pc = x.pc
    OBVIOUS
  <2>1. timeline.current = n /\ n # NoRow /\ timeline.rows[n].pc = x.pc /\ timeline.rows[n].done
    BY <1>3, <1>8, <1>9
  <2>2. n \in 1..n
    BY <1>2, <2>1 DEF NoRow
  <2>3. n \in Issued
    BY <1>3, <2>1, <2>2 DEF Issued
  <2>4. \A q \in Issued : q <= n
    BY <1>2, <1>4
  <2>5. {q \in Issued : q <= n} = Issued
    BY <2>4, Zenon
  <2> QED
    BY <2>1, <2>3, <2>5 DEF Place
\* M's row and M's instruction have the same place.
<1>11. /\ holder' # NoRow <=> timeline.inM' # NoRow
       /\ timeline.inM' # NoRow => timeline.inM' \in Issued /\ Place(timeline.inM') = holder'
       /\ holder' \in 0..k
  <2>1. CASE Issue
    <3>1. holder' = k /\ timeline.inM' = n /\ k \in 1..k /\ n \in 1..n
      BY <1>1, <1>2, <1>4, <1>6, <1>9, <1>10, <2>1
    <3> QED
      BY <1>10, <2>1, <3>1 DEF NoRow
  <2>2. CASE ~Issue /\ m.stall
    BY <1>1, <1>2, <1>8, <2>2 DEF NoRow
  <2>3. CASE ~Issue /\ ~m.stall
    BY <1>1, <1>2, <1>4, <2>3 DEF NoRow
  <2> QED
    BY <2>1, <2>2, <2>3
<1>12. ASSUME NEW r \in Issued
       PROVE  /\ timeline.rows'[r].pc = truth'[Place(r)].pc
              /\ timeline.rows'[r].inM = truth'[Place(r)].inM
  <2>1. r = timeline.inM' <=> Place(r) = holder'
    <3>1. r # NoRow /\ Place(r) # NoRow
      BY <1>4, <1>6 DEF NoRow
    <3> QED
      BY <1>7, <1>11, <3>1
  <2>2. Place(r) \in 1..left /\ r \in 1..n
    BY <1>1, <1>4, <1>6
  <2>3. Place(r) <= Len(truth) \/ (Place(r) = k /\ Issue)
    BY <1>6, <1>8
  <2>4. CASE Place(r) <= Len(truth)
    <3>1. /\ timeline.rows[r].pc = truth[Place(r)].pc
          /\ timeline.rows[r].inM = truth[Place(r)].inM
      BY <1>8, <2>2, <2>4
    <3>2. /\ truth'[Place(r)].pc = truth[Place(r)].pc
          /\ truth'[Place(r)].inM = IF Place(r) = holder' THEN truth[Place(r)].inM \cup {cycles'}
                                                          ELSE truth[Place(r)].inM
      BY <1>1, <2>2, <2>4
    <3> QED
      BY <1>2, <2>1, <2>2, <3>1, <3>2
  <2>5. CASE ~(Place(r) <= Len(truth))
    <3>1. Issue /\ r = n
      BY <1>7, <1>10, <2>3, <2>5
    <3>2. timeline.rows[r].pc = x.pc /\ timeline.rows[r].inM = {}
      BY <1>8, <1>10, <2>2, <2>5, <3>1
    <3> QED
      BY <1>1, <1>2, <2>1, <2>2, <2>5, <3>2
  <2> QED
    BY <2>4, <2>5
<1>13. \A r : HasLeftX(r)' <=> r \in Issued
  <2>1. \A r : HasLeftX(r)' <=> r \in Issued' /\ Place(r)' <= k
    BY <1>1 DEF HasLeftX
  <2>2. \A r \in Issued : r \in Issued' /\ Place(r)' <= k
    BY <1>2, <1>6, <1>4
  <2>3. ASSUME Issue' PROVE ~(PlaceIn(Issued', o) <= k) /\ Issued' = Issued \cup {o}
    BY <1>2, <1>4, <1>6, <2>3
  <2>4. ~Issue' => Issued' = Issued
    BY <1>2
  <2> QED
    BY <1>5, <2>1, <2>2, <2>3, <2>4
<1>14. OccupancyFaithful'
  <2>1. DOMAIN timeline.rows' = 1..Len(timeline.rows')
    BY <1>2
  <2>2. ASSUME NEW r \in 1..Len(timeline.rows')
        PROVE  /\ HasLeftX(r)' => timeline.rows'[r].pc = truth'[Place(r)'].pc
               /\ timeline.rows'[r].inM = IF HasLeftX(r)' THEN truth'[Place(r)'].inM ELSE {}
    <3>1. CASE r \in Issued
      BY <1>6, <1>12, <1>13, <3>1
    <3>2. CASE r \notin Issued
      <4>1. ~HasLeftX(r)' /\ ~HasLeftX(r) /\ (r # timeline.inM' \/ r = NoRow)
        BY <1>8, <1>11, <1>13, <3>2
      <4>2. r # NoRow /\ (r \in 1..n \/ (r = n + 1 /\ Len(timeline.rows') = n + 1))
        BY <1>2, <2>2 DEF NoRow
      <4>3. timeline.rows'[r].inM = {}
        BY <1>2, <1>8, <4>1, <4>2
      <4> QED
        BY <4>1, <4>3
    <3> QED
      BY <3>1, <3>2
  <2>3. Cardinality(Issued') = left + (IF Issue' THEN 1 ELSE 0)
    BY <1>1, <1>6
  <2> QED
    BY <2>1, <2>2, <2>3 DEF OccupancyFaithful
<1>15. (x.use => ~m.stall)'
  BY DEF Record, ProbedEdge, CoreEdge, Presented
<1>16. /\ holder' \in 0..left
       /\ holder' # NoRow => HasLeftX(timeline.inM)' /\ Place(timeline.inM)' = holder'
  <2>1. holder' # NoRow => timeline.inM' \in Issued /\ Place(timeline.inM') = holder'
    BY <1>11
  <2>2. ASSUME NEW r \in Issued, r = timeline.inM'
        PROVE  HasLeftX(timeline.inM)' /\ Place(timeline.inM)' = Place(r)
    <3>1. Place(timeline.inM)' = PlaceIn(Issued', r)
      BY <2>2 DEF Place, PlaceIn
    <3>2. Place(r)' = PlaceIn(Issued', r)
      BY <1>5
    <3>3. r \in Issued' /\ Place(r)' = Place(r) /\ Place(r) <= left
      BY <1>1, <1>2, <1>4, <1>6
    <3> QED
      BY <2>2, <3>1, <3>2, <3>3 DEF HasLeftX
  <2> QED
    BY <1>1, <1>11, <2>1, <2>2
<1> QED
  BY <1>1, <1>2, <1>11, <1>14, <1>15, <1>16 DEF Counted

\* The rows that issued are the instructions that left X, in order, each drawn in
\* M in just the cycles it was there, over a record of any length.
THEOREM RowsAreInstructions == Spec => []OccupancyFaithful
<1>1. Init => InStep /\ Counted
  BY InitInStep, InitCounted
<1>2. InStep /\ Counted /\ [Next]_vars => (InStep /\ Counted)'
  <2>1. InStep /\ Counted /\ UNCHANGED vars => (InStep /\ Counted)'
    BY DEF InStep, Follows, Snapshot, vars, coreVars, recordVars, Issue, Counted,
           OccupancyFaithful, HasLeftX, Place, Issued
  <2> QED
    BY <2>1, RecordInStep, RecordCounted DEF Next
<1>3. Counted => OccupancyFaithful
  BY DEF Counted
<1> QED
  BY <1>1, <1>2, <1>3, PTL DEF Spec

-----------------------------------------------------------------------------
(***************************************************************************)
(* What a trace says of the writes.                                        *)
(***************************************************************************)

CommitRow == [cycle : Nat, value : Val, writes : Nat, unchanged : BOOLEAN]
EventRow  == [cycle : Nat, value : Val, writes : Nat]

UpTo(s, n) == Cardinality({i \in DOMAIN s : s[i].cycle <= n})

ValueBefore(s, i) == IF i = 1 THEN 0 ELSE s[i - 1].value

(***************************************************************************)
(* The machine counts what it commits.  The first cycle after a reset      *)
(* commits nothing, so a trace that begins there spans every write.        *)
(***************************************************************************)
CommitsCounted ==
  /\ x \in StageX /\ m \in StageM /\ cycles \in Nat /\ retired \in Nat
  /\ cycles = 0 => ~m.wen
  /\ regfile \in [Reg -> Val] /\ wrote \in [Reg -> Nat]
  /\ regs \in [Reg -> Activity(Val)]
  /\ commits \in [Reg -> Seq(CommitRow)]
  /\ \A r \in Reg :
       /\ regs[r].writes = wrote[r]
       /\ Len(commits[r]) = wrote[r]
       /\ regfile[r] = ValueBefore(commits[r], wrote[r] + 1)
       /\ \A i \in 1..Len(commits[r]) :
            /\ commits[r][i].cycle \in 2..cycles
            /\ commits[r][i].unchanged = (commits[r][i].value = ValueBefore(commits[r], i))

(***************************************************************************)
(* The last line has the counts of the commits up to its cycle, and the    *)
(* events are the commits between the first line and it.                   *)
(***************************************************************************)
ScanRight ==
  /\ lines \in Seq(Nat) /\ \A i \in 1..Len(lines) : lines[i] \in 1..cycles
  /\ lines = <<>> => scan = NoScan(Reg)
  /\ lines # <<>> =>
       /\ scan.prev.cycle = lines[Len(lines)]
       /\ scan.prev.retired \in 0..retired
       /\ DOMAIN scan.prev.regs = Reg
       /\ \A r \in Reg : /\ scan.prev.regs[r].writes \in 0..wrote[r]
                         /\ lines[Len(lines)] = cycles => scan.prev.regs[r].writes = wrote[r]
  /\ scan.problems = {} <=> Unbroken
  /\ scan.events \in [Reg -> Seq(EventRow)]
  /\ Unbroken /\ lines # <<>> =>
       \A r \in Reg :
         LET from == UpTo(commits[r], lines[1])
             till == UpTo(commits[r], lines[Len(lines)])
         IN  /\ from \in 0..till /\ till \in 0..wrote[r]
             /\ lines[1] = 1 => from = 0
             /\ scan.events[r] = [i \in 1..till - from |-> Plain(commits[r][from + i])]

LEMMA CountTo ==
  ASSUME NEW n \in Nat
  PROVE  IsFiniteSet(1..n) /\ Cardinality(1..n) = n
<1>1. IsFiniteSet(1..n) /\ Cardinality(1..n) = IF 1 > n THEN 0 ELSE n - 1 + 1
  BY FS_Interval
<1> QED
  BY <1>1

LEMMA UpToType ==
  ASSUME NEW s \in Seq(CommitRow), NEW n \in Nat
  PROVE  UpTo(s, n) \in 0..Len(s)
<1> DEFINE B == {i \in DOMAIN s : s[i].cycle <= n}
<1>1. B \subseteq 1..Len(s) /\ Len(s) \in Nat
  OBVIOUS
<1>2. IsFiniteSet(1..Len(s)) /\ Cardinality(1..Len(s)) = Len(s)
  BY <1>1, CountTo
<1> HIDE DEF B
<1>3. IsFiniteSet(B) /\ Cardinality(B) <= Len(s) /\ Cardinality(B) \in Nat
  BY <1>1, <1>2, FS_Subset, FS_CardinalityType
<1> QED
  BY <1>1, <1>3 DEF UpTo, B

\* All commits are up to a cycle that none is later than.
LEMMA UpToAll ==
  ASSUME NEW s \in Seq(CommitRow), NEW n \in Nat, \A i \in 1..Len(s) : s[i].cycle <= n
  PROVE  UpTo(s, n) = Len(s)
<1>1. DOMAIN s = 1..Len(s) /\ Len(s) \in Nat
  OBVIOUS
<1>2. {i \in DOMAIN s : s[i].cycle <= n} = 1..Len(s)
  BY <1>1, Zenon
<1> QED
  BY <1>1, <1>2, CountTo DEF UpTo

\* A later commit does not count.
LEMMA UpToAppend ==
  ASSUME NEW s \in Seq(CommitRow), NEW e \in CommitRow, NEW n \in Nat, n < e.cycle
  PROVE  UpTo(Append(s, e), n) = UpTo(s, n)
<1> DEFINE a == Append(s, e)
<1>1. /\ DOMAIN a = 1..Len(s) + 1 /\ DOMAIN s = 1..Len(s) /\ Len(s) \in Nat
      /\ a[Len(s) + 1] = e
      /\ \A i \in 1..Len(s) : a[i] = s[i]
  OBVIOUS
<1>2. ~(e.cycle <= n)
  BY DEF CommitRow
<1> HIDE DEF a
<1>3. \A i : i \in DOMAIN a /\ a[i].cycle <= n <=> i \in DOMAIN s /\ s[i].cycle <= n
  BY <1>1, <1>2
<1>4. {i \in DOMAIN a : a[i].cycle <= n} = {i \in DOMAIN s : s[i].cycle <= n}
  BY <1>3, Zenon
<1> QED
  BY <1>4 DEF UpTo, a

LEMMA InitTraced == RecordingInit => CommitsCounted /\ ScanRight
<1> SUFFICES ASSUME RecordingInit PROVE CommitsCounted /\ ScanRight
  OBVIOUS
<1>1. /\ x \in StageX /\ m \in StageM /\ ~m.wen /\ cycles = 0 /\ retired = 0
      /\ regfile = [r \in Reg |-> 0] /\ wrote = [r \in Reg |-> 0]
      /\ regs = [r \in Reg |-> Untouched]
      /\ scan = NoScan(Reg) /\ lines = <<>> /\ commits = [r \in Reg |-> <<>>]
  BY CoreAssumption DEF RecordingInit, Init, ProbedInit, CoreInit, StarvedX, QuietM, ResetActivity
<1>2. Untouched \in Activity(Val) /\ Untouched.writes = 0
  BY CoreAssumption DEF Untouched, Activity, NEVER
<1>3. <<>> \in Seq(CommitRow) /\ <<>> \in Seq(EventRow) /\ <<>> \in Seq(Nat) /\ Len(<<>>) = 0
  OBVIOUS
<1>4. regs \in [Reg -> Activity(Val)] /\ \A r \in Reg : regs[r].writes = wrote[r]
  BY <1>1, <1>2
<1>5. /\ commits \in [Reg -> Seq(CommitRow)] /\ \A r \in Reg : commits[r] = <<>>
      /\ regfile \in [Reg -> Val] /\ wrote \in [Reg -> Nat]
      /\ \A r \in Reg : regfile[r] = 0 /\ wrote[r] = 0
  BY <1>1, <1>3, CoreAssumption
<1>6. CommitsCounted
  BY <1>1, <1>3, <1>4, <1>5 DEF CommitsCounted, ValueBefore
<1>7. scan.problems = {} /\ scan.events = [r \in Reg |-> <<>>]
  BY <1>1 DEF NoScan
<1>8. scan.events \in [Reg -> Seq(EventRow)]
  BY <1>3, <1>7
<1>9. Unbroken
  BY <1>1, <1>3 DEF Unbroken
<1>10. ScanRight
  BY <1>1, <1>3, <1>7, <1>8, <1>9 DEF ScanRight
<1> QED
  BY <1>6, <1>10

\* What a pass does to the machine's counts, register by register.
LEMMA PassCounts ==
  ASSUME CommitsCounted, NEW kept, Pass(kept)
  PROVE  /\ x' \in StageX /\ m' \in StageM /\ cycles' = cycles + 1
         /\ retired' \in Nat /\ retired <= retired'
         /\ regfile' \in [Reg -> Val] /\ wrote' \in [Reg -> Nat]
         /\ regs' \in [Reg -> Activity(Val)]
         /\ commits' \in [Reg -> Seq(CommitRow)]
         /\ \A r \in Reg :
              IF m.wen /\ r = m.rd
              THEN LET c == [cycle |-> cycles + 1, value |-> m.result, writes |-> wrote[r] + 1,
                             unchanged |-> m.result = regfile[r]]
                   IN  /\ regs'[r].writes = regs[r].writes + 1 /\ wrote'[r] = wrote[r] + 1
                       /\ regfile'[r] = m.result /\ c \in CommitRow
                       /\ commits'[r] = Append(commits[r], c) /\ cycles > 0
              ELSE /\ regs'[r].writes = regs[r].writes /\ wrote'[r] = wrote[r]
                   /\ regfile'[r] = regfile[r] /\ commits'[r] = commits[r]
<1>1. /\ m \in StageM /\ x \in StageX /\ cycles \in Nat /\ retired \in Nat
      /\ regfile \in [Reg -> Val] /\ wrote \in [Reg -> Nat] /\ regs \in [Reg -> Activity(Val)]
      /\ commits \in [Reg -> Seq(CommitRow)] /\ (cycles = 0 => ~m.wen)
  BY DEF CommitsCounted
<1>2. /\ x' \in StageX /\ m' \in StageM /\ cycles' = cycles + 1
      /\ regfile' = (IF m.wen THEN [regfile EXCEPT ![m.rd] = m.result] ELSE regfile)
      /\ wrote' = (IF m.wen THEN [wrote EXCEPT ![m.rd] = @ + 1] ELSE wrote)
      /\ regs' = (IF m.wen THEN NoteWrite(regs, m.rd, m.result, cycles + 1) ELSE regs)
      /\ retired' = (IF x.ret THEN retired + 1 ELSE retired)
      /\ commits' = (IF m.wen THEN [commits EXCEPT ![m.rd] = Append(@, Commit)] ELSE commits)
  BY CoreAssumption DEF Pass, Record, ProbedEdge, CoreEdge
<1>3. m.wen \in BOOLEAN /\ m.rd \in Reg /\ m.result \in Val /\ (m.wen => m.rd # 0)
  BY <1>1 DEF StageM
<1>4. retired' \in Nat /\ retired <= retired'
  BY <1>1, <1>2
<1>5. CASE ~m.wen
  BY <1>1, <1>2, <1>4, <1>5
<1>6. CASE m.wen
  <2> DEFINE a == [writes         |-> regs[m.rd].writes + 1,
                   lastWriteCycle |-> cycles + 1,
                   lastReadCycle  |-> regs[m.rd].lastReadCycle,
                   lastWriteValue |-> m.result]
  <2>1. regs[m.rd] \in Activity(Val)
    BY <1>1, <1>3
  <2>2. a \in Activity(Val) /\ a.writes = regs[m.rd].writes + 1
    BY <1>1, <1>3, <2>1 DEF Activity
  <2>3. regs' = [regs EXCEPT ![m.rd] = a]
    BY <1>2, <1>3, <1>6 DEF NoteWrite
  <2>4. Commit \in CommitRow
    BY <1>1, <1>3 DEF Commit, CommitRow
  <2>5. Append(commits[m.rd], Commit) \in Seq(CommitRow)
    BY <1>1, <1>3, <2>4
  <2> HIDE DEF a
  <2>6. /\ regs' \in [Reg -> Activity(Val)]
        /\ \A r \in Reg : regs'[r] = IF r = m.rd THEN a ELSE regs[r]
    BY <1>1, <1>3, <2>2, <2>3
  <2>7. /\ commits' \in [Reg -> Seq(CommitRow)]
        /\ \A r \in Reg : commits'[r] = IF r = m.rd THEN Append(commits[r], Commit)
                                                    ELSE commits[r]
    BY <1>1, <1>2, <1>3, <1>6, <2>5
  <2>8. /\ regfile' \in [Reg -> Val] /\ wrote' \in [Reg -> Nat]
        /\ \A r \in Reg : /\ regfile'[r] = IF r = m.rd THEN m.result ELSE regfile[r]
                          /\ wrote'[r] = IF r = m.rd THEN wrote[r] + 1 ELSE wrote[r]
    BY <1>1, <1>2, <1>3, <1>6
  <2>9. cycles > 0
    BY <1>1, <1>6
  <2> QED
    BY <1>2, <1>4, <1>6, <2>2, <2>4, <2>6, <2>7, <2>8, <2>9 DEF Commit
<1> QED
  BY <1>3, <1>5, <1>6

LEMMA PassKeepsCounts ==
  ASSUME CommitsCounted, NEW kept, Pass(kept)
  PROVE  CommitsCounted'
<1>1. /\ cycles \in Nat /\ commits \in [Reg -> Seq(CommitRow)] /\ wrote \in [Reg -> Nat]
      /\ \A r \in Reg :
           /\ regs[r].writes = wrote[r]
           /\ Len(commits[r]) = wrote[r]
           /\ regfile[r] = ValueBefore(commits[r], wrote[r] + 1)
           /\ \A i \in 1..Len(commits[r]) :
                /\ commits[r][i].cycle \in 2..cycles
                /\ commits[r][i].unchanged = (commits[r][i].value = ValueBefore(commits[r], i))
  BY DEF CommitsCounted
<1>2. /\ x' \in StageX /\ m' \in StageM /\ cycles' = cycles + 1
      /\ retired' \in Nat /\ retired <= retired'
      /\ regfile' \in [Reg -> Val] /\ wrote' \in [Reg -> Nat]
      /\ regs' \in [Reg -> Activity(Val)]
      /\ commits' \in [Reg -> Seq(CommitRow)]
  BY PassCounts
<1>3. ASSUME NEW r \in Reg
      PROVE  /\ regs'[r].writes = wrote'[r]
             /\ Len(commits'[r]) = wrote'[r]
             /\ regfile'[r] = ValueBefore(commits'[r], wrote'[r] + 1)
             /\ \A i \in 1..Len(commits'[r]) :
                  /\ commits'[r][i].cycle \in 2..cycles'
                  /\ commits'[r][i].unchanged
                       = (commits'[r][i].value = ValueBefore(commits'[r], i))
  <2>1. CASE m.wen /\ r = m.rd
    <3> DEFINE c == [cycle |-> cycles + 1, value |-> m.result, writes |-> wrote[r] + 1,
                     unchanged |-> m.result = regfile[r]]
               s == commits[r]
               n == wrote[r]
    <3>1. /\ regs'[r].writes = regs[r].writes + 1 /\ wrote'[r] = n + 1
          /\ regfile'[r] = m.result /\ c \in CommitRow
          /\ commits'[r] = Append(s, c) /\ cycles > 0
      BY <2>1, PassCounts
    <3>2. c.cycle = cycles + 1 /\ c.value = m.result /\ c.unchanged = (m.result = regfile[r])
      OBVIOUS
    <3>3. /\ s \in Seq(CommitRow) /\ Len(s) = n /\ n \in Nat
          /\ regfile[r] = ValueBefore(s, n + 1)
          /\ \A i \in 1..n : /\ s[i].cycle \in 2..cycles
                             /\ s[i].unchanged = (s[i].value = ValueBefore(s, i))
      BY <1>1
    <3> HIDE DEF c, s, n
    <3>4. /\ Len(Append(s, c)) = n + 1 /\ Append(s, c)[n + 1] = c
          /\ \A i \in 1..n : Append(s, c)[i] = s[i]
      BY <3>1, <3>3
    <3>5. \A i \in 1..n + 1 : ValueBefore(Append(s, c), i) = ValueBefore(s, i)
      <4> SUFFICES ASSUME NEW i \in 1..n + 1
                   PROVE  ValueBefore(Append(s, c), i) = ValueBefore(s, i)
        OBVIOUS
      <4>1. i # 1 => i - 1 \in 1..n
        BY <3>3
      <4> QED
        BY <3>4, <4>1 DEF ValueBefore
    <3>6. ValueBefore(Append(s, c), n + 2) = m.result
      <4>1. n + 2 # 1 /\ (n + 2) - 1 = n + 1
        BY <3>3
      <4> QED
        BY <3>2, <3>4, <4>1 DEF ValueBefore
    <3>7. ASSUME NEW i \in 1..n + 1
          PROVE  /\ Append(s, c)[i].cycle \in 2..cycles + 1
                 /\ Append(s, c)[i].unchanged
                      = (Append(s, c)[i].value = ValueBefore(Append(s, c), i))
      <4>1. CASE i = n + 1
        BY <1>1, <3>1, <3>2, <3>3, <3>4, <3>5, <4>1
      <4>2. CASE i # n + 1
        <5>1. i \in 1..n
          BY <3>3, <4>2
        <5> QED
          BY <1>1, <3>3, <3>4, <3>5, <5>1
      <4> QED
        BY <4>1, <4>2
    <3>8. regs[r].writes = n /\ (n + 1) + 1 = n + 2
      BY <1>1, <3>3 DEF n
    <3> QED
      BY <1>2, <3>1, <3>4, <3>6, <3>7, <3>8
  <2>2. CASE ~(m.wen /\ r = m.rd)
    <3>1. /\ regs'[r].writes = regs[r].writes /\ wrote'[r] = wrote[r]
          /\ regfile'[r] = regfile[r] /\ commits'[r] = commits[r]
      BY <2>2, PassCounts
    <3> QED
      BY <1>1, <1>2, <3>1
  <2> QED
    BY <2>1, <2>2
<1>4. cycles' \in Nat /\ cycles' # 0
  BY <1>1, <1>2
<1> QED
  BY <1>2, <1>3, <1>4 DEF CommitsCounted

\* A pass changes nothing about the cycles before it.
LEMMA PassKeepsPast ==
  ASSUME CommitsCounted, NEW kept, Pass(kept), NEW r \in Reg
  PROVE  /\ \A n \in 0..cycles : UpTo(commits'[r], n) = UpTo(commits[r], n)
         /\ \A i \in 1..wrote[r] : commits'[r][i] = commits[r][i]
         /\ UpTo(commits'[r], cycles') = wrote'[r]
         /\ UpTo(commits[r], cycles) = wrote[r]
<1>1. /\ cycles \in Nat /\ commits[r] \in Seq(CommitRow) /\ wrote[r] \in Nat
      /\ Len(commits[r]) = wrote[r]
      /\ \A i \in 1..Len(commits[r]) : commits[r][i].cycle <= cycles
  BY DEF CommitsCounted
<1>2. /\ cycles' \in Nat /\ commits'[r] \in Seq(CommitRow) /\ Len(commits'[r]) = wrote'[r]
      /\ \A i \in 1..Len(commits'[r]) : commits'[r][i].cycle <= cycles'
  BY PassKeepsCounts DEF CommitsCounted
<1>3. UpTo(commits'[r], cycles') = wrote'[r] /\ UpTo(commits[r], cycles) = wrote[r]
  BY <1>1, <1>2, UpToAll
<1>4. CASE m.wen /\ r = m.rd
  <2> DEFINE c == [cycle |-> cycles + 1, value |-> m.result, writes |-> wrote[r] + 1,
                   unchanged |-> m.result = regfile[r]]
  <2>1. c \in CommitRow /\ commits'[r] = Append(commits[r], c) /\ c.cycle = cycles + 1
    BY <1>4, PassCounts
  <2> HIDE DEF c
  <2>2. \A i \in 1..wrote[r] : commits'[r][i] = commits[r][i]
    BY <1>1, <2>1
  <2>3. \A n \in 0..cycles : UpTo(commits'[r], n) = UpTo(commits[r], n)
    BY <1>1, <2>1, UpToAppend
  <2> QED
    BY <1>3, <2>2, <2>3
<1>5. CASE ~(m.wen /\ r = m.rd)
  BY <1>3, <1>5, PassCounts
<1> QED
  BY <1>4, <1>5

\* A line that the file leaves out.
LEMMA SkippedKeepsScan ==
  ASSUME CommitsCounted, ScanRight, Pass(FALSE)
  PROVE  ScanRight'
<1>1. lines' = lines /\ scan' = scan
  BY DEF Pass
<1>2. /\ cycles \in Nat /\ cycles' = cycles + 1 /\ retired' \in Nat /\ retired \in Nat
      /\ retired <= retired' /\ wrote' \in [Reg -> Nat] /\ wrote \in [Reg -> Nat]
      /\ \A r \in Reg : wrote[r] <= wrote'[r]
  <2>1. /\ cycles \in Nat /\ retired \in Nat /\ wrote \in [Reg -> Nat]
    BY DEF CommitsCounted
  <2>2. \A r \in Reg : wrote'[r] = wrote[r] + 1 \/ wrote'[r] = wrote[r]
    BY PassCounts
  <2>3. \A r \in Reg : wrote[r] <= wrote'[r]
    BY <2>1, <2>2
  <2>4. /\ cycles' = cycles + 1 /\ retired' \in Nat /\ retired <= retired'
        /\ wrote' \in [Reg -> Nat]
    BY PassCounts
  <2> QED
    BY <2>1, <2>3, <2>4
<1>3. /\ lines \in Seq(Nat) /\ \A i \in 1..Len(lines) : lines[i] \in 1..cycles
  BY DEF ScanRight
<1>4. lines # <<>> => Len(lines) \in 1..Len(lines)
  BY <1>3
<1>5. lines # <<>> => lines[1] \in 1..cycles /\ lines[Len(lines)] \in 1..cycles
  BY <1>3, <1>4
<1>6. \A i \in 1..Len(lines') : lines'[i] \in 1..cycles'
  BY <1>1, <1>2, <1>3
<1>7. scan'.problems = {} <=> Unbroken'
  BY <1>1 DEF ScanRight, Unbroken
<1>8. ASSUME lines # <<>>, NEW r \in Reg
      PROVE  /\ scan'.prev.regs[r].writes \in 0..wrote'[r]
             /\ lines'[Len(lines')] # cycles'
  <2>1. scan.prev.regs[r].writes \in 0..wrote[r]
    BY <1>8 DEF ScanRight
  <2> QED
    BY <1>1, <1>2, <1>5, <1>8, <2>1
<1>9. ASSUME Unbroken, lines # <<>>, NEW r \in Reg
      PROVE  LET from == UpTo(commits[r], lines[1])'
                 till == UpTo(commits[r], lines[Len(lines)])'
             IN  /\ from \in 0..till /\ till \in 0..wrote'[r]
                 /\ lines'[1] = 1 => from = 0
                 /\ scan'.events[r] = [i \in 1..till - from |-> Plain(commits'[r][from + i])]
  <2> DEFINE from == UpTo(commits[r], lines[1])
             till == UpTo(commits[r], lines[Len(lines)])
  <2>1. /\ from \in 0..till /\ till \in 0..wrote[r]
        /\ lines[1] = 1 => from = 0
        /\ scan.events[r] = [i \in 1..till - from |-> Plain(commits[r][from + i])]
    BY <1>9 DEF ScanRight
  <2>2. UpTo(commits[r], lines[1])' = from /\ UpTo(commits[r], lines[Len(lines)])' = till
    <3>1. lines[1] \in 0..cycles /\ lines[Len(lines)] \in 0..cycles
      BY <1>2, <1>5, <1>9
    <3>2. /\ UpTo(commits'[r], lines[1]) = from
          /\ UpTo(commits'[r], lines[Len(lines)]) = till
      BY <3>1, PassKeepsPast
    <3> QED
      BY <1>1, <3>2
  <2> HIDE DEF from, till
  <2>3. \A i \in 1..till - from : from + i \in 1..wrote[r]
    BY <1>2, <2>1
  <2>4. \A i \in 1..till - from : commits'[r][from + i] = commits[r][from + i]
    BY <2>3, PassKeepsPast
  <2>5. [i \in 1..till - from |-> Plain(commits'[r][from + i])]
          = [i \in 1..till - from |-> Plain(commits[r][from + i])]
    BY <2>4
  <2>6. till \in 0..wrote'[r]
    BY <1>2, <2>1
  <2> QED
    BY <1>1, <2>1, <2>2, <2>5, <2>6
<1>10. Unbroken' => Unbroken
  BY <1>1 DEF Unbroken
<1>11. /\ lines' \in Seq(Nat) /\ (lines' = <<>> => scan' = NoScan(Reg))
       /\ scan'.events \in [Reg -> Seq(EventRow)]
  BY <1>1 DEF ScanRight
<1>12. lines' # <<>> =>
         /\ scan'.prev.cycle = lines'[Len(lines')]
         /\ scan'.prev.retired \in 0..retired'
         /\ DOMAIN scan'.prev.regs = Reg
         /\ \A r \in Reg : /\ scan'.prev.regs[r].writes \in 0..wrote'[r]
                           /\ lines'[Len(lines')] = cycles'
                                => scan'.prev.regs[r].writes = wrote'[r]
  BY <1>1, <1>2, <1>8 DEF ScanRight
<1> QED
  BY <1>1, <1>6, <1>7, <1>9, <1>10, <1>11, <1>12 DEF ScanRight

\* The first line of the file: nothing precedes it.
LEMMA FirstLine ==
  ASSUME CommitsCounted, ScanRight, Pass(TRUE), lines = <<>>
  PROVE  ScanRight'
<1>1. /\ cycles \in Nat /\ cycles' = cycles + 1 /\ retired' \in Nat
      /\ wrote' \in [Reg -> Nat]
      /\ \A r \in Reg : regs'[r].writes = wrote'[r]
  <2>1. cycles \in Nat
    BY DEF CommitsCounted
  <2>2. \A r \in Reg : regs'[r].writes = wrote'[r]
    BY PassKeepsCounts DEF CommitsCounted
  <2> QED
    BY <2>1, <2>2, PassCounts
<1>2. /\ lines' \in Seq(Nat) /\ Len(lines') = 1 /\ lines'[1] = cycles + 1
  BY <1>1 DEF Pass
<1>3. /\ Line'.cycle = cycles' /\ Line'.retired = retired' /\ DOMAIN Line'.regs = Reg
      /\ \A r \in Reg : Line'.regs[r].writes = wrote'[r]
  BY <1>1 DEF Line
<1>4. scan = NoScan(Reg) /\ scan' = Scan(scan, Line')
  BY DEF ScanRight, Pass
<1>5. scan'.prev = Line' /\ scan'.problems = {} /\ scan'.events = [r \in Reg |-> <<>>]
  BY <1>4 DEF Scan, NoScan
<1>6. Unbroken'
  BY <1>2 DEF Unbroken
<1>7. scan'.events \in [Reg -> Seq(EventRow)] /\ \A r \in Reg : scan'.events[r] = <<>>
  <2>1. <<>> \in Seq(EventRow)
    OBVIOUS
  <2> QED
    BY <1>5, <2>1
<1>8. ASSUME NEW r \in Reg
      PROVE  LET from == UpTo(commits[r], lines[1])'
                 till == UpTo(commits[r], lines[Len(lines)])'
             IN  /\ from \in 0..till /\ till \in 0..wrote'[r]
                 /\ lines'[1] = 1 => from = 0
                 /\ scan'.events[r] = [i \in 1..till - from |-> Plain(commits'[r][from + i])]
  <2>1. UpTo(commits'[r], cycles + 1) = wrote'[r]
    BY <1>1, PassKeepsPast
  <2>2. /\ UpTo(commits[r], lines[1])' = wrote'[r]
        /\ UpTo(commits[r], lines[Len(lines)])' = wrote'[r]
    BY <1>2, <2>1
  <2>3. wrote'[r] \in Nat /\ wrote'[r] - wrote'[r] = 0
    BY <1>1
  <2>4. cycles = 0 => wrote'[r] = 0
    <3>1. cycles = 0 => wrote'[r] = wrote[r]
      BY PassCounts DEF CommitsCounted
    <3>2. cycles = 0 => wrote[r] = 0
      <4>1. /\ Len(commits[r]) = wrote[r] /\ wrote[r] \in Nat
            /\ \A i \in 1..Len(commits[r]) : commits[r][i].cycle \in 2..cycles
        BY DEF CommitsCounted
      <4>2. ASSUME cycles = 0, wrote[r] # 0 PROVE FALSE
        <5>1. 1 \in 1..Len(commits[r])
          BY <4>1, <4>2
        <5>2. commits[r][1].cycle \in 2..0
          BY <4>1, <4>2, <5>1
        <5> QED
          BY <5>2
      <4> QED
        BY <4>2
    <3> QED
      BY <3>1, <3>2
  <2>5. lines'[1] = 1 => wrote'[r] = 0
    BY <1>1, <1>2, <2>4
  <2>6. \A c : <<>> = [i \in 1..0 |-> Plain(c[wrote'[r] + i])]
    OBVIOUS
  <2> QED
    BY <1>7, <2>2, <2>3, <2>5, <2>6
<1>9. lines' # <<>> =>
        /\ scan'.prev.cycle = lines'[Len(lines')]
        /\ scan'.prev.retired \in 0..retired'
        /\ DOMAIN scan'.prev.regs = Reg
        /\ \A r \in Reg : /\ scan'.prev.regs[r].writes \in 0..wrote'[r]
                          /\ lines'[Len(lines')] = cycles'
                               => scan'.prev.regs[r].writes = wrote'[r]
  BY <1>1, <1>2, <1>3, <1>5
<1>10. /\ \A i \in 1..Len(lines') : lines'[i] \in 1..cycles'
       /\ lines' # <<>>
  BY <1>1, <1>2
<1> QED
  BY <1>2, <1>5, <1>6, <1>7, <1>8, <1>9, <1>10 DEF ScanRight

LEMMA AppendIs ==
  ASSUME NEW S, NEW s \in Seq(S), NEW e \in S
  PROVE  Append(s, e) = [i \in 1..Len(s) + 1 |-> IF i = Len(s) + 1 THEN e ELSE s[i]]
<1> DEFINE a == Append(s, e)
<1>1. /\ a \in Seq(S) /\ Len(a) = Len(s) + 1 /\ a[Len(s) + 1] = e
      /\ \A i \in 1..Len(s) : a[i] = s[i]
  OBVIOUS
<1> HIDE DEF a
<1>2. a = [i \in 1..Len(s) + 1 |-> a[i]]
  BY <1>1
<1>3. \A i \in 1..Len(s) + 1 : a[i] = IF i = Len(s) + 1 THEN e ELSE s[i]
  BY <1>1
<1> QED
  BY <1>2, <1>3 DEF a

\* Every other line: the one before it has the counts that the new commits are
\* told by, unless a line is missing in between, which validateTrace reports.
LEMMA NextLine ==
  ASSUME CommitsCounted, ScanRight, Pass(TRUE), lines # <<>>
  PROVE  ScanRight'
<1> DEFINE n == Len(lines)
<1>1. /\ cycles \in Nat /\ cycles' = cycles + 1 /\ retired' \in Nat /\ retired \in Nat
      /\ retired <= retired' /\ wrote \in [Reg -> Nat] /\ wrote' \in [Reg -> Nat]
      /\ \A r \in Reg : regs'[r].writes = wrote'[r]
      /\ \A r \in Reg : wrote[r] <= wrote'[r]
  <2>1. /\ cycles \in Nat /\ retired \in Nat /\ wrote \in [Reg -> Nat]
    BY DEF CommitsCounted
  <2>2. \A r \in Reg : wrote'[r] = wrote[r] + 1 \/ wrote'[r] = wrote[r]
    BY PassCounts
  <2>3. \A r \in Reg : wrote[r] <= wrote'[r]
    BY <2>1, <2>2
  <2>4. /\ cycles' = cycles + 1 /\ retired' \in Nat /\ retired <= retired'
        /\ wrote' \in [Reg -> Nat]
    BY PassCounts
  <2>5. \A r \in Reg : regs'[r].writes = wrote'[r]
    BY PassKeepsCounts DEF CommitsCounted
  <2> QED
    BY <2>1, <2>3, <2>4, <2>5
<1>2. /\ lines \in Seq(Nat) /\ n \in Nat \ {0} /\ \A i \in 1..n : lines[i] \in 1..cycles
      /\ scan.prev.cycle = lines[n]
      /\ scan.prev.retired \in 0..retired
      /\ DOMAIN scan.prev.regs = Reg
      /\ \A r \in Reg : /\ scan.prev.regs[r].writes \in 0..wrote[r]
                        /\ lines[n] = cycles => scan.prev.regs[r].writes = wrote[r]
      /\ scan.problems = {} <=> Unbroken
      /\ scan.events \in [Reg -> Seq(EventRow)]
  <2>1. lines \in Seq(Nat)
    BY DEF ScanRight
  <2>2. n \in Nat \ {0}
    BY <2>1
  <2> QED
    BY <2>2 DEF ScanRight
<1>3. /\ lines' \in Seq(Nat) /\ Len(lines') = n + 1 /\ lines'[n + 1] = cycles + 1
      /\ \A i \in 1..n : lines'[i] = lines[i]
  BY <1>1, <1>2 DEF Pass
<1>4. lines[1] \in 1..cycles /\ lines[n] \in 1..cycles
  BY <1>2
<1>5. /\ Line'.cycle = cycles' /\ Line'.retired = retired' /\ DOMAIN Line'.regs = Reg
      /\ \A r \in Reg : Line'.regs[r].writes = wrote'[r] /\ Line'.regs[r].value = regfile'[r]
  BY <1>1 DEF Line
<1>6. /\ scan'.prev = Line' /\ scan'.problems = scan.problems \cup Problems(scan.prev, Line')
      /\ scan'.events = [r \in Reg |-> IF WriteIn(scan.prev, Line', r)
                                       THEN Append(scan.events[r], Event(Line', r))
                                       ELSE scan.events[r]]
  <2>1. scan.prev # NoLine
    BY <1>1, <1>2, <1>4 DEF NoLine
  <2>2. scan' = Scan(scan, Line')
    BY DEF Pass
  <2> QED
    BY <1>2, <2>1, <2>2 DEF Scan
<1>7. Problems(scan.prev, Line') = {} <=> lines[n] = cycles
  <2>1. Line'.cycle # scan.prev.cycle + 1 <=> lines[n] # cycles
    BY <1>1, <1>2, <1>4, <1>5
  <2>2. ~(Line'.retired < scan.prev.retired)
    BY <1>1, <1>2, <1>5
  <2>3. ~\E r \in DOMAIN Line'.regs : Line'.regs[r].writes < scan.prev.regs[r].writes
    BY <1>1, <1>2, <1>5
  <2> QED
    BY <2>1, <2>2, <2>3 DEF Problems
<1>8. Unbroken' <=> Unbroken /\ lines[n] = cycles
  <2>1. Unbroken' => Unbroken /\ lines[n] = cycles
    <3> SUFFICES ASSUME Unbroken' PROVE Unbroken /\ lines[n] = cycles
      OBVIOUS
    <3>1. \A i \in 1..n : lines'[i + 1] = lines'[i] + 1
      BY <1>2, <1>3 DEF Unbroken
    <3>2. \A i \in 1..n - 1 : i \in 1..n /\ i + 1 \in 1..n
      BY <1>2
    <3>3. n \in 1..n
      BY <1>2
    <3>4. cycles + 1 = lines[n] + 1
      BY <1>3, <3>1, <3>3
    <3>5. lines[n] = cycles
      BY <1>1, <1>4, <3>4
    <3> QED
      BY <1>3, <3>1, <3>2, <3>5 DEF Unbroken
  <2>2. ASSUME Unbroken, lines[n] = cycles PROVE Unbroken'
    <3>1. ASSUME NEW i \in 1..n PROVE lines'[i + 1] = lines'[i] + 1
      <4>1. CASE i = n
        BY <1>2, <1>3, <2>2, <4>1
      <4>2. CASE i # n
        <5>1. i \in 1..n - 1 /\ i + 1 \in 1..n
          BY <1>2, <4>2
        <5> QED
          BY <1>3, <2>2, <5>1 DEF Unbroken
      <4> QED
        BY <4>1, <4>2
    <3>2. (Len(lines) - 1)' = n
      BY <1>2, <1>3
    <3> QED
      BY <3>1, <3>2 DEF Unbroken
  <2> QED
    BY <2>1, <2>2
<1>9. scan'.problems = {} <=> Unbroken'
  BY <1>2, <1>6, <1>7, <1>8
<1>10. /\ scan'.events \in [Reg -> Seq(EventRow)]
       /\ \A r \in Reg : Event(Line', r) \in EventRow
  <2>1. \A r \in Reg : Event(Line', r) \in EventRow
    <3>1. regfile' \in [Reg -> Val]
      BY PassCounts
    <3> QED
      BY <1>1, <1>5, <3>1 DEF Event, EventRow
  <2>2. \A r \in Reg : /\ scan.events[r] \in Seq(EventRow)
                       /\ Append(scan.events[r], Event(Line', r)) \in Seq(EventRow)
    BY <1>2, <2>1
  <2> QED
    BY <1>6, <2>1, <2>2
<1>11. ASSUME Unbroken', NEW r \in Reg
       PROVE  LET from == UpTo(commits[r], lines[1])'
                  till == UpTo(commits[r], lines[Len(lines)])'
              IN  /\ from \in 0..till /\ till \in 0..wrote'[r]
                  /\ lines'[1] = 1 => from = 0
                  /\ scan'.events[r] = [i \in 1..till - from |-> Plain(commits'[r][from + i])]
  <2> DEFINE from == UpTo(commits[r], lines[1])
             old == scan.events[r]
  <2>1. Unbroken /\ lines[n] = cycles
    BY <1>8, <1>11
  <2>2. UpTo(commits[r], cycles) = wrote[r]
    BY PassKeepsPast
  <2>3. /\ from \in 0..wrote[r]
        /\ lines[1] = 1 => from = 0
        /\ old = [i \in 1..wrote[r] - from |-> Plain(commits[r][from + i])]
    BY <2>1, <2>2 DEF ScanRight
  <2>4. UpTo(commits[r], lines[1])' = from /\ UpTo(commits[r], lines[Len(lines)])' = wrote'[r]
    <3>1. UpTo(commits'[r], lines[1]) = from
      <4>1. lines[1] \in 0..cycles
        BY <1>1, <1>4
      <4> QED
        BY <4>1, PassKeepsPast
    <3>2. UpTo(commits'[r], cycles + 1) = wrote'[r]
      BY <1>1, PassKeepsPast
    <3>3. lines'[1] = lines[1]
      BY <1>2, <1>3
    <3> QED
      BY <1>3, <3>1, <3>2, <3>3
  <2>5. wrote[r] \in Nat /\ wrote'[r] \in Nat /\ wrote[r] <= wrote'[r]
    BY <1>1
  <2> HIDE DEF from, old
  <2>6. scan'.events[r] = [i \in 1..wrote'[r] - from |-> Plain(commits'[r][from + i])]
    <3>1. \A i \in 1..wrote[r] : commits'[r][i] = commits[r][i]
      BY PassKeepsPast
    <3>2. \A i \in 1..wrote[r] - from : from + i \in 1..wrote[r]
      BY <2>3, <2>5
    <3>3. old = [i \in 1..wrote[r] - from |-> Plain(commits'[r][from + i])]
      BY <2>3, <3>1, <3>2
    <3>4. WriteIn(scan.prev, Line', r) <=> wrote'[r] > wrote[r]
      BY <1>2, <1>5, <2>1 DEF WriteIn
    <3>5. CASE m.wen /\ r = m.rd
      <4> DEFINE c == [cycle |-> cycles + 1, value |-> m.result, writes |-> wrote[r] + 1,
                       unchanged |-> m.result = regfile[r]]
      <4>1. /\ wrote'[r] = wrote[r] + 1 /\ regfile'[r] = m.result
            /\ commits'[r] = Append(commits[r], c)
        BY <3>5, PassCounts
      <4>2. commits[r] \in Seq(CommitRow) /\ Len(commits[r]) = wrote[r]
        BY DEF CommitsCounted
      <4>3. commits'[r][wrote[r] + 1] = c
        BY <4>1, <4>2
      <4>4. Plain(c) = Event(Line', r)
        BY <1>1, <1>5, <4>1 DEF Plain, Event
      <4> HIDE DEF c
      <4>5. scan'.events[r] = Append(old, Plain(c))
        BY <1>6, <2>5, <3>4, <4>1, <4>4 DEF old
      <4>6. old \in Seq(EventRow)
        BY <1>2 DEF old
      <4> DEFINE k == wrote[r] - from
                 F(i) == Plain(commits'[r][from + i])
      <4>7. k \in Nat /\ wrote'[r] - from = k + 1 /\ F(k + 1) = Plain(c)
        <5>1. from + (k + 1) = wrote[r] + 1
          BY <2>3, <2>5
        <5>2. F(k + 1) = Plain(c)
          BY <4>3, <5>1, Zenon
        <5> QED
          BY <2>3, <2>5, <4>1, <5>2
      <4>8. old = [i \in 1..k |-> F(i)]
        BY <3>3
      <4> HIDE DEF k, F
      <4>9. Append(old, Plain(c)) = [i \in 1..k + 1 |-> F(i)]
        <5>0. Plain(c) \in EventRow
          BY <1>10, <4>4
        <5>1. Len(old) = k
          BY <4>6, <4>7, <4>8
        <5>2. Append(old, Plain(c)) = [i \in 1..k + 1 |-> IF i = k + 1 THEN Plain(c) ELSE old[i]]
          <6>1. Append(old, Plain(c))
                  = [i \in 1..Len(old) + 1 |-> IF i = Len(old) + 1 THEN Plain(c) ELSE old[i]]
            BY <4>6, <5>0, AppendIs
          <6> QED
            BY <5>1, <6>1
        <5>3. \A i \in 1..k + 1 : (IF i = k + 1 THEN Plain(c) ELSE old[i]) = F(i)
          BY <4>7, <4>8
        <5> QED
          BY <5>2, <5>3
      <4> QED
        BY <4>5, <4>7, <4>9 DEF F
    <3>6. CASE ~(m.wen /\ r = m.rd)
      <4>1. wrote'[r] = wrote[r]
        BY <3>6, PassCounts
      <4>2. ~WriteIn(scan.prev, Line', r)
        BY <2>5, <3>4, <4>1
      <4>3. scan'.events[r] = old
        BY <1>6, <4>2 DEF old
      <4> QED
        BY <3>3, <4>1, <4>3
    <3> QED
      BY <3>5, <3>6
  <2>7. from \in 0..wrote'[r] /\ wrote'[r] \in 0..wrote'[r]
    BY <2>3, <2>5
  <2>8. lines'[1] = 1 => from = 0
    BY <1>2, <1>3, <2>3
  <2> QED
    BY <2>4, <2>6, <2>7, <2>8
<1>12. \A i \in 1..Len(lines') : lines'[i] \in 1..cycles'
  <2> SUFFICES ASSUME NEW i \in 1..n + 1 PROVE lines'[i] \in 1..cycles'
    BY <1>3
  <2>1. CASE i = n + 1
    BY <1>1, <1>3, <2>1
  <2>2. CASE i # n + 1
    <3>1. i \in 1..n
      BY <1>2, <2>2
    <3>2. lines'[i] = lines[i] /\ lines[i] \in 1..cycles
      BY <1>2, <1>3, <3>1
    <3> QED
      BY <1>1, <3>2
  <2> QED
    BY <2>1, <2>2
<1>13. lines' # <<>> =>
         /\ scan'.prev.cycle = lines'[Len(lines')]
         /\ scan'.prev.retired \in 0..retired'
         /\ DOMAIN scan'.prev.regs = Reg
         /\ \A r \in Reg : /\ scan'.prev.regs[r].writes \in 0..wrote'[r]
                           /\ lines'[Len(lines')] = cycles'
                                => scan'.prev.regs[r].writes = wrote'[r]
  BY <1>1, <1>3, <1>5, <1>6
<1>14. lines' # <<>>
  BY <1>2, <1>3
<1> QED
  BY <1>3, <1>9, <1>10, <1>11, <1>12, <1>13, <1>14 DEF ScanRight

LEMMA PassKeepsScan ==
  ASSUME CommitsCounted, ScanRight, NEW kept \in BOOLEAN, Pass(kept)
  PROVE  ScanRight'
<1>1. CASE kept = FALSE
  BY <1>1, SkippedKeepsScan
<1>2. CASE kept = TRUE /\ lines = <<>>
  BY <1>2, FirstLine
<1>3. CASE kept = TRUE /\ lines # <<>>
  BY <1>3, NextLine
<1> QED
  BY <1>1, <1>2, <1>3

\* What the counts say is what is read back.
LEMMA ScanTrusted == CommitsCounted /\ ScanRight => TraceTrusted
<1> SUFFICES ASSUME CommitsCounted, ScanRight PROVE TraceTrusted
  OBVIOUS
<1>1. scan.problems = {} <=> Unbroken
  BY DEF ScanRight
<1>2. ASSUME Unbroken, lines # <<>>, NEW r \in Reg
      PROVE  LET read == scan.events[r]
             IN  /\ read = [i \in DOMAIN Spanned(r) |-> Plain(Spanned(r)[i])]
                 /\ lines[1] = 1 =>
                      \A i \in DOMAIN read : MarkedUnchanged(read, i) = Spanned(r)[i].unchanged
  <2> DEFINE s == commits[r]
             from == UpTo(s, lines[1])
             till == UpTo(s, lines[Len(lines)])
             read == scan.events[r]
  <2>1. /\ from \in 0..till /\ till \in 0..wrote[r]
        /\ lines[1] = 1 => from = 0
        /\ read = [i \in 1..till - from |-> Plain(s[from + i])]
    BY <1>2 DEF ScanRight
  <2>2. /\ s \in Seq(CommitRow) /\ wrote[r] \in Nat /\ Len(s) = wrote[r]
        /\ \A i \in 1..wrote[r] : s[i].unchanged = (s[i].value = ValueBefore(s, i))
    BY DEF CommitsCounted
  <2>3. Spanned(r) = SubSeq(s, from + 1, till)
    BY DEF Spanned, Until, UpTo
  <2> HIDE DEF from, till, s, read
  <2> DEFINE k == till - from
  <2>4. k \in 0..wrote[r] /\ \A i \in 1..k : from + i \in 1..wrote[r]
    BY <2>1, <2>2
  <2>5. /\ DOMAIN SubSeq(s, from + 1, till) = 1..k
        /\ \A i \in 1..k : SubSeq(s, from + 1, till)[i] = s[from + i]
    BY <2>1, <2>2
  <2> HIDE DEF k
  <2>6. DOMAIN Spanned(r) = 1..k /\ \A i \in 1..k : Spanned(r)[i] = s[from + i]
    BY <2>3, <2>5
  <2>7. read = [i \in 1..k |-> Plain(s[from + i])]
    BY <2>1 DEF k
  <2>8. read = [i \in DOMAIN Spanned(r) |-> Plain(Spanned(r)[i])]
    BY <2>6, <2>7
  <2>9. ASSUME lines[1] = 1, NEW i \in 1..k
        PROVE  MarkedUnchanged(read, i) = Spanned(r)[i].unchanged
    <3>1. from = 0 /\ \A j \in 1..k : j \in 1..wrote[r] /\ from + j = j
      BY <2>1, <2>4, <2>9
    <3>2. \A j \in 1..k : read[j].value = s[j].value
      BY <2>7, <3>1 DEF Plain
    <3>3. (IF i = 1 THEN 0 ELSE read[i - 1].value) = ValueBefore(s, i)
      <4>1. i # 1 => i - 1 \in 1..k
        BY <2>4
      <4> QED
        BY <3>2, <4>1 DEF ValueBefore
    <3>4. s[i].unchanged = (s[i].value = ValueBefore(s, i))
      BY <2>2, <3>1
    <3>5. Spanned(r)[i] = s[i] /\ read[i].value = s[i].value
      BY <2>6, <3>1, <3>2
    <3> QED
      BY <3>3, <3>4, <3>5, Zenon DEF MarkedUnchanged
  <2>10. DOMAIN read = 1..k
    BY <2>7
  <2> QED
    BY <2>8, <2>9, <2>10 DEF read
<1> QED
  BY <1>1, <1>2 DEF TraceTrusted

\* Over a recording of any length, with any lines missing from it, validateTrace
\* finds exactly the gaps, and a trace without gaps gives back every write.
THEOREM TracesAreTrusted == RecordingSpec => []TraceTrusted
<1>1. RecordingInit => CommitsCounted /\ ScanRight
  BY InitTraced
<1>2. CommitsCounted /\ ScanRight /\ [RecordingNext]_recordingVars
        => (CommitsCounted /\ ScanRight)'
  <2> SUFFICES ASSUME CommitsCounted, ScanRight, [RecordingNext]_recordingVars
               PROVE  (CommitsCounted /\ ScanRight)'
    OBVIOUS
  <2>1. CASE RecordingNext
    BY <2>1, PassKeepsCounts, PassKeepsScan DEF RecordingNext
  <2>2. CASE UNCHANGED recordingVars
    <3>1. CommitsCounted'
      BY <2>2 DEF CommitsCounted, recordingVars, vars, coreVars, recordVars
    <3>2. ScanRight'
      BY <2>2 DEF ScanRight, Unbroken, recordingVars, vars, coreVars, recordVars
    <3> QED
      BY <3>1, <3>2
  <2> QED
    BY <2>1, <2>2
<1>3. CommitsCounted /\ ScanRight => TraceTrusted
  BY ScanTrusted
<1> QED
  BY <1>1, <1>2, <1>3, PTL DEF RecordingSpec

\* A recording is a run of the machine that the reconstruction follows, so that
\* what holds of the one holds of the other.
THEOREM RecordingsAreRuns == RecordingSpec => Spec
<1>1. RecordingInit => Init
  BY DEF RecordingInit
<1>2. [RecordingNext]_recordingVars => [Next]_vars
  BY DEF RecordingNext, Pass, Next, recordingVars
<1> QED
  BY <1>1, <1>2, PTL DEF RecordingSpec, Spec
=============================================================================
