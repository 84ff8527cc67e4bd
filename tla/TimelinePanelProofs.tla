------------------------- MODULE TimelinePanelProofs -------------------------
(***************************************************************************)
(* What the reservation table keeps of a run, for every history length,    *)
(* every budget and every order of the handlers.                           *)
(***************************************************************************)
EXTENDS TimelinePanel, TLAPS

Snap == [cycle : Nat,
         x : [valid : BOOLEAN, pc : Pc, issue : BOOLEAN],
         m : [valid : BOOLEAN, pc : Pc \cup {0}, stall : BOOLEAN]]

\* Every snapshot of h is that of its own cycle in p, oldest first.
Sound(h, p, n) ==
  \A i \in 1..Len(h) :
    /\ h[i].cycle \in 1..n
    /\ h[i] = p[h[i].cycle]
    /\ i > 1 => h[i - 1].cycle <= h[i].cycle

\* Cycle c is in h, or older than everything in a full h.
Accounted(h, c) ==
  \/ \E i \in 1..Len(h) : h[i].cycle = c
  \/ Len(h) = HISTORY /\ c < h[1].cycle

PanelTypeOK ==
  /\ x \in StageX /\ m \in StageM /\ shadow \in Slot
  /\ cycles \in Nat /\ exited \in BOOLEAN
  /\ loop \in {NoLoop} \cup [op : {"stepInstruction", "run", "runFast"}, left : Int]
  /\ history \in Seq(Snap) /\ Len(history) <= HISTORY
  /\ past \in Seq(Snap) /\ Len(past) = cycles

Current == cycles > 0 => Len(history) > 0 /\ history[Len(history)] = Snapshot

(***************************************************************************)
(* Only a loop at full speed lets the history fall behind the machine.     *)
(* When it ends the machine has been clocked, so that the snapshot it then *)
(* records is one of the run: a loop begins with a cycle to clock, or with *)
(* a program that has exited, which only a cycle can have made it do.      *)
(***************************************************************************)
PanelInv ==
  /\ PanelTypeOK
  /\ cycles > 0 => past[cycles] = Snapshot
  /\ exited => cycles > 0
  /\ loop.op = "runFast" => cycles > 0 \/ loop.left > 0
  /\ loop.op # "runFast" => Current
  /\ Sound(history, past, cycles)
  /\ \A c \in 1..cycles \ skipped : Accounted(history, c)

\* What a push drops: nothing, or the oldest snapshot of a full history.
LEMMA PushShape ==
  ASSUME NEW h \in Seq(Snap), Len(h) <= HISTORY, NEW s \in Snap
  PROVE  /\ Push(h, s) \in Seq(Snap)
         /\ Len(Push(h, s)) \in 1..HISTORY
         /\ Push(h, s)[Len(Push(h, s))] = s
         /\ \E d \in {0, 1} :
              /\ d = 1 <=> Len(h) = HISTORY
              /\ Len(Push(h, s)) = Len(h) + 1 - d
              /\ \A i \in 1..Len(Push(h, s)) :
                   Push(h, s)[i] = IF i + d = Len(h) + 1 THEN s ELSE h[i + d]
<1> DEFINE a == Append(h, s)
           d == IF Len(h) = HISTORY THEN 1 ELSE 0
<1>1. HISTORY \in Nat \ {0} /\ Len(h) \in Nat
  BY PanelAssumption
<1>2. /\ a \in Seq(Snap) /\ Len(a) = Len(h) + 1
      /\ \A j \in 1..Len(h) + 1 : a[j] = IF j = Len(h) + 1 THEN s ELSE h[j]
  OBVIOUS
<1>3. d \in {0, 1} /\ (d = 1 <=> Len(h) = HISTORY) /\ Len(h) + 1 - d \in 1..HISTORY
  BY <1>1
<1>4. Push(h, s) = SubSeq(a, d + 1, Len(h) + 1)
  <2>1. Push(h, s) = LastOf(a, HISTORY)
    BY DEF Push
  <2> HIDE DEF a, d
  <2>2. (IF Len(a) > HISTORY THEN Len(a) - HISTORY + 1 ELSE 1) = d + 1
    BY <1>1, <1>2, <1>3
  <2> QED
    BY <1>2, <2>1, <2>2 DEF LastOf
<1> HIDE DEF a, d
<1>5. /\ SubSeq(a, d + 1, Len(h) + 1) \in Seq(Snap)
      /\ Len(SubSeq(a, d + 1, Len(h) + 1)) = Len(h) + 1 - d
      /\ \A i \in 1..Len(h) + 1 - d : SubSeq(a, d + 1, Len(h) + 1)[i] = a[i + d]
  BY <1>1, <1>2, <1>3
<1> QED
  BY <1>1, <1>2, <1>3, <1>4, <1>5

\* Recording the snapshot of the present cycle keeps the history sound.
LEMMA PushSound ==
  ASSUME NEW h \in Seq(Snap), Len(h) <= HISTORY, NEW s \in Snap,
         NEW p, NEW q, NEW n \in Nat, NEW k \in Nat,
         Sound(h, p, n), n <= k, s.cycle = k, k > 0,
         \A c \in 1..n : q[c] = p[c], q[k] = s
  PROVE  Sound(Push(h, s), q, k)
<1> DEFINE g == Push(h, s)
<1>1. PICK d \in {0, 1} :
        /\ Len(g) = Len(h) + 1 - d
        /\ \A i \in 1..Len(g) : g[i] = IF i + d = Len(h) + 1 THEN s ELSE h[i + d]
  BY PushShape
<1>2. Len(h) \in Nat
  OBVIOUS
<1> HIDE DEF g
<1>3. \A i \in 1..Len(h) : h[i].cycle \in 1..k /\ h[i] = q[h[i].cycle]
  BY DEF Sound
<1> SUFFICES ASSUME NEW i \in 1..Len(g)
             PROVE  /\ g[i].cycle \in 1..k
                    /\ g[i] = q[g[i].cycle]
                    /\ i > 1 => g[i - 1].cycle <= g[i].cycle
  BY DEF Sound, g
<1>4. CASE i + d = Len(h) + 1
  <2>1. g[i] = s
    BY <1>1, <1>4
  <2>2. i > 1 => g[i - 1] = h[i - 1 + d] /\ i - 1 + d \in 1..Len(h)
    BY <1>1, <1>2, <1>4
  <2> QED
    BY <1>3, <2>1, <2>2
<1>5. CASE i + d # Len(h) + 1
  <2>1. g[i] = h[i + d] /\ i + d \in 1..Len(h)
    BY <1>1, <1>2, <1>5
  <2>2. ASSUME i > 1 PROVE g[i - 1] = h[i + d - 1] /\ i + d > 1
    <3>1. i - 1 \in 1..Len(g) /\ (i - 1) + d # Len(h) + 1 /\ (i - 1) + d = i + d - 1
      BY <1>1, <1>2, <1>5, <2>2
    <3> QED
      BY <1>1, <3>1, <2>2
  <2>3. i + d > 1 => h[i + d - 1].cycle <= h[i + d].cycle
    BY <2>1 DEF Sound
  <2> QED
    BY <1>3, <2>1, <2>2, <2>3
<1> QED
  BY <1>4, <1>5

\* What a full history drops is older than all it keeps, or still in it.
LEMMA PushAccounts ==
  ASSUME NEW h \in Seq(Snap), Len(h) <= HISTORY, NEW s \in Snap,
         NEW p, NEW n \in Nat, NEW c \in Nat,
         Sound(h, p, n), n <= s.cycle,
         Accounted(h, c) \/ c = s.cycle
  PROVE  Accounted(Push(h, s), c)
<1> DEFINE g == Push(h, s)
<1>0. HISTORY \in Nat \ {0} /\ Len(h) \in Nat
  BY PanelAssumption
<1>1. PICK d \in {0, 1} :
        /\ d = 1 <=> Len(h) = HISTORY
        /\ Len(g) = Len(h) + 1 - d
        /\ \A i \in 1..Len(g) : g[i] = IF i + d = Len(h) + 1 THEN s ELSE h[i + d]
  BY PushShape
<1>2. Len(g) \in 1..HISTORY
  BY PushShape
<1> HIDE DEF g
<1>3. \A i \in 1..Len(h) : h[i].cycle \in 1..n /\ (i > 1 => h[i - 1].cycle <= h[i].cycle)
  BY DEF Sound
<1>4. CASE c = s.cycle
  BY <1>0, <1>1, <1>2, <1>4 DEF Accounted, g
<1>5. CASE d = 0 /\ \E i \in 1..Len(h) : h[i].cycle = c
  <2>1. PICK i \in 1..Len(h) : h[i].cycle = c
    BY <1>5
  <2>2. i \in 1..Len(g) /\ g[i] = h[i]
    BY <1>0, <1>1, <1>5
  <2> QED
    BY <2>1, <2>2 DEF Accounted, g
<1>6. CASE d = 1 /\ \E i \in 1..Len(h) : i > 1 /\ h[i].cycle = c
  <2>1. PICK i \in 1..Len(h) : i > 1 /\ h[i].cycle = c
    BY <1>6
  <2>2. i - 1 \in 1..Len(g) /\ g[i - 1] = h[i]
    <3>1. i - 1 \in 1..Len(g) /\ (i - 1) + d # Len(h) + 1 /\ (i - 1) + d = i
      BY <1>0, <1>1, <1>6, <2>1
    <3> QED
      BY <1>1, <3>1
  <2> QED
    BY <2>1, <2>2 DEF Accounted, g
<1>7. CASE d = 1 /\ (c < h[1].cycle \/ h[1].cycle = c)
  <2>1. Len(g) = HISTORY
    BY <1>0, <1>1, <1>7
  <2>2. h[1].cycle \in Nat /\ h[1].cycle <= s.cycle /\ g[1].cycle \in Nat
        /\ h[1].cycle <= g[1].cycle
    <3>1. 1 \in 1..Len(h) /\ 1 \in 1..Len(g) /\ s.cycle \in Nat
      BY <1>0, <1>1, <1>2, <1>7 DEF Snap
    <3>2. h[1].cycle \in 1..n
      BY <1>3, <3>1
    <3>3. CASE Len(h) = 1
      BY <1>1, <1>7, <3>1, <3>2, <3>3
    <3>4. CASE Len(h) # 1
      <4>1. g[1] = h[2] /\ 2 \in 1..Len(h)
        BY <1>0, <1>1, <1>7, <3>1, <3>4
      <4>2. h[2].cycle \in 1..n /\ h[2 - 1].cycle <= h[2].cycle
        BY <1>3, <4>1
      <4> QED
        BY <3>1, <3>2, <4>1, <4>2
    <3> QED
      BY <3>3, <3>4
  <2>3. CASE g[1].cycle = c
    BY <1>2, <2>3 DEF Accounted, g
  <2>4. CASE g[1].cycle # c
    BY <1>7, <2>1, <2>2, <2>4 DEF Accounted, g
  <2> QED
    BY <2>3, <2>4
<1> QED
  BY <1>0, <1>1, <1>4, <1>5, <1>6, <1>7 DEF Accounted

-----------------------------------------------------------------------------

LEMMA InitHolds == Init => PanelInv
<1> SUFFICES ASSUME Init PROVE PanelInv
  OBVIOUS
<1>1. x \in StageX /\ m \in StageM /\ shadow \in Slot
  BY CoreAssumption DEF Init, ProbedInit, CoreInit, StarvedX, QuietM, Bubble, Slot
<1>2. history = <<>> /\ past = <<>> /\ cycles = 0 /\ exited = FALSE /\ loop = NoLoop
  BY DEF Init
<1>3. <<>> \in Seq(Snap) /\ Len(<<>>) = 0 /\ HISTORY \in Nat
  BY PanelAssumption
<1>4. PanelTypeOK
  <2>1. history \in Seq(Snap) /\ Len(history) <= HISTORY
    BY <1>2, <1>3
  <2>2. past \in Seq(Snap) /\ Len(past) = cycles
    BY <1>2, <1>3
  <2>3. cycles \in Nat /\ exited \in BOOLEAN
    BY <1>2
  <2>4. loop \in {NoLoop} \cup [op : {"stepInstruction", "run", "runFast"}, left : Int]
    BY <1>2
  <2> QED
    BY <1>1, <2>1, <2>2, <2>3, <2>4 DEF PanelTypeOK
<1> QED
  BY <1>2, <1>3, <1>4 DEF PanelInv, Current, Sound, NoLoop

\* A cycle, before anything is recorded of it.
LEMMA Clocks ==
  ASSUME PanelInv, Clock
  PROVE  /\ x' \in StageX /\ m' \in StageM /\ shadow' \in Slot
         /\ cycles' = cycles + 1 /\ cycles' \in Nat /\ cycles' > 0 /\ exited' \in BOOLEAN
         /\ Snapshot' \in Snap /\ Snapshot'.cycle = cycles'
         /\ past' \in Seq(Snap) /\ Len(past') = cycles'
         /\ past'[cycles'] = Snapshot'
         /\ \A c \in 1..cycles : past'[c] = past[c]
<1>1. /\ x \in StageX /\ m \in StageM /\ shadow \in Slot /\ cycles \in Nat /\ exited \in BOOLEAN
      /\ past \in Seq(Snap) /\ Len(past) = cycles
  BY DEF PanelInv, PanelTypeOK
<1>2. x' \in StageX /\ m' \in StageM
  BY CoreAssumption DEF Clock, ProbedEdge, CoreEdge
<1>3. shadow' \in Slot
  BY <1>1 DEF Clock, ProbedEdge, ShadowEdge, Issue, StageX, StageM, Slot
<1>4. cycles' = cycles + 1 /\ past' = Append(past, Snapshot') /\ exited' \in BOOLEAN
  BY DEF Clock
<1>5. Snapshot' \in Snap /\ Snapshot'.cycle = cycles'
  BY <1>1, <1>2, <1>3, <1>4 DEF Snapshot, Snap, Issue, StageX, StageM, Slot
<1> QED
  BY <1>1, <1>2, <1>3, <1>4, <1>5

\* A cycle whose snapshot is recorded.
LEMMA ClocksAndRecords ==
  ASSUME PanelInv, Clock
  PROVE  LET h == Push(history, Snapshot')
         IN  /\ h \in Seq(Snap) /\ Len(h) \in 1..HISTORY
             /\ h[Len(h)] = Snapshot'
             /\ Sound(h, past', cycles')
             /\ \A c \in 1..cycles' \ skipped : Accounted(h, c)
<1>1. /\ cycles' = cycles + 1 /\ cycles' \in Nat /\ cycles' > 0
      /\ Snapshot' \in Snap /\ Snapshot'.cycle = cycles'
      /\ past'[cycles'] = Snapshot'
      /\ \A c \in 1..cycles : past'[c] = past[c]
  BY Clocks
<1>2. /\ history \in Seq(Snap) /\ Len(history) <= HISTORY /\ cycles \in Nat
      /\ Sound(history, past, cycles)
      /\ \A c \in 1..cycles \ skipped : Accounted(history, c)
  BY DEF PanelInv, PanelTypeOK
<1> DEFINE s == Snapshot'
           q == past'
           k == cycles'
<1> HIDE DEF s, q, k
<1>3. s \in Snap /\ k \in Nat /\ k = cycles + 1 /\ s.cycle = k /\ q[k] = s /\ k > 0
      /\ \A c \in 1..cycles : q[c] = past[c]
  BY <1>1 DEF s, q, k
<1>4. Sound(Push(history, s), q, k)
  BY <1>2, <1>3, PushSound
<1>5. ASSUME NEW c \in 1..k \ skipped PROVE Accounted(Push(history, s), c)
  <2>1. Accounted(history, c) \/ c = s.cycle
    BY <1>2, <1>3
  <2>2. c \in Nat /\ cycles <= s.cycle
    BY <1>2, <1>3
  <2> QED
    BY <1>2, <1>3, <2>1, <2>2, PushAccounts
<1> QED
  BY <1>2, <1>3, <1>4, <1>5, PushShape DEF s, q, k

\* The snapshot recorded last, recorded once more: what paint adds to a handler.
LEMMA RecordsAgain ==
  ASSUME NEW h \in Seq(Snap), Len(h) <= HISTORY, NEW s \in Snap, NEW p, NEW k \in Nat, NEW S,
         Sound(h, p, k), s.cycle = k, k > 0, p[k] = s,
         \A c \in 1..k \ S : Accounted(h, c)
  PROVE  LET g == Push(h, s)
         IN  /\ g \in Seq(Snap) /\ Len(g) \in 1..HISTORY
             /\ g[Len(g)] = s
             /\ Sound(g, p, k)
             /\ \A c \in 1..k \ S : Accounted(g, c)
<1>1. Sound(Push(h, s), p, k)
  BY PushSound
<1>2. ASSUME NEW c \in 1..k \ S PROVE Accounted(Push(h, s), c)
  BY <1>2, PushAccounts
<1> QED
  BY <1>1, <1>2, PushShape

\* One action at a time.
LEMMA StepCycleKeeps == ASSUME PanelInv, StepCycle PROVE PanelInv'
<1>1. Clock /\ history' = Push(history, Snapshot') /\ loop = NoLoop
      /\ loop' = loop /\ skipped' = skipped
  BY DEF StepCycle
<1>2. PanelTypeOK'
  BY <1>1, Clocks, ClocksAndRecords, PanelAssumption DEF PanelTypeOK, PanelInv
<1>3. loop' = NoLoop /\ NoLoop.op # "runFast"
  BY <1>1 DEF NoLoop
<1> QED
  BY <1>1, <1>2, <1>3, Clocks, ClocksAndRecords DEF PanelInv, Current

LEMMA StepInstructionPassKeeps == ASSUME PanelInv, StepInstructionPass PROVE PanelInv'
<1>1. Clock /\ loop.op = "stepInstruction" /\ skipped' = skipped
  BY DEF StepInstructionPass
<1> DEFINE h == Push(history, Snapshot')
<1>2. /\ h \in Seq(Snap) /\ Len(h) \in 1..HISTORY
      /\ h[Len(h)] = Snapshot'
      /\ Sound(h, past', cycles')
      /\ \A c \in 1..cycles' \ skipped : Accounted(h, c)
  BY <1>1, ClocksAndRecords
<1>3. /\ history' \in {h, Push(h, Snapshot')}
      /\ loop' \in {NoLoop, [loop EXCEPT !.left = @ - 1]}
  BY DEF StepInstructionPass
<1>4. /\ history' \in Seq(Snap) /\ Len(history') \in 1..HISTORY
      /\ history'[Len(history')] = Snapshot'
      /\ Sound(history', past', cycles')
      /\ \A c \in 1..cycles' \ skipped : Accounted(history', c)
  <2>1. CASE history' = h
    BY <1>2, <2>1
  <2>2. CASE history' = Push(h, Snapshot')
    <3> HIDE DEF h
    <3>1. /\ Snapshot' \in Snap /\ cycles' \in Nat /\ Snapshot'.cycle = cycles' /\ cycles' > 0
          /\ past'[cycles'] = Snapshot' /\ Len(h) <= HISTORY
      BY <1>1, <1>2, Clocks, PanelAssumption
    <3> QED
      BY <1>2, <2>2, <3>1, RecordsAgain
  <2> QED
    BY <1>3, <2>1, <2>2
<1>5. loop' \in {NoLoop} \cup [op : {"stepInstruction", "run", "runFast"}, left : Int]
      /\ loop'.op # "runFast"
  BY <1>1, <1>3 DEF PanelInv, PanelTypeOK, NoLoop
<1>6. PanelTypeOK'
  BY <1>1, <1>4, <1>5, Clocks, PanelAssumption DEF PanelTypeOK
<1> QED
  BY <1>1, <1>4, <1>5, <1>6, Clocks DEF PanelInv, Current

LEMMA TickPassKeeps == ASSUME PanelInv, TickPass PROVE PanelInv'
<1>1. /\ Clock /\ loop.op \in {"run", "runFast"}
      /\ history' = IF loop.op = "run" THEN Push(history, Snapshot') ELSE history
      /\ skipped' = IF loop.op = "runFast" THEN skipped \cup {cycles'} ELSE skipped
      /\ loop' = [loop EXCEPT !.left = @ - 1]
  BY DEF TickPass
<1>2. loop' \in [op : {"stepInstruction", "run", "runFast"}, left : Int] /\ loop'.op = loop.op
  BY <1>1 DEF PanelInv, PanelTypeOK, NoLoop
<1>3. CASE loop.op = "run"
  <2>1. history' = Push(history, Snapshot') /\ skipped' = skipped
    BY <1>1, <1>3
  <2>2. PanelTypeOK'
    BY <1>1, <1>2, <2>1, Clocks, ClocksAndRecords, PanelAssumption DEF PanelTypeOK
  <2> QED
    BY <1>1, <1>2, <1>3, <2>1, <2>2, Clocks, ClocksAndRecords DEF PanelInv, Current
<1>4. CASE loop.op = "runFast"
  <2>1. history' = history /\ skipped' = skipped \cup {cycles'}
    BY <1>1, <1>4
  <2>2. PanelTypeOK'
    BY <1>1, <1>2, <2>1, Clocks DEF PanelTypeOK, PanelInv
  <2>3. Sound(history', past', cycles')
    <3>1. /\ cycles' = cycles + 1 /\ cycles \in Nat
          /\ \A c \in 1..cycles : past'[c] = past[c]
      BY <1>1, Clocks DEF PanelInv, PanelTypeOK
    <3> QED
      BY <2>1, <3>1 DEF Sound, PanelInv
  <2>4. \A c \in 1..cycles' \ skipped' : Accounted(history', c)
    <3>1. cycles' = cycles + 1 /\ cycles \in Nat
      BY <1>1, Clocks DEF PanelInv, PanelTypeOK
    <3>2. \A c \in 1..cycles \ skipped : Accounted(history, c)
      BY DEF PanelInv
    <3>3. \A c \in 1..cycles' \ skipped' : c \in 1..cycles \ skipped
      BY <2>1, <3>1
    <3> QED
      BY <2>1, <3>2, <3>3
  <2> QED
    BY <1>1, <1>2, <1>4, <2>2, <2>3, <2>4, Clocks DEF PanelInv, Current
<1> QED
  BY <1>1, <1>3, <1>4

LEMMA TickPaintsKeeps == ASSUME PanelInv, TickPaints PROVE PanelInv'
<1>1. /\ loop.op \in {"run", "runFast"} /\ (loop.left = 0 \/ exited)
      /\ history' = IF loop.op = "runFast" THEN Push(history, Snapshot) ELSE history
      /\ loop' = NoLoop
      /\ UNCHANGED <<x, m, shadow, cycles, exited, past, skipped>>
  BY DEF TickPaints, coreVars
<1>2. Snapshot' = Snapshot
  BY <1>1 DEF Snapshot, Issue
<1>3. loop'.op = "none"
  BY <1>1 DEF NoLoop
<1>4. CASE loop.op = "run"
  BY <1>1, <1>2, <1>3, <1>4 DEF PanelInv, PanelTypeOK, Current
<1>5. CASE loop.op = "runFast"
  <2>1. cycles > 0 /\ cycles \in Nat
    BY <1>1, <1>5 DEF PanelInv, PanelTypeOK
  <2>2. Snapshot \in Snap /\ Snapshot.cycle = cycles /\ past[cycles] = Snapshot
    BY <2>1 DEF PanelInv, PanelTypeOK, Snapshot, Snap, Issue, StageX, StageM, Slot
  <2>3. /\ history' \in Seq(Snap) /\ Len(history') \in 1..HISTORY
        /\ history'[Len(history')] = Snapshot
        /\ Sound(history', past, cycles)
        /\ \A c \in 1..cycles \ skipped : Accounted(history', c)
    BY <1>1, <1>5, <2>1, <2>2, RecordsAgain DEF PanelInv, PanelTypeOK
  <2>4. PanelTypeOK'
    BY <1>1, <2>3, PanelAssumption DEF PanelInv, PanelTypeOK
  <2> QED
    BY <1>1, <1>2, <1>3, <2>1, <2>2, <2>3, <2>4 DEF PanelInv, Current
<1> QED
  BY <1>1, <1>4, <1>5

LEMMA LoadKeeps == ASSUME PanelInv, Load PROVE PanelInv'
<1>1. x' \in StageX /\ m' \in StageM /\ shadow' \in Slot
  BY CoreAssumption DEF Load, ProbedReset, CoreReset, StarvedX, QuietM, Bubble, Slot
<1>2. history' = <<>> /\ past' = <<>> /\ cycles' = 0 /\ exited' = FALSE /\ loop' = NoLoop
  BY DEF Load
<1>3. <<>> \in Seq(Snap) /\ Len(<<>>) = 0 /\ HISTORY \in Nat
  BY PanelAssumption
<1>4. PanelTypeOK'
  <2>1. history' \in Seq(Snap) /\ Len(history') <= HISTORY
    BY <1>2, <1>3
  <2>2. past' \in Seq(Snap) /\ Len(past') = cycles'
    BY <1>2, <1>3
  <2>3. cycles' \in Nat /\ exited' \in BOOLEAN
    BY <1>2
  <2>4. loop' \in {NoLoop} \cup [op : {"stepInstruction", "run", "runFast"}, left : Int]
    BY <1>2
  <2> QED
    BY <1>1, <2>1, <2>2, <2>3, <2>4 DEF PanelTypeOK
<1> QED
  BY <1>2, <1>3, <1>4 DEF PanelInv, Current, Sound, NoLoop

\* The beginning of a handler.
LEMMA BeginningKeeps ==
  ASSUME PanelInv, StepInstruction \/ \E n \in Budgets : Tick(n)
  PROVE  PanelInv'
<1>1. /\ loop = NoLoop
      /\ loop' \in [op : {"stepInstruction", "run", "runFast"}, left : Int]
      /\ loop'.op # "stepInstruction" => loop'.left > 0
      /\ UNCHANGED <<x, m, shadow, cycles, exited, history, past, skipped>>
  BY PanelAssumption DEF StepInstruction, Tick, coreVars
<1>2. Snapshot' = Snapshot
  BY <1>1 DEF Snapshot, Issue
<1>3. loop.op # "runFast"
  BY <1>1 DEF NoLoop
<1> QED
  BY <1>1, <1>2, <1>3 DEF PanelInv, PanelTypeOK, Current

LEMMA PanelInvHolds == Spec => []PanelInv
<1>1. PanelInv /\ [Next]_vars => PanelInv'
  <2> SUFFICES ASSUME PanelInv, [Next]_vars PROVE PanelInv'
    OBVIOUS
  <2>1. CASE UNCHANGED vars
    BY <2>1 DEF vars, coreVars, panelVars, PanelInv, PanelTypeOK, Current, Snapshot, Issue
  <2> QED
    BY <2>1, StepCycleKeeps, StepInstructionPassKeeps, TickPassKeeps, TickPaintsKeeps,
       LoadKeeps, BeginningKeeps DEF Next
<1> QED
  BY <1>1, InitHolds, PTL DEF Spec

\* However handlers, speeds and loads alternate, what the panel keeps is of this
\* run, in order, and up to date whenever a handler returns.
THEOREM HistoryIsOfThisRun == Spec => []HistoryOfThisRun
<1>1. PanelInv => HistoryOfThisRun
  BY DEF PanelInv, Current, Sound, HistoryOfThisRun, Last, NoLoop
<1> QED
  BY <1>1, PanelInvHolds, PTL

\* No cycle clocked below full speed is lost before HISTORY newer snapshots.
THEOREM HistoryIsComplete == Spec => []HistoryComplete
<1>1. PanelInv => HistoryComplete
  BY DEF PanelInv, PanelTypeOK, Accounted, HistoryComplete
<1> QED
  BY <1>1, PanelInvHolds, PTL
=============================================================================
