------------------------------ MODULE AppProofs ------------------------------
(***************************************************************************)
(* The page shows the machine as it is, whatever it is made of: any        *)
(* programs, any budgets, any number of frame handles and fetches.         *)
(***************************************************************************)
EXTENDS App, FiniteSetTheorems, WellFoundedInduction, TLAPS

Ids      == Programs \cup {NoProgram}
Machines == [program : Ids, cycle : Nat, out : Nat, printed : Nat,
             exited : BOOLEAN, fault : BOOLEAN]
Loops    == [running : BOOLEAN, label : BOOLEAN, rafId : Nat,
             scheduled : SUBSET Callbacks, due : SUBSET Callbacks]
Notes    == [about : Ids, failed : BOOLEAN]
Screens  == [cycle : Nat, console : Nat, note : Notes]

(***************************************************************************)
(* Between handlers no output waits in the machine, and what is shown is   *)
(* what it says; that holds in every state, with a simulator or without.   *)
(***************************************************************************)
PageInv ==
  /\ machine \in Machines /\ screen \in Screens /\ currentId \in Programs
  /\ machine.out = 0
  /\ screen.cycle = machine.cycle
  /\ screen.console = machine.printed
  /\ ~screen.note.failed => screen.note.about = machine.program

LoopInv == loop \in Loops /\ loop.label = loop.running

(***************************************************************************)
(* One callback at most, the one whose handle is kept, and none once the   *)
(* loop has been stopped.                                                  *)
(***************************************************************************)
Single(l) ==
  /\ l.scheduled \cup l.due \subseteq {l.rafId}
  /\ l.due # {} => l.scheduled = {}
  /\ ~l.running => l.scheduled \cup l.due = {}

-----------------------------------------------------------------------------
(* Natural numbers                                                         *)

LEMMA LeastNatural ==
  ASSUME NEW S \in SUBSET Nat, S # {}
  PROVE  \E n \in S : \A k \in S : n <= k
<1>1. \E R : /\ \E n \in S : \A k \in S : <<k, n>> \notin R
             /\ \A k, n \in S : k < n => <<k, n>> \in R
  <2> DEFINE R == OpToRel(<, Nat)
  <2>1. \E n \in S : \A k \in S : <<k, n>> \notin R
    BY WFMin, NatLessThanWellFounded
  <2>2. \A k, n \in S : k < n => <<k, n>> \in R
    BY DEF OpToRel
  <2> HIDE DEF R
  <2> QED
    BY <2>1, <2>2, Zenon
<1>2. PICK R : /\ \E n \in S : \A k \in S : <<k, n>> \notin R
               /\ \A k, n \in S : k < n => <<k, n>> \in R
  BY <1>1
<1>3. PICK n \in S : \A k \in S : <<k, n>> \notin R
  BY <1>2
<1>4. \A k \in S : ~(k < n)
  BY <1>2, <1>3
<1> QED
  BY <1>4

\* A set of numbers that has 0 and each number's successor has them all.
LEMMA SetInduction ==
  ASSUME NEW S \in SUBSET Nat, 0 \in S, \A n \in S : n + 1 \in S
  PROVE  S = Nat
<1>1. SUFFICES ASSUME Nat \ S # {} PROVE FALSE
  OBVIOUS
<1>2. PICK n \in Nat \ S : \A k \in Nat \ S : n <= k
  BY <1>1, LeastNatural
<1>3. n - 1 \in Nat /\ n - 1 \in S
  BY <1>2
<1> QED
  BY <1>2, <1>3

-----------------------------------------------------------------------------
(* The machine over any number of cycles                                   *)

MoreOf(S) == UNION {IF c.exited THEN {c} ELSE Cycles(c) : c \in S}

\* The function that Clocked is defined by exists.
LEMMA ClockedIs ==
  ASSUME NEW first, NEW n \in Nat
  PROVE  \E f : /\ f = [k \in 0..n |-> IF k = 0 THEN first ELSE MoreOf(f[k - 1])]
                /\ Clocked(first, n) = f[n]
<1> DEFINE Runs(i, f) == f = [k \in 0..i |-> IF k = 0 THEN first ELSE MoreOf(f[k - 1])]
           Good == {i \in Nat : \E f : Runs(i, f)}
<1>1. 0 \in Good
  <2>1. Runs(0, [k \in 0..0 |-> first])
    OBVIOUS
  <2> QED
    BY <2>1
<1>2. \A i \in Good : i + 1 \in Good
  <2> SUFFICES ASSUME NEW i \in Good PROVE i + 1 \in Good
    OBVIOUS
  <2>1. PICK f : Runs(i, f)
    OBVIOUS
  <2> DEFINE g == [k \in 0..i + 1 |-> IF k = 0 THEN first ELSE MoreOf(f[k - 1])]
  <2>2. \A k \in 0..i : g[k] = f[k]
    BY <2>1
  <2>3. Runs(i + 1, g)
    <3>1. \A k \in 0..i + 1 : k # 0 => f[k - 1] = g[k - 1]
      BY <2>2
    <3> QED
      BY <3>1
  <2> QED
    BY <2>3, i + 1 \in Nat
<1>3. Good = Nat
  BY <1>1, <1>2, SetInduction
<1>4. \E f : Runs(n, f)
  BY <1>3
<1> DEFINE F == CHOOSE f : Runs(n, f)
<1>5. Runs(n, F)
  BY <1>4
<1>6. Clocked(first, n) = F[n]
  BY Zenon DEF Clocked, MoreOf
<1> QED
  BY <1>5, <1>6

\* What one cycle keeps, any number of cycles keep.
LEMMA ClockedKeeps ==
  ASSUME NEW D, NEW first \in SUBSET D, NEW n \in Nat, \A c \in D : Cycles(c) \subseteq D
  PROVE  Clocked(first, n) \subseteq D
<1>1. PICK f : /\ f = [k \in 0..n |-> IF k = 0 THEN first ELSE MoreOf(f[k - 1])]
               /\ Clocked(first, n) = f[n]
  BY ClockedIs
<1> DEFINE Good == {k \in Nat : k <= n => f[k] \subseteq D}
<1>2. \A S \in SUBSET D : MoreOf(S) \subseteq D
  BY DEF MoreOf
<1>3. f[0] = first /\ \A k \in 0..n : k # 0 => f[k] = MoreOf(f[k - 1])
  <2> DEFINE E(k) == IF k = 0 THEN first ELSE MoreOf(f[k - 1])
  <2>1. \A k \in 0..n : f[k] = E(k)
    <3>1. f = [k \in 0..n |-> E(k)]
      BY <1>1
    <3> HIDE DEF E
    <3> QED
      BY <3>1
  <2> QED
    BY <2>1
<1>4. 0 \in Good
  BY <1>3
<1>5. \A k \in Good : k + 1 \in Good
  <2> SUFFICES ASSUME NEW k \in Good, k + 1 <= n PROVE f[k + 1] \subseteq D
    OBVIOUS
  <2>1. k \in Nat /\ k <= n /\ k + 1 \in 0..n /\ k + 1 # 0 /\ (k + 1) - 1 = k
    OBVIOUS
  <2>2. f[k + 1] = MoreOf(f[k]) /\ f[k] \subseteq D
    BY <1>3, <2>1
  <2> QED
    BY <1>2, <2>2
<1> HIDE DEF Good
<1>6. Good = Nat
  BY <1>4, <1>5, SetInduction DEF Good
<1>7. n \in Good
  BY <1>6
<1>8. f[n] \subseteq D
  BY <1>7 DEF Good
<1> QED
  BY <1>1, <1>8

\* The states a handler can clock a machine into: the same program, with what it
\* has printed on top waiting in "out".
Onwards(m) == {c \in Machines : c.program = m.program /\ c.printed = m.printed + c.out}

LEMMA CyclesOnwards ==
  ASSUME NEW m \in Machines, NEW c \in Onwards(m)
  PROVE  Cycles(c) \subseteq Onwards(m)
<1> SUFFICES ASSUME NEW w \in Writes(c), NEW fault \in BOOLEAN
             PROVE  Cycled(c, w, fault) \in Onwards(m)
  BY DEF Cycles
<1> DEFINE d == Cycled(c, w, fault)
           k == IF w = "print" THEN 1 ELSE 0
           t == (c.cycle + 1) % CycleRange
           exited == c.exited \/ w = "exit"
           failed == c.fault \/ fault
<1>1. /\ c.program \in Ids /\ c.cycle \in Nat /\ c.out \in Nat /\ c.printed \in Nat
      /\ c.exited \in BOOLEAN /\ c.fault \in BOOLEAN /\ c \in Machines
      /\ c.program = m.program /\ c.printed = m.printed + c.out /\ m.printed \in Nat
  BY DEF Onwards, Machines
<1>2. t \in Nat
  BY <1>1, AppAssumption
<1>3. k \in Nat /\ exited \in BOOLEAN /\ failed \in BOOLEAN
  OBVIOUS
<1>4. d = [c EXCEPT !.cycle = t, !.out = c.out + k, !.printed = c.printed + k,
                    !.exited = exited, !.fault = failed]
  BY DEF Cycled
<1> HIDE DEF d, k, t, exited, failed
<1>5. /\ d.program = c.program /\ d.out = c.out + k /\ d.printed = c.printed + k
      /\ d \in Machines
  <2>1. c.out + k \in Nat /\ c.printed + k \in Nat
    BY <1>1, <1>3
  <2>2. c \in [program : Ids, cycle : Nat, out : Nat, printed : Nat,
               exited : BOOLEAN, fault : BOOLEAN]
    BY <1>1 DEF Machines
  <2>3. d.program = c.program /\ d.out = c.out + k /\ d.printed = c.printed + k
    BY <1>4, <2>2
  <2>4. d \in [program : Ids, cycle : Nat, out : Nat, printed : Nat,
               exited : BOOLEAN, fault : BOOLEAN]
    BY <1>2, <1>3, <1>4, <2>1, <2>2
  <2> QED
    BY <2>3, <2>4 DEF Machines
<1>6. d.printed = m.printed + d.out
  BY <1>1, <1>3, <1>5
<1> QED
  BY <1>1, <1>5, <1>6 DEF Onwards, d

LEMMA ClockedOnwards ==
  ASSUME PageInv, NEW n \in Nat
  PROVE  Clocked(Cycles(machine), n) \subseteq Onwards(machine)
<1>1. machine \in Machines /\ machine \in Onwards(machine)
  BY DEF PageInv, Onwards, Machines
<1>2. Cycles(machine) \subseteq Onwards(machine)
  BY <1>1, CyclesOnwards
<1> QED
  BY <1>1, <1>2, CyclesOnwards, ClockedKeeps

-----------------------------------------------------------------------------
(* What a handler does to the page                                         *)

LEMMA ShowKeeps ==
  ASSUME NEW m \in Machines, NEW console \in Nat, NEW note \in Notes,
         m.printed = console + m.out, ~note.failed => note.about = m.program,
         Show(m, console, note), currentId' \in Programs
  PROVE  PageInv'
<1>1. m \in [program : Ids, cycle : Nat, out : Nat, printed : Nat,
             exited : BOOLEAN, fault : BOOLEAN]
  BY DEF Machines
<1>2. /\ machine' = [m EXCEPT !.out = 0]
      /\ screen' = [cycle |-> m.cycle, console |-> console + m.out, note |-> note]
  BY DEF Show
<1>3. /\ machine' \in [program : Ids, cycle : Nat, out : Nat, printed : Nat,
                       exited : BOOLEAN, fault : BOOLEAN]
      /\ machine'.out = 0 /\ machine'.cycle = m.cycle
      /\ machine'.printed = m.printed /\ machine'.program = m.program
  BY <1>1, <1>2
<1>4. screen' \in Screens
  BY <1>1, <1>2 DEF Screens
<1>5. /\ screen'.cycle = m.cycle /\ screen'.console = m.printed
      /\ screen'.note = note
  BY <1>2
<1> QED
  BY <1>3, <1>4, <1>5 DEF PageInv, Machines

\* A step or a run is shown on top of what was there.
LEMMA PaintKeeps ==
  ASSUME PageInv, NEW m \in Onwards(machine), Show(m, screen.console, screen.note),
         currentId' = currentId
  PROVE  PageInv'
<1>1. /\ m \in Machines /\ m.program = machine.program
      /\ m.printed = machine.printed + m.out
  BY DEF Onwards
<1>2. /\ screen.console \in Nat /\ screen.note \in Notes /\ currentId' \in Programs
      /\ screen.console = machine.printed
      /\ ~screen.note.failed => screen.note.about = machine.program
  BY DEF PageInv, Screens
<1> QED
  BY <1>1, <1>2, ShowKeeps

LEMMA ProgramsAreIds ==
  /\ \A id \in Programs : id \in Ids /\ Watch(id) \in Notes /\ Failure(id) \in Notes
  /\ Examples \subseteq Programs /\ Fetched \subseteq Programs
  /\ NoProgram \in Ids
BY DEF Ids, Programs, Watch, Failure, Notes

LEMMA LoadedIs ==
  ASSUME NEW id \in Programs, NEW m \in Loaded(id)
  PROVE  m \in Machines /\ m.program = id /\ m.printed = 0 /\ m.out = 0
<1>1. PICK fault \in BOOLEAN :
        m = [program |-> id, cycle |-> 0, out |-> 0, printed |-> 0, exited |-> FALSE,
             fault |-> fault]
  BY DEF Loaded, Image
<1>2. id \in Ids
  BY ProgramsAreIds
<1> QED
  BY <1>1, <1>2 DEF Machines

\* A program that has arrived replaces everything.
LEMMA FinishLoadKeeps ==
  ASSUME NEW id \in Programs, NEW l, FinishLoad(id, l), currentId' \in Programs
  PROVE  PageInv'
<1>1. PICK m \in Loaded(id) : Show(m, 0, Watch(id))
  BY DEF FinishLoad
<1>2. m \in Machines /\ m.program = id /\ m.printed = 0 + m.out
  BY LoadedIs
<1>3. Watch(id) \in Notes /\ Watch(id).about = id
  BY ProgramsAreIds DEF Watch
<1> QED
  BY <1>1, <1>2, <1>3, ShowKeeps

LEMMA LoadKeeps ==
  ASSUME PageInv, NEW id \in Programs, Load(id)
  PROVE  PageInv'
<1>1. currentId' = id
  BY DEF Load
<1>2. CASE FinishLoad(id, SetRunning(loop, FALSE))
  BY <1>1, <1>2, FinishLoadKeeps
<1>3. CASE UNCHANGED <<machine, screen>>
  BY <1>1, <1>3 DEF PageInv
<1> QED
  BY <1>2, <1>3 DEF Load

LEMMA RunOnwards ==
  ASSUME PageInv, NEW budget \in 1..MaxBudget, NEW m \in Run(budget)
  PROVE  m \in Onwards(machine)
<1>1. budget - 1 \in Nat
  BY AppAssumption
<1>2. machine \in Onwards(machine)
  BY DEF PageInv, Onwards, Machines
<1> QED
  BY <1>1, <1>2, ClockedOnwards DEF Run

LEMMA TickShows ==
  ASSUME PageInv, NEW handle, Tick(handle)
  PROVE  PageInv'
<1>1. currentId' = currentId
  BY DEF Tick, programVars
<1>2. CASE UNCHANGED <<machine, screen>>
  BY <1>1, <1>2 DEF PageInv
<1>3. ASSUME NEW budget \in 1..MaxBudget, NEW m \in Run(budget),
             Show(m, screen.console, screen.note)
      PROVE  PageInv'
  BY <1>1, <1>3, RunOnwards, PaintKeeps
<1> QED
  BY <1>2, <1>3 DEF Tick

LEMMA InitPage == Init => PageInv /\ LoopInv /\ Single(loop)
<1> SUFFICES ASSUME Init PROVE PageInv /\ LoopInv /\ Single(loop)
  OBVIOUS
<1>1. /\ currentId = First /\ machine = Image(NoProgram, FALSE)
      /\ screen = [cycle |-> 0, console |-> 0, note |-> Watch(NoProgram)]
      /\ loop = [running |-> FALSE, label |-> FALSE, rafId |-> 0,
                 scheduled |-> {}, due |-> {}]
  BY DEF Init, NoHandle
<1>2. First \in Programs
  BY AppAssumption, ProgramsAreIds
<1>3. /\ machine \in Machines /\ machine.out = 0 /\ machine.cycle = 0
      /\ machine.printed = 0 /\ machine.program = NoProgram
  BY <1>1, ProgramsAreIds DEF Image, Machines
<1>4. Watch(NoProgram) \in Notes /\ Watch(NoProgram).about = NoProgram
  BY ProgramsAreIds DEF Watch, Notes
<1>5. screen \in Screens
  BY <1>1, <1>4 DEF Screens
<1>6. PageInv
  BY <1>1, <1>2, <1>3, <1>4, <1>5 DEF PageInv
<1>7. LoopInv
  BY <1>1 DEF LoopInv, Loops
<1>8. Single(loop)
  BY <1>1 DEF Single
<1> QED
  BY <1>6, <1>7, <1>8

LEMMA NextPage == PageInv /\ [Next]_vars => PageInv'
<1> SUFFICES ASSUME PageInv, [Next]_vars PROVE PageInv'
  OBVIOUS
<1>1. ASSUME currentId' = currentId, UNCHANGED <<machine, screen>> PROVE PageInv'
  BY <1>1 DEF PageInv
<1>2. currentId \in Programs /\ Fetched \subseteq Programs
  BY ProgramsAreIds DEF PageInv
<1>3. CASE SimArrives
  BY <1>1, <1>2, <1>3, LoadKeeps DEF SimArrives
<1>4. ASSUME NEW id \in Programs, Choose(id) PROVE PageInv'
  BY <1>1, <1>4, LoadKeeps DEF Choose
<1>5. CASE Reset
  BY <1>2, <1>5, LoadKeeps DEF Reset
<1>6. ASSUME NEW id \in Fetched, FetchArrives(id) PROVE PageInv'
  BY <1>2, <1>6, FinishLoadKeeps DEF FetchArrives, programVars
<1>7. ASSUME NEW id \in Fetched, FetchFails(id) PROVE PageInv'
  <2>1. /\ currentId' = currentId /\ machine' = machine
        /\ screen' = [screen EXCEPT !.note = Failure(id)]
    BY <1>7 DEF FetchFails, programVars
  <2>2. Failure(id) \in Notes /\ Failure(id).failed
    BY <1>2, ProgramsAreIds DEF Failure
  <2>3. screen \in [cycle : Nat, console : Nat, note : Notes]
    BY DEF PageInv, Screens
  <2>4. /\ screen' \in [cycle : Nat, console : Nat, note : Notes]
        /\ screen'.cycle = screen.cycle /\ screen'.console = screen.console
        /\ screen'.note.failed
    BY <2>1, <2>2, <2>3
  <2> QED
    BY <2>1, <2>4 DEF PageInv, Screens
<1>8. CASE StepCycle
  <2>1. PICK c \in Cycles(machine) : Show(c, screen.console, screen.note)
    BY <1>8 DEF StepCycle, Paint
  <2>2. machine \in Machines /\ machine \in Onwards(machine)
    BY DEF PageInv, Onwards, Machines
  <2>3. c \in Onwards(machine)
    BY <2>2, CyclesOnwards
  <2> QED
    BY <1>8, <2>1, <2>3, PaintKeeps DEF StepCycle, programVars
<1>9. CASE StepInstruction
  <2>1. PICK more \in 0..StepLimit - 1 :
          \E c \in Clocked(Cycles(machine), more) : Show(c, screen.console, screen.note)
    BY <1>9 DEF StepInstruction, Paint
  <2>2. PICK c \in Clocked(Cycles(machine), more) : Show(c, screen.console, screen.note)
    BY <2>1
  <2>3. more \in Nat
    BY AppAssumption
  <2>4. c \in Onwards(machine)
    BY <2>3, ClockedOnwards
  <2> QED
    BY <1>9, <2>2, <2>4, PaintKeeps DEF StepInstruction, programVars
<1>10. CASE Toggle
  BY <1>1, <1>10 DEF Toggle, programVars
<1>11. CASE Frame
  BY <1>1, <1>11 DEF Frame, programVars
<1>12. CASE Ticks
  BY <1>12, TickShows DEF Ticks
<1>13. CASE UNCHANGED vars
  BY <1>1, <1>13 DEF vars, programVars
<1> QED
  BY <1>3, <1>4, <1>5, <1>6, <1>7, <1>8, <1>9, <1>10, <1>11, <1>12, <1>13 DEF Next

\* The page shows the machine it has, whatever its handlers and fetches did before.
THEOREM PageShowsMachine == Spec => []ScreenFaithful
<1>1. PageInv => ScreenFaithful
  BY DEF PageInv, ScreenFaithful
<1> QED
  BY <1>1, InitPage, NextPage, PTL DEF Spec

\* The note is about the program in the machine, however late a fetch is.
THEOREM NoteIsOfProgram == Spec => []NoteFaithful
<1>1. PageInv => NoteFaithful
  BY DEF PageInv, NoteFaithful
<1> QED
  BY <1>1, InitPage, NextPage, PTL DEF Spec

-----------------------------------------------------------------------------
(* The run loop                                                            *)

LEMMA MinIs ==
  ASSUME NEW S \in SUBSET Nat, S # {}
  PROVE  Min(S) \in S
BY LeastNatural DEF Min

LEMMA ScheduleIs ==
  ASSUME NEW l \in Loops
  PROVE  /\ Schedule(l) \in Loops
         /\ Schedule(l).running = l.running /\ Schedule(l).label = l.label
         /\ Schedule(l).due = l.due
         /\ \/ Schedule(l) = l
            \/ Schedule(l).scheduled = l.scheduled \cup {Schedule(l).rafId}
<1> DEFINE free == Callbacks \ (l.scheduled \cup l.due \cup {l.rafId})
           k == Min(free)
<1>1. free \subseteq Nat /\ free \subseteq Callbacks
  BY AppAssumption
<1>2. CASE free = {}
  BY <1>2 DEF Schedule
<1>3. CASE free # {}
  <2>1. k \in Nat /\ k \in Callbacks
    BY <1>1, <1>3, MinIs
  <2>2. Schedule(l) = [l EXCEPT !.rafId = k, !.scheduled = l.scheduled \cup {k}]
    BY <1>3 DEF Schedule
  <2> HIDE DEF k
  <2> QED
    BY <2>1, <2>2 DEF Loops
<1> QED
  BY <1>2, <1>3

LEMMA CancelIs ==
  ASSUME NEW l \in Loops
  PROVE  /\ Cancel(l) \in Loops
         /\ Cancel(l).running = l.running /\ Cancel(l).label = l.label
         /\ Cancel(l).due = l.due \ {l.rafId}
         /\ Cancel(l).scheduled = l.scheduled \ {l.rafId}
BY DEF Cancel, Loops, NoHandle

LEMMA FlagIs ==
  ASSUME NEW l \in Loops, NEW on \in BOOLEAN
  PROVE  /\ Flag(l, on) \in Loops /\ Flag(l, on).running = on /\ Flag(l, on).label = on
         /\ Flag(l, on).due = l.due /\ Flag(l, on).scheduled = l.scheduled
         /\ Flag(l, on).rafId = l.rafId
BY DEF Flag, Loops

\* The label always goes with the flag.
LEMMA SetRunningIs ==
  ASSUME NEW l \in Loops, l.label = l.running, NEW on \in BOOLEAN
  PROVE  /\ SetRunning(l, on) \in Loops
         /\ SetRunning(l, on).running = on /\ SetRunning(l, on).label = on
         /\ Single(l) /\ (on => l.due = {}) => Single(SetRunning(l, on))
<1>0. l.running \in BOOLEAN
  BY DEF Loops
<1>1. CASE l.running = on
  BY <1>1 DEF SetRunning
<1>2. CASE l.running # on /\ on
  <2> DEFINE f == Flag(l, on)
             s == Schedule(f)
  <2>1. SetRunning(l, on) = s
    BY <1>0, <1>2 DEF SetRunning
  <2>2. /\ f \in Loops /\ f.running = on /\ f.label = on /\ f.due = l.due
        /\ f.scheduled = l.scheduled
    BY FlagIs
  <2> HIDE DEF f
  <2>3. /\ s \in Loops /\ s.running = on /\ s.label = on /\ s.due = f.due
        /\ s = f \/ s.scheduled = f.scheduled \cup {s.rafId}
    BY <2>2, ScheduleIs
  <2> HIDE DEF s
  <2>4. ASSUME Single(l), on => l.due = {} PROVE Single(s)
    <3>1. l.scheduled \cup l.due = {}
      BY <1>0, <1>2, <2>4 DEF Single
    <3>2. s.due = {} /\ (s = f \/ s.scheduled = {s.rafId}) /\ f.scheduled = {}
      BY <2>2, <2>3, <3>1
    <3> QED
      BY <1>2, <2>3, <3>2 DEF Single
  <2> QED
    BY <2>1, <2>3, <2>4
<1>3. CASE l.running # on /\ ~on
  <2> DEFINE f == Flag(l, on)
             s == Cancel(f)
  <2>1. SetRunning(l, on) = s
    BY <1>0, <1>3 DEF SetRunning
  <2>2. /\ f \in Loops /\ f.running = on /\ f.label = on /\ f.due = l.due
        /\ f.scheduled = l.scheduled /\ f.rafId = l.rafId
    BY FlagIs
  <2> HIDE DEF f
  <2>3. /\ s \in Loops /\ s.running = on /\ s.label = on
        /\ s.due = l.due \ {l.rafId} /\ s.scheduled = l.scheduled \ {l.rafId}
    BY <2>2, CancelIs
  <2> HIDE DEF s
  <2>4. Single(l) => s.due = {} /\ s.scheduled = {}
    BY <2>3 DEF Single
  <2>5. Single(l) => Single(s)
    BY <2>4 DEF Single
  <2> QED
    BY <2>1, <2>3, <2>5
<1> QED
  BY <1>1, <1>2, <1>3

LEMMA StopAtFaultIs ==
  ASSUME NEW l \in Loops, l.label = l.running, NEW mm
  PROVE  /\ StopAtFault(mm, l) \in Loops /\ StopAtFault(mm, l).label = StopAtFault(mm, l).running
         /\ Single(l) => Single(StopAtFault(mm, l))
BY SetRunningIs DEF StopAtFault

\* What a handler outside the run loop can make of the loop.
Handled(l) ==
  \/ l = loop
  \/ l = SetRunning(loop, FALSE)
  \/ loop.due = {} /\ \E on \in BOOLEAN : l = SetRunning(loop, on)

LEMMA HandledKeeps ==
  ASSUME LoopInv, NEW l, Handled(l)
  PROVE  l \in Loops /\ l.label = l.running /\ (Single(loop) => Single(l))
BY SetRunningIs DEF LoopInv, Handled

LEMMA StopKeeps ==
  ASSUME LoopInv, NEW l, Handled(l), NEW mm, loop' = StopAtFault(mm, l)
  PROVE  LoopInv' /\ (Single(loop) => Single(loop)')
<1>1. l \in Loops /\ l.label = l.running /\ (Single(loop) => Single(l))
  BY HandledKeeps
<1>2. /\ loop' \in Loops /\ loop'.label = loop'.running /\ (Single(l) => Single(loop'))
  BY <1>1, StopAtFaultIs
<1>3. Single(loop)' <=> Single(loop')
  BY DEF Single
<1> QED
  BY <1>1, <1>2, <1>3 DEF LoopInv

LEMMA SetKeeps ==
  ASSUME LoopInv, Handled(loop')
  PROVE  LoopInv' /\ (Single(loop) => Single(loop)')
<1>1. loop' \in Loops /\ loop'.label = loop'.running /\ (Single(loop) => Single(loop'))
  BY HandledKeeps
<1>2. Single(loop)' <=> Single(loop')
  BY DEF Single
<1> QED
  BY <1>1, <1>2 DEF LoopInv

LEMMA LoadLoop ==
  ASSUME LoopInv, NEW id, Load(id)
  PROVE  LoopInv' /\ (Single(loop) => Single(loop)')
<1>1. Handled(SetRunning(loop, FALSE))
  BY DEF Handled
<1>2. CASE FinishLoad(id, SetRunning(loop, FALSE))
  BY <1>1, <1>2, StopKeeps DEF FinishLoad
<1>3. CASE loop' = SetRunning(loop, FALSE)
  BY <1>1, <1>3, SetKeeps
<1> QED
  BY <1>2, <1>3 DEF Load

\* A callback, which is no longer due: only a fault can make it ask for another
\* one after it has stopped the loop.
LEMMA TickLoop ==
  ASSUME PageInv, LoopInv, NEW handle, Tick(handle)
  PROVE  LoopInv' /\ (Single(loop) /\ ~machine'.fault => Single(loop)')
<1> DEFINE called == [loop EXCEPT !.due = loop.due \ {handle}]
<1>1. /\ called \in Loops /\ called.label = called.running
      /\ called.running = loop.running /\ called.scheduled = loop.scheduled
      /\ called.due = loop.due \ {handle} /\ called.rafId = loop.rafId
      /\ handle \in loop.due
  BY DEF LoopInv, Loops, Tick
<1>2. Single(loop)' <=> Single(loop')
  BY DEF Single
<1>3. Single(loop) => loop.running /\ called.due = {} /\ called.scheduled = {}
  BY <1>1 DEF Single
<1>4. CASE ~loop.running /\ loop' = called
  BY <1>1, <1>2, <1>3, <1>4 DEF LoopInv
<1>5. ASSUME NEW mm \in Machines, Show(mm, screen.console, screen.note),
             loop' = LET painted == StopAtFault(mm, called)
                     IN  IF mm.exited THEN SetRunning(painted, FALSE) ELSE Schedule(painted)
      PROVE  LoopInv' /\ (Single(loop) /\ ~machine'.fault => Single(loop)')
  <2> DEFINE painted == StopAtFault(mm, called)
  <2>1. painted \in Loops /\ painted.label = painted.running
    BY <1>1, StopAtFaultIs
  <2>2. Single(loop) /\ ~mm.fault => painted = called
    BY DEF StopAtFault
  <2> HIDE DEF called, painted
  <2>3. loop' = IF mm.exited THEN SetRunning(painted, FALSE) ELSE Schedule(painted)
    BY <1>5 DEF painted
  <2>4. LoopInv'
    BY <2>1, <2>3, SetRunningIs, ScheduleIs DEF LoopInv
  <2>5. ASSUME Single(loop), ~mm.fault PROVE Single(loop')
    <3>1. painted = called /\ called.due = {} /\ called.scheduled = {} /\ called.running
      BY <1>1, <1>3, <2>2, <2>5
    <3>2. CASE mm.exited
      <4>1. Single(called)
        BY <3>1 DEF Single
      <4> QED
        BY <2>1, <2>3, <3>1, <3>2, <4>1, SetRunningIs
    <3>3. CASE ~mm.exited
      <4>1. loop' = Schedule(called)
        BY <2>3, <3>1, <3>3
      <4>2. /\ loop'.running /\ loop'.due = {}
            /\ loop' = called \/ loop'.scheduled = {loop'.rafId}
        BY <1>1, <3>1, <4>1, ScheduleIs
      <4> QED
        BY <3>1, <4>2 DEF Single
    <3> QED
      BY <3>2, <3>3
  <2>6. machine'.fault = mm.fault
    BY <1>5 DEF Show, Machines
  <2> QED
    BY <1>2, <2>4, <2>5, <2>6
<1>6. \A budget \in 1..MaxBudget : \A mm \in Run(budget) : mm \in Machines
  BY RunOnwards DEF Onwards
<1> QED
  BY <1>4, <1>5, <1>6 DEF Tick

LEMMA NextLoop ==
  PageInv /\ LoopInv /\ [Next]_vars
    => LoopInv' /\ (Single(loop) /\ ~machine'.fault => Single(loop)')
<1> SUFFICES ASSUME PageInv, LoopInv, [Next]_vars
             PROVE  LoopInv' /\ (Single(loop) /\ ~machine'.fault => Single(loop)')
  OBVIOUS
<1>1. Handled(loop) /\ Handled(SetRunning(loop, FALSE))
  BY DEF Handled
<1>2. ASSUME loop' = loop PROVE LoopInv' /\ (Single(loop) => Single(loop)')
  BY <1>2 DEF LoopInv, Single
<1>3. CASE SimArrives
  BY <1>2, <1>3, LoadLoop DEF SimArrives
<1>4. ASSUME NEW id \in Programs, Choose(id) PROVE LoopInv' /\ (Single(loop) => Single(loop)')
  BY <1>2, <1>4, LoadLoop DEF Choose
<1>5. CASE Reset
  BY <1>5, LoadLoop DEF Reset
<1>6. ASSUME NEW id \in Fetched, FetchArrives(id)
      PROVE  LoopInv' /\ (Single(loop) => Single(loop)')
  BY <1>1, <1>6, StopKeeps DEF FetchArrives, FinishLoad
<1>7. ASSUME NEW id \in Fetched, FetchFails(id)
      PROVE  LoopInv' /\ (Single(loop) => Single(loop)')
  BY <1>2, <1>7 DEF FetchFails
<1>8. CASE StepCycle
  BY <1>1, <1>8, StopKeeps DEF StepCycle, Paint
<1>9. CASE StepInstruction
  BY <1>1, <1>9, StopKeeps DEF StepInstruction, Paint
<1>10. CASE Toggle
  <2>1. loop.running \in BOOLEAN /\ loop.label \in BOOLEAN
    BY DEF LoopInv, Loops
  <2>2. Handled(loop')
    BY <1>10, <2>1 DEF Toggle, Button, Space, Idle, Handled
  <2> QED
    BY <2>2, SetKeeps
<1>11. CASE Frame
  <2>1. /\ loop.due = {} /\ loop' = [loop EXCEPT !.due = loop.scheduled, !.scheduled = {}]
    BY <1>11 DEF Frame
  <2>2. /\ loop' \in Loops /\ loop'.running = loop.running /\ loop'.label = loop.label
        /\ loop'.rafId = loop.rafId /\ loop'.due = loop.scheduled /\ loop'.scheduled = {}
    BY <2>1 DEF LoopInv, Loops
  <2>3. Single(loop) => Single(loop)'
    BY <2>1, <2>2 DEF Single
  <2> QED
    BY <2>2, <2>3 DEF LoopInv
<1>12. CASE Ticks
  BY <1>12, TickLoop DEF Ticks
<1>13. CASE UNCHANGED vars
  BY <1>2, <1>13 DEF vars
<1> QED
  BY <1>3, <1>4, <1>5, <1>6, <1>7, <1>8, <1>9, <1>10, <1>11, <1>12, <1>13 DEF Next

\* The machine never moves by itself behind a button that reads "Run".
THEOREM LabelTellsWhoMoves == Spec => MovesOnlyWhenLabelled
<1>1. LoopInv => [Ticks /\ ~loop.label => UNCHANGED <<machine, screen>>]_vars
  BY DEF LoopInv, Ticks, Tick
<1>2. Init => PageInv /\ LoopInv
  BY InitPage
<1>3. PageInv /\ LoopInv /\ [Next]_vars => (PageInv /\ LoopInv)'
  BY NextPage, NextLoop
<1> QED
  BY <1>1, <1>2, <1>3, PTL DEF Spec, MovesOnlyWhenLabelled

\* What Reset loads is what the menu shows, unless they differed from the start.
THEOREM MenuKeepsUp == Spec => MenuAgrees
<1>1. [Next]_vars => [sim = "ready" /\ choice = currentId => choice' = currentId']_vars
  <2> SUFFICES ASSUME Next, sim = "ready", choice = currentId
               PROVE  choice' = currentId'
    OBVIOUS
  <2>1. ASSUME UNCHANGED programVars PROVE choice' = currentId'
    BY <2>1 DEF programVars
  <2>2. ~SimArrives
    BY DEF SimArrives
  <2>3. ASSUME NEW id, Choose(id) PROVE choice' = currentId'
    BY <2>3 DEF Choose, Idle, Load
  <2>4. CASE Reset
    BY <2>4 DEF Reset, Load
  <2> QED
    BY <2>1, <2>2, <2>3, <2>4 DEF Next, FetchArrives, FetchFails, StepCycle,
       StepInstruction, Toggle, Frame, Ticks, Tick
<1> QED
  BY <1>1, PTL DEF Spec, MenuAgrees

\* Until a fault, there is never a second callback, whatever was pressed when.
THEOREM LoopIsOne == Spec => OneLoop
<1>1. LoopInv /\ Single(loop) => Cardinality(loop.scheduled \cup loop.due) <= 1
  <2> SUFFICES ASSUME LoopInv, Single(loop)
               PROVE  Cardinality(loop.scheduled \cup loop.due) <= 1
    OBVIOUS
  <2> DEFINE one == {loop.rafId}
             some == loop.scheduled \cup loop.due
  <2>1. IsFiniteSet(one) /\ Cardinality(one) = 1
    BY FS_Singleton
  <2>2. some \subseteq one
    BY DEF Single
  <2> HIDE DEF one, some
  <2>3. Cardinality(some) <= Cardinality(one)
    BY <2>1, <2>2, FS_Subset
  <2> QED
    BY <2>1, <2>3 DEF some
<1>2. PageInv /\ LoopInv /\ Single(loop) /\ ~machine.fault' /\ [Next]_vars
        => (PageInv /\ LoopInv /\ Single(loop))'
  BY NextPage, NextLoop
<1> QED
  BY <1>1, <1>2, InitPage, PTL DEF Spec, OneLoop
=============================================================================
