-------------------------- MODULE DueSelection_proofs --------------------------
(***************************************************************************)
(* Who is checked when, for any number of monitors, any batch limit and    *)
(* any jumps of the clock: a monitor is never checked twice within its     *)
(* interval to make up for lost time, and does not wait longer than        *)
(* MaxWait.                                                                *)
(***************************************************************************)
EXTENDS DueSelection, FiniteSetTheorems, TLAPS

\* A monitor whose checks nothing has upset is watched; between them it was not checked
\* in the future, and is not due before its interval has passed.
OnSchedule(m) ==
  ~excused[m] =>
    /\ docs[m].active
    /\ m \notin pending =>
         /\ docs[m].lastIn <= 0
         /\ waited[m] >= Interval \/ docs[m].nextIn + waited[m] >= Interval

DueInv == TypeOK /\ \A m \in Monitor : OnSchedule(m)

\* How the bound on waiting is made up.
Base == PoolMs + Interval + Cooldown
Rounds == 1 + Cardinality(Monitor) \div MaxBatch + MaxUpsets

\* Products grow by a factor at a time.
LEMMA OneMore == \A r, n \in Int : r * (n + 1) = r * n + r
OBVIOUS

\* And with their factors.
LEMMA Larger == ASSUME NEW r \in Nat, NEW a \in Int, NEW b \in Int, a <= b PROVE r * a <= r * b
<1>1. PICK c \in Nat : b = a + c
  <2>1. b - a \in Nat /\ b = a + (b - a)
    OBVIOUS
  <2> QED
    BY <2>1
<1>2. r * (a + c) = r * a + r * c
  OBVIOUS
<1>3. r * c \in Nat
  OBVIOUS
<1>4. r * a \in Int
  OBVIOUS
<1> QED
  BY <1>1, <1>2, <1>3, <1>4

\* The numbers that the bounds are made of.
LEMMA Numbers ==
  /\ Round \in Nat /\ Round = TickMs + PoolMs /\ Base \in Nat
  /\ Cardinality(Monitor) \in Nat
  /\ Cardinality(Monitor) \div MaxBatch \in Nat
  /\ Cardinality(Monitor) < (Cardinality(Monitor) \div MaxBatch + 1) * MaxBatch
  /\ Rounds \in Nat /\ RegularWait \in Nat /\ RegularWait = Base + Round * Rounds
  /\ JumpBy * MaxUpsets \in Nat
  /\ MaxWait \in Nat /\ MaxWait >= RegularWait
  /\ JumpBy <= RegularWait => MaxWait = RegularWait + JumpBy * MaxUpsets
<1>1. PICK c \in Nat : c = Cardinality(Monitor)
  BY FS_CardinalityType, SelectionAssumption
<1>2. PICK b \in Nat \ {0} : b = MaxBatch
  BY SelectionAssumption
<1>3. c \div b \in Nat /\ c < (c \div b + 1) * b
  OBVIOUS
<1>4. Round \in Nat /\ Base \in Nat
  BY SelectionAssumption DEF Round, Base
<1>5. Rounds \in Nat
  BY <1>1, <1>2, <1>3, SelectionAssumption DEF Rounds
<1>6. Round * Rounds \in Nat
  BY <1>4, <1>5
<1>7. RegularWait = Base + Round * Rounds
  BY DEF RegularWait, Base, Rounds
<1>8. JumpBy * MaxUpsets \in Nat
  BY SelectionAssumption
<1>9. PICK w \in Nat, j \in Nat : w = RegularWait /\ j = JumpBy * MaxUpsets
  BY <1>4, <1>6, <1>7, <1>8
<1>10. MaxWait = w + (IF JumpBy > w THEN 0 ELSE j)
  BY <1>9 DEF MaxWait
<1>11. MaxWait \in Nat /\ MaxWait >= w /\ (JumpBy <= w => MaxWait = w + j)
  BY <1>10, SelectionAssumption
<1> QED
  BY <1>1, <1>2, <1>3, <1>4, <1>5, <1>7, <1>8, <1>9, <1>11 DEF Round

\* The bound on waiting is a number no smaller than the interval.
LEMMA MaxWaitIsLong == MaxWait \in Nat /\ MaxWait >= Interval /\ MaxWait >= RegularWait
<1>1. PICK b \in Nat, p \in Nat, w \in Nat :
        b = Base /\ p = Round * Rounds /\ w = RegularWait /\ w = b + p /\ b >= Interval
  <2>1. Round * Rounds \in Nat
    BY Numbers
  <2>2. Base >= Interval
    BY SelectionAssumption DEF Base
  <2> QED
    BY <2>1, <2>2, Numbers
<1>2. PICK v \in Nat : v = MaxWait /\ v >= w
  BY <1>1, Numbers
<1> QED
  BY <1>1, <1>2, SelectionAssumption

\* Documents are created due.
LEMMA DueInit == Init => DueInv
<1> SUFFICES ASSUME Init PROVE DueInv
  OBVIOUS
<1>1. LongAgo \in Int
  BY SelectionAssumption DEF LongAgo
<1>2. PICK d : d = [active |-> TRUE, nextIn |-> 0, lastIn |-> LongAgo, open |-> FALSE,
                    retryIn |-> 0]
  OBVIOUS
<1>3. d \in Doc
  BY <1>1, <1>2 DEF Doc
<1>4. docs \in [Monitor -> Doc]
  BY <1>2, <1>3 DEF Init
<1>5. TypeOK
  BY <1>4 DEF Init, TypeOK
<1>6. \A m \in Monitor : excused[m]
  BY DEF Init
<1> QED
  BY <1>5, <1>6 DEF DueInv, OnSchedule

\* Where a moving clock leaves a document.
LEMMA ShiftedDoc ==
  ASSUME TypeOK, NEW d \in Int, NEW m \in Monitor
  PROVE  /\ Shifted(d) \in [Monitor -> Doc]
         /\ Shifted(d)[m].active = docs[m].active
         /\ Shifted(d)[m].nextIn >= docs[m].nextIn - d
         /\ docs[m].lastIn <= 0 /\ d >= 0 => Shifted(d)[m].lastIn <= 0
<1>1. LongAgo \in Int /\ LongAgo <= 0
  BY SelectionAssumption DEF LongAgo
<1>2. ASSUME NEW k \in Monitor
      PROVE  /\ Shifted(d)[k] \in Doc
             /\ Shifted(d)[k].active = docs[k].active
             /\ Shifted(d)[k].nextIn >= docs[k].nextIn - d
             /\ docs[k].lastIn <= 0 /\ d >= 0 => Shifted(d)[k].lastIn <= 0
  <2>1. PICK x \in Doc : x = docs[k]
    BY DEF TypeOK
  <2>2. PICK n \in Int : n = AtLeast(x.nextIn - d, LongAgo) /\ n >= x.nextIn - d
    BY <1>1 DEF Doc, AtLeast
  <2>3. PICK l \in Int : /\ l = IF x.lastIn = LongAgo THEN x.lastIn
                               ELSE AtLeast(x.lastIn - d, LongAgo)
                         /\ x.lastIn <= 0 /\ d >= 0 => l <= 0
    BY <1>1 DEF Doc, AtLeast
  <2>4. PICK t \in Nat : t = AtLeast(x.retryIn - d, 0)
    BY DEF Doc, AtLeast
  <2>5. PICK y : y = [x EXCEPT !.nextIn = n, !.lastIn = l, !.retryIn = t]
    OBVIOUS
  <2>6. Shifted(d)[k] = y
    BY <2>1, <2>2, <2>3, <2>4, <2>5 DEF Shifted
  <2>7. y \in Doc /\ y.active = x.active /\ y.nextIn = n /\ y.lastIn = l
    BY <2>1, <2>2, <2>3, <2>4, <2>5 DEF Doc
  <2> QED
    BY <2>1, <2>2, <2>3, <2>6, <2>7
<1>3. Shifted(d) \in [Monitor -> Doc]
  BY <1>2 DEF Shifted
<1> QED
  BY <1>2, <1>3

\* Ticks launch what is due, and begin to count its waiting anew.
LEMMA TickKeepsSchedule == ASSUME DueInv, Tick PROVE DueInv'
<1>1. TypeOK /\ pending = {} /\ pending' \subseteq Monitor
  BY DEF DueInv, Tick, Due
<1>2. waited' \in [Monitor -> Nat]
  BY <1>1 DEF Tick, TypeOK
<1>3. excused' \in [Monitor -> BOOLEAN]
  <2>1. \A m \in Monitor : (excused[m] /\ m \notin pending') \in BOOLEAN
    BY <1>1 DEF TypeOK
  <2> QED
    BY <2>1 DEF Tick
<1>4. TypeOK'
  BY <1>1, <1>2, <1>3 DEF Tick, TypeOK
<1>5. ASSUME NEW m \in Monitor PROVE OnSchedule(m)'
  <2>1. CASE m \in pending'
    <3>1. docs'[m].active
      BY <2>1 DEF Tick, Due
    <3> QED
      BY <2>1, <3>1 DEF OnSchedule
  <2>2. CASE m \notin pending'
    <3>1. excused'[m] = excused[m] /\ waited'[m] = waited[m] /\ docs' = docs
      BY <1>1, <2>2 DEF Tick, TypeOK
    <3> QED
      BY <1>1, <3>1 DEF DueInv, OnSchedule
  <2> QED
    BY <2>1, <2>2
<1> QED
  BY <1>4, <1>5 DEF DueInv

\* A check that ends is anchored to the present; one that is lost is excused.
LEMMA CheckKeepsSchedule ==
  ASSUME DueInv, NEW m \in Monitor, EndCheck(m) \/ LoseCheck(m)
  PROVE  DueInv'
<1>1. TypeOK /\ pending' = pending \ {m} /\ waited' = waited
  BY DEF DueInv, EndCheck, LoseCheck
<1>2. sinceTick' \in Nat
  BY <1>1 DEF EndCheck, LoseCheck, TypeOK
<1>3. CASE EndCheck(m)
  <2>1. PICK b \in Breakers : \E x :
          /\ docs' = [docs EXCEPT ![m] = x]
          /\ x = [active |-> docs[m].active, lastIn |-> 0, nextIn |-> Interval,
                  open |-> b.open, retryIn |-> b.retryIn]
    BY <1>3 DEF EndCheck, NextIn
  <2>2. PICK x :
          /\ docs' = [docs EXCEPT ![m] = x]
          /\ x = [active |-> docs[m].active, lastIn |-> 0, nextIn |-> Interval,
                  open |-> b.open, retryIn |-> b.retryIn]
    BY <2>1
  <2>3. docs[m].active \in BOOLEAN
    BY <1>1 DEF TypeOK, Doc
  <2>4. b.open \in BOOLEAN /\ b.retryIn \in Nat
    <3>1. CASE b = [open |-> FALSE, retryIn |-> 0]
      BY <3>1
    <3>2. CASE \E c \in 0..Cooldown : b = [open |-> TRUE, retryIn |-> c]
      BY <3>2, SelectionAssumption
    <3> QED
      BY <3>1, <3>2 DEF Breakers
  <2>5. x \in Doc
    BY <2>2, <2>3, <2>4, SelectionAssumption DEF Doc
  <2>6. TypeOK'
    BY <1>1, <1>2, <1>3, <2>2, <2>5 DEF EndCheck, TypeOK
  <2>7. ASSUME NEW k \in Monitor PROVE OnSchedule(k)'
    <3>1. CASE k # m
      <4>1. docs'[k] = docs[k] /\ excused'[k] = excused[k] /\ (k \in pending' <=> k \in pending)
        BY <1>1, <1>3, <2>2, <3>1 DEF EndCheck, TypeOK
      <4> QED
        BY <1>1, <4>1 DEF DueInv, OnSchedule
    <3>2. CASE k = m
      <4>1. docs'[m] = x /\ excused'[m] = excused[m] /\ waited[m] \in Nat
        BY <1>1, <1>3, <2>2 DEF EndCheck, TypeOK
      <4>2. x.active = docs[m].active /\ x.lastIn = 0 /\ x.nextIn = Interval
        BY <2>2
      <4>3. x.nextIn + waited[m] >= Interval
        BY <4>1, <4>2, SelectionAssumption
      <4> QED
        BY <1>1, <3>2, <4>1, <4>2, <4>3 DEF DueInv, OnSchedule
    <3> QED
      BY <3>1, <3>2
  <2> QED
    BY <2>6, <2>7 DEF DueInv
<1>4. CASE LoseCheck(m)
  <2>1. TypeOK'
    BY <1>1, <1>2, <1>4 DEF LoseCheck, Upset, TypeOK
  <2>2. ASSUME NEW k \in Monitor PROVE OnSchedule(k)'
    <3>1. CASE k # m
      <4>1. docs' = docs /\ excused'[k] = excused[k] /\ (k \in pending' <=> k \in pending)
        BY <1>1, <1>4, <3>1 DEF LoseCheck, TypeOK
      <4> QED
        BY <1>1, <4>1 DEF DueInv, OnSchedule
    <3>2. CASE k = m
      <4>1. excused'[m]
        BY <1>1, <1>4 DEF LoseCheck, TypeOK
      <4> QED
        BY <3>2, <4>1 DEF OnSchedule
    <3> QED
      BY <3>1, <3>2
  <2> QED
    BY <2>1, <2>2 DEF DueInv
<1> QED
  BY <1>3, <1>4

\* Pausing, resuming and jumps excuse.
LEMMA UpsetKeepsSchedule ==
  ASSUME DueInv, Jump \/ \E m \in Monitor : Toggle(m)
  PROVE  DueInv'
<1>1. TypeOK
  BY DEF DueInv
<1>2. CASE Jump
  <2>1. PICK d \in Int : docs' = Shifted(d)
    BY <1>2, SelectionAssumption DEF Jump
  <2>2. docs' \in [Monitor -> Doc]
    <3>1. CASE Monitor = {}
      BY <2>1, <3>1 DEF Shifted
    <3>2. CASE Monitor # {}
      BY <1>1, <2>1, <3>2, ShiftedDoc
    <3> QED
      BY <3>1, <3>2
  <2>3. TypeOK'
    BY <1>1, <1>2, <2>2 DEF Jump, Upset, TypeOK
  <2> QED
    BY <1>2, <2>3 DEF Jump, DueInv, OnSchedule
<1>3. ASSUME NEW m \in Monitor, Toggle(m) PROVE DueInv'
  <2>1. docs[m] \in Doc
    BY <1>1 DEF TypeOK
  <2>2. [docs[m] EXCEPT !.active = ~@] \in Doc
    BY <2>1 DEF Doc
  <2>3. docs' \in [Monitor -> Doc]
    BY <1>1, <1>3, <2>2 DEF Toggle, TypeOK
  <2>4. TypeOK'
    BY <1>1, <1>3, <2>3 DEF Toggle, Upset, TypeOK
  <2>5. ASSUME NEW k \in Monitor PROVE OnSchedule(k)'
    <3>1. CASE k # m
      <4>1. /\ docs'[k] = docs[k] /\ excused'[k] = excused[k] /\ waited'[k] = waited[k]
            /\ pending' = pending
        BY <1>1, <1>3, <3>1 DEF Toggle, TypeOK
      <4> QED
        BY <4>1 DEF DueInv, OnSchedule
    <3>2. CASE k = m
      <4>1. excused'[m]
        BY <1>1, <1>3 DEF Toggle, TypeOK
      <4> QED
        BY <3>2, <4>1 DEF OnSchedule
    <3> QED
      BY <3>1, <3>2
  <2> QED
    BY <2>4, <2>5 DEF DueInv
<1> QED
  BY <1>2, <1>3

\* As much as the next check comes nearer the monitor has waited longer.
LEMMA TimeKeepsSchedule == ASSUME DueInv, PassTime PROVE DueInv'
<1>1. TypeOK /\ docs' = Shifted(1) /\ pending' = pending /\ excused' = excused
  BY DEF DueInv, PassTime
<1>2. MaxWait \in Nat /\ MaxWait >= Interval
  BY MaxWaitIsLong
<1>3. waited' \in [Monitor -> Nat]
  BY <1>1, <1>2 DEF PassTime, TypeOK, AtMost
<1>4. docs' \in [Monitor -> Doc]
  <2>1. CASE Monitor = {}
    BY <1>1, <2>1 DEF Shifted
  <2>2. CASE Monitor # {}
    BY <1>1, <2>2, ShiftedDoc
  <2> QED
    BY <2>1, <2>2
<1>5. TypeOK'
  BY <1>1, <1>3, <1>4 DEF PassTime, TypeOK
<1>6. ASSUME NEW m \in Monitor PROVE OnSchedule(m)'
  <2> SUFFICES ASSUME ~excused[m] PROVE OnSchedule(m)'
    BY <1>1 DEF OnSchedule
  <2>1. docs[m].active
    BY DEF DueInv, OnSchedule
  <2>2. docs'[m].active /\ docs'[m].nextIn >= docs[m].nextIn - 1
    BY <1>1, <2>1, ShiftedDoc
  <2>3. docs[m].lastIn <= 0 => docs'[m].lastIn <= 0
    BY <1>1, ShiftedDoc
  <2>4. PICK w \in Nat : w = waited[m]
    BY <1>1 DEF TypeOK
  <2>5. waited'[m] = w + 1 \/ waited'[m] = MaxWait + 1
    BY <2>1, <2>4 DEF PassTime, AtMost
  <2>6. PICK n \in Int, n2 \in Int, i \in Nat :
          n = docs[m].nextIn /\ n2 = docs'[m].nextIn /\ i = Interval
    BY <1>1, <1>4, SelectionAssumption DEF TypeOK, Doc
  <2>7. w >= i \/ n + w >= i => waited'[m] >= i \/ n2 + waited'[m] >= i
    <3>1. CASE waited'[m] = MaxWait + 1
      BY <1>2, <2>6, <3>1
    <3>2. CASE waited'[m] = w + 1
      BY <2>2, <2>6, <3>2
    <3> QED
      BY <2>5, <3>1, <3>2
  <2> QED
    BY <1>1, <2>2, <2>3, <2>4, <2>6, <2>7 DEF DueInv, OnSchedule
<1> QED
  BY <1>5, <1>6 DEF DueInv

\* Every step keeps the schedule.
LEMMA DueStep == DueInv /\ [Next]_vars => DueInv'
<1> SUFFICES ASSUME DueInv, [Next]_vars PROVE DueInv'
  OBVIOUS
<1>1. CASE UNCHANGED vars
  BY <1>1 DEF vars, DueInv, TypeOK, OnSchedule
<1> QED
  BY <1>1, TickKeepsSchedule, CheckKeepsSchedule, UpsetKeepsSchedule, TimeKeepsSchedule DEF Next

\* The schedule keeps its types, and monitors their places in it (findDueMonitors() and
\* runCheck() of scheduler.js).
THEOREM DueInvariant == Spec => []DueInv
BY DueInit, DueStep, PTL DEF Spec

\* However long a leader was busy or absent, it does not catch up: a monitor is not
\* checked again before its interval has passed (nextCheckAt of runCheck(), scheduler.js).
THEOREM NoCatchUp == Spec => NoBackfill
<1>1. DueInv /\ [Next]_vars =>
        [\A m \in Monitor : m \in pending' \ pending => waited[m] >= Interval \/ excused[m]]_vars
  <2> SUFFICES ASSUME DueInv, Next, NEW m \in Monitor, m \in pending' \ pending, ~excused[m]
               PROVE  waited[m] >= Interval
    OBVIOUS
  <2>1. Tick
    BY DEF Next, PassTime, Jump, EndCheck, LoseCheck, Toggle
  <2>2. docs[m].nextIn <= 0 \/ docs[m].lastIn > 0
    BY <2>1 DEF Tick, Due
  <2>3. docs[m].lastIn <= 0 /\ (waited[m] >= Interval \/ docs[m].nextIn + waited[m] >= Interval)
    BY DEF DueInv, OnSchedule
  <2>4. PICK n \in Int, l \in Int, w \in Nat :
          n = docs[m].nextIn /\ l = docs[m].lastIn /\ w = waited[m]
    BY DEF DueInv, TypeOK, Doc
  <2> QED
    BY <2>2, <2>3, <2>4, SelectionAssumption
<1> QED
  BY <1>1, DueInvariant, PTL DEF Spec, NoBackfill

-----------------------------------------------------------------------------
(* How long a monitor waits *)

\* Real time until the next tick, at most.
ToTick == (IF pending = {} THEN TickMs ELSE Round) - sinceTick

\* The loop is never late; a check under way began with the last tick.
ClockInv ==
  /\ sinceTick <= IF pending = {} THEN TickMs ELSE PoolMs
  /\ upsets <= MaxUpsets /\ (jumped => upsets >= 1)
  /\ \A m \in Monitor : /\ m \in pending => waited[m] <= sinceTick
                        /\ ~docs[m].active => waited[m] = 0

\* The next tick is less than a round away.
LEMMA ClockFacts ==
  ASSUME DueInv, ClockInv
  PROVE  /\ ToTick \in Nat /\ ToTick <= Round /\ sinceTick \in Nat
         /\ pending # {} => sinceTick <= PoolMs /\ ToTick = Round - sinceTick
         /\ pending = {} => sinceTick <= TickMs /\ ToTick = TickMs - sinceTick
<1>1. sinceTick \in Nat
  BY DEF DueInv, TypeOK
<1>2. Round \in Nat /\ Round = TickMs + PoolMs
  BY Numbers
<1> QED
  BY <1>1, <1>2, SelectionAssumption DEF ClockInv, ToTick

\* A tick, for one monitor: it is launched or nothing happens to it.
LEMMA TickEffect ==
  ASSUME DueInv, ClockInv, Tick
  PROVE  /\ docs' = docs /\ upsets' = upsets /\ jumped' = jumped /\ sinceTick' = 0
         /\ ToTick = 0 /\ ToTick' \in Nat /\ ToTick' <= Round
         /\ pending = {} /\ pending' \subseteq Monitor
         /\ \A m \in Monitor :
              \/ /\ m \in pending' /\ waited'[m] = 0 /\ ~excused'[m] /\ docs[m].active
              \/ /\ m \notin pending' /\ waited'[m] = waited[m] /\ (excused'[m] <=> excused[m])
<1>1. TypeOK
  BY DEF DueInv
<1>2. /\ docs' = docs /\ upsets' = upsets /\ jumped' = jumped /\ sinceTick' = 0
      /\ pending = {} /\ sinceTick >= TickMs
      /\ waited' = [m \in Monitor |-> IF m \in pending' THEN 0 ELSE waited[m]]
      /\ excused' = [m \in Monitor |-> excused[m] /\ m \notin pending']
  BY DEF Tick
<1>3. PICK batch \in SUBSET Due : pending' = {m \in batch : Allowed(m)}
  BY DEF Tick
<1>4. pending' \subseteq Monitor /\ \A m \in pending' : docs[m].active
  BY <1>3 DEF Due
<1>5. ToTick = 0
  BY <1>2, ClockFacts, SelectionAssumption
<1>6. Round \in Nat /\ Round = TickMs + PoolMs
  BY Numbers
<1>7. ToTick' = IF pending' = {} THEN TickMs ELSE Round
  BY <1>2, <1>6, SelectionAssumption DEF ToTick, Round
<1>8. ToTick' \in Nat /\ ToTick' <= Round
  BY <1>6, <1>7, SelectionAssumption
<1>9. \A m \in Monitor : excused[m] \in BOOLEAN
  BY <1>1 DEF TypeOK
<1> QED
  BY <1>2, <1>4, <1>5, <1>8, <1>9

\* A check ends, or is lost.
LEMMA CheckEffect ==
  ASSUME DueInv, ClockInv, NEW k \in Monitor, EndCheck(k) \/ LoseCheck(k)
  PROVE  /\ k \in pending /\ pending' = pending \ {k} /\ waited' = waited /\ jumped' = jumped
         /\ ToTick' \in Nat /\ ToTick' <= ToTick /\ waited[k] + ToTick' <= Round
         /\ waited[k] <= PoolMs
         /\ sinceTick' = (IF pending' = {} THEN 0 ELSE sinceTick)
         /\ \A m \in Monitor \ {k} : docs'[m] = docs[m] /\ excused'[m] = excused[m]
         /\ docs'[k].active = docs[k].active
         /\ EndCheck(k) =>
              /\ docs'[k].nextIn = Interval /\ docs'[k].lastIn = 0
              /\ docs'[k].retryIn \in Nat /\ docs'[k].retryIn <= Cooldown
              /\ upsets' = upsets /\ excused' = excused
         /\ LoseCheck(k) =>
              docs' = docs /\ upsets' = upsets + 1 /\ excused'[k] /\ upsets < MaxUpsets
<1>1. TypeOK
  BY DEF DueInv
<1>2. /\ k \in pending /\ pending' = pending \ {k} /\ waited' = waited /\ jumped' = jumped
      /\ sinceTick' = IF pending' = {} THEN 0 ELSE sinceTick
  BY DEF EndCheck, LoseCheck
<1>3. PICK w \in Nat : w = waited[k]
  BY <1>1 DEF TypeOK
<1>4. PICK s \in Nat : s = sinceTick /\ s <= PoolMs /\ ToTick = Round - s /\ w <= s
  BY <1>2, <1>3, ClockFacts DEF ClockInv
<1>5. Round \in Nat /\ Round = TickMs + PoolMs
  BY Numbers
<1>6. ToTick' = IF pending' = {} THEN TickMs ELSE Round - s
  BY <1>2, <1>4, <1>5, SelectionAssumption DEF ToTick, Round
<1>7. /\ ToTick' \in Nat /\ ToTick' <= ToTick /\ w + ToTick' <= Round /\ w <= PoolMs
  BY <1>3, <1>4, <1>5, <1>6, SelectionAssumption
<1>8. ASSUME EndCheck(k)
      PROVE  /\ docs'[k].nextIn = Interval /\ docs'[k].lastIn = 0
             /\ docs'[k].retryIn \in Nat /\ docs'[k].retryIn <= Cooldown
             /\ upsets' = upsets /\ excused' = excused
             /\ \A m \in Monitor \ {k} : docs'[m] = docs[m]
             /\ docs'[k].active = docs[k].active
  <2>1. PICK b \in Breakers :
          docs' = [docs EXCEPT ![k] = [active |-> docs[k].active, lastIn |-> 0,
                    nextIn |-> Interval, open |-> b.open, retryIn |-> b.retryIn]]
    BY <1>8 DEF EndCheck, NextIn
  <2>2. PICK x : x = [active |-> docs[k].active, lastIn |-> 0,
                      nextIn |-> Interval, open |-> b.open, retryIn |-> b.retryIn]
    OBVIOUS
  <2>3. b.retryIn \in Nat /\ b.retryIn <= Cooldown
    <3>1. CASE b = [open |-> FALSE, retryIn |-> 0]
      BY <3>1, SelectionAssumption
    <3>2. CASE \E c \in 0..Cooldown : b = [open |-> TRUE, retryIn |-> c]
      BY <3>2, SelectionAssumption
    <3> QED
      BY <3>1, <3>2 DEF Breakers
  <2>4. docs'[k] = x /\ \A m \in Monitor \ {k} : docs'[m] = docs[m]
    BY <1>1, <2>1, <2>2 DEF TypeOK
  <2>5. /\ x.active = docs[k].active /\ x.nextIn = Interval /\ x.lastIn = 0
        /\ x.retryIn = b.retryIn
    BY <2>2
  <2>6. upsets' = upsets /\ excused' = excused
    BY <1>8 DEF EndCheck
  <2> QED
    BY <2>3, <2>4, <2>5, <2>6
<1>9. ASSUME LoseCheck(k)
      PROVE  /\ docs' = docs /\ upsets' = upsets + 1 /\ excused'[k] /\ upsets < MaxUpsets
             /\ \A m \in Monitor \ {k} : excused'[m] = excused[m]
  <2>1. /\ docs' = docs /\ upsets' = upsets + 1 /\ upsets < MaxUpsets
        /\ excused' = [excused EXCEPT ![k] = TRUE]
    BY <1>9 DEF LoseCheck, Upset
  <2> QED
    BY <1>1, <2>1 DEF TypeOK
<1>10. /\ docs'[k].active = docs[k].active
       /\ \A m \in Monitor \ {k} : docs'[m] = docs[m] /\ excused'[m] = excused[m]
  BY <1>8, <1>9
<1> QED
  BY <1>2, <1>3, <1>7, <1>8, <1>9, <1>10

\* A monitor is paused or resumed.
LEMMA ToggleEffect ==
  ASSUME DueInv, ClockInv, NEW k \in Monitor, Toggle(k)
  PROVE  /\ pending' = pending /\ jumped' = jumped /\ ToTick' = ToTick /\ sinceTick' = sinceTick
         /\ upsets' = upsets + 1 /\ upsets < MaxUpsets
         /\ waited'[k] = 0 /\ excused'[k]
         /\ docs'[k].nextIn = docs[k].nextIn /\ docs'[k].lastIn = docs[k].lastIn
         /\ docs'[k].retryIn = docs[k].retryIn /\ docs'[k].open = docs[k].open
         /\ \A m \in Monitor \ {k} : /\ docs'[m] = docs[m] /\ waited'[m] = waited[m]
                                     /\ excused'[m] = excused[m]
<1>1. TypeOK
  BY DEF DueInv
<1>2. PICK x : x = docs[k] /\ x \in Doc
  BY <1>1 DEF TypeOK
<1>3. PICK y : y = [x EXCEPT !.active = ~@]
  OBVIOUS
<1>4. /\ y.nextIn = x.nextIn /\ y.lastIn = x.lastIn /\ y.retryIn = x.retryIn /\ y.open = x.open
  BY <1>2, <1>3 DEF Doc
<1>5. docs' = [docs EXCEPT ![k] = y]
  BY <1>2, <1>3 DEF Toggle
<1>6. docs'[k] = y /\ \A m \in Monitor \ {k} : docs'[m] = docs[m]
  BY <1>1, <1>5 DEF TypeOK
<1>7. ToTick' = ToTick
  BY DEF Toggle, ToTick, Round
<1>8. /\ waited' = [waited EXCEPT ![k] = 0] /\ excused' = [excused EXCEPT ![k] = TRUE]
      /\ pending' = pending /\ jumped' = jumped /\ sinceTick' = sinceTick
      /\ upsets' = upsets + 1 /\ upsets < MaxUpsets
  BY DEF Toggle, Upset
<1> QED
  BY <1>1, <1>2, <1>4, <1>6, <1>7, <1>8 DEF TypeOK

\* Where exactly a moving clock leaves a document.
LEMMA ShiftedFields ==
  ASSUME TypeOK, NEW d \in Int, NEW m \in Monitor
  PROVE  /\ Shifted(d)[m].active = docs[m].active /\ Shifted(d)[m].open = docs[m].open
         /\ Shifted(d)[m].nextIn = AtLeast(docs[m].nextIn - d, LongAgo)
         /\ Shifted(d)[m].lastIn = (IF docs[m].lastIn = LongAgo THEN LongAgo
                                    ELSE AtLeast(docs[m].lastIn - d, LongAgo))
         /\ Shifted(d)[m].retryIn = AtLeast(docs[m].retryIn - d, 0)
<1>1. PICK x \in Doc : x = docs[m]
  BY DEF TypeOK
<1>2. PICK n : n = AtLeast(x.nextIn - d, LongAgo)
  OBVIOUS
<1>3. PICK l : l = IF x.lastIn = LongAgo THEN x.lastIn ELSE AtLeast(x.lastIn - d, LongAgo)
  OBVIOUS
<1>4. PICK t : t = AtLeast(x.retryIn - d, 0)
  OBVIOUS
<1>5. PICK y : y = [x EXCEPT !.nextIn = n, !.lastIn = l, !.retryIn = t]
  OBVIOUS
<1>6. Shifted(d)[m] = y
  BY <1>1, <1>2, <1>3, <1>4, <1>5 DEF Shifted
<1>7. /\ y.active = x.active /\ y.open = x.open /\ y.nextIn = n /\ y.lastIn = l
      /\ y.retryIn = t
  BY <1>1, <1>5 DEF Doc
<1> QED
  BY <1>1, <1>2, <1>3, <1>4, <1>6, <1>7

\* A monitor that is watched waits.
LEMMA PassEffect ==
  ASSUME DueInv, ClockInv, PassTime
  PROVE  /\ pending' = pending /\ excused' = excused /\ upsets' = upsets /\ jumped' = jumped
         /\ sinceTick' = sinceTick + 1 /\ ToTick >= 1 /\ ToTick' = ToTick - 1
         /\ ToTick' \in Nat
         /\ \A m \in Monitor :
              /\ docs'[m].active = docs[m].active /\ docs'[m].open = docs[m].open
              /\ docs'[m].nextIn = AtLeast(docs[m].nextIn - 1, LongAgo)
              /\ docs'[m].lastIn = (IF docs[m].lastIn = LongAgo THEN LongAgo
                                    ELSE AtLeast(docs[m].lastIn - 1, LongAgo))
              /\ docs'[m].retryIn = AtLeast(docs[m].retryIn - 1, 0)
              /\ waited'[m] \in Nat /\ waited'[m] <= waited[m] + 1
              /\ docs[m].active /\ waited[m] <= MaxWait => waited'[m] = waited[m] + 1
              /\ ~docs[m].active => waited'[m] = 0 /\ waited[m] = 0
<1>1. TypeOK
  BY DEF DueInv
<1>2. /\ pending' = pending /\ excused' = excused /\ upsets' = upsets /\ jumped' = jumped
      /\ sinceTick' = sinceTick + 1 /\ docs' = Shifted(1)
      /\ sinceTick < (IF pending = {} THEN TickMs ELSE PoolMs)
  BY DEF PassTime
<1>3. PICK s \in Nat : s = sinceTick
  BY <1>1 DEF TypeOK
<1>4. Round \in Nat /\ Round = TickMs + PoolMs
  BY Numbers
<1>5. ToTick = (IF pending = {} THEN TickMs ELSE Round) - s
  BY <1>3 DEF ToTick
<1>6. ToTick' = (IF pending = {} THEN TickMs ELSE Round) - (s + 1)
  BY <1>2, <1>3 DEF ToTick, Round
<1>7. ToTick >= 1 /\ ToTick' = ToTick - 1 /\ ToTick' \in Nat
  BY <1>2, <1>3, <1>4, <1>5, <1>6, SelectionAssumption
<1>8. ASSUME NEW m \in Monitor
      PROVE  /\ waited'[m] \in Nat /\ waited'[m] <= waited[m] + 1
             /\ docs[m].active /\ waited[m] <= MaxWait => waited'[m] = waited[m] + 1
             /\ ~docs[m].active => waited'[m] = 0 /\ waited[m] = 0
  <2>1. PICK w \in Nat, v \in Nat : w = waited[m] /\ v = MaxWait
    BY <1>1, MaxWaitIsLong DEF TypeOK
  <2>2. waited'[m] = IF docs[m].active THEN AtMost(w + 1, v + 1) ELSE 0
    BY <2>1 DEF PassTime
  <2>3. ~docs[m].active => w = 0
    BY <2>1 DEF ClockInv
  <2> QED
    BY <2>1, <2>2, <2>3 DEF AtMost
<1> QED
  BY <1>1, <1>2, <1>7, <1>8, ShiftedFields

\* The clock jumps.
LEMMA JumpEffect ==
  ASSUME DueInv, Jump
  PROVE  /\ pending' = pending /\ waited' = waited /\ sinceTick' = sinceTick
         /\ ToTick' = ToTick /\ jumped' /\ upsets' = upsets + 1 /\ upsets < MaxUpsets
         /\ JumpBy > 0 /\ \A m \in Monitor : excused'[m]
         /\ \E d \in {JumpBy, -JumpBy} : \A m \in Monitor :
              /\ docs'[m].active = docs[m].active /\ docs'[m].open = docs[m].open
              /\ docs'[m].nextIn = AtLeast(docs[m].nextIn - d, LongAgo)
              /\ docs'[m].lastIn = (IF docs[m].lastIn = LongAgo THEN LongAgo
                                    ELSE AtLeast(docs[m].lastIn - d, LongAgo))
<1>1. TypeOK
  BY DEF DueInv
<1>2. /\ pending' = pending /\ waited' = waited /\ sinceTick' = sinceTick
      /\ jumped' /\ upsets' = upsets + 1 /\ upsets < MaxUpsets
      /\ JumpBy > 0 /\ \A m \in Monitor : excused'[m]
  BY DEF Jump, Upset
<1>3. ToTick' = ToTick
  BY <1>2 DEF ToTick, Round
<1>4. PICK d \in {JumpBy, -JumpBy} : docs' = Shifted(d)
  BY DEF Jump
<1>5. d \in Int
  BY <1>4, SelectionAssumption
<1>6. \A m \in Monitor :
        /\ docs'[m].active = docs[m].active /\ docs'[m].open = docs[m].open
        /\ docs'[m].nextIn = AtLeast(docs[m].nextIn - d, LongAgo)
        /\ docs'[m].lastIn = (IF docs[m].lastIn = LongAgo THEN LongAgo
                              ELSE AtLeast(docs[m].lastIn - d, LongAgo))
  BY <1>1, <1>4, <1>5, ShiftedFields
<1> QED
  BY <1>2, <1>3, <1>4, <1>6

\* The loop is never late.
LEMMA ClockStep == DueInv /\ ClockInv /\ [Next]_vars => ClockInv'
<1> SUFFICES ASSUME DueInv, ClockInv, [Next]_vars PROVE ClockInv'
  OBVIOUS
<1>1. TypeOK /\ TypeOK'
  BY DueStep DEF DueInv
<1>2. CASE Tick
  <2>1. sinceTick' = 0 /\ upsets' = upsets /\ jumped' = jumped /\ docs' = docs
    BY <1>2, TickEffect
  <2>2. \A m \in Monitor : /\ m \in pending' => waited'[m] = 0
                           /\ ~docs[m].active => waited'[m] = 0
    BY <1>2, TickEffect DEF ClockInv
  <2> QED
    BY <2>1, <2>2, SelectionAssumption DEF ClockInv
<1>3. CASE PassTime
  <2>1. /\ pending' = pending /\ upsets' = upsets /\ jumped' = jumped /\ sinceTick' = sinceTick + 1
        /\ \A m \in Monitor : /\ docs'[m].active = docs[m].active /\ waited'[m] <= waited[m] + 1
                              /\ ~docs[m].active => waited'[m] = 0
    BY <1>3, PassEffect
  <2>2. sinceTick' <= IF pending' = {} THEN TickMs ELSE PoolMs
    BY <1>1, <1>3, SelectionAssumption DEF PassTime, TypeOK
  <2>3. ASSUME NEW m \in Monitor, m \in pending' PROVE waited'[m] <= sinceTick'
    <3>1. PICK w \in Nat, v \in Nat, s \in Nat : w = waited[m] /\ v = waited'[m] /\ s = sinceTick
      BY <1>1 DEF TypeOK
    <3>2. w <= s /\ v <= w + 1
      BY <2>1, <2>3, <3>1 DEF ClockInv
    <3> QED
      BY <2>1, <3>1, <3>2
  <2> QED
    BY <2>1, <2>2, <2>3 DEF ClockInv
<1>4. CASE Jump
  <2>1. /\ pending' = pending /\ waited' = waited /\ sinceTick' = sinceTick
        /\ upsets' = upsets + 1 /\ upsets < MaxUpsets
        /\ \A m \in Monitor : docs'[m].active = docs[m].active
    BY <1>4, JumpEffect
  <2>2. upsets' <= MaxUpsets /\ upsets' >= 1
    BY <1>1, <2>1, SelectionAssumption DEF TypeOK
  <2> QED
    BY <2>1, <2>2 DEF ClockInv
<1>5. ASSUME NEW k \in Monitor, EndCheck(k) \/ LoseCheck(k) PROVE ClockInv'
  <2>1. /\ k \in pending /\ pending' = pending \ {k} /\ waited' = waited /\ jumped' = jumped
        /\ sinceTick' = (IF pending' = {} THEN 0 ELSE sinceTick)
        /\ \A m \in Monitor : docs'[m].active = docs[m].active
    <3>1. \A m \in Monitor \ {k} : docs'[m] = docs[m]
      BY <1>5, CheckEffect
    <3> QED
      BY <1>5, <3>1, CheckEffect
  <2>2. upsets' = upsets \/ (upsets' = upsets + 1 /\ upsets < MaxUpsets)
    BY <1>5, CheckEffect
  <2>3. upsets' <= MaxUpsets /\ upsets' >= upsets
    BY <1>1, <2>2, SelectionAssumption DEF TypeOK, ClockInv
  <2>4. sinceTick' <= IF pending' = {} THEN TickMs ELSE PoolMs
    BY <1>1, <2>1, SelectionAssumption DEF TypeOK, ClockInv
  <2>5. jumped' => upsets' >= 1
    BY <1>1, <2>1, <2>3 DEF TypeOK, ClockInv
  <2>6. \A m \in Monitor : m \in pending' => waited'[m] <= sinceTick'
    BY <2>1 DEF ClockInv
  <2> QED
    BY <2>1, <2>3, <2>4, <2>5, <2>6 DEF ClockInv
<1>6. ASSUME NEW k \in Monitor, Toggle(k) PROVE ClockInv'
  <2>1. /\ pending' = pending /\ jumped' = jumped /\ sinceTick' = sinceTick
        /\ upsets' = upsets + 1 /\ upsets < MaxUpsets /\ waited'[k] = 0
        /\ \A m \in Monitor \ {k} : docs'[m] = docs[m] /\ waited'[m] = waited[m]
    BY <1>6, ToggleEffect
  <2>2. upsets' <= MaxUpsets /\ upsets' >= 1 /\ sinceTick \in Nat
    BY <1>1, <2>1, SelectionAssumption DEF TypeOK
  <2>3. ASSUME NEW m \in Monitor PROVE /\ m \in pending' => waited'[m] <= sinceTick'
                                       /\ ~docs'[m].active => waited'[m] = 0
    <3>1. CASE m = k
      BY <2>1, <2>2, <3>1
    <3>2. CASE m # k
      BY <2>1, <3>2 DEF ClockInv
    <3> QED
      BY <3>1, <3>2
  <2> QED
    BY <2>1, <2>2, <2>3 DEF ClockInv
<1>7. CASE UNCHANGED vars
  BY <1>7 DEF vars, ClockInv
<1> QED
  BY <1>2, <1>3, <1>4, <1>5, <1>6, <1>7 DEF Next

\* While the clock does not jump, the schedule is at most an interval and a pool ahead, a
\* breaker opens again a cooldown after the check before, at the latest, and a monitor whose
\* checks nothing has upset is not due before its interval has passed.
OnTimeOf(m) ==
  /\ docs[m].nextIn + waited[m] <= Interval + PoolMs \/ docs[m].nextIn = LongAgo
  /\ docs[m].retryIn = 0 \/ docs[m].retryIn <= docs[m].nextIn + Cooldown - Interval
  /\ ~excused[m] /\ m \notin pending => docs[m].nextIn + waited[m] >= Interval

OnTime == ~jumped => \A m \in Monitor : OnTimeOf(m)

\* The variables of a monitor are numbers.
LEMMA Fields ==
  ASSUME TypeOK, NEW m \in Monitor
  PROVE  /\ docs[m].nextIn \in Int /\ docs[m].lastIn \in Int /\ docs[m].retryIn \in Nat
         /\ docs[m].active \in BOOLEAN /\ docs[m].open \in BOOLEAN
         /\ waited[m] \in Nat /\ excused[m] \in BOOLEAN /\ upsets \in Nat
BY DEF TypeOK, Doc

\* ... in the next state, too.
LEMMA FieldsThen ==
  ASSUME TypeOK', NEW m \in Monitor
  PROVE  /\ docs'[m].nextIn \in Int /\ docs'[m].lastIn \in Int /\ docs'[m].retryIn \in Nat
         /\ docs'[m].active \in BOOLEAN /\ docs'[m].open \in BOOLEAN
         /\ waited'[m] \in Nat /\ excused'[m] \in BOOLEAN /\ upsets' \in Nat
BY DEF TypeOK, Doc

\* Without jumps nobody waits too long.
NotLate == ~jumped => \A m \in Monitor : waited[m] <= MaxWait

\* A step that leaves what OnTimeOf says alone, or brings it nearer.
LEMMA OnTimeStep == DueInv /\ ClockInv /\ OnTime /\ NotLate /\ [Next]_vars => OnTime'
<1> SUFFICES ASSUME DueInv, ClockInv, OnTime, NotLate, [Next]_vars, ~jumped', NEW m \in Monitor
             PROVE  OnTimeOf(m)'
  BY DEF OnTime
<1>1. TypeOK /\ TypeOK'
  BY DueStep DEF DueInv
<1>2. CASE UNCHANGED vars
  BY <1>2 DEF vars, OnTime, OnTimeOf
<1>3. ~Jump
  BY JumpEffect
<1>4. ~jumped
  <2>1. CASE Next
    BY <1>3, <2>1 DEF Next, Tick, PassTime, EndCheck, LoseCheck, Toggle
  <2> QED
    BY <1>2, <2>1 DEF vars
<1>5. OnTimeOf(m)
  BY <1>4 DEF OnTime
<1>6. PICK n \in Int, t \in Nat, w \in Nat, l \in Nat :
        /\ n = docs[m].nextIn /\ t = docs[m].retryIn /\ w = waited[m] /\ LongAgo = -l
        /\ l > MaxWait
  BY <1>1, Fields, SelectionAssumption, LagAssumption DEF LongAgo
<1>7. PICK n2 \in Int, t2 \in Nat, w2 \in Nat :
        n2 = docs'[m].nextIn /\ t2 = docs'[m].retryIn /\ w2 = waited'[m]
  BY <1>1, FieldsThen
<1>8. /\ n + w <= Interval + PoolMs \/ n = -l
      /\ t = 0 \/ t <= n + Cooldown - Interval
      /\ ~excused[m] /\ m \notin pending => n + w >= Interval
  BY <1>5, <1>6 DEF OnTimeOf
<1>9. SUFFICES /\ n2 + w2 <= Interval + PoolMs \/ n2 = -l
               /\ t2 = 0 \/ t2 <= n2 + Cooldown - Interval
               /\ ~excused'[m] /\ m \notin pending' => n2 + w2 >= Interval
  BY <1>6, <1>7 DEF OnTimeOf, LongAgo
<1>10. CASE Tick
  <2>1. /\ n2 = n /\ t2 = t
        /\ \/ m \in pending' /\ w2 = 0
           \/ m \notin pending' /\ w2 = w /\ (excused'[m] <=> excused[m]) /\ m \notin pending
    BY <1>6, <1>7, <1>10, TickEffect
  <2> QED
    BY <1>8, <2>1, SelectionAssumption
<1>11. CASE PassTime
  <2>1. /\ pending' = pending /\ excused' = excused
        /\ n2 = AtLeast(n - 1, -l) /\ t2 = AtLeast(t - 1, 0) /\ w2 <= w + 1
        /\ docs[m].active /\ w <= MaxWait => w2 = w + 1
    BY <1>6, <1>7, <1>11, PassEffect
  <2>2. n2 + w2 <= Interval + PoolMs \/ n2 = -l
    BY <1>8, <2>1, SelectionAssumption DEF AtLeast
  <2>3. t2 = 0 \/ t2 <= n2 + Cooldown - Interval
    BY <1>8, <2>1, SelectionAssumption DEF AtLeast
  <2>4. ASSUME ~excused[m], m \notin pending PROVE n2 + w2 >= Interval
    <3>1. docs[m].active
      BY <2>4 DEF DueInv, OnSchedule
    <3>2. w <= MaxWait
      BY <1>4, <1>6 DEF NotLate
    <3> QED
      BY <1>8, <2>1, <2>4, <3>1, <3>2, SelectionAssumption DEF AtLeast
  <2> QED
    BY <2>1, <2>2, <2>3, <2>4
<1>12. ASSUME NEW k \in Monitor, EndCheck(k) \/ LoseCheck(k), m # k
       PROVE  /\ n2 = n /\ t2 = t /\ w2 = w /\ excused'[m] = excused[m]
              /\ m \in pending' <=> m \in pending
  <2>1. docs'[m] = docs[m] /\ excused'[m] = excused[m] /\ waited' = waited
        /\ pending' = pending \ {k}
    BY <1>12, CheckEffect
  <2> QED
    BY <1>6, <1>7, <1>12, <2>1
<1>13. ASSUME NEW k \in Monitor, Toggle(k), m # k
       PROVE  /\ n2 = n /\ t2 = t /\ w2 = w /\ excused'[m] = excused[m]
              /\ m \in pending' <=> m \in pending
  <2>1. docs'[m] = docs[m] /\ excused'[m] = excused[m] /\ waited'[m] = waited[m]
        /\ pending' = pending
    BY <1>13, ToggleEffect
  <2> QED
    BY <1>6, <1>7, <2>1
<1>14. CASE EndCheck(m)
  <2>1. n2 = Interval /\ t2 <= Cooldown /\ w2 <= PoolMs /\ w2 = w
    BY <1>6, <1>7, <1>14, CheckEffect
  <2> QED
    BY <2>1, SelectionAssumption
<1>15. CASE LoseCheck(m)
  <2>1. n2 = n /\ t2 = t /\ w2 = w /\ excused'[m]
    BY <1>6, <1>7, <1>15, CheckEffect
  <2> QED
    BY <1>8, <2>1
<1>16. CASE Toggle(m)
  <2>1. n2 = n /\ t2 = t /\ w2 = 0 /\ excused'[m]
    BY <1>6, <1>7, <1>16, ToggleEffect
  <2> QED
    BY <1>8, <2>1, SelectionAssumption
<1>17. ASSUME NEW k \in Monitor, EndCheck(k) \/ LoseCheck(k) \/ Toggle(k)
       PROVE  /\ n2 + w2 <= Interval + PoolMs \/ n2 = -l
              /\ t2 = 0 \/ t2 <= n2 + Cooldown - Interval
              /\ ~excused'[m] /\ m \notin pending' => n2 + w2 >= Interval
  <2>1. CASE m # k
    BY <1>8, <1>12, <1>13, <1>17, <2>1
  <2>2. CASE m = k
    BY <1>14, <1>15, <1>16, <1>17, <2>2
  <2> QED
    BY <2>1, <2>2
<1> QED
  BY <1>2, <1>3, <1>6, <1>7, <1>8, <1>10, <1>11, <1>17 DEF Next, vars

\* The monitors that may be checked before m.
Ahead(m) ==
  {k \in Monitor \ {m} :
     /\ docs[k].active
     /\ excused[k] \/ (k \notin pending /\ docs[k].nextIn <= docs[m].nextIn)}

\* How long n rounds of waiting may have taken a monitor that u upsets have delayed.
Turns(u) == Base + Round * (1 + Cardinality(Monitor) \div MaxBatch + u)

\* After n more rounds m is in the batch, and they are not too many.
InTurnAt(m, n) ==
  /\ Cardinality(Ahead(m)) < (n + 1) * MaxBatch
  /\ waited[m] + ToTick + Round * n <= Turns(upsets)

InTurn ==
  ~jumped => \A m \in Monitor : waited[m] > Base => \E n \in Nat : InTurnAt(m, n)

\* Each upset allows for one more round.
LEMMA TurnsGrow ==
  ASSUME NEW u \in Nat
  PROVE  /\ Turns(u) \in Nat /\ Turns(u + 1) = Turns(u) + Round
         /\ Turns(u) >= Base + Round * (Cardinality(Monitor) \div MaxBatch) + Round
         /\ u <= MaxUpsets => Turns(u) <= RegularWait
<1>1. PICK c \in Nat : c = Cardinality(Monitor) \div MaxBatch
  BY Numbers
<1>2. PICK r \in Nat, b \in Nat : r = Round /\ b = Base
  BY Numbers
<1>3. Turns(u) = b + r * (1 + c + u) /\ Turns(u + 1) = b + r * (1 + c + (u + 1))
  BY <1>1, <1>2 DEF Turns
<1>4. r * (1 + c + u) \in Nat
  OBVIOUS
<1>5. r * (1 + c + (u + 1)) = r * (1 + c + u) + r
  OBVIOUS
<1>6. r * (c + 1) <= r * (1 + c + u)
  BY Larger
<1>7. r * (c + 1) = r * c + r
  OBVIOUS
<1>8. u <= MaxUpsets => r * (1 + c + u) <= r * (1 + c + MaxUpsets)
  <2>1. MaxUpsets \in Nat
    BY SelectionAssumption
  <2> QED
    BY <2>1, Larger
<1>9. RegularWait = b + r * (1 + c + MaxUpsets)
  BY <1>1, <1>2, Numbers DEF Rounds
<1>10. PICK p \in Int, q \in Int : p = r * (c + 1) /\ q = r * (1 + c + MaxUpsets)
  <2>1. MaxUpsets \in Nat
    BY SelectionAssumption
  <2> QED
    BY <2>1
<1>11. r * c \in Int
  OBVIOUS
<1> QED
  BY <1>1, <1>2, <1>3, <1>4, <1>5, <1>6, <1>7, <1>8, <1>9, <1>10, <1>11

\* There are no more monitors ahead than there are monitors.
LEMMA AheadIsFinite ==
  ASSUME NEW m \in Monitor
  PROVE  /\ IsFiniteSet(Ahead(m)) /\ Cardinality(Ahead(m)) \in Nat
         /\ Cardinality(Ahead(m)) <= Cardinality(Monitor)
<1>1. Ahead(m) \in SUBSET Monitor
  BY DEF Ahead
<1> QED
  BY <1>1, FS_Subset, FS_CardinalityType, SelectionAssumption

\* ... in the next state, too.
LEMMA AheadStaysFinite ==
  ASSUME NEW m \in Monitor
  PROVE  /\ IsFiniteSet(Ahead(m)') /\ Cardinality(Ahead(m)') \in Nat
         /\ Cardinality(Ahead(m)') <= Cardinality(Monitor)
<1>1. Ahead(m)' \in SUBSET Monitor
  BY DEF Ahead
<1> QED
  BY <1>1, FS_Subset, FS_CardinalityType, SelectionAssumption

\* Without jumps nobody waits too long.
LEMMA InTurnIsInTime ==
  ASSUME DueInv, ClockInv, InTurn, ~jumped, NEW m \in Monitor
  PROVE  waited[m] <= RegularWait
<1>1. CASE waited[m] <= Base
  <2>1. Base <= RegularWait /\ Base \in Nat /\ RegularWait \in Nat
    <3>1. Base \in Nat /\ Round * Rounds \in Nat /\ RegularWait = Base + Round * Rounds
      BY Numbers
    <3> QED
      BY <3>1
  <2> QED
    BY <1>1, <2>1, Fields DEF DueInv
<1>2. CASE waited[m] > Base
  <2>1. PICK n \in Nat : InTurnAt(m, n)
    BY <1>2 DEF InTurn
  <2>2. PICK p \in Nat : p = Round * n
    BY Numbers
  <2>3. PICK t \in Nat, w \in Nat, u \in Nat : t = ToTick /\ w = waited[m] /\ u = upsets
    BY ClockFacts, Fields DEF DueInv
  <2>4. Turns(u) \in Nat /\ Turns(u) <= RegularWait
    BY <2>3, TurnsGrow DEF ClockInv
  <2>5. w + t + p <= Turns(u)
    BY <2>1, <2>2, <2>3 DEF InTurnAt
  <2> QED
    BY <2>2, <2>3, <2>4, <2>5, Numbers
<1> QED
  BY <1>1, <1>2, Fields, Numbers DEF DueInv

\* Nobody new is ahead.
LEMMA TurnKept ==
  ASSUME TypeOK, TypeOK', ToTick \in Nat, ToTick' \in Nat, NEW m \in Monitor, NEW n \in Nat,
         InTurnAt(m, n), Ahead(m)' \subseteq Ahead(m),
         waited'[m] + ToTick' <= waited[m] + ToTick, upsets' = upsets
  PROVE  InTurnAt(m, n)'
<1>1. Cardinality(Ahead(m)') <= Cardinality(Ahead(m))
  BY AheadIsFinite, FS_Subset
<1>2. PICK b \in Int : b = (n + 1) * MaxBatch
  BY SelectionAssumption
<1>3. Cardinality(Ahead(m)') < (n + 1) * MaxBatch
  BY <1>1, <1>2, AheadIsFinite, AheadStaysFinite DEF InTurnAt
<1>4. PICK p \in Nat : p = Round * n
  BY Numbers
<1>5. waited[m] \in Nat /\ waited'[m] \in Nat /\ Turns(upsets) \in Nat
  BY Fields, FieldsThen, TurnsGrow
<1>6. waited[m] + ToTick + p <= Turns(upsets)
  BY <1>4 DEF InTurnAt
<1>7. waited'[m] + ToTick' + p <= Turns(upsets)
  BY <1>4, <1>5, <1>6
<1> QED
  BY <1>3, <1>4, <1>7 DEF InTurnAt, Turns, Round, Base

\* One monitor more is ahead; the upset that has put it there allows for it.
LEMMA TurnLost ==
  ASSUME TypeOK, TypeOK', ToTick \in Nat, ToTick' \in Nat, NEW m \in Monitor, NEW n \in Nat,
         NEW k, InTurnAt(m, n), Ahead(m)' \subseteq Ahead(m) \union {k},
         waited'[m] + ToTick' <= waited[m] + ToTick, upsets' = upsets + 1
  PROVE  InTurnAt(m, n + 1)'
<1>1. PICK a \in Nat : a = Cardinality(Ahead(m))
  BY AheadIsFinite
<1>2. Cardinality(Ahead(m)') <= a + 1
  <2>1. /\ IsFiniteSet(Ahead(m) \union {k}) /\ Cardinality(Ahead(m) \union {k}) <= a + 1
        /\ Cardinality(Ahead(m) \union {k}) \in Nat
    <3>1. /\ IsFiniteSet(Ahead(m) \union {k})
          /\ Cardinality(Ahead(m) \union {k}) = IF k \in Ahead(m) THEN a ELSE a + 1
      BY <1>1, AheadIsFinite, FS_AddElement
    <3> QED
      BY <1>1, <3>1
  <2>2. Cardinality(Ahead(m)') <= Cardinality(Ahead(m) \union {k})
    BY <2>1, FS_Subset
  <2> QED
    BY <1>1, <2>1, <2>2, AheadStaysFinite
<1>3. PICK b \in Nat \ {0} : b = MaxBatch
  BY SelectionAssumption
<1>4. PICK c \in Int : c = (n + 1) * b /\ (n + 1 + 1) * b = c + b
  OBVIOUS
<1>5. a < c
  BY <1>1, <1>3, <1>4 DEF InTurnAt
<1>6. Cardinality(Ahead(m)') < (n + 1 + 1) * MaxBatch
  BY <1>1, <1>2, <1>3, <1>4, <1>5, AheadStaysFinite
<1>7. PICK r \in Nat, p \in Nat : r = Round /\ p = Round * n /\ Round * (n + 1) = p + r
  BY Numbers
<1>8. /\ waited[m] \in Nat /\ waited'[m] \in Nat /\ Turns(upsets) \in Nat
      /\ Turns(upsets + 1) = Turns(upsets) + r
  BY <1>7, Fields, FieldsThen, TurnsGrow
<1>9. waited[m] + ToTick + p <= Turns(upsets)
  BY <1>7 DEF InTurnAt
<1>10. waited'[m] + ToTick' + (p + r) <= Turns(upsets')
  BY <1>7, <1>8, <1>9
<1> QED
  BY <1>6, <1>7, <1>10 DEF InTurnAt, Turns, Round, Base

\* Who has waited longer than an interval and a cooldown is due and allowed, and so is
\* whoever is before it in the order.
LEMMA LongWaitIsDue ==
  ASSUME DueInv, ClockInv, OnTime, ~jumped, NEW m \in Monitor, waited[m] > Base
  PROVE  /\ docs[m].active /\ m \notin pending /\ docs[m].nextIn < 0
         /\ \A k \in Monitor : docs[k].nextIn <= docs[m].nextIn => docs[k].retryIn = 0
<1>1. PICK n \in Int, w \in Nat, l \in Nat :
        n = docs[m].nextIn /\ w = waited[m] /\ LongAgo = -l /\ l > MaxWait
  BY Fields, SelectionAssumption, LagAssumption DEF DueInv, LongAgo
<1>2. Base = PoolMs + Interval + Cooldown /\ Base \in Nat /\ w > Base
  BY <1>1, Numbers DEF Base
<1>3. MaxWait \in Nat /\ MaxWait >= Base
  <2>1. /\ MaxWait \in Nat /\ RegularWait \in Nat /\ MaxWait >= RegularWait
        /\ Round * Rounds \in Nat /\ RegularWait = Base + Round * Rounds
    BY Numbers
  <2> QED
    BY <1>2, <2>1
<1>4. n + w <= Interval + PoolMs \/ n = -l
  BY <1>1 DEF OnTime, OnTimeOf
<1>5. n < -Cooldown
  BY <1>1, <1>2, <1>3, <1>4, SelectionAssumption
<1>6. docs[m].active
  BY <1>1, <1>2, Fields DEF ClockInv, DueInv
<1>7. m \notin pending
  <2> SUFFICES ASSUME m \in pending PROVE FALSE
    OBVIOUS
  <2>1. w <= sinceTick /\ sinceTick <= PoolMs /\ sinceTick \in Nat
    BY <1>1, ClockFacts DEF ClockInv
  <2> QED
    BY <1>2, <2>1, SelectionAssumption
<1>8. ASSUME NEW k \in Monitor, docs[k].nextIn <= docs[m].nextIn PROVE docs[k].retryIn = 0
  <2>1. PICK n2 \in Int, t \in Nat : n2 = docs[k].nextIn /\ t = docs[k].retryIn
    BY Fields DEF DueInv
  <2>2. t = 0 \/ t <= n2 + Cooldown - Interval
    BY <2>1 DEF OnTime, OnTimeOf
  <2>3. n2 <= n
    BY <1>1, <1>8, <2>1
  <2> QED
    BY <1>5, <2>1, <2>2, <2>3, SelectionAssumption
<1> QED
  BY <1>1, <1>5, <1>6, <1>7, <1>8, SelectionAssumption

\* A tick takes m, or as many as fit that were ahead of it.
LEMMA TurnAtTick ==
  ASSUME DueInv, DueInv', ClockInv, OnTime, InTurn, ~jumped, Tick,
         NEW m \in Monitor, waited'[m] > Base
  PROVE  \E n \in Nat : InTurnAt(m, n)'
<1>1. TypeOK /\ TypeOK'
  BY DEF DueInv
<1>2. /\ docs' = docs /\ upsets' = upsets /\ ToTick = 0 /\ ToTick' \in Nat /\ ToTick' <= Round
      /\ pending = {}
  BY TickEffect
<1>3. m \notin pending' /\ waited'[m] = waited[m]
  BY Numbers, TickEffect
<1>4. /\ docs[m].active /\ docs[m].nextIn < 0
      /\ \A k \in Monitor : docs[k].nextIn <= docs[m].nextIn => docs[k].retryIn = 0
  BY <1>3, LongWaitIsDue
<1>5. PICK batch \in SUBSET Due : Batch(batch) /\ pending' = {k \in batch : Allowed(k)}
  BY DEF Tick
<1>6. m \in Due
  BY <1>1, <1>4, Fields DEF Due
<1>7. ASSUME NEW k \in Monitor, docs[k].nextIn <= docs[m].nextIn PROVE Allowed(k)
  BY <1>4, <1>7 DEF Allowed
<1>8. Allowed(m)
  BY <1>1, <1>7, Fields
<1>9. m \notin batch
  BY <1>3, <1>5, <1>8
<1>10. Cardinality(batch) = MaxBatch
  BY <1>5, <1>6, <1>9 DEF Batch
<1>11. ASSUME NEW k \in batch
       PROVE  k \in Monitor \ {m} /\ docs[k].active /\ docs[k].nextIn <= docs[m].nextIn
  BY <1>5, <1>6, <1>9, <1>11 DEF Batch, Due
<1>12. batch \subseteq pending' /\ batch \subseteq Ahead(m)
  BY <1>2, <1>5, <1>7, <1>11 DEF Ahead
<1>13. ASSUME NEW k \in Ahead(m)' PROVE k \in Ahead(m) \ batch
  <2>1. /\ k \in Monitor \ {m} /\ docs[k].active
        /\ excused'[k] \/ (k \notin pending' /\ docs[k].nextIn <= docs[m].nextIn)
    BY <1>2, <1>13 DEF Ahead
  <2>2. \/ k \in pending' /\ ~excused'[k]
        \/ k \notin pending' /\ (excused'[k] <=> excused[k])
    BY <2>1, TickEffect
  <2> QED
    BY <1>2, <1>12, <2>1, <2>2 DEF Ahead
<1>14. PICK n \in Nat : InTurnAt(m, n)
  BY <1>3 DEF InTurn
<1>15. PICK a \in Nat, b \in Nat \ {0} : a = Cardinality(Ahead(m)) /\ b = MaxBatch
  BY AheadIsFinite, SelectionAssumption
<1>16. b <= a /\ Cardinality(Ahead(m)') <= a - b
  <2>1. IsFiniteSet(Ahead(m))
    BY AheadIsFinite
  <2>2. /\ IsFiniteSet(Ahead(m) \ batch)
        /\ Cardinality(Ahead(m) \ batch) = a - Cardinality(Ahead(m) \cap batch)
    BY <1>15, <2>1, FS_Difference
  <2>3. Ahead(m) \cap batch = batch
    BY <1>12
  <2>4. Cardinality(Ahead(m)') <= Cardinality(Ahead(m) \ batch)
    BY <1>13, <2>2, FS_Subset
  <2>5. Cardinality(batch) <= Cardinality(Ahead(m))
    BY <1>12, <2>1, FS_Subset
  <2> QED
    BY <1>10, <1>15, <2>2, <2>3, <2>4, <2>5
<1>17. PICK c \in Int : c = (n + 1) * b /\ c = n * b + b
  OBVIOUS
<1>18. a < c
  BY <1>14, <1>15, <1>17 DEF InTurnAt
<1>19. n # 0
  BY <1>15, <1>16, <1>17, <1>18
<1>20. PICK i \in Nat : n = i + 1
  <2>1. n - 1 \in Nat /\ n = (n - 1) + 1
    BY <1>19
  <2> QED
    BY <2>1
<1>21. Cardinality(Ahead(m)') < (i + 1) * MaxBatch
  <2>1. PICK d \in Int : d = n * b
    OBVIOUS
  <2>2. Cardinality(Ahead(m)') < d
    BY <1>15, <1>16, <1>17, <1>18, <2>1, AheadStaysFinite
  <2> QED
    BY <1>15, <1>20, <2>1, <2>2
<1>22. PICK r \in Nat, p \in Nat : r = Round /\ p = Round * i /\ Round * n = p + r
  BY <1>20, Numbers
<1>23. PICK w \in Nat, u \in Nat : w = waited[m] /\ u = Turns(upsets)
  BY <1>1, Fields, TurnsGrow
<1>24. w + 0 + (p + r) <= u
  BY <1>2, <1>14, <1>22, <1>23 DEF InTurnAt
<1>25. w + ToTick' + p <= u
  <2>1. PICK t \in Nat : t = ToTick' /\ t <= r
    BY <1>2, <1>22
  <2> QED
    BY <1>22, <1>23, <1>24, <2>1
<1>26. waited'[m] + ToTick' + Round * i <= Turns(upsets')
  BY <1>2, <1>3, <1>22, <1>23, <1>25
<1> QED
  BY <1>21, <1>26 DEF InTurnAt, Turns, Round, Base

\* Time passes; whoever is checked later stays behind.
LEMMA TurnInTime ==
  ASSUME DueInv, DueInv', ClockInv, OnTime, InTurn, NotLate, ~jumped, PassTime,
         NEW m \in Monitor, waited'[m] > Base
  PROVE  \E n \in Nat : InTurnAt(m, n)'
<1>1. TypeOK /\ TypeOK'
  BY DEF DueInv
<1>2. /\ pending' = pending /\ excused' = excused /\ upsets' = upsets /\ ToTick >= 1
      /\ ToTick' = ToTick - 1 /\ ToTick' \in Nat /\ ToTick \in Nat /\ ToTick <= Round
      /\ waited'[m] <= waited[m] + 1
  BY PassEffect, ClockFacts
<1>3. PICK w \in Nat, w2 \in Nat, b \in Nat : w = waited[m] /\ w2 = waited'[m] /\ b = Base
  BY <1>1, Fields, FieldsThen, Numbers
<1>4. CASE w > b
  <2>1. PICK n \in Nat : InTurnAt(m, n)
    BY <1>3, <1>4 DEF InTurn
  <2>2. ASSUME NEW k \in Ahead(m)' PROVE k \in Ahead(m)
    <3>1. /\ k \in Monitor \ {m} /\ docs[k].active
          /\ excused[k] \/ (k \notin pending /\ docs'[k].nextIn <= docs'[m].nextIn)
      BY <1>2, <2>2, PassEffect DEF Ahead
    <3>2. CASE excused[k]
      BY <3>1, <3>2 DEF Ahead
    <3>3. CASE ~excused[k] /\ k \notin pending /\ docs'[k].nextIn <= docs'[m].nextIn
      <4>1. PICK nk \in Int, nm \in Int, v \in Nat, l \in Nat :
              /\ nk = docs[k].nextIn /\ nm = docs[m].nextIn /\ v = waited[k]
              /\ LongAgo = -l /\ l > MaxWait
        BY <1>1, <3>1, Fields, SelectionAssumption, LagAssumption DEF LongAgo
      <4>2. nk + v >= Interval /\ v <= MaxWait
        BY <3>1, <3>3, <4>1 DEF OnTime, OnTimeOf, NotLate
      <4>3. AtLeast(nk - 1, -l) <= AtLeast(nm - 1, -l)
        BY <3>1, <3>3, <4>1, PassEffect
      <4>4. MaxWait \in Nat
        BY Numbers
      <4>5. nk <= nm
        BY <4>1, <4>2, <4>3, <4>4, SelectionAssumption DEF AtLeast
      <4> QED
        BY <3>1, <3>3, <4>1, <4>5 DEF Ahead
    <3> QED
      BY <3>1, <3>2, <3>3
  <2>3. waited'[m] + ToTick' <= waited[m] + ToTick
    BY <1>2, <1>3
  <2>4. InTurnAt(m, n)'
    BY <1>1, <1>2, <2>1, <2>2, <2>3, TurnKept
  <2> QED
    BY <2>4
<1>5. CASE w <= b
  <2>1. PICK c \in Nat : c = Cardinality(Monitor) \div MaxBatch
    BY Numbers
  <2>2. Cardinality(Ahead(m)') < (c + 1) * MaxBatch
    <3>1. PICK d \in Int : d = (c + 1) * MaxBatch
      BY SelectionAssumption
    <3>2. Cardinality(Monitor) < d /\ Cardinality(Monitor) \in Nat
      BY <2>1, <3>1, Numbers
    <3> QED
      BY <3>1, <3>2, AheadStaysFinite
  <2>3. PICK r \in Nat, p \in Nat : r = Round /\ p = Round * c
    BY Numbers
  <2>4. Turns(upsets) >= b + p + r /\ Turns(upsets) \in Nat
    BY <1>1, <1>3, <2>1, <2>3, Fields, TurnsGrow
  <2>5. w2 + ToTick' <= b + r
    BY <1>2, <1>3, <1>5, <2>3
  <2>6. w2 + ToTick' + p <= Turns(upsets)
    BY <1>2, <2>4, <2>5
  <2>7. waited'[m] + ToTick' + Round * c <= Turns(upsets')
    BY <1>2, <1>3, <2>3, <2>6
  <2> QED
    BY <2>2, <2>7 DEF InTurnAt, Turns, Round, Base
<1> QED
  BY <1>3, <1>4, <1>5

\* A check that ends goes to the back; one that is lost is done again.
LEMMA TurnAtCheck ==
  ASSUME DueInv, DueInv', ClockInv, OnTime, InTurn, ~jumped, NEW k \in Monitor,
         EndCheck(k) \/ LoseCheck(k), NEW m \in Monitor, waited'[m] > Base
  PROVE  \E n \in Nat : InTurnAt(m, n)'
<1>1. TypeOK /\ TypeOK'
  BY DEF DueInv
<1>2. /\ k \in pending /\ pending' = pending \ {k} /\ waited' = waited
      /\ ToTick' \in Nat /\ ToTick' <= ToTick /\ ToTick \in Nat /\ waited[k] <= PoolMs
      /\ \A j \in Monitor \ {k} : docs'[j] = docs[j] /\ excused'[j] = excused[j]
      /\ docs'[k].active = docs[k].active
  BY CheckEffect, ClockFacts
<1>3. /\ docs[m].active /\ m \notin pending /\ docs[m].nextIn < 0
  BY <1>2, LongWaitIsDue
<1>4. docs'[m] = docs[m] /\ m # k
  BY <1>2, <1>3
<1>5. PICK n \in Nat : InTurnAt(m, n)
  BY <1>2 DEF InTurn
<1>6. waited'[m] + ToTick' <= waited[m] + ToTick
  BY <1>1, <1>2, Fields
<1>7. \A j \in Ahead(m)' : j # k => j \in Ahead(m)
  BY <1>2, <1>4 DEF Ahead
<1>8. CASE EndCheck(k)
  <2>1. docs'[k].nextIn = Interval /\ upsets' = upsets /\ excused' = excused
    BY <1>8, CheckEffect
  <2>2. ~(docs'[k].nextIn <= docs'[m].nextIn)
    BY <1>1, <1>3, <1>4, <2>1, Fields, SelectionAssumption
  <2>3. k \in Ahead(m)' => k \in Ahead(m)
    BY <1>2, <2>1, <2>2 DEF Ahead
  <2>4. Ahead(m)' \subseteq Ahead(m)
    BY <1>7, <2>3
  <2>5. InTurnAt(m, n)'
    BY <1>1, <1>2, <1>5, <1>6, <2>1, <2>4, TurnKept
  <2> QED
    BY <2>5
<1>9. CASE LoseCheck(k)
  <2>1. upsets' = upsets + 1
    BY <1>9, CheckEffect
  <2>2. Ahead(m)' \subseteq Ahead(m) \union {k}
    BY <1>7
  <2>3. InTurnAt(m, n + 1)'
    BY <1>1, <1>2, <1>5, <1>6, <2>1, <2>2, TurnLost
  <2>4. n + 1 \in Nat
    OBVIOUS
  <2> QED
    BY <2>3, <2>4
<1> QED
  BY <1>8, <1>9

\* A monitor that is resumed may be ahead again.
LEMMA TurnAtToggle ==
  ASSUME DueInv, DueInv', ClockInv, InTurn, ~jumped, NEW k \in Monitor, Toggle(k),
         NEW m \in Monitor, waited'[m] > Base
  PROVE  \E n \in Nat : InTurnAt(m, n)'
<1>1. TypeOK /\ TypeOK'
  BY DEF DueInv
<1>2. /\ pending' = pending /\ ToTick' = ToTick /\ ToTick \in Nat /\ upsets' = upsets + 1
      /\ waited'[k] = 0
      /\ \A j \in Monitor \ {k} : /\ docs'[j] = docs[j] /\ waited'[j] = waited[j]
                                  /\ excused'[j] = excused[j]
  BY ToggleEffect, ClockFacts
<1>3. m # k
  BY <1>2, Numbers
<1>4. docs'[m] = docs[m] /\ waited'[m] = waited[m]
  BY <1>2, <1>3
<1>5. PICK n \in Nat : InTurnAt(m, n)
  BY <1>4 DEF InTurn
<1>6. waited'[m] + ToTick' <= waited[m] + ToTick
  BY <1>1, <1>2, <1>4, Fields
<1>7. Ahead(m)' \subseteq Ahead(m) \union {k}
  BY <1>2, <1>4 DEF Ahead
<1>8. InTurnAt(m, n + 1)'
  BY <1>1, <1>2, <1>5, <1>6, <1>7, TurnLost
<1>9. n + 1 \in Nat
  OBVIOUS
<1> QED
  BY <1>8, <1>9

\* Every monitor moves up until its turn comes.
LEMMA InTurnStep ==
  DueInv /\ ClockInv /\ OnTime /\ NotLate /\ InTurn /\ [Next]_vars => InTurn'
<1> SUFFICES ASSUME DueInv, ClockInv, OnTime, NotLate, InTurn, [Next]_vars, ~jumped',
                    NEW m \in Monitor, waited'[m] > Base
             PROVE  \E n \in Nat : InTurnAt(m, n)'
  BY DEF InTurn, Base
<1>1. DueInv'
  BY DueStep
<1>2. CASE UNCHANGED vars
  <2>1. PICK n \in Nat : InTurnAt(m, n)
    BY <1>2 DEF vars, InTurn
  <2>2. InTurnAt(m, n)'
    BY <1>2, <2>1 DEF vars, InTurnAt, Ahead, ToTick, Turns, Round, Base
  <2> QED
    BY <2>2
<1>3. ~Jump
  BY JumpEffect
<1>4. CASE Next
  <2>1. ~jumped
    BY <1>3, <1>4 DEF Next, Tick, PassTime, EndCheck, LoseCheck, Toggle
  <2> QED
    BY <1>1, <1>3, <1>4, <2>1, TurnAtTick, TurnInTime, TurnAtCheck, TurnAtToggle DEF Next
<1> QED
  BY <1>2, <1>4

\* A monitor is scheduled no further ahead than its interval, a pool and the jumps so far.
Behind(m) ==
  \/ docs[m].nextIn + waited[m] <= Interval + PoolMs + JumpBy * upsets
  \/ docs[m].nextIn <= LongAgo + JumpBy * upsets

Scheduled == \A m \in Monitor : Behind(m)

\* The longest that jumps can keep a monitor from being due.
Delay == Interval + PoolMs + JumpBy * MaxUpsets

\* When everything due fits the batch, only that and a round keep a monitor waiting.
DelayedOf(m) ==
  ~docs[m].open /\ waited[m] > Delay => waited[m] + ToTick <= Delay + Round

Delayed == Cardinality(Monitor) <= MaxBatch => \A m \in Monitor : DelayedOf(m)

\* Jumps move the schedule by as much, and nothing else does.
LEMMA ScheduledStep == DueInv /\ ClockInv /\ Scheduled /\ [Next]_vars => Scheduled'
<1> SUFFICES ASSUME DueInv, ClockInv, Scheduled, [Next]_vars, NEW m \in Monitor
             PROVE  Behind(m)'
  BY DEF Scheduled
<1>1. TypeOK /\ TypeOK'
  BY DueStep DEF DueInv
<1>2. PICK n \in Int, w \in Nat, u \in Nat, l \in Nat :
        n = docs[m].nextIn /\ w = waited[m] /\ u = upsets /\ LongAgo = -l
  BY <1>1, Fields, SelectionAssumption DEF LongAgo
<1>3. PICK n2 \in Int, w2 \in Nat, u2 \in Nat :
        n2 = docs'[m].nextIn /\ w2 = waited'[m] /\ u2 = upsets'
  BY <1>1, FieldsThen
<1>4. PICK i \in Nat, j \in Nat, p \in Nat : i = Interval /\ j = JumpBy /\ p = PoolMs
  BY SelectionAssumption
<1>5. PICK s \in Nat : s = j * u /\ j * (u + 1) = s + j
  OBVIOUS
<1>6. n + w <= i + p + s \/ n <= -l + s
  BY <1>2, <1>4, <1>5 DEF Scheduled, Behind
<1>7. PICK s2 \in Nat : s2 = j * u2
  OBVIOUS
<1>8. SUFFICES n2 + w2 <= i + p + s2 \/ n2 <= -l + s2
  BY <1>2, <1>3, <1>4, <1>7 DEF Behind, LongAgo
<1>9. u2 = u => s2 = s
  BY <1>5, <1>7
<1>10. u2 = u + 1 => s2 = s + j
  BY <1>5, <1>7
<1>11. CASE UNCHANGED vars
  BY <1>2, <1>3, <1>6, <1>9, <1>11 DEF vars
<1>12. CASE Tick
  <2>1. n2 = n /\ u2 = u /\ (w2 = 0 \/ w2 = w)
    BY <1>2, <1>3, <1>12, TickEffect
  <2> QED
    BY <1>6, <1>9, <2>1
<1>13. CASE PassTime
  <2>1. n2 = AtLeast(n - 1, -l) /\ u2 = u /\ w2 <= w + 1
    BY <1>2, <1>3, <1>13, PassEffect
  <2> QED
    BY <1>6, <1>9, <2>1 DEF AtLeast
<1>14. CASE Jump
  <2>1. w2 = w /\ u2 = u + 1
    BY <1>2, <1>3, <1>14, JumpEffect
  <2>2. n2 = AtLeast(n - j, -l) \/ n2 = AtLeast(n + j, -l)
    <3>1. PICK d \in {JumpBy, -JumpBy} : docs'[m].nextIn = AtLeast(docs[m].nextIn - d, LongAgo)
      BY <1>14, JumpEffect
    <3>2. d = j \/ d = -j
      BY <1>4, <3>1
    <3>3. CASE d = j
      BY <1>2, <1>3, <3>1, <3>3
    <3>4. CASE d = -j
      <4>1. n - d = n + j
        BY <3>4
      <4> QED
        BY <1>2, <1>3, <3>1, <4>1
    <3> QED
      BY <3>2, <3>3, <3>4
  <2> QED
    BY <1>6, <1>10, <2>1, <2>2 DEF AtLeast
<1>15. ASSUME NEW k \in Monitor, EndCheck(k) \/ LoseCheck(k), k # m
       PROVE  n2 = n /\ w2 = w /\ (u2 = u \/ u2 = u + 1)
  BY <1>2, <1>3, <1>15, CheckEffect
<1>16. ASSUME NEW k \in Monitor, Toggle(k), k # m
       PROVE  n2 = n /\ w2 = w /\ u2 = u + 1
  BY <1>2, <1>3, <1>16, ToggleEffect
<1>17. CASE EndCheck(m)
  <2>1. n2 = i /\ w2 = w /\ w <= p
    BY <1>2, <1>3, <1>4, <1>17, CheckEffect
  <2> QED
    BY <2>1
<1>18. CASE LoseCheck(m)
  <2>1. n2 = n /\ w2 = w /\ u2 = u + 1
    BY <1>2, <1>3, <1>18, CheckEffect
  <2> QED
    BY <1>6, <1>10, <2>1
<1>19. CASE Toggle(m)
  <2>1. n2 = n /\ w2 = 0 /\ u2 = u + 1
    BY <1>2, <1>3, <1>19, ToggleEffect
  <2> QED
    BY <1>6, <1>10, <2>1
<1>20. ASSUME NEW k \in Monitor, EndCheck(k) \/ LoseCheck(k) \/ Toggle(k)
       PROVE  n2 + w2 <= i + p + s2 \/ n2 <= -l + s2
  <2>1. CASE k # m
    BY <1>6, <1>9, <1>10, <1>15, <1>16, <1>20, <2>1
  <2>2. CASE k = m
    BY <1>17, <1>18, <1>19, <1>20, <2>2
  <2> QED
    BY <2>1, <2>2
<1> QED
  BY <1>11, <1>12, <1>13, <1>14, <1>20 DEF Next

\* When everything due fits the batch, all of it that is allowed is launched.
LEMMA TickTakesAll ==
  ASSUME DueInv, Tick, Cardinality(Monitor) <= MaxBatch, NEW m \in Due, Allowed(m)
  PROVE  m \in pending'
<1>1. PICK batch \in SUBSET Due : Batch(batch) /\ pending' = {k \in batch : Allowed(k)}
  BY DEF Tick
<1>2. CASE batch = Due
  BY <1>1, <1>2
<1>3. CASE Cardinality(batch) = MaxBatch
  <2>1. batch \in SUBSET Monitor /\ m \in Monitor
    BY <1>1 DEF Due
  <2>2. /\ Cardinality(batch) <= Cardinality(Monitor) /\ Cardinality(Monitor) \in Nat
        /\ Cardinality(Monitor) = Cardinality(batch) => Monitor = batch
    BY <2>1, FS_Subset, FS_CardinalityType, SelectionAssumption
  <2>3. Cardinality(Monitor) = Cardinality(batch)
    BY <1>3, <2>2, SelectionAssumption
  <2> QED
    BY <1>1, <2>1, <2>2, <2>3
<1> QED
  BY <1>1, <1>2, <1>3 DEF Batch

\* Then nothing but the schedule delays.
LEMMA DelayedStep == DueInv /\ ClockInv /\ Scheduled /\ Delayed /\ [Next]_vars => Delayed'
<1> SUFFICES ASSUME DueInv, ClockInv, Scheduled, Delayed, [Next]_vars,
                    Cardinality(Monitor) <= MaxBatch, NEW m \in Monitor,
                    ~docs'[m].open, waited'[m] > Delay
             PROVE  waited'[m] + ToTick' <= Delay + Round
  BY DEF Delayed, DelayedOf, Delay, Round
<1>1. TypeOK /\ TypeOK'
  BY DueStep DEF DueInv
<1>2. PICK w \in Nat, w2 \in Nat, t \in Nat, r \in Nat, d \in Nat :
        /\ w = waited[m] /\ w2 = waited'[m] /\ t = ToTick /\ t <= r /\ r = Round
        /\ d = Delay /\ d >= PoolMs
  <2>1. Delay \in Nat /\ Delay >= PoolMs
    <3>1. PICK j \in Nat : j = JumpBy * MaxUpsets
      BY Numbers
    <3> QED
      BY <3>1, SelectionAssumption DEF Delay
  <2> QED
    BY <1>1, <2>1, Fields, FieldsThen, ClockFacts, Numbers
<1>3. ~docs[m].open /\ w > d => w + t <= d + r
  BY <1>2 DEF Delayed, DelayedOf
<1>4. CASE UNCHANGED vars
  <2>1. docs' = docs /\ w2 = w /\ ToTick' = ToTick
    BY <1>2, <1>4 DEF vars, ToTick, Round
  <2> QED
    BY <1>2, <1>3, <2>1
<1>5. CASE Tick
  <2>1. m \notin pending' /\ w2 = w /\ docs' = docs
    <3>1. w2 # 0
      BY <1>2
    <3> QED
      BY <1>2, <1>5, <3>1, TickEffect
  <2>2. docs[m].active
    BY <1>1, <1>2, <2>1, Fields DEF ClockInv
  <2>3. docs[m].nextIn <= 0
    <3>1. PICK n \in Int, l \in Nat, u \in Nat :
            n = docs[m].nextIn /\ LongAgo = -l /\ u = upsets /\ l > JumpBy * MaxUpsets
      BY <1>1, Fields, SelectionAssumption DEF LongAgo
    <3>2. u <= MaxUpsets
      BY <3>1 DEF ClockInv
    <3>3. PICK s \in Int, v \in Int : s = JumpBy * u /\ v = JumpBy * MaxUpsets
      BY SelectionAssumption
    <3>4. s <= v
      BY <3>2, <3>3, Larger, SelectionAssumption
    <3>5. n + w <= Interval + PoolMs + s \/ n <= -l + s
      BY <1>2, <3>1, <3>3 DEF Scheduled, Behind
    <3>6. d = Interval + PoolMs + v
      BY <1>2, <3>3 DEF Delay
    <3>7. w > d
      BY <1>2, <2>1
    <3> QED
      BY <3>1, <3>3, <3>4, <3>5, <3>6, <3>7, SelectionAssumption
  <2>4. m \in Due /\ Allowed(m)
    BY <2>1, <2>2, <2>3 DEF Due, Allowed
  <2> QED
    BY <1>5, <2>1, <2>4, TickTakesAll
<1>6. CASE PassTime
  <2>1. t >= 1 /\ ToTick' = t - 1 /\ w2 <= w + 1 /\ docs'[m].open = docs[m].open
    BY <1>2, <1>6, PassEffect
  <2> QED
    BY <1>2, <1>3, <2>1
<1>7. CASE Jump
  <2>1. w2 = w /\ ToTick' = t /\ docs'[m].open = docs[m].open
    BY <1>2, <1>7, JumpEffect
  <2> QED
    BY <1>2, <1>3, <2>1
<1>8. ASSUME NEW k \in Monitor, EndCheck(k) \/ LoseCheck(k)
      PROVE  waited'[m] + ToTick' <= Delay + Round
  <2>1. k # m
    <3>1. waited[k] <= PoolMs /\ waited' = waited
      BY <1>8, CheckEffect
    <3> QED
      BY <1>2, <3>1, SelectionAssumption
  <2>2. w2 = w /\ ToTick' <= t /\ ToTick' \in Nat /\ docs'[m] = docs[m]
    BY <1>2, <1>8, <2>1, CheckEffect
  <2> QED
    BY <1>2, <1>3, <2>2
<1>9. ASSUME NEW k \in Monitor, Toggle(k) PROVE waited'[m] + ToTick' <= Delay + Round
  <2>1. k # m
    BY <1>2, <1>9, ToggleEffect
  <2>2. w2 = w /\ ToTick' = t /\ docs'[m] = docs[m]
    BY <1>2, <1>9, <2>1, ToggleEffect
  <2> QED
    BY <1>2, <1>3, <2>2
<1> QED
  BY <1>4, <1>5, <1>6, <1>7, <1>8, <1>9 DEF Next

\* How long a monitor may have waited r after the last moment, jumps apart, at which its
\* lastChecked was the present: it is launched by the first tick that finds it due, unless
\* lastChecked is at most an interval ago.
InWindow(m, r) ==
  IF r < Interval
  THEN waited[m] <= r + Round
  ELSE \/ waited[m] + ToTick <= Round
       \/ /\ waited[m] + ToTick <= 2 * Round + Interval
          /\ r + ToTick <= Interval + Round

PhaseAt(m, q, r) ==
  /\ docs[m].lastIn = -(JumpBy * q) - r /\ r < JumpBy
  /\ ~docs[m].open /\ Cardinality(Monitor) <= MaxBatch /\ m \notin pending => InWindow(m, r)

PhasedOf(m) ==
  docs[m].lastIn # LongAgo =>
    /\ docs[m].nextIn = docs[m].lastIn + Interval /\ docs[m].lastIn > LongAgo
    /\ \E q \in Int, r \in Nat : PhaseAt(m, q, r)

\* When jumps are longer than anybody waits, they leave whole jumps between now and
\* lastChecked and do not disturb the rest.
Phased == JumpBy > RegularWait => \A m \in Monitor : PhasedOf(m)

\* The bound on waiting holds an interval, a pool and a round.
LEMMA RegularWaitIsLong ==
  /\ RegularWait >= PoolMs /\ RegularWait >= Interval + Round
  /\ MaxUpsets >= 1 => RegularWait >= Interval + 2 * Round
<1>1. PICK c \in Nat, r \in Nat, u \in Nat :
        c = Cardinality(Monitor) \div MaxBatch /\ r = Round /\ u = MaxUpsets
  BY Numbers, SelectionAssumption
<1>2. RegularWait = Base + r * (1 + c + u) /\ Base = PoolMs + Interval + Cooldown
  BY <1>1, Numbers DEF Rounds, Base
<1>3. r * 1 <= r * (1 + c + u) /\ (u >= 1 => r * 2 <= r * (1 + c + u))
  BY Larger
<1>4. PICK p \in Int : p = r * (1 + c + u)
  OBVIOUS
<1> QED
  BY <1>1, <1>2, <1>3, <1>4, SelectionAssumption

\* Whoever has not waited long is in its window.
LEMMA EarlyInWindow ==
  ASSUME DueInv, ClockInv, NEW m \in Monitor, NEW r \in Nat,
         waited[m] + ToTick <= Round
  PROVE  InWindow(m, r)
<1>1. waited[m] \in Nat /\ ToTick \in Nat /\ Round \in Nat
  BY Fields, ClockFacts, Numbers DEF DueInv
<1> QED
  BY <1>1 DEF InWindow

\* ... in the next state, too.
LEMMA EarlyStaysInWindow ==
  DueInv' /\ ClockInv' => \A m \in Monitor, r \in Nat :
    waited'[m] + ToTick' <= Round => InWindow(m, r)'
<1>1. ASSUME DueInv, ClockInv
      PROVE  \A m \in Monitor, r \in Nat : waited[m] + ToTick <= Round => InWindow(m, r)
  BY <1>1, EarlyInWindow
<1>2. DueInv /\ ClockInv =>
        \A m \in Monitor, r \in Nat : waited[m] + ToTick <= Round => InWindow(m, r)
  BY <1>1
<1>3. (DueInv /\ ClockInv =>
        \A m \in Monitor, r \in Nat : waited[m] + ToTick <= Round => InWindow(m, r))'
  BY <1>2, PTL
<1> QED
  BY <1>3 DEF Round

\* A tick launches what is outside its interval.
LEMMA WindowAtTick ==
  ASSUME DueInv, DueInv', ClockInv, ClockInv', Tick, JumpBy > RegularWait, NEW m \in Monitor,
         docs[m].nextIn = docs[m].lastIn + Interval,
         NEW q \in Int, NEW r \in Nat, PhaseAt(m, q, r)
  PROVE  PhaseAt(m, q, r)'
<1> SUFFICES ASSUME ~docs'[m].open, Cardinality(Monitor) <= MaxBatch, m \notin pending'
             PROVE  InWindow(m, r)'
  <2>1. docs' = docs
    BY TickEffect
  <2> QED
    BY <2>1 DEF PhaseAt
<1>1. TypeOK /\ docs' = docs /\ waited'[m] = waited[m] /\ m \notin pending
  BY TickEffect DEF DueInv
<1>2. InWindow(m, r)
  BY <1>1 DEF PhaseAt
<1>3. CASE r < Interval
  BY <1>1, <1>2, <1>3 DEF InWindow, Round
<1>4. CASE ~(r < Interval)
  <2>1. m \notin Due
    BY <1>1, TickTakesAll DEF Allowed
  <2>2. PICK j \in Nat, i \in Nat, n \in Int, l \in Int :
          j = JumpBy /\ i = Interval /\ n = docs[m].nextIn /\ l = docs[m].lastIn
    BY <1>1, Fields, SelectionAssumption
  <2>3. n = l + i /\ l = -(j * q) - r /\ r < j /\ r >= i
    BY <1>4, <2>2 DEF PhaseAt
  <2>4. n <= 0 \/ l > 0
    <3>1. CASE q >= 0
      <4>1. j * q >= j * 0
        BY <3>1, Larger
      <4> QED
        BY <2>3, <4>1
    <3>2. CASE q <= -1
      <4>1. j * q <= j * (-1)
        BY <3>2, Larger
      <4>2. j * (-1) = -j
        OBVIOUS
      <4> QED
        BY <2>3, <4>1, <4>2
    <3> QED
      BY <3>1, <3>2
  <2>5. ~docs[m].active
    BY <2>1, <2>2, <2>4 DEF Due
  <2>6. waited[m] = 0
    BY <2>5 DEF ClockInv
  <2>7. waited'[m] + ToTick' <= Round
    BY <1>1, <2>6, TickEffect
  <2> QED
    BY <2>7, EarlyStaysInWindow
<1> QED
  BY <1>3, <1>4

\* Time moves r on; when it has reached a whole jump the monitor has just been checked.
LEMMA WindowInTime ==
  ASSUME DueInv, DueInv', ClockInv, ClockInv', PassTime, JumpBy > RegularWait,
         NEW m \in Monitor, PhasedOf(m), docs'[m].lastIn # LongAgo
  PROVE  \E q \in Int, r \in Nat : PhaseAt(m, q, r)'
<1>1. /\ pending' = pending /\ docs'[m].open = docs[m].open
      /\ docs'[m].lastIn = (IF docs[m].lastIn = LongAgo THEN LongAgo
                            ELSE AtLeast(docs[m].lastIn - 1, LongAgo))
      /\ waited'[m] <= waited[m] + 1 /\ ToTick' = ToTick - 1 /\ ToTick >= 1
  BY PassEffect
<1>2. docs[m].lastIn # LongAgo
  BY <1>1
<1>3. PICK q \in Int, r \in Nat : PhaseAt(m, q, r)
  BY <1>2 DEF PhasedOf
<1>4. PICK j \in Nat, i \in Nat, l \in Int, l2 \in Int, w \in Nat, w2 \in Nat, t \in Nat,
           d \in Nat :
        /\ j = JumpBy /\ i = Interval /\ l = docs[m].lastIn /\ l2 = docs'[m].lastIn
        /\ w = waited[m] /\ w2 = waited'[m] /\ t = ToTick /\ d = Round
  BY Fields, FieldsThen, ClockFacts, Numbers, SelectionAssumption DEF DueInv
<1>5. l2 = l - 1
  BY <1>1, <1>2, <1>4 DEF AtLeast
<1>6. j > i + d /\ i > 0
  BY <1>4, RegularWaitIsLong, Numbers, SelectionAssumption
<1>7. l = -(j * q) - r /\ r < j
  BY <1>3, <1>4 DEF PhaseAt
<1>8. ASSUME ~docs[m].open, Cardinality(Monitor) <= MaxBatch, m \notin pending
      PROVE  IF r < i THEN w <= r + d
             ELSE w + t <= d \/ (w + t <= 2 * d + i /\ r + t <= i + d)
  BY <1>3, <1>4, <1>8 DEF PhaseAt, InWindow
<1>9. t >= 1 /\ t <= d /\ ToTick' = t - 1 /\ w2 <= w + 1
  BY <1>1, <1>4, ClockFacts
<1>10. CASE r + 1 < j
  <2>1. l2 = -(j * q) - (r + 1)
    <3>1. PICK p \in Int : p = j * q
      OBVIOUS
    <3> QED
      BY <1>5, <1>7, <3>1
  <2>2. ASSUME ~docs'[m].open, Cardinality(Monitor) <= MaxBatch, m \notin pending'
        PROVE  InWindow(m, r + 1)'
    <3>1. IF r < i THEN w <= r + d
          ELSE w + t <= d \/ (w + t <= 2 * d + i /\ r + t <= i + d)
      BY <1>1, <1>8, <2>2
    <3>2. IF r + 1 < i THEN w2 <= r + 1 + d
          ELSE w2 + (t - 1) <= d \/ (w2 + (t - 1) <= 2 * d + i /\ r + 1 + (t - 1) <= i + d)
      BY <1>9, <3>1
    <3> QED
      BY <1>4, <1>9, <3>2 DEF InWindow, Round
  <2>3. PhaseAt(m, q, r + 1)'
    BY <1>4, <1>10, <2>1, <2>2 DEF PhaseAt
  <2>4. r + 1 \in Nat
    OBVIOUS
  <2> QED
    BY <2>3, <2>4
<1>11. CASE r + 1 = j
  <2>1. l2 = -(j * (q + 1)) - 0
    <3>1. PICK p \in Int : p = j * q /\ j * (q + 1) = p + j
      BY OneMore
    <3> QED
      BY <1>5, <1>7, <1>11, <3>1
  <2>2. ASSUME ~docs'[m].open, Cardinality(Monitor) <= MaxBatch, m \notin pending'
        PROVE  InWindow(m, 0)'
    <3>1. IF r < i THEN w <= r + d
          ELSE w + t <= d \/ (w + t <= 2 * d + i /\ r + t <= i + d)
      BY <1>1, <1>8, <2>2
    <3>2. w2 <= 0 + d
      BY <1>6, <1>9, <1>11, <3>1
    <3>3. 0 < i
      BY <1>6
    <3> QED
      BY <1>4, <3>2, <3>3 DEF InWindow, Round
  <2>3. 0 < j
    BY <1>11
  <2>4. PhaseAt(m, q + 1, 0)'
    BY <1>4, <2>1, <2>2, <2>3 DEF PhaseAt
  <2>5. q + 1 \in Int
    OBVIOUS
  <2> QED
    BY <2>4, <2>5
<1> QED
  BY <1>7, <1>10, <1>11

\* A jump moves q and nothing else.
LEMMA WindowAtJump ==
  ASSUME DueInv, DueInv', Jump, NEW m \in Monitor, PhasedOf(m), docs'[m].lastIn # LongAgo
  PROVE  \E q \in Int, r \in Nat : PhaseAt(m, q, r)'
<1>1. /\ pending' = pending /\ waited' = waited /\ ToTick' = ToTick
      /\ docs'[m].open = docs[m].open
  BY JumpEffect
<1>2. PICK d \in {JumpBy, -JumpBy} :
        docs'[m].lastIn = (IF docs[m].lastIn = LongAgo THEN LongAgo
                           ELSE AtLeast(docs[m].lastIn - d, LongAgo))
  BY JumpEffect
<1>3. docs[m].lastIn # LongAgo
  BY <1>2
<1>4. PICK q \in Int, r \in Nat : PhaseAt(m, q, r)
  BY <1>3 DEF PhasedOf
<1>5. docs'[m].lastIn = docs[m].lastIn - d
  BY <1>2, <1>3 DEF AtLeast
<1>6. PICK j \in Nat, l \in Int, p \in Int :
        /\ j = JumpBy /\ l = docs[m].lastIn /\ p = j * q /\ l = -p - r
        /\ j * (q + 1) = p + j
  <2>1. JumpBy * q \in Int
    BY SelectionAssumption
  <2> QED
    BY <1>4, <2>1, Fields, OneMore, SelectionAssumption DEF DueInv, PhaseAt
<1>7. j * (q - 1) = p - j
  <2>1. j * ((q - 1) + 1) = j * (q - 1) + j
    BY OneMore
  <2>2. (q - 1) + 1 = q
    OBVIOUS
  <2>3. j * (q - 1) \in Int
    OBVIOUS
  <2> QED
    BY <1>6, <2>1, <2>2, <2>3
<1>8. CASE d = j
  <2>1. docs'[m].lastIn = -(j * (q + 1)) - r
    BY <1>5, <1>6, <1>8
  <2>2. PhaseAt(m, q + 1, r)'
    BY <1>1, <1>4, <1>6, <2>1 DEF PhaseAt, InWindow, Round
  <2>3. q + 1 \in Int
    OBVIOUS
  <2> QED
    BY <2>2, <2>3
<1>9. CASE d = -j
  <2>1. docs'[m].lastIn = -(j * (q - 1)) - r
    <3>1. l - d = l + j
      BY <1>9
    <3> QED
      BY <1>5, <1>6, <1>7, <3>1
  <2>2. PhaseAt(m, q - 1, r)'
    BY <1>1, <1>4, <1>6, <2>1 DEF PhaseAt, InWindow, Round
  <2>3. q - 1 \in Int
    OBVIOUS
  <2> QED
    BY <2>2, <2>3
<1> QED
  BY <1>2, <1>6, <1>8, <1>9

\* A check of m begins its window anew; another's brings the next tick nearer.
LEMMA WindowAtCheck ==
  ASSUME DueInv, DueInv', ClockInv, ClockInv', JumpBy > RegularWait, NEW k \in Monitor,
         EndCheck(k) \/ LoseCheck(k),
         NEW m \in Monitor, PhasedOf(m), docs'[m].lastIn # LongAgo
  PROVE  \E q \in Int, r \in Nat : PhaseAt(m, q, r)'
<1>1. /\ k \in pending /\ pending' = pending \ {k} /\ waited' = waited
      /\ ToTick' \in Nat /\ ToTick' <= ToTick /\ ToTick \in Nat /\ waited[k] + ToTick' <= Round
      /\ \A n \in Monitor \ {k} : docs'[n] = docs[n]
  BY CheckEffect, ClockFacts
<1>2. CASE m = k /\ EndCheck(k)
  <2>1. docs'[m].lastIn = -(JumpBy * 0) - 0
    BY <1>2, CheckEffect, SelectionAssumption
  <2>2. 0 < JumpBy
    <3>1. RegularWait \in Nat
      BY Numbers
    <3> QED
      BY <3>1, SelectionAssumption
  <2>3. InWindow(m, 0)'
    BY <1>1, <1>2, EarlyStaysInWindow
  <2>4. PhaseAt(m, 0, 0)'
    BY <2>1, <2>2, <2>3 DEF PhaseAt
  <2> QED
    BY <2>4
<1>3. CASE m = k /\ LoseCheck(k)
  <2>1. docs' = docs
    BY <1>3, CheckEffect
  <2>2. PICK q \in Int, r \in Nat : PhaseAt(m, q, r)
    BY <2>1 DEF PhasedOf
  <2>3. InWindow(m, r)'
    BY <1>1, <1>3, EarlyStaysInWindow
  <2>4. PhaseAt(m, q, r)'
    BY <2>1, <2>2, <2>3 DEF PhaseAt
  <2> QED
    BY <2>4
<1>4. CASE m # k
  <2>1. docs'[m] = docs[m] /\ (m \in pending' <=> m \in pending)
    BY <1>1, <1>4
  <2>2. PICK q \in Int, r \in Nat : PhaseAt(m, q, r)
    BY <2>1 DEF PhasedOf
  <2>3. ASSUME InWindow(m, r) PROVE InWindow(m, r)'
    <3>1. PICK w \in Nat, t \in Nat, t2 \in Nat, i \in Nat, d \in Nat :
            /\ w = waited[m] /\ t = ToTick /\ t2 = ToTick' /\ t2 <= t
            /\ i = Interval /\ d = Round
      BY <1>1, Fields, Numbers, SelectionAssumption DEF DueInv
    <3>2. IF r < i THEN w <= r + d
          ELSE w + t <= d \/ (w + t <= 2 * d + i /\ r + t <= i + d)
      BY <2>3, <3>1 DEF InWindow
    <3>3. IF r < i THEN w <= r + d
          ELSE w + t2 <= d \/ (w + t2 <= 2 * d + i /\ r + t2 <= i + d)
      <4>1. PICK e \in Int : e = 2 * d
        OBVIOUS
      <4>2. t2 <= t
        BY <3>1
      <4>3. w + t <= d => w + t2 <= d
        BY <4>2
      <4>4. w + t <= e + i /\ r + t <= i + d => w + t2 <= e + i /\ r + t2 <= i + d
        BY <4>2
      <4> QED
        BY <3>2, <4>1, <4>3, <4>4
    <3> QED
      BY <1>1, <3>1, <3>3 DEF InWindow, Round
  <2>4. PhaseAt(m, q, r)'
    BY <2>1, <2>2, <2>3 DEF PhaseAt
  <2> QED
    BY <2>4
<1> QED
  BY <1>2, <1>3, <1>4

\* Who is paused or resumed begins to wait anew.
LEMMA WindowAtToggle ==
  ASSUME DueInv, DueInv', ClockInv, ClockInv', NEW k \in Monitor, Toggle(k),
         NEW m \in Monitor, PhasedOf(m), docs'[m].lastIn # LongAgo
  PROVE  \E q \in Int, r \in Nat : PhaseAt(m, q, r)'
<1>1. /\ pending' = pending /\ ToTick' = ToTick /\ ToTick \in Nat /\ ToTick <= Round
      /\ waited'[k] = 0 /\ docs'[m].lastIn = docs[m].lastIn /\ docs'[m].open = docs[m].open
      /\ m # k => waited'[m] = waited[m]
  BY ToggleEffect, ClockFacts
<1>2. PICK q \in Int, r \in Nat : PhaseAt(m, q, r)
  BY <1>1 DEF PhasedOf
<1>3. ASSUME InWindow(m, r) PROVE InWindow(m, r)'
  <2>1. CASE m = k
    <3>1. waited'[m] + ToTick' <= Round
      BY <1>1, <2>1
    <3> QED
      BY <3>1, EarlyStaysInWindow
  <2>2. CASE m # k
    BY <1>1, <1>3, <2>2 DEF InWindow, Round
  <2> QED
    BY <2>1, <2>2
<1>4. PhaseAt(m, q, r)'
  BY <1>1, <1>2, <1>3 DEF PhaseAt
<1> QED
  BY <1>4

\* Long jumps leave the schedule as regular as it was.
LEMMA PhasedStep == DueInv /\ ClockInv /\ Phased /\ [Next]_vars => Phased'
<1> SUFFICES ASSUME DueInv, ClockInv, Phased, [Next]_vars, JumpBy > RegularWait,
                    NEW m \in Monitor, docs'[m].lastIn # LongAgo
             PROVE  /\ docs'[m].nextIn = docs'[m].lastIn + Interval /\ docs'[m].lastIn > LongAgo
                    /\ \E q \in Int, r \in Nat : PhaseAt(m, q, r)'
  BY DEF Phased, PhasedOf, RegularWait, Round, LongAgo
<1>1. DueInv' /\ ClockInv' /\ PhasedOf(m)
  BY DueStep, ClockStep DEF Phased
<1>2. PICK n \in Int, p \in Int, l \in Nat :
        n = docs[m].nextIn /\ p = docs[m].lastIn /\ LongAgo = -l
  BY Fields, SelectionAssumption DEF DueInv, LongAgo
<1>3. PICK n2 \in Int, p2 \in Int : n2 = docs'[m].nextIn /\ p2 = docs'[m].lastIn
  BY <1>1, FieldsThen DEF DueInv
<1>4. p # -l => n = p + Interval /\ p > -l
  BY <1>1, <1>2 DEF PhasedOf
<1>5. p2 # -l
  BY <1>2, <1>3 DEF LongAgo
<1>6. CASE UNCHANGED vars
  <2>1. docs' = docs
    BY <1>6 DEF vars
  <2>2. PICK q \in Int, r \in Nat : PhaseAt(m, q, r)
    BY <1>1, <2>1 DEF PhasedOf
  <2>3. PhaseAt(m, q, r)'
    BY <1>6, <2>2 DEF vars, PhaseAt, InWindow, ToTick, Round
  <2> QED
    BY <1>1, <2>1, <2>3 DEF PhasedOf
<1>7. CASE Tick
  <2>1. docs' = docs
    BY <1>7, TickEffect
  <2>2. docs[m].nextIn = docs[m].lastIn + Interval /\ docs[m].lastIn > LongAgo
    BY <1>1, <2>1 DEF PhasedOf
  <2>3. PICK q \in Int, r \in Nat : PhaseAt(m, q, r)
    BY <1>1, <2>1 DEF PhasedOf
  <2>4. PhaseAt(m, q, r)'
    BY <1>1, <1>7, <2>2, <2>3, WindowAtTick
  <2> QED
    BY <2>1, <2>2, <2>4
<1>8. CASE PassTime
  <2>1. /\ n2 = AtLeast(n - 1, -l) /\ p2 = IF p = -l THEN -l ELSE AtLeast(p - 1, -l)
    BY <1>2, <1>3, <1>8, PassEffect
  <2>2. n2 = p2 + Interval /\ p2 > -l
    BY <1>4, <1>5, <2>1, SelectionAssumption DEF AtLeast
  <2>3. \E q \in Int, r \in Nat : PhaseAt(m, q, r)'
    BY <1>1, <1>8, WindowInTime
  <2> QED
    BY <1>2, <1>3, <2>2, <2>3
<1>9. CASE Jump
  <2>1. PICK d \in {JumpBy, -JumpBy} :
          /\ docs'[m].nextIn = AtLeast(docs[m].nextIn - d, LongAgo)
          /\ docs'[m].lastIn = (IF docs[m].lastIn = LongAgo THEN LongAgo
                                ELSE AtLeast(docs[m].lastIn - d, LongAgo))
    BY <1>9, JumpEffect
  <2>2. d \in Int
    BY <2>1, SelectionAssumption
  <2>3. n2 = AtLeast(n - d, -l) /\ p2 = IF p = -l THEN -l ELSE AtLeast(p - d, -l)
    BY <1>2, <1>3, <2>1
  <2>4. n2 = p2 + Interval /\ p2 > -l
    BY <1>4, <1>5, <2>2, <2>3, SelectionAssumption DEF AtLeast
  <2>5. \E q \in Int, r \in Nat : PhaseAt(m, q, r)'
    BY <1>1, <1>9, WindowAtJump
  <2> QED
    BY <1>2, <1>3, <2>4, <2>5
<1>10. ASSUME NEW k \in Monitor, EndCheck(k) \/ LoseCheck(k)
       PROVE  /\ n2 = p2 + Interval /\ p2 > -l
              /\ \E q \in Int, r \in Nat : PhaseAt(m, q, r)'
  <2>1. \E q \in Int, r \in Nat : PhaseAt(m, q, r)'
    BY <1>1, <1>10, WindowAtCheck
  <2>2. CASE m = k /\ EndCheck(k)
    <3>1. n2 = Interval /\ p2 = 0
      BY <1>3, <2>2, CheckEffect
    <3> QED
      BY <1>5, <2>1, <3>1, SelectionAssumption
  <2>3. CASE ~(m = k /\ EndCheck(k))
    <3>1. docs'[m] = docs[m]
      BY <1>10, <2>3, CheckEffect
    <3> QED
      BY <1>2, <1>3, <1>4, <1>5, <2>1, <3>1
  <2> QED
    BY <2>2, <2>3
<1>11. ASSUME NEW k \in Monitor, Toggle(k)
       PROVE  /\ n2 = p2 + Interval /\ p2 > -l
              /\ \E q \in Int, r \in Nat : PhaseAt(m, q, r)'
  <2>1. \E q \in Int, r \in Nat : PhaseAt(m, q, r)'
    BY <1>1, <1>11, WindowAtToggle
  <2>2. n2 = n /\ p2 = p
    BY <1>2, <1>3, <1>11, ToggleEffect
  <2> QED
    BY <1>4, <1>5, <2>1, <2>2
<1>12. CASE \E k \in Monitor : EndCheck(k) \/ LoseCheck(k) \/ Toggle(k)
  <2>1. n2 = p2 + Interval /\ p2 > -l /\ \E q \in Int, r \in Nat : PhaseAt(m, q, r)'
    BY <1>10, <1>11, <1>12
  <2> QED
    BY <1>2, <1>3, <2>1
<1> QED
  BY <1>6, <1>7, <1>8, <1>9, <1>12 DEF Next

\* All that bounds how long monitors wait.
WaitInv ==
  /\ DueInv /\ ClockInv
  /\ OnTime /\ InTurn
  /\ Scheduled /\ Delayed /\ Phased

\* Without jumps nobody waits too long.
LEMMA InTime == WaitInv => NotLate
<1> SUFFICES ASSUME WaitInv, ~jumped, NEW m \in Monitor PROVE waited[m] <= MaxWait
  BY DEF NotLate
<1>1. waited[m] <= RegularWait
  BY InTurnIsInTime DEF WaitInv
<1>2. waited[m] \in Nat
  BY Fields DEF WaitInv, DueInv
<1> QED
  BY <1>1, <1>2, Numbers

\* At the start nobody has waited.
LEMMA WaitInit == Init => WaitInv
<1> SUFFICES ASSUME Init PROVE WaitInv
  OBVIOUS
<1>1. DueInv
  BY DueInit
<1>2. /\ sinceTick = 0 /\ upsets = 0 /\ ~jumped /\ pending = {}
      /\ \A m \in Monitor :
           waited[m] = 0 /\ excused[m] /\ docs[m].nextIn = 0 /\ docs[m].retryIn = 0
             /\ docs[m].lastIn = LongAgo
  BY DEF Init
<1>3. ClockInv
  BY <1>2, SelectionAssumption DEF ClockInv
<1>4. Base \in Nat /\ Delay \in Nat
  <2>1. JumpBy * MaxUpsets \in Nat
    BY Numbers
  <2> QED
    BY <2>1, Numbers, SelectionAssumption DEF Delay
<1>5. ASSUME NEW m \in Monitor PROVE OnTimeOf(m) /\ Behind(m) /\ DelayedOf(m) /\ PhasedOf(m)
  <2>1. OnTimeOf(m)
    BY <1>2, SelectionAssumption DEF OnTimeOf
  <2>2. Behind(m)
    <3>1. JumpBy * 0 = 0
      BY SelectionAssumption
    <3> QED
      BY <1>2, <3>1, SelectionAssumption DEF Behind
  <2>3. DelayedOf(m)
    BY <1>2, <1>4 DEF DelayedOf
  <2>4. PhasedOf(m)
    BY <1>2 DEF PhasedOf
  <2> QED
    BY <2>1, <2>2, <2>3, <2>4
<1>6. InTurn
  BY <1>2, <1>4 DEF InTurn
<1> QED
  BY <1>1, <1>3, <1>5, <1>6 DEF WaitInv, OnTime, Scheduled, Delayed, Phased

\* No step breaks it.
LEMMA WaitStep == WaitInv /\ [Next]_vars => WaitInv'
BY InTime, DueStep, ClockStep, OnTimeStep, InTurnStep, ScheduledStep, DelayedStep, PhasedStep
   DEF WaitInv

\* And it bounds the waiting.
LEMMA WaitEnds == WaitInv => WaitIsBounded
<1> SUFFICES ASSUME WaitInv, NEW m \in Monitor, waited[m] > MaxWait, ShieldedFromJump(m)
             PROVE  FALSE
  BY DEF WaitIsBounded
<1> SUFFICES waited[m] <= MaxWait
  <2>1. waited[m] \in Nat
    BY Fields DEF WaitInv, DueInv
  <2> QED
    BY <2>1, Numbers
<1>1. DueInv /\ ClockInv
  BY DEF WaitInv
<1>2. CASE ~jumped
  BY <1>2, InTime DEF NotLate
<1>3. CASE jumped
  <2>1. Cardinality(Monitor) <= MaxBatch /\ ~docs[m].open /\ docs[m].lastIn # LongAgo
    BY <1>3 DEF ShieldedFromJump
  <2>2. PICK w \in Nat, t \in Nat, r \in Nat, g \in Nat, u \in Nat, b \in Nat, j \in Nat :
          /\ w = waited[m] /\ t = ToTick /\ r = Round /\ g = RegularWait /\ u = MaxWait
          /\ b = PoolMs /\ j = JumpBy * MaxUpsets
    BY <1>1, Fields, ClockFacts, Numbers, SelectionAssumption DEF DueInv
  <2>3. u >= g /\ g >= b /\ g >= Interval + r /\ g >= Interval + 2 * r
    <3>1. MaxUpsets >= 1
      BY <1>1, <1>3, SelectionAssumption DEF ClockInv, DueInv, TypeOK
    <3> QED
      BY <2>2, <3>1, Numbers, RegularWaitIsLong
  <2>4. CASE JumpBy > RegularWait
    <3>1. PICK q \in Int, n \in Nat : PhaseAt(m, q, n)
      BY <2>1, <2>4 DEF WaitInv, Phased, PhasedOf
    <3>2. CASE m \in pending
      <4>1. w <= sinceTick /\ sinceTick <= b /\ sinceTick \in Nat
        BY <1>1, <2>2, <3>2, ClockFacts DEF ClockInv
      <4> QED
        BY <2>2, <2>3, <4>1
    <3>3. CASE m \notin pending
      <4>1. InWindow(m, n)
        BY <2>1, <3>1, <3>3 DEF PhaseAt
      <4>2. IF n < Interval THEN w <= n + r ELSE w + t <= r \/ w + t <= 2 * r + Interval
        BY <2>2, <4>1 DEF InWindow
      <4>3. w <= g
        BY <2>3, <4>2, SelectionAssumption
      <4> QED
        BY <2>2, <2>3, <4>3
    <3> QED
      BY <3>2, <3>3
  <2>5. CASE JumpBy <= RegularWait
    <3>1. u = g + j
      BY <2>2, <2>5, Numbers
    <3>2. Delay = Interval + b + j
      BY <2>2 DEF Delay
    <3>3. w > Delay => w + t <= Delay + r
      BY <2>1, <2>2 DEF WaitInv, Delayed, DelayedOf
    <3>4. g >= Interval + b + r
      <4>1. PICK p \in Nat : p = r * Rounds /\ p >= r
        <5>1. r * 1 <= r * Rounds
          <6>1. 1 <= Rounds /\ Rounds \in Int
            BY Numbers, SelectionAssumption DEF Rounds
          <6> QED
            BY <6>1, Larger
        <5> QED
          BY <2>2, <5>1, Numbers
      <4>2. g = Base + p /\ Base = b + Interval + Cooldown
        BY <2>2, <4>1, Numbers DEF Base
      <4> QED
        BY <4>1, <4>2, SelectionAssumption
    <3> QED
      BY <2>2, <3>1, <3>2, <3>3, <3>4, SelectionAssumption
  <2> QED
    BY <2>2, <2>4, <2>5, SelectionAssumption
<1> QED
  BY <1>2, <1>3

\* Every monitor moves up in the order of findDueMonitors(), and jumps of the clock are
\* noticed or bounded (scheduler.js).
THEOREM WaitInvariant == Spec => []WaitInv
BY WaitInit, WaitStep, PTL DEF Spec

\* A watched monitor is checked again within its interval, the cooldown of its breaker and as
\* many rounds as all the others can take up; after jumps of the clock that is so of the
\* monitors that findDueMonitors() shields from them (scheduler.js).
THEOREM NobodyWaitsLonger == Spec => []WaitIsBounded
BY WaitInvariant, WaitEnds, PTL
==============================================================================
