----------------------------- MODULE PipeProofs -----------------------------
(***************************************************************************)
(* Proofs about the pipe for any number of readers and writers, any size of  *)
(* the ring and any bytes: nobody sleeps without a reason, and the ring with *)
(* its wrapping counters is a bounded queue.  The arithmetic they rest on is *)
(* that the size of the ring divides the number at which the counters wrap.  *)
(***************************************************************************)
EXTENDS Pipe, TLAPS

\* Steps that SMT leaves open cite Zenon.
USE SMTT(30)

LEMMA ModUnique ==
  ASSUME NEW m \in Nat \ {0}, NEW q \in Int, NEW r \in 0..(m - 1)
  PROVE  (m * q + r) % m = r
OBVIOUS

LEMMA DivMod ==
  ASSUME NEW m \in Nat \ {0}, NEW x \in Int
  PROVE  x \div m \in Int /\ x % m \in 0..(m - 1) /\ x = m * (x \div m) + (x % m)
OBVIOUS

LEMMA ModShift ==
  ASSUME NEW m \in Nat \ {0}, NEW q \in Int, NEW x \in Int
  PROVE  (x + m * q) % m = x % m
<1> DEFINE d == x \div m
           r == x % m
<1>1. d \in Int /\ r \in 0..(m - 1) /\ x = m * d + r
  BY DivMod
<1> HIDE DEF d, r
<1>2. x + m * q = m * (d + q) + r
  BY <1>1
<1>3. (m * (d + q) + r) % m = r
  BY <1>1, ModUnique
<1> QED
  BY <1>2, <1>3 DEF r

\* A counter that wraps at a multiple of the size of the ring finds its slot all the same.
LEMMA ModMod ==
  ASSUME NEW m \in Nat \ {0}, NEW n \in Nat \ {0}, n % m = 0, NEW x \in Nat
  PROVE  (x % n) % m = x % m
<1> DEFINE c == n \div m
           d == x \div n
           y == x % n
<1>1. c \in Int /\ n = m * c
  BY DivMod
<1>2. d \in Int /\ y \in Int /\ x = n * d + y
  BY DivMod
<1> HIDE DEF c, d, y
<1>3. c * d \in Int /\ x = y + m * (c * d)
  BY <1>1, <1>2
<1>4. (y + m * (c * d)) % m = y % m
  BY <1>2, <1>3, ModShift, ZenonT(30)
<1> QED
  BY <1>3, <1>4 DEF y

\* Numbers less than m apart have different slots.
LEMMA ModApart ==
  ASSUME NEW m \in Nat \ {0}, NEW x \in Nat, NEW y \in Nat, x < y, y < x + m
  PROVE  x % m # y % m
<1> SUFFICES ASSUME x % m = y % m PROVE FALSE
  OBVIOUS
<1> DEFINE d == x \div m
           e == y \div m
<1>1. d \in Int /\ e \in Int /\ y - x = m * (e - d)
  BY DivMod
<1> HIDE DEF d, e
<1>2. CASE e - d <= 0
  BY <1>1, <1>2
<1>3. CASE e - d >= 1
  BY <1>1, <1>3
<1> QED
  BY <1>1, <1>2, <1>3

-----------------------------------------------------------------------------
Counters == 0..(CountMod - 1)
Distance(w, r) == (w - r) % CountMod

LEMMA Sizes == /\ PIPESIZE \in Nat \ {0} /\ CountMod \in Nat \ {0} /\ PIPESIZE < CountMod
               /\ CountMod % PIPESIZE = 0 /\ Count0 \in Counters
BY PipeAssumption DEF Counters

LEMMA DistanceIs ==
  ASSUME NEW w \in Counters, NEW r \in Counters
  PROVE  /\ Distance(w, r) = IF w >= r THEN w - r ELSE w - r + CountMod
         /\ Distance(w, r) \in Counters
<1>1. CASE w >= r
  BY <1>1, Sizes DEF Counters, Distance
<1>2. CASE w < r
  BY <1>2, Sizes DEF Counters, Distance
<1> QED
  BY <1>1, <1>2 DEF Counters

LEMMA SumIs ==
  ASSUME NEW w \in Counters, NEW k \in 0..PIPESIZE
  PROVE  /\ (w + k) % CountMod = IF w + k < CountMod THEN w + k ELSE w + k - CountMod
         /\ (w + k) % CountMod \in Counters
<1>1. CASE w + k < CountMod
  BY <1>1, Sizes DEF Counters
<1>2. CASE w + k >= CountMod
  BY <1>2, Sizes DEF Counters
<1> QED
  BY <1>1, <1>2, Sizes DEF Counters

\* Adding k bytes and taking k bytes change the distance of the counters by k.
LEMMA Put ==
  ASSUME NEW w \in Counters, NEW r \in Counters, NEW k \in Nat, Distance(w, r) + k <= PIPESIZE
  PROVE  Distance((w + k) % CountMod, r) = Distance(w, r) + k
<1> DEFINE v == (w + k) % CountMod
<1>1. PIPESIZE \in Nat /\ CountMod \in Nat /\ PIPESIZE < CountMod
  BY Sizes
<1>2. k \in 0..PIPESIZE
  BY <1>1, DistanceIs DEF Counters
<1>3. v \in Counters /\ v = IF w + k < CountMod THEN w + k ELSE w + k - CountMod
  BY <1>2, SumIs
<1> HIDE DEF v
<1>4. Distance(v, r) = IF v >= r THEN v - r ELSE v - r + CountMod
  BY <1>3, DistanceIs
<1>5. Distance(w, r) = IF w >= r THEN w - r ELSE w - r + CountMod
  BY DistanceIs
<1>6. Distance(v, r) = Distance(w, r) + k
  BY <1>1, <1>3, <1>4, <1>5 DEF Counters
<1> QED
  BY <1>6 DEF v

LEMMA Get ==
  ASSUME NEW w \in Counters, NEW r \in Counters, NEW k \in Nat, k <= Distance(w, r),
         Distance(w, r) <= PIPESIZE
  PROVE  Distance(w, (r + k) % CountMod) = Distance(w, r) - k
<1> DEFINE v == (r + k) % CountMod
<1>1. PIPESIZE \in Nat /\ CountMod \in Nat /\ PIPESIZE < CountMod
  BY Sizes
<1>2. k \in 0..PIPESIZE
  BY <1>1, DistanceIs DEF Counters
<1>3. v \in Counters /\ v = IF r + k < CountMod THEN r + k ELSE r + k - CountMod
  BY <1>2, SumIs
<1> HIDE DEF v
<1>4. Distance(w, v) = IF w >= v THEN w - v ELSE w - v + CountMod
  BY <1>3, DistanceIs
<1>5. Distance(w, r) = IF w >= r THEN w - r ELSE w - r + CountMod
  BY DistanceIs
<1>6. Distance(w, v) = Distance(w, r) - k
  BY <1>1, <1>3, <1>4, <1>5 DEF Counters
<1> QED
  BY <1>6 DEF v

\* The tests of pipewrite() and piperead() for a full and an empty ring.
LEMMA FullEmpty ==
  ASSUME NEW w \in Counters, NEW r \in Counters
  PROVE  /\ w = (r + PIPESIZE) % CountMod <=> Distance(w, r) = PIPESIZE
         /\ r = w <=> Distance(w, r) = 0
<1> DEFINE v == (r + PIPESIZE) % CountMod
<1>1. PIPESIZE \in Nat \ {0} /\ CountMod \in Nat /\ PIPESIZE < CountMod
  BY Sizes
<1>2. PIPESIZE \in 0..PIPESIZE
  BY <1>1
<1>3. v = IF r + PIPESIZE < CountMod THEN r + PIPESIZE ELSE r + PIPESIZE - CountMod
  BY <1>2, SumIs
<1> HIDE DEF v
<1>4. Distance(w, r) = IF w >= r THEN w - r ELSE w - r + CountMod
  BY DistanceIs
<1>5. w = v <=> Distance(w, r) = PIPESIZE
  BY <1>1, <1>3, <1>4 DEF Counters
<1>6. r = w <=> Distance(w, r) = 0
  BY <1>1, <1>4 DEF Counters
<1> QED
  BY <1>5, <1>6 DEF v

-----------------------------------------------------------------------------
TypeOK ==
    /\ data \in [0..(PIPESIZE - 1) -> Vals]
    /\ nread \in Counters /\ nwrite \in Counters
    /\ readopen \in BOOLEAN /\ writeopen \in BOOLEAN
    /\ pc \in [Procs -> {"out", "in", "full", "empty", "asleep"}]
    /\ todo \in [Procs -> Nat]
    /\ killed \in [Procs -> BOOLEAN]

\* Who can be where: only writers wait for room, only readers for bytes, and a
\* closed end has no process in a call.
PlaceInv ==
    /\ \A p \in Procs : /\ pc[p] = "full" => p \in Writers
                        /\ pc[p] = "empty" => p \in Readers
    /\ ~readopen => \A p \in Readers : pc[p] = "out"
    /\ ~writeopen => \A p \in Writers : pc[p] = "out"

IInv == TypeOK /\ Used <= PIPESIZE /\ PlaceInv /\ SleepersHaveReason

LEMMA InitInv == Init => IInv
<1> SUFFICES ASSUME Init PROVE IInv
  OBVIOUS
<1>1. TypeOK
  BY Sizes DEF Init, TypeOK
<1>2. Used <= PIPESIZE
  BY Sizes, DistanceIs DEF Init, Used, Distance, Counters
<1>3. PlaceInv /\ SleepersHaveReason
  BY DEF Init, PlaceInv, SleepersHaveReason, Procs
<1> QED
  BY <1>1, <1>2, <1>3 DEF IInv

\* What the counters say of the ring, before and after a step.
LEMMA RingFacts ==
  ASSUME TypeOK
  PROVE  /\ Used = Distance(nwrite, nread) /\ Used \in Nat
         /\ Full <=> Used = PIPESIZE
         /\ Empty <=> Used = 0
<1>1. nwrite \in Counters /\ nread \in Counters /\ Used = Distance(nwrite, nread)
  BY DEF TypeOK, Used, Distance
<1>2. Distance(nwrite, nread) \in Nat
  BY <1>1, DistanceIs DEF Counters
<1> QED
  BY <1>1, <1>2, FullEmpty DEF Full, Empty

LEMMA RingFactsNext ==
  ASSUME TypeOK'
  PROVE  /\ Used' = Distance(nwrite', nread') /\ Used' \in Nat
         /\ Full' <=> Used' = PIPESIZE
         /\ Empty' <=> Used' = 0
<1>1. nwrite' \in Counters /\ nread' \in Counters /\ Used' = Distance(nwrite', nread')
  BY DEF TypeOK, Used, Distance
<1>2. Distance(nwrite', nread') \in Nat
  BY <1>1, DistanceIs DEF Counters
<1> QED
  BY <1>1, <1>2, FullEmpty DEF Full, Empty

\* Copying k bytes that fit into the ring.
LEMMA CopyInFacts ==
  ASSUME TypeOK, NEW p \in Procs, NEW k \in Nat, k <= Room, k <= todo[p], Used <= PIPESIZE,
         CopyIn(p, k)
  PROVE  /\ data' \in [0..(PIPESIZE - 1) -> Vals]
         /\ nwrite' \in Counters /\ nread' = nread
         /\ Used' = Used + k
         /\ todo' = [todo EXCEPT ![p] = @ - k] /\ todo' \in [Procs -> Nat]
         /\ UNCHANGED <<readopen, writeopen, killed>>
<1>1. Used = Distance(nwrite, nread) /\ Used \in Nat
  BY RingFacts
<1>2. Used + k <= PIPESIZE /\ k \in 0..PIPESIZE
  BY <1>1, Sizes DEF Room
<1>3. nwrite' = (nwrite + k) % CountMod /\ nread' = nread
  BY DEF CopyIn
<1>4. nwrite' \in Counters
  BY <1>2, <1>3, SumIs DEF TypeOK
<1>5. Distance((nwrite + k) % CountMod, nread) = Distance(nwrite, nread) + k
  BY <1>1, <1>2, Put DEF TypeOK
<1>6. Used' = Distance(nwrite', nread')
  BY DEF Used, Distance
<1>7. data' \in [0..(PIPESIZE - 1) -> Vals]
  <2>1. PICK s \in [0..(k - 1) -> Vals] :
          data' = [i \in 0..(PIPESIZE - 1) |->
                     IF \E j \in 0..(k - 1) : Slot((nwrite + j) % CountMod) = i
                     THEN s[CHOOSE j \in 0..(k - 1) : Slot((nwrite + j) % CountMod) = i]
                     ELSE data[i]]
    BY DEF CopyIn
  <2>2. ASSUME NEW i \in 0..(PIPESIZE - 1), \E j \in 0..(k - 1) : Slot((nwrite + j) % CountMod) = i
        PROVE  s[CHOOSE j \in 0..(k - 1) : Slot((nwrite + j) % CountMod) = i] \in Vals
    <3>1. (CHOOSE j \in 0..(k - 1) : Slot((nwrite + j) % CountMod) = i) \in 0..(k - 1)
      BY <2>2, ZenonT(30)
    <3> QED
      BY <3>1
  <2> QED
    BY <2>1, <2>2, ZenonT(30) DEF TypeOK
<1>8. /\ todo' = [todo EXCEPT ![p] = @ - k] /\ todo' \in [Procs -> Nat]
      /\ UNCHANGED <<readopen, writeopen, killed>>
  BY DEF CopyIn, TypeOK
<1> QED
  BY <1>1, <1>3, <1>4, <1>5, <1>6, <1>7, <1>8

\* A killed writer that gave up stays so.
LEMMA AbandonedStays ==
  ASSUME TypeOK, Abandoned, NEW p \in Procs,
         \A q \in Procs : killed[q] => killed'[q],
         \A q \in Procs \ {p} : todo'[q] = todo[q] /\ (pc[q] = "out" => pc'[q] = "out"),
         p \in Readers \/ pc[p] # "out" \/ ~killed[p]
  PROVE  Abandoned'
BY PipeAssumption DEF Abandoned, Procs, TypeOK

-----------------------------------------------------------------------------
LEMMA CallInv == ASSUME IInv, NEW p \in Procs, Call(p) PROVE IInv'
<1>1. PICK k \in 1..(IF p \in Writers THEN MaxWrite ELSE MaxRead) :
         todo' = [todo EXCEPT ![p] = k]
  BY ZenonT(30) DEF Call
<1>2. k \in Nat
  BY PipeAssumption
<1>3. TypeOK' /\ Used' = Used
  BY <1>1, <1>2 DEF IInv, TypeOK, Call, pipeVars, Used
<1>4. PlaceInv'
  BY PipeAssumption DEF IInv, TypeOK, Call, pipeVars, PlaceInv, Procs
<1>5. Abandoned => Abandoned'
  BY <1>1, AbandonedStays DEF IInv, TypeOK, Call
<1>6. (Empty' <=> Empty) /\ (Full' <=> Full)
  BY DEF Call, pipeVars, Empty, Full
<1>7. SleepersHaveReason'
  BY <1>5, <1>6 DEF IInv, TypeOK, Call, pipeVars, SleepersHaveReason
<1> QED
  BY <1>3, <1>4, <1>7 DEF IInv

LEMMA WriteDoneInv == ASSUME IInv, NEW p \in Procs, WriteDone(p) PROVE IInv'
<1>1. todo[p] \in Nat /\ todo[p] <= Room /\ CopyIn(p, todo[p])
  BY DEF IInv, TypeOK, WriteDone
<1>2. /\ data' \in [0..(PIPESIZE - 1) -> Vals]
      /\ nwrite' \in Counters /\ nread' = nread
      /\ Used' = Used + todo[p]
      /\ todo' \in [Procs -> Nat]
      /\ UNCHANGED <<readopen, writeopen, killed>>
  BY <1>1, CopyInFacts DEF IInv
<1>3. pc' = [q \in Procs |-> IF q = p THEN "out"
                            ELSE IF q \in Readers /\ pc[q] = "asleep" THEN "in" ELSE pc[q]]
  BY ZenonT(30) DEF WriteDone, Wakeup
<1>4. TypeOK'
  BY <1>2, <1>3 DEF IInv, TypeOK
<1>5. Used' <= PIPESIZE
  BY <1>1, <1>2, RingFacts, Sizes DEF IInv, Room
<1>6. PlaceInv'
  BY <1>2, <1>3 DEF IInv, PlaceInv, Procs
<1>7. Full => Full'
  BY <1>1, <1>2, <1>4, <1>5, RingFacts, RingFactsNext, Sizes DEF IInv
<1>8. SleepersHaveReason'
  <2>1. ASSUME NEW q \in Readers PROVE pc'[q] \notin {"asleep", "empty"}
    BY <1>3 DEF WriteDone, Enter, LockFree, Procs
  <2>2. ASSUME NEW q \in Writers, pc'[q] \in {"asleep", "full"} PROVE readopen' /\ Full'
    BY <1>2, <1>3, <1>7, <2>2, PipeAssumption DEF IInv, SleepersHaveReason, Procs
  <2> QED
    BY <2>1, <2>2 DEF SleepersHaveReason
<1> QED
  BY <1>4, <1>5, <1>6, <1>8 DEF IInv

LEMMA WriteFullInv == ASSUME IInv, NEW p \in Procs, WriteFull(p) PROVE IInv'
<1>1. Room \in Nat /\ todo[p] > Room /\ CopyIn(p, Room) /\ Used + Room = PIPESIZE
  BY RingFacts, Sizes DEF IInv, TypeOK, WriteFull, Room
<1>2. /\ data' \in [0..(PIPESIZE - 1) -> Vals]
      /\ nwrite' \in Counters /\ nread' = nread
      /\ Used' = Used + Room
      /\ todo' = [todo EXCEPT ![p] = @ - Room] /\ todo' \in [Procs -> Nat]
      /\ UNCHANGED <<readopen, writeopen, killed>>
  <2>1. Room <= Room /\ Room <= todo[p]
    BY <1>1 DEF IInv, TypeOK
  <2> QED
    BY <1>1, <2>1, CopyInFacts DEF IInv
<1>3. p \in Writers /\ pc[p] = "in"
  BY DEF WriteFull, Enter
<1>4. TypeOK'
  BY <1>2 DEF IInv, TypeOK, WriteFull, Wakeup
<1>5. Used' <= PIPESIZE /\ Full'
  BY <1>1, <1>2, <1>4, RingFactsNext, Sizes
<1>6. PlaceInv'
  BY <1>2, <1>3, PipeAssumption DEF IInv, TypeOK, PlaceInv, Procs, WriteFull, Wakeup
<1>7. SleepersHaveReason'
  <2>1. CASE ~readopen \/ killed[p]
    <3>1. pc' = [pc EXCEPT ![p] = "out"]
      BY <2>1 DEF WriteFull
    <3>2. ASSUME NEW q \in Readers, pc'[q] \in {"asleep", "empty"} PROVE writeopen' /\ Abandoned'
      <4>1. pc[q] \in {"asleep", "empty"} /\ readopen
        BY <1>3, <3>1, <3>2, PipeAssumption DEF IInv, TypeOK, PlaceInv, Procs
      <4>2. killed'[p] /\ pc'[p] = "out" /\ todo'[p] > 0
        BY <1>1, <1>2, <2>1, <3>1, <4>1 DEF IInv, TypeOK
      <4> QED
        BY <1>2, <1>3, <4>1, <4>2 DEF IInv, SleepersHaveReason, Abandoned, Procs
    <3>3. ASSUME NEW q \in Writers, pc'[q] \in {"asleep", "full"} PROVE readopen'
      BY <1>2, <3>1, <3>3 DEF IInv, TypeOK, SleepersHaveReason, Procs
    <3> QED
      BY <1>5, <3>2, <3>3 DEF SleepersHaveReason
  <2>2. CASE readopen /\ ~killed[p]
    <3>1. pc' = [q \in Procs |-> IF q = p THEN "full"
                                ELSE IF q \in Readers /\ pc[q] = "asleep" THEN "in" ELSE pc[q]]
      BY <2>2, ZenonT(30) DEF WriteFull, Wakeup
    <3>2. ASSUME NEW q \in Readers PROVE pc'[q] \notin {"asleep", "empty"}
      BY <3>1 DEF WriteFull, Enter, LockFree, Procs
    <3> QED
      BY <1>2, <1>5, <2>2, <3>2 DEF SleepersHaveReason
  <2> QED
    BY <2>1, <2>2
<1> QED
  BY <1>4, <1>5, <1>6, <1>7 DEF IInv

\* How much piperead() takes.
LEMMA Least == ASSUME NEW a \in Nat, NEW b \in Nat
               PROVE  Min({a, b}) = IF a <= b THEN a ELSE b
<1>1. CASE a <= b
  <2>1. \A x \in {a, b} : (\A y \in {a, b} : x <= y) <=> x = a
    BY <1>1
  <2> QED
    BY <1>1, <2>1 DEF Min
<1>2. CASE b < a
  <2>1. \A x \in {a, b} : (\A y \in {a, b} : x <= y) <=> x = b
    BY <1>2
  <2> QED
    BY <1>2, <2>1 DEF Min
<1> QED
  BY <1>1, <1>2

LEMMA ReadFacts ==
  ASSUME TypeOK, Used <= PIPESIZE, NEW p \in Procs, Read(p)
  PROVE  \E k \in 0..Used : /\ nread' = (nread + k) % CountMod /\ nread' \in Counters
                            /\ nwrite' = nwrite /\ data' = data
                            /\ Used' = Used - k
<1>1. Used = Distance(nwrite, nread) /\ Used \in Nat /\ todo[p] \in Nat
  BY RingFacts DEF TypeOK
<1> DEFINE k == Min({todo[p], Used})
<1>2. k \in 0..Used /\ k \in 0..PIPESIZE /\ k \in Nat
  BY <1>1, Least, Sizes
<1>3. nread' = (nread + k) % CountMod /\ nwrite' = nwrite /\ data' = data
  BY DEF Read
<1> HIDE DEF k
<1>4. nread' \in Counters
  BY <1>2, <1>3, SumIs DEF TypeOK
<1>5. Distance(nwrite, (nread + k) % CountMod) = Distance(nwrite, nread) - k
  BY <1>1, <1>2, Get DEF TypeOK
<1>6. Used' = Distance(nwrite', nread')
  BY DEF Used, Distance
<1> QED
  BY <1>1, <1>2, <1>3, <1>4, <1>5, <1>6

LEMMA ReadInv == ASSUME IInv, NEW p \in Procs, Read(p) PROVE IInv'
<1>1. PICK k \in 0..Used : /\ nread' \in Counters
                           /\ nwrite' = nwrite /\ data' = data
                           /\ Used' = Used - k
  BY ReadFacts DEF IInv
<1>2. pc' = [q \in Procs |-> IF q = p THEN "out"
                            ELSE IF q \in Writers /\ pc[q] = "asleep" THEN "in" ELSE pc[q]]
  BY ZenonT(30) DEF Read, Wakeup
<1>3. todo' = [todo EXCEPT ![p] = 0] /\ UNCHANGED <<readopen, writeopen, killed>>
  BY DEF Read
<1>4. p \in Readers /\ pc[p] = "in"
  BY DEF Read, Enter
<1>5. TypeOK'
  BY <1>1, <1>2, <1>3 DEF IInv, TypeOK
<1>6. Used' <= PIPESIZE /\ (Empty => Empty')
  BY <1>1, <1>5, RingFacts, RingFactsNext, Sizes DEF IInv
<1>7. PlaceInv'
  BY <1>2, <1>3 DEF IInv, PlaceInv, Procs
<1>8. Abandoned => Abandoned'
  BY <1>2, <1>3, <1>4, AbandonedStays DEF IInv, TypeOK
<1>9. SleepersHaveReason'
  <2>1. ASSUME NEW q \in Writers PROVE pc'[q] \notin {"asleep", "full"}
    BY <1>2 DEF Read, Enter, LockFree, Procs
  <2>2. ASSUME NEW q \in Readers, pc'[q] \in {"asleep", "empty"}
        PROVE  writeopen' /\ (Empty' \/ Abandoned')
    BY <1>2, <1>3, <1>6, <1>8, <2>2, PipeAssumption DEF IInv, SleepersHaveReason, Procs
  <2> QED
    BY <2>1, <2>2 DEF SleepersHaveReason
<1> QED
  BY <1>5, <1>6, <1>7, <1>9 DEF IInv

LEMMA WaitInv == ASSUME IInv, NEW p \in Procs, ReadWait(p) \/ Sleep(p) PROVE IInv'
<1>1. UNCHANGED <<pipeVars, todo, killed>>
  BY DEF ReadWait, Sleep
<1>2. TypeOK' /\ Used' = Used /\ (Empty' <=> Empty) /\ (Full' <=> Full)
  BY <1>1 DEF IInv, TypeOK, ReadWait, Sleep, pipeVars, Used, Empty, Full
<1>3. PlaceInv'
  BY <1>1, PipeAssumption DEF IInv, TypeOK, PlaceInv, Procs, ReadWait, Sleep, Enter, pipeVars
<1>4. Abandoned => Abandoned'
  <2>1. pc[p] # "out" /\ \A q \in Procs \ {p} : pc'[q] = pc[q]
    BY DEF IInv, TypeOK, ReadWait, Sleep, Enter
  <2> QED
    BY <1>1, <2>1, AbandonedStays DEF IInv
<1>5. ASSUME ReadWait(p) PROVE SleepersHaveReason'
  BY <1>1, <1>2, <1>4, <1>5, PipeAssumption
  DEF IInv, TypeOK, SleepersHaveReason, Procs, ReadWait, pipeVars
<1>6. ASSUME Sleep(p) PROVE SleepersHaveReason'
  BY <1>1, <1>2, <1>4, <1>6, PipeAssumption
  DEF IInv, TypeOK, PlaceInv, SleepersHaveReason, Procs, Sleep, pipeVars
<1> QED
  BY <1>2, <1>3, <1>5, <1>6 DEF IInv

LEMMA KillInv == ASSUME IInv, NEW p \in Procs, Kill(p) PROVE IInv'
<1>1. pc' = [pc EXCEPT ![p] = IF @ = "asleep" THEN "in" ELSE @] /\ UNCHANGED <<pipeVars, todo>>
  BY DEF Kill
<1>2. TypeOK' /\ Used' = Used /\ (Empty' <=> Empty) /\ (Full' <=> Full)
  BY <1>1 DEF IInv, TypeOK, Kill, pipeVars, Used, Empty, Full
<1>3. PlaceInv'
  BY <1>1 DEF IInv, TypeOK, PlaceInv, Procs, pipeVars
<1>4. Abandoned => Abandoned'
  BY <1>1, AbandonedStays DEF IInv, TypeOK, Kill
<1>5. SleepersHaveReason'
  BY <1>1, <1>2, <1>4 DEF IInv, TypeOK, SleepersHaveReason, pipeVars
<1> QED
  BY <1>2, <1>3, <1>5 DEF IInv

LEMMA CloseInv == ASSUME IInv, CloseWrite \/ CloseRead PROVE IInv'
<1>1. TypeOK' /\ Used' = Used /\ (Empty' <=> Empty) /\ (Full' <=> Full)
  BY ZenonT(30) DEF IInv, TypeOK, CloseWrite, CloseRead, Wakeup, Used, Empty, Full
<1>2. PlaceInv'
  BY DEF IInv, TypeOK, CloseWrite, CloseRead, Wakeup, PlaceInv, Procs
<1>3. Abandoned => Abandoned'
  BY PipeAssumption DEF IInv, TypeOK, CloseWrite, CloseRead, Wakeup, Abandoned, Procs
<1>4. ASSUME CloseWrite PROVE SleepersHaveReason'
  BY <1>1, <1>3, <1>4, PipeAssumption
  DEF IInv, TypeOK, CloseWrite, Wakeup, LockFree, SleepersHaveReason, Procs
<1>5. ASSUME CloseRead PROVE SleepersHaveReason'
  BY <1>1, <1>3, <1>5, PipeAssumption
  DEF IInv, TypeOK, CloseRead, Wakeup, LockFree, SleepersHaveReason, Procs
<1> QED
  BY <1>1, <1>2, <1>4, <1>5 DEF IInv

LEMMA StutterInv == ASSUME IInv, UNCHANGED vars PROVE IInv'
BY DEF IInv, TypeOK, PlaceInv, SleepersHaveReason, Abandoned, Used, Empty, Full, vars, pipeVars

LEMMA NextInv == ASSUME IInv, [Next]_vars PROVE IInv'
BY CallInv, WriteDoneInv, WriteFullInv, ReadInv, WaitInv, KillInv, CloseInv, StutterInv
DEF Next, Step

\* Nobody sleeps in pipewrite() or piperead() without a reason: a writer only while the
\* ring is full and can still be read, a reader only while it is empty and can still be
\* written, but for the bytes that a killed writer leaves without a wakeup.
THEOREM NoLostWakeup == Spec => []SleepersHaveReason
<1>1. IInv => SleepersHaveReason
  BY DEF IInv
<1> QED
  BY InitInv, NextInv, <1>1, PTL DEF Spec

-------------------------------------------------------------------------------
(* The ring as a queue of bytes                                               *)

\* The bytes in flight, oldest first: what Pipe's mapping takes for the queue of Fifo.
Queue == [i \in 1..Used |-> data[(nread + i - 1) % PIPESIZE]]

\* The slot of the j-th byte behind the last one, counted from nwrite or from nread.
LEMMA SlotAfter ==
  ASSUME NEW w \in Counters, NEW r \in Counters, NEW j \in Nat
  PROVE  /\ Slot((w + j) % CountMod) = (w + j) % PIPESIZE
         /\ (r + Distance(w, r) + j) % PIPESIZE = (w + j) % PIPESIZE
<1>1. /\ w + j \in Nat /\ PIPESIZE \in Nat \ {0} /\ CountMod \in Nat \ {0}
      /\ CountMod % PIPESIZE = 0
  BY Sizes DEF Counters
<1>2. ((w + j) % CountMod) % PIPESIZE = (w + j) % PIPESIZE
  BY <1>1, ModMod
<1> DEFINE c == CountMod \div PIPESIZE
           d == Distance(w, r)
<1>3. c \in Int /\ CountMod = PIPESIZE * c
  <2>1. c \in Int /\ CountMod = PIPESIZE * c + (CountMod % PIPESIZE)
    BY <1>1, DivMod
  <2> HIDE DEF c
  <2> QED
    BY <1>1, <2>1
<1>4. d \in Int /\ (r + d = w \/ r + d = w + CountMod)
  <2>1. d = IF w >= r THEN w - r ELSE w - r + CountMod
    BY DistanceIs
  <2> HIDE DEF d
  <2> QED
    BY <1>1, <2>1 DEF Counters
<1> HIDE DEF c, d
<1>5. (w + j + PIPESIZE * c) % PIPESIZE = (w + j) % PIPESIZE
  <2> DEFINE x == w + j
  <2>1. x \in Int /\ PIPESIZE \in Nat \ {0} /\ c \in Int
    BY <1>1, <1>3
  <2> HIDE DEF x
  <2>2. (x + PIPESIZE * c) % PIPESIZE = x % PIPESIZE
    BY <2>1, ModShift, ZenonT(30)
  <2> QED
    BY <2>2 DEF x
<1>6. r + d + j = w + j \/ r + d + j = w + j + PIPESIZE * c
  BY <1>3, <1>4 DEF Counters
<1>7. (r + d + j) % PIPESIZE = (w + j) % PIPESIZE
  BY <1>5, <1>6
<1> QED
  BY <1>2, <1>7 DEF d, Slot

\* The queue before a step, and after it.
LEMMA QueueIs ==
  ASSUME TypeOK
  PROVE  /\ Queue \in Seq(Vals) /\ Len(Queue) = Used
         /\ \A i \in 1..Used : Queue[i] = data[(nread + i - 1) % PIPESIZE]
<1>1. Used \in Nat
  BY RingFacts
<1>2. \A i \in 1..Used : (nread + i - 1) % PIPESIZE \in 0..(PIPESIZE - 1)
  BY <1>1, Sizes DEF TypeOK, Counters
<1>3. \A i \in 1..Used : data[(nread + i - 1) % PIPESIZE] \in Vals
  BY <1>2 DEF TypeOK
<1> QED
  BY <1>1, <1>3 DEF Queue

LEMMA QueueIsNext ==
  ASSUME TypeOK'
  PROVE  /\ Queue' \in Seq(Vals) /\ Len(Queue') = Used'
         /\ \A i \in 1..Used' : Queue'[i] = data'[(nread' + i - 1) % PIPESIZE]
<1>1. Used' \in Nat
  BY RingFactsNext
<1>2. ASSUME NEW i \in 1..Used' PROVE (nread' + i - 1) % PIPESIZE \in 0..(PIPESIZE - 1)
  <2> DEFINE x == nread' + i - 1
  <2>1. x \in Int /\ PIPESIZE \in Nat \ {0}
    BY <1>1, Sizes DEF TypeOK, Counters
  <2> HIDE DEF x
  <2>2. x % PIPESIZE \in 0..(PIPESIZE - 1)
    BY <2>1, DivMod
  <2> QED
    BY <2>2 DEF x
<1>3. \A i \in 1..Used' : data'[(nread' + i - 1) % PIPESIZE] \in Vals
  BY <1>2 DEF TypeOK
<1> QED
  BY <1>1, <1>3 DEF Queue

\* What pipewrite() copies goes behind what is in the ring.
LEMMA PutIsSend ==
  ASSUME TypeOK, Used <= PIPESIZE, NEW p \in Procs, NEW k \in Nat, k <= Room, k <= todo[p],
         CopyIn(p, k), TypeOK'
  PROVE  Stream!Send
<1>1. Used' = Used + k /\ nread' = nread /\ Used + k <= PIPESIZE /\ Used \in Nat
  BY CopyInFacts, RingFacts, Sizes DEF Room
<1>2. /\ Queue \in Seq(Vals) /\ Len(Queue) = Used
      /\ \A i \in 1..Used : Queue[i] = data[(nread + i - 1) % PIPESIZE]
  BY QueueIs
<1>3. /\ Queue' \in Seq(Vals) /\ Len(Queue') = Used + k
      /\ \A i \in 1..(Used + k) : Queue'[i] = data'[(nread + i - 1) % PIPESIZE]
  BY <1>1, QueueIsNext
<1>4. ASSUME NEW i \in 1..Used PROVE data'[(nread + i - 1) % PIPESIZE] = data[(nread + i - 1) % PIPESIZE]
  <2> DEFINE at == (nread + i - 1) % PIPESIZE
  <2>1. at \in 0..(PIPESIZE - 1) /\ nread + i - 1 \in Nat
    BY <1>1, Sizes DEF TypeOK, Counters
  <2>2. ASSUME NEW j \in 0..(k - 1) PROVE Slot((nwrite + j) % CountMod) # at
    <3> DEFINE x == nread + i - 1
               y == nread + Used + j
    <3>1. PIPESIZE \in Nat \ {0} /\ x \in Nat /\ y \in Nat /\ x < y /\ y < x + PIPESIZE
      BY <1>1, Sizes DEF TypeOK, Counters
    <3> HIDE DEF x, y
    <3>2. x % PIPESIZE # y % PIPESIZE
      BY <3>1, ModApart, ZenonT(30)
    <3>3. Slot((nwrite + j) % CountMod) = (nread + Distance(nwrite, nread) + j) % PIPESIZE
      BY SlotAfter DEF TypeOK
    <3> QED
      BY <3>2, <3>3, RingFacts DEF x, y
  <2> HIDE DEF at
  <2>3. PICK s \in [0..(k - 1) -> Vals] :
          data' = [n \in 0..(PIPESIZE - 1) |->
                     IF \E j \in 0..(k - 1) : Slot((nwrite + j) % CountMod) = n
                     THEN s[CHOOSE j \in 0..(k - 1) : Slot((nwrite + j) % CountMod) = n]
                     ELSE data[n]]
    BY DEF CopyIn
  <2>4. data'[at] = data[at]
    BY <2>1, <2>2, <2>3
  <2> QED
    BY <2>4 DEF at
<1>5. \A i \in 1..Len(Queue) : Queue[i] = Queue'[i]
  BY <1>1, <1>2, <1>3, <1>4
<1>6. SubSeq(Queue', 1, Len(Queue)) = Queue
  BY <1>1, <1>2, <1>3, <1>5
<1>7. Len(Queue) <= Len(Queue') /\ Len(Queue') <= PIPESIZE
  BY <1>1, <1>2, <1>3
<1> QED
  BY <1>3, <1>6, <1>7, ZenonT(30) DEF Stream!Send, Queue

\* What piperead() takes comes from the front of the ring.
LEMMA GetIsReceive ==
  ASSUME TypeOK, Used <= PIPESIZE, NEW p \in Procs, Read(p), TypeOK'
  PROVE  Stream!Receive
<1>1. PICK k \in 0..Used : /\ nread' = (nread + k) % CountMod /\ nread' \in Counters
                           /\ nwrite' = nwrite /\ data' = data
                           /\ Used' = Used - k
  BY ReadFacts
<1>2. Used \in Nat /\ k \in Nat
  BY RingFacts
<1>3. /\ Queue \in Seq(Vals) /\ Len(Queue) = Used
      /\ \A i \in 1..Used : Queue[i] = data[(nread + i - 1) % PIPESIZE]
  BY QueueIs
<1>4. /\ Queue' \in Seq(Vals) /\ Len(Queue') = Used - k
      /\ \A i \in 1..(Used - k) : Queue'[i] = data[(nread' + i - 1) % PIPESIZE]
  BY <1>1, QueueIsNext
<1>5. ASSUME NEW i \in 1..(Used - k)
      PROVE  (nread' + i - 1) % PIPESIZE = (nread + (i + k) - 1) % PIPESIZE
  <2> DEFINE c == CountMod \div PIPESIZE
             x == nread' + i - 1
  <2>1. c \in Int /\ CountMod = PIPESIZE * c
    <3>1. PIPESIZE \in Nat \ {0} /\ CountMod \in Int
      BY Sizes
    <3>2. c \in Int /\ CountMod = PIPESIZE * c + (CountMod % PIPESIZE)
      BY <3>1, DivMod
    <3> HIDE DEF c
    <3> QED
      BY <3>1, <3>2, Sizes
  <2> HIDE DEF c
  <2>2. nread' = IF nread + k < CountMod THEN nread + k ELSE nread + k - CountMod
    <3>1. k \in 0..PIPESIZE
      BY <1>2, Sizes
    <3> QED
      BY <1>1, <3>1, SumIs DEF TypeOK
  <2>3. x \in Int /\ PIPESIZE \in Nat \ {0}
    BY <1>1, <1>2, Sizes DEF Counters
  <2>4. nread + (i + k) - 1 = x \/ nread + (i + k) - 1 = x + CountMod
    <3>1. CountMod \in Nat /\ nread \in Nat
      BY Sizes DEF TypeOK, Counters
    <3>2. nread' = nread + k \/ nread' = nread + k - CountMod
      BY <2>2
    <3> QED
      BY <1>2, <3>1, <3>2
  <2> HIDE DEF x
  <2>5. (x + PIPESIZE * c) % PIPESIZE = x % PIPESIZE
    BY <2>1, <2>3, ModShift, ZenonT(30)
  <2> QED
    BY <2>1, <2>4, <2>5 DEF x
<1>6. ASSUME NEW i \in 1..Len(Queue') PROVE Queue'[i] = Queue[i + k]
  <2>1. i \in 1..(Used - k) /\ i + k \in 1..Used
    BY <1>2, <1>4
  <2>2. Queue'[i] = data[(nread' + i - 1) % PIPESIZE]
    BY <1>4, <2>1
  <2>3. Queue[i + k] = data[(nread + (i + k) - 1) % PIPESIZE]
    BY <1>3, <2>1
  <2> QED
    BY <1>5, <2>1, <2>2, <2>3
<1>7. Queue' = SubSeq(Queue, k + 1, Len(Queue))
  BY <1>2, <1>3, <1>4, <1>6
<1> QED
  BY <1>3, <1>7, ZenonT(30) DEF Stream!Receive, Queue

\* The ring of wrapping counters is a bounded queue of bytes: pipewrite() adds at its end
\* and piperead() takes from its front, whatever the size of the ring, the number of
\* readers and writers, and the place where the counters wrap.
THEOREM RingIsQueue == Spec => InOrder
<1>1. Init => Stream!Init
  <2> SUFFICES ASSUME Init PROVE Stream!Init
    OBVIOUS
  <2>1. TypeOK /\ nread = nwrite
    BY InitInv DEF IInv, Init
  <2>2. Used = 0
    BY <2>1, RingFacts DEF Empty
  <2> QED
    BY <2>2 DEF Stream!Init
<1>2. ASSUME IInv, [Next]_vars PROVE [Stream!Next]_Queue
  <2>1. TypeOK /\ TypeOK' /\ Used <= PIPESIZE /\ Used \in Nat
    BY <1>2, NextInv, RingFacts DEF IInv
  <2>2. ASSUME NEW p \in Procs, WriteDone(p) PROVE Stream!Send
    <3>1. todo[p] \in Nat /\ todo[p] <= Room /\ CopyIn(p, todo[p])
      BY <2>1, <2>2 DEF TypeOK, WriteDone
    <3> QED
      BY <2>1, <3>1, PutIsSend
  <2>3. ASSUME NEW p \in Procs, WriteFull(p) PROVE Stream!Send
    <3>1. Room \in Nat /\ Room <= todo[p] /\ CopyIn(p, Room)
      BY <2>1, <2>3, Sizes DEF TypeOK, WriteFull, Room
    <3> QED
      BY <2>1, <3>1, PutIsSend
  <2>4. ASSUME NEW p \in Procs, Read(p) PROVE Stream!Receive
    BY <2>1, <2>4, GetIsReceive
  <2>5. ASSUME UNCHANGED <<data, nread, nwrite>> PROVE UNCHANGED Queue
    BY <2>5 DEF Queue, Used
  <2>6. ASSUME NEW p \in Procs, Call(p) \/ ReadWait(p) \/ Sleep(p) \/ Kill(p)
        PROVE  UNCHANGED <<data, nread, nwrite>>
    BY <2>6 DEF Call, ReadWait, Sleep, Kill, pipeVars
  <2>7. ASSUME CloseWrite \/ CloseRead \/ UNCHANGED vars PROVE UNCHANGED <<data, nread, nwrite>>
    BY <2>7 DEF CloseWrite, CloseRead, vars, pipeVars
  <2> QED
    BY <1>2, <2>2, <2>3, <2>4, <2>5, <2>6, <2>7 DEF Next, Step, Stream!Next
<1> QED
  BY <1>1, <1>2, InitInv, NextInv, PTL DEF Spec, InOrder, Stream!Spec, Queue
===============================================================================
