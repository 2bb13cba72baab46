--------------------------- MODULE FnLoggerProofs ---------------------------
(***************************************************************************)
(* Proofs for the file device (FnFile), the hot update (FnHot) and the     *)
(* parser of configurations (FnConfig) of fn-log, for every set of         *)
(* configurations, every depth of rollback, every number of channels, any  *)
(* number of events and every text.                                        *)
(***************************************************************************)
EXTENDS FnHot, FnFile, TLAPS, FiniteSetTheorems, SequenceTheorems, WellFoundedInduction

-----------------------------------------------------------------------------
(* Files and FileHandler::rollback *)

File == Seq(Nat \ {0}) \cup {Gone}
Files == [Depths -> File]

LEMMA FileBounds == /\ {HOUR, DAY, RETRY, MaxLogs, MaxTime, MaxEvents, MaxDepth} \subseteq Nat
                    /\ HOUR > 0 /\ DAY > 0 /\ RETRY > 0 /\ RETRY < MaxTime
BY FileAssumption

LEMMA LogsInFile ==
    /\ LogsIn(Gone) = {} /\ LogsIn(<<>>) = {}
    /\ \A file \in Seq(Nat \ {0}) : file # Gone /\ LogsIn(file) = ToSet(file)
<1>1. ToSet(Gone) = {0} /\ ToSet(<<>>) = {}
  BY DEF ToSet, Gone
<1>2. ASSUME NEW file \in Seq(Nat \ {0}) PROVE file # Gone /\ LogsIn(file) = ToSet(file)
  <2>1. \A i \in DOMAIN file : file[i] \in Nat \ {0}
    BY ElementOfSeq, LenProperties
  <2>2. 1 \in DOMAIN Gone /\ Gone[1] = 0
    BY DEF Gone
  <2> QED BY <2>1, <2>2 DEF LogsIn, ToSet
<1> QED BY <1>1, <1>2 DEF LogsIn

LEMMA LeastNat ==
    ASSUME NEW S, S \subseteq Nat, S # {}
    PROVE  \E m \in S : \A n \in S : m <= n
<1>1. PICK m \in S : \A n \in S : ~(<<n, m>> \in OpToRel(<, Nat))
  BY NatLessThanWellFounded, WFMin
<1>2. \A n \in S : ~(n < m)
  BY <1>1 DEF OpToRel
<1> QED BY <1>2

\* rollback stops at the first depth that is free.
LEMMA FirstFreeIs ==
    ASSUME NEW files, NEW max \in Nat
    PROVE  /\ FirstFree(files, max) \in 0 .. max + 1
           /\ FirstFree(files, max) <= max => files[FirstFree(files, max)] = Gone
           /\ \A d \in 0 .. max : d < FirstFree(files, max) => files[d] # Gone
<1> DEFINE free == {d \in 0 .. max : files[d] = Gone}
           f == CHOOSE d \in free : \A e \in free : d <= e
<1>1. CASE free = {}
  BY <1>1 DEF FirstFree
<1>2. CASE free # {}
  <2>1. free \subseteq Nat
    OBVIOUS
  <2>3. \E d \in free : \A e \in free : d <= e
    <3> HIDE DEF free
    <3> QED BY <1>2, <2>1, LeastNat
  <2>4. f \in free /\ \A e \in free : f <= e
    BY <2>3
  <2>5. FirstFree(files, max) = f
    BY <1>2 DEF FirstFree
  <2> HIDE DEF f
  <2> QED BY <2>4, <2>5
<1> QED BY <1>1, <1>2

\* Where the file at a depth comes from and where it goes.
Shifted(F, max, d) == d > 0 /\ d <= FirstFree(F, max) /\ d <= max

LEMMA RollMoves ==
    ASSUME NEW F \in Files, NEW max \in Nat, max <= MaxDepth, max > 0,
           NEW G, G = Rollback(F, max)
    PROVE  /\ G \in Files /\ G[0] = Gone
           /\ \A d \in Depths : Shifted(F, max, d) => d - 1 \in Depths /\ G[d] = F[d - 1]
           /\ \A d \in Depths : d # 0 /\ ~Shifted(F, max, d) => G[d] = F[d]
           /\ \A e \in Depths : \/ F[e] = Gone
                                \/ e = max /\ FirstFree(F, max) > max
                                \/ e + 1 \in Depths /\ Shifted(F, max, e + 1)
                                \/ e # 0 /\ ~Shifted(F, max, e)
<1> DEFINE last == FirstFree(F, max)
           shift(d) == d > 0 /\ d <= last /\ d <= max
<1>0. MaxDepth \in Nat /\ 0 \in Depths /\ Depths = 0 .. MaxDepth
  BY FileBounds DEF Depths
<1>1. /\ last \in 0 .. max + 1 /\ (last <= max => F[last] = Gone)
      /\ \A d \in 0 .. max : d < last => F[d] # Gone
  BY FirstFreeIs
<1>2. \A d \in Depths : G[d] = IF d = 0 THEN Gone ELSE IF shift(d) THEN F[d - 1] ELSE F[d]
  BY <1>0 DEF Rollback
<1>8. \A d : Shifted(F, max, d) <=> shift(d)
  BY DEF Shifted
<1> HIDE DEF last
<1>3. \A d \in Depths : shift(d) => d - 1 \in Depths
  BY <1>0, <1>1
<1>4. Gone \in File
  BY DEF File
<1>5. G \in Files
  <2>1. \A d \in Depths : G[d] \in File
    BY <1>2, <1>3, <1>4 DEF Files
  <2>2. G = [d \in Depths |-> G[d]]
    BY DEF Rollback
  <2> QED BY <2>1, <2>2 DEF Files
<1>6. ASSUME NEW e \in Depths, F[e] # Gone, ~(e = max /\ last > max)
      PROVE  (e + 1 \in Depths /\ shift(e + 1)) \/ (e # 0 /\ ~shift(e))
  <2>1. CASE e < last /\ e < max
    BY <1>0, <1>1, <2>1
  <2>2. CASE e = last
    BY <1>0, <1>1, <1>6, <2>2
  <2>3. CASE e > last
    BY <1>0, <1>1, <2>3
  <2>4. CASE e > max
    BY <1>0, <1>1, <2>4
  <2> QED BY <1>0, <1>1, <1>6, <2>1, <2>2, <2>3, <2>4
<1>7. G[0] = Gone
  BY <1>0, <1>2
<1>9. \A d \in Depths : shift(d) => d # 0
  BY <1>0
<1>10. \A d \in Depths : shift(d) => d - 1 \in Depths /\ G[d] = F[d - 1]
  BY <1>2, <1>3, <1>9
<1>11. \A d \in Depths : d # 0 /\ ~shift(d) => G[d] = F[d]
  BY <1>2
<1>12. \A e \in Depths : \/ F[e] = Gone
                         \/ e = max /\ last > max
                         \/ e + 1 \in Depths /\ shift(e + 1)
                         \/ e # 0 /\ ~shift(e)
  BY <1>6
<1>13. last = FirstFree(F, max)
  BY DEF last
<1> HIDE DEF shift
<1>14. \A d \in Depths : Shifted(F, max, d) => d - 1 \in Depths /\ G[d] = F[d - 1]
  BY <1>8, <1>10
<1>15. \A d \in Depths : d # 0 /\ ~Shifted(F, max, d) => G[d] = F[d]
  BY <1>8, <1>11
<1>16. \A e \in Depths : \/ F[e] = Gone
                         \/ e = max /\ FirstFree(F, max) > max
                         \/ e + 1 \in Depths /\ Shifted(F, max, e + 1)
                         \/ e # 0 /\ ~Shifted(F, max, e)
  BY <1>8, <1>12, <1>13
<1> QED BY <1>5, <1>7, <1>14, <1>15, <1>16

-----------------------------------------------------------------------------
(* What a rollback, a new file and a log do to the files of a device *)

LogsOf(F) == UNION {LogsIn(F[d]) : d \in Depths}
MaxOf(f) == IF f.rollback > 0 THEN f.rollback ELSE 1

LEMMA DepthFacts ==
    /\ MaxDepth \in Nat /\ Depths = 0 .. MaxDepth /\ 0 \in Depths
    /\ \A f \in FileConfigs : MaxOf(f) \in Nat /\ MaxOf(f) > 0 /\ MaxOf(f) <= MaxDepth
<1>1. MaxDepth \in Nat /\ Depths = 0 .. MaxDepth /\ 0 \in Depths
  BY FileBounds DEF Depths
<1>2. ASSUME NEW f \in FileConfigs
      PROVE  MaxOf(f) \in Nat /\ MaxOf(f) > 0 /\ MaxOf(f) <= MaxDepth
  <2>1. f.rollback \in Nat /\ f.rollback < MaxDepth
    BY FileAssumption
  <2> QED BY <1>1, <2>1 DEF MaxOf
<1> QED BY <1>1, <1>2

\* A rollback keeps every log but those of the file it removes.
LEMMA RollLogs ==
    ASSUME NEW F \in Files, NEW max \in Nat, max <= MaxDepth, max > 0,
           NEW G, G = Rollback(F, max)
    PROVE  LogsOf(F) = LogsOf(G) \cup RolledOut(F, max)
<1>0. /\ G[0] = Gone
      /\ \A d \in Depths : Shifted(F, max, d) => d - 1 \in Depths /\ G[d] = F[d - 1]
      /\ \A d \in Depths : d # 0 /\ ~Shifted(F, max, d) => G[d] = F[d]
      /\ \A e \in Depths : \/ F[e] = Gone
                           \/ e = max /\ FirstFree(F, max) > max
                           \/ e + 1 \in Depths /\ Shifted(F, max, e + 1)
                           \/ e # 0 /\ ~Shifted(F, max, e)
  BY RollMoves
<1>1. LogsIn(Gone) = {} /\ max \in Depths
  BY LogsInFile, DepthFacts
<1>2. RolledOut(F, max) \subseteq LogsOf(F)
  BY <1>1 DEF RolledOut, LogsOf
<1>3. ASSUME NEW d \in Depths, NEW x \in LogsIn(G[d]) PROVE x \in LogsOf(F)
  BY <1>0, <1>1, <1>3 DEF LogsOf
<1>4. ASSUME NEW e \in Depths, NEW x \in LogsIn(F[e])
      PROVE  x \in LogsOf(G) \cup RolledOut(F, max)
  <2>1. F[e] # Gone
    BY <1>1, <1>4
  <2>2. CASE e = max /\ FirstFree(F, max) > max
    BY <1>4, <2>2 DEF RolledOut
  <2>3. CASE e + 1 \in Depths /\ Shifted(F, max, e + 1)
    <3>1. G[e + 1] = F[(e + 1) - 1] /\ (e + 1) - 1 = e
      BY <1>0, <2>3, DepthFacts
    <3> QED BY <1>4, <2>3, <3>1 DEF LogsOf
  <2>4. CASE e # 0 /\ ~Shifted(F, max, e)
    BY <1>0, <1>4, <2>4 DEF LogsOf
  <2> QED BY <1>0, <2>1, <2>2, <2>3, <2>4
<1>5. LogsOf(G) \subseteq LogsOf(F)
  BY <1>3 DEF LogsOf
<1>6. LogsOf(F) \subseteq LogsOf(G) \cup RolledOut(F, max)
  <2>1. SUFFICES ASSUME NEW x \in LogsOf(F) PROVE x \in LogsOf(G) \cup RolledOut(F, max)
    OBVIOUS
  <2>2. PICK e \in Depths : x \in LogsIn(F[e])
    BY <2>1 DEF LogsOf
  <2> QED BY <1>4, <2>2
<1> QED BY <1>2, <1>5, <1>6

\* A rollback keeps the order of the files of a name, and of the logs in each.
LEMMA RollOrder ==
    ASSUME NEW F \in Files, NEW max \in Nat, max <= MaxDepth, max > 0,
           NEW G, G = Rollback(F, max), InOrder(F)
    PROVE  InOrder(G)
<1>0. /\ G[0] = Gone
      /\ \A d \in Depths : Shifted(F, max, d) => d - 1 \in Depths /\ G[d] = F[d - 1]
      /\ \A d \in Depths : d # 0 /\ ~Shifted(F, max, d) => G[d] = F[d]
  BY RollMoves
<1>1. /\ \A d \in Depths : \A i, j \in DOMAIN F[d] : i < j => F[d][i] < F[d][j]
      /\ \A d, e \in Depths : d < e =>
           \A older \in LogsIn(F[e]), newer \in LogsIn(F[d]) : older < newer
  BY DEF InOrder
<1>2. DOMAIN Gone = {1} /\ LogsIn(Gone) = {}
  BY LogsInFile DEF Gone
<1>3. ASSUME NEW d \in Depths PROVE \A i, j \in DOMAIN G[d] : i < j => G[d][i] < G[d][j]
  <2>1. CASE d = 0
    BY <1>0, <1>2, <2>1
  <2>2. CASE Shifted(F, max, d)
    BY <1>0, <1>1, <2>2
  <2>3. CASE d # 0 /\ ~Shifted(F, max, d)
    BY <1>0, <1>1, <2>3
  <2> QED BY <2>1, <2>2, <2>3
<1>4. ASSUME NEW d \in Depths, NEW e \in Depths, d < e,
             NEW older \in LogsIn(G[e]), NEW newer \in LogsIn(G[d])
      PROVE  older < newer
  <2>0. d \in Nat /\ e \in Nat /\ e # 0
    BY <1>4, DepthFacts
  <2>1. d # 0
    BY <1>0, <1>2, <1>4
  <2>2. FirstFree(F, max) \in Int
    BY FirstFreeIs
  <2>3. CASE Shifted(F, max, d) /\ Shifted(F, max, e)
    <3>1. d - 1 < e - 1
      BY <1>4, <2>0
    <3> QED BY <1>0, <1>1, <1>4, <2>3, <3>1
  <2>4. CASE Shifted(F, max, d) /\ ~Shifted(F, max, e)
    <3>1. d - 1 < e
      BY <1>4, <2>0
    <3> QED BY <1>0, <1>1, <1>4, <2>0, <2>4, <3>1
  <2>5. CASE ~Shifted(F, max, d)
    <3>1. ~Shifted(F, max, e)
      BY <1>4, <2>0, <2>1, <2>2, <2>5 DEF Shifted
    <3> QED BY <1>0, <1>1, <1>4, <2>0, <2>1, <2>5, <3>1
  <2> QED BY <2>3, <2>4, <2>5
<1> QED BY <1>3, <1>4 DEF InOrder

\* Nothing deeper than max appears, and what is removed is older than the rest.
LEMMA RollOldest ==
    ASSUME NEW F \in Files, NEW max \in Nat, max <= MaxDepth, max > 0,
           NEW G, G = Rollback(F, max), InOrder(F),
           \A d \in Depths : d > max => F[d] = Gone
    PROVE  /\ \A d \in Depths : d > max => G[d] = Gone
           /\ \A r \in RolledOut(F, max), k \in LogsOf(G) : r < k
<1>0. /\ G[0] = Gone
      /\ \A d \in Depths : Shifted(F, max, d) => d - 1 \in Depths /\ G[d] = F[d - 1]
      /\ \A d \in Depths : d # 0 /\ ~Shifted(F, max, d) => G[d] = F[d]
  BY RollMoves
<1>1. \A d, e \in Depths : d < e =>
           \A older \in LogsIn(F[e]), newer \in LogsIn(F[d]) : older < newer
  BY DEF InOrder
<1>2. max \in Depths /\ Depths \subseteq Nat /\ LogsIn(Gone) = {}
  BY DepthFacts, LogsInFile
<1>3. \A d \in Depths : d > max => ~Shifted(F, max, d) /\ d # 0
  BY <1>2 DEF Shifted
<1>4. \A d \in Depths : d > max => G[d] = Gone
  BY <1>0, <1>3
<1>5. ASSUME NEW r \in RolledOut(F, max), NEW d \in Depths, NEW k \in LogsIn(G[d]) PROVE r < k
  <2>1. FirstFree(F, max) > max /\ r \in LogsIn(F[max])
    BY <1>5 DEF RolledOut
  <2>2. d # 0 /\ ~(d > max)
    BY <1>0, <1>2, <1>4, <1>5
  <2>3. Shifted(F, max, d)
    BY <1>2, <2>1, <2>2, FirstFreeIs DEF Shifted
  <2>4. d - 1 < max
    BY <1>2, <2>2
  <2> QED BY <1>0, <1>1, <1>2, <1>5, <2>1, <2>3, <2>4
<1> QED BY <1>4, <1>5 DEF LogsOf

\* FilesKept, of the files D, the logs W written and the logs R removed.
Kept(D, W, R) ==
    /\ UNION {LogsOf(D[n]) \cup R[n] : n \in FileNames} = W
    /\ \A n \in FileNames : InOrder(D[n])
    /\ \A n, m \in FileNames : n # m => LogsOf(D[n]) \cap LogsOf(D[m]) = {}

\* OldestRemoved, with what makes it inductive: no file is deeper than max.
Oldest(D, R, max) ==
    \A n \in FileNames : /\ \A d \in Depths : d > max => D[n][d] = Gone
                         /\ \A r \in R[n], k \in LogsOf(D[n]) : r < k

\* LimitKept: every file is within the limit or has one log.
Within(D, limit) ==
    \A n \in FileNames, d \in Depths : FileSize(D[n][d]) <= limit \/ Len(D[n][d]) = 1

\* The files of one name change, and the logs of it only move to R.
LEMMA KeptByMove ==
    ASSUME NEW D \in [FileNames -> Files], NEW W, NEW R \in [FileNames -> SUBSET Nat],
           NEW n \in FileNames, NEW G \in Files, NEW out \in SUBSET Nat,
           Kept(D, W, R), InOrder(G), LogsOf(D[n]) = LogsOf(G) \cup out
    PROVE  Kept([D EXCEPT ![n] = G], W, [R EXCEPT ![n] = @ \cup out])
<1> DEFINE D2 == [D EXCEPT ![n] = G]
           R2 == [R EXCEPT ![n] = @ \cup out]
<1>1. /\ D2[n] = G /\ R2[n] = R[n] \cup out
      /\ \A m \in FileNames : m # n => D2[m] = D[m] /\ R2[m] = R[m]
  OBVIOUS
<1> HIDE DEF D2, R2
<1>2. \A m \in FileNames : LogsOf(D2[m]) \cup R2[m] = LogsOf(D[m]) \cup R[m]
  BY <1>1
<1>3. UNION {LogsOf(D2[m]) \cup R2[m] : m \in FileNames} = W
  <2>1. {LogsOf(D2[m]) \cup R2[m] : m \in FileNames} = {LogsOf(D[m]) \cup R[m] : m \in FileNames}
    BY <1>2
  <2> QED BY <2>1 DEF Kept
<1>4. \A m \in FileNames : InOrder(D2[m])
  BY <1>1 DEF Kept
<1>5. \A m \in FileNames : LogsOf(D2[m]) \subseteq LogsOf(D[m])
  BY <1>1
<1>6. \A m, k \in FileNames : m # k => LogsOf(D2[m]) \cap LogsOf(D2[k]) = {}
  BY <1>5 DEF Kept
<1>7. Kept(D2, W, R2)
  BY <1>3, <1>4, <1>6 DEF Kept
<1> QED BY <1>7 DEF D2, R2

LEMMA RolledOutNat ==
    ASSUME NEW F \in Files, NEW max \in Nat, max <= MaxDepth
    PROVE  RolledOut(F, max) \in SUBSET Nat /\ LogsOf(F) \in SUBSET Nat
<1>1. ASSUME NEW d \in Depths PROVE LogsIn(F[d]) \subseteq Nat
  <2>1. F[d] = Gone \/ F[d] \in Seq(Nat \ {0})
    BY DEF Files, File
  <2>2. ASSUME F[d] \in Seq(Nat \ {0}) PROVE LogsIn(F[d]) \subseteq Nat
    BY <2>2, ElementOfSeq, LenProperties DEF LogsIn, ToSet
  <2> QED BY <2>1, <2>2, LogsInFile
<1>2. max \in Depths
  BY DepthFacts
<1> QED BY <1>1, <1>2 DEF RolledOut, LogsOf

RollIn(D, n, max) == [D EXCEPT ![n] = Rollback(@, max)]
AddTo(R, n, out) == [R EXCEPT ![n] = @ \cup out]

LEMMA RollKept ==
    ASSUME NEW D \in [FileNames -> Files], NEW W, NEW R \in [FileNames -> SUBSET Nat],
           NEW n \in FileNames, NEW max \in Nat, max <= MaxDepth, max > 0,
           Kept(D, W, R)
    PROVE  /\ RollIn(D, n, max) \in [FileNames -> Files]
           /\ AddTo(R, n, RolledOut(D[n], max)) \in [FileNames -> SUBSET Nat]
           /\ Kept(RollIn(D, n, max), W, AddTo(R, n, RolledOut(D[n], max)))
<1>1. D[n] \in Files /\ InOrder(D[n])
  BY DEF Kept
<1>2. Rollback(D[n], max) \in Files
  BY <1>1, RollMoves
<1>3. InOrder(Rollback(D[n], max))
  BY <1>1, RollOrder
<1>4. LogsOf(D[n]) = LogsOf(Rollback(D[n], max)) \cup RolledOut(D[n], max)
  BY <1>1, RollLogs
<1>5. RolledOut(D[n], max) \in SUBSET Nat
  BY <1>1, RolledOutNat
<1> QED BY <1>2, <1>3, <1>4, <1>5, KeptByMove DEF RollIn, AddTo

LEMMA RollKeepsOldest ==
    ASSUME NEW D \in [FileNames -> Files], NEW R \in [FileNames -> SUBSET Nat],
           NEW n \in FileNames, NEW max \in Nat, max <= MaxDepth, max > 0,
           InOrder(D[n]), Oldest(D, R, max)
    PROVE  Oldest(RollIn(D, n, max), AddTo(R, n, RolledOut(D[n], max)), max)
<1> DEFINE G == Rollback(D[n], max)
           D2 == [D EXCEPT ![n] = G]
           R2 == [R EXCEPT ![n] = @ \cup RolledOut(D[n], max)]
<1>0. D[n] \in Files /\ \A d \in Depths : d > max => D[n][d] = Gone
  BY DEF Oldest
<1>1. /\ \A d \in Depths : d > max => G[d] = Gone
      /\ \A r \in RolledOut(D[n], max), k \in LogsOf(G) : r < k
  BY <1>0, RollOldest
<1>2. LogsOf(G) \subseteq LogsOf(D[n])
  BY <1>0, RollLogs
<1>3. D2[n] = G /\ R2[n] = R[n] \cup RolledOut(D[n], max)
  OBVIOUS
<1>4. \A m \in FileNames : m # n => D2[m] = D[m] /\ R2[m] = R[m]
  OBVIOUS
<1> HIDE DEF D2, R2, G
<1>5. ASSUME NEW m \in FileNames
      PROVE  /\ \A d \in Depths : d > max => D2[m][d] = Gone
             /\ \A r \in R2[m], k \in LogsOf(D2[m]) : r < k
  <2>1. CASE m = n
    BY <1>1, <1>2, <1>3, <2>1 DEF Oldest
  <2>2. CASE m # n
    BY <1>4, <2>2 DEF Oldest
  <2> QED BY <2>1, <2>2
<1>6. Oldest(D2, R2, max)
  BY <1>5 DEF Oldest
<1> QED BY <1>6 DEF D2, R2, G, RollIn, AddTo

\* The file at depth 0 is another one.
WithHead(D, n, file) == [D EXCEPT ![n][0] = file]

LEMMA HeadIs ==
    ASSUME NEW D \in [FileNames -> Files], NEW n \in FileNames, NEW file \in File,
           NEW D2, D2 = WithHead(D, n, file)
    PROVE  /\ D2 \in [FileNames -> Files]
           /\ D2 = [D EXCEPT ![n] = D2[n]]
           /\ D2[n] \in Files /\ D2[n][0] = file
           /\ \A d \in Depths : d # 0 => D2[n][d] = D[n][d]
           /\ \A m \in FileNames : m # n => D2[m] = D[m]
<1>1. D[n] \in [Depths -> File] /\ 0 \in Depths
  BY DepthFacts DEF Files
<1>2. [D[n] EXCEPT ![0] = file] \in [Depths -> File]
  BY <1>1
<1>3. D2 = [D EXCEPT ![n] = [D[n] EXCEPT ![0] = file]]
  BY DEF WithHead
<1>4. D2[n] = [D[n] EXCEPT ![0] = file] /\ \A m \in FileNames : m # n => D2[m] = D[m]
  BY <1>3
<1>5. D2 = [D EXCEPT ![n] = D2[n]]
  BY <1>3, <1>4
<1>6. D2 \in [FileNames -> Files]
  BY <1>2, <1>3 DEF Files
<1> QED BY <1>1, <1>2, <1>4, <1>5, <1>6 DEF Files

\* A new file has no log.
LEMMA CreateKept ==
    ASSUME NEW D \in [FileNames -> Files], NEW W, NEW R \in [FileNames -> SUBSET Nat],
           NEW n \in FileNames, D[n][0] = Gone, Kept(D, W, R),
           NEW D2, D2 = WithHead(D, n, <<>>)
    PROVE  Kept(D2, W, R) /\ \A m \in FileNames : LogsOf(D2[m]) = LogsOf(D[m])
<1>0. <<>> \in File
  BY DEF File
<1>9. D2 = [D EXCEPT ![n] = D2[n]]
  BY <1>0, HeadIs
<1>1. /\ D2[n] \in Files /\ D2[n][0] = <<>>
      /\ \A d \in Depths : d # 0 => D2[n][d] = D[n][d]
      /\ \A m \in FileNames : m # n => D2[m] = D[m]
  BY <1>0, HeadIs
<1>2. \A d \in Depths : LogsIn(D2[n][d]) = LogsIn(D[n][d])
  BY <1>1, LogsInFile
<1>3. {LogsIn(D2[n][d]) : d \in Depths} = {LogsIn(D[n][d]) : d \in Depths}
  BY <1>2
<1>4. LogsOf(D2[n]) = LogsOf(D[n])
  BY <1>3 DEF LogsOf
<1>5. InOrder(D2[n])
  <2>1. \A d \in Depths : d # 0 => \A i, j \in DOMAIN D2[n][d] : i < j => D2[n][d][i] < D2[n][d][j]
    BY <1>1 DEF Kept, InOrder
  <2>2. DOMAIN D2[n][0] = {}
    BY <1>1
  <2>3. \A d, e \in Depths : d < e =>
          \A older \in LogsIn(D2[n][e]), newer \in LogsIn(D2[n][d]) : older < newer
    BY <1>2 DEF Kept, InOrder
  <2> QED BY <2>1, <2>2, <2>3 DEF InOrder
<1> DEFINE G == D2[n]
<1>8. G \in Files /\ InOrder(G) /\ LogsOf(D[n]) = LogsOf(G) \cup {} /\ D2 = [D EXCEPT ![n] = G]
  BY <1>1, <1>4, <1>5, <1>9
<1> HIDE DEF G
<1>6. Kept([D EXCEPT ![n] = G], W, [R EXCEPT ![n] = @ \cup {}])
  BY <1>8, KeptByMove
<1>7. [R EXCEPT ![n] = @ \cup {}] = R
  OBVIOUS
<1> QED BY <1>1, <1>4, <1>6, <1>7, <1>8

LEMMA AppendLogs ==
    ASSUME NEW s \in Seq(Nat \ {0}), NEW x \in Nat \ {0}
    PROVE  Append(s, x) \in Seq(Nat \ {0}) /\ LogsIn(Append(s, x)) = LogsIn(s) \cup {x}
<1>1. /\ Append(s, x) \in Seq(Nat \ {0}) /\ Len(Append(s, x)) = Len(s) + 1
      /\ \A i \in 1 .. Len(s) : Append(s, x)[i] = s[i]
      /\ Append(s, x)[Len(s) + 1] = x
  BY AppendProperties
<1>2. Len(s) \in Nat /\ DOMAIN s = 1 .. Len(s) /\ DOMAIN Append(s, x) = 1 .. Len(s) + 1
  BY <1>1, LenProperties
<1>3. DOMAIN Append(s, x) = DOMAIN s \cup {Len(s) + 1}
  BY <1>2
<1>4. ToSet(Append(s, x)) = ToSet(s) \cup {x}
  BY <1>1, <1>2, <1>3 DEF ToSet
<1> QED BY <1>1, <1>4, LogsInFile

\* A log is written behind all others of its name.
WithLog(D, n, x) == WithHead(D, n, Append(D[n][0], x))

LEMMA AppendHead ==
    ASSUME NEW D \in [FileNames -> Files], NEW n \in FileNames, NEW x \in Nat \ {0},
           D[n][0] # Gone, NEW D2, D2 = WithLog(D, n, x)
    PROVE  /\ D2 \in [FileNames -> Files] /\ D2[n] \in Files
           /\ D[n][0] \in Seq(Nat \ {0}) /\ D2[n][0] = Append(D[n][0], x)
           /\ \A d \in Depths : d # 0 => D2[n][d] = D[n][d]
           /\ \A m \in FileNames : m # n => D2[m] = D[m]
<1> DEFINE s == D[n][0]
<1>0. s \in Seq(Nat \ {0})
  BY DepthFacts DEF Files, File
<1>1. Append(s, x) \in Seq(Nat \ {0}) /\ LogsIn(Append(s, x)) = LogsIn(s) \cup {x}
  BY <1>0, AppendLogs
<1> DEFINE file == Append(s, x)
<1>2. file \in File /\ D2 = WithHead(D, n, file)
  BY <1>1 DEF File, WithLog
<1>12. s = D[n][0] /\ file = Append(s, x)
  OBVIOUS
<1> HIDE DEF file, s
<1>13. /\ D2 \in [FileNames -> Files] /\ D2[n] \in Files /\ D2[n][0] = file
       /\ \A d \in Depths : d # 0 => D2[n][d] = D[n][d]
       /\ \A m \in FileNames : m # n => D2[m] = D[m]
  BY ONLY D \in [FileNames -> Files], n \in FileNames, <1>2, HeadIs
<1>3. /\ D2 \in [FileNames -> Files] /\ D2[n] \in Files /\ D2[n][0] = Append(s, x)
      /\ \A d \in Depths : d # 0 => D2[n][d] = D[n][d]
      /\ \A m \in FileNames : m # n => D2[m] = D[m]
  BY <1>12, <1>13
<1> QED BY <1>0, <1>3, <1>12

Adds(new, old, x) == new = old \cup {x}

LEMMA AppendMoves ==
    ASSUME NEW D \in [FileNames -> Files], NEW n \in FileNames, NEW x \in Nat \ {0},
           D[n][0] # Gone, NEW D2, D2 = WithLog(D, n, x)
    PROVE  /\ D2[n][0] # Gone
           /\ Adds(LogsIn(D2[n][0]), LogsIn(D[n][0]), x)
           /\ Adds(LogsOf(D2[n]), LogsOf(D[n]), x)
<1> DEFINE s == D[n][0]
<1>12. s = D[n][0]
  OBVIOUS
<1> HIDE DEF s
<1>3. /\ s \in Seq(Nat \ {0}) /\ D2[n][0] = Append(s, x)
      /\ \A d \in Depths : d # 0 => D2[n][d] = D[n][d]
  BY <1>12, AppendHead
<1>1. Append(s, x) \in Seq(Nat \ {0}) /\ LogsIn(Append(s, x)) = LogsIn(s) \cup {x}
  BY <1>3, AppendLogs
<1>4. LogsIn(D2[n][0]) = LogsIn(s) \cup {x} /\ 0 \in Depths /\ Depths \subseteq Nat
  BY <1>1, <1>3, DepthFacts
<1>5. LogsOf(D2[n]) = LogsOf(D[n]) \cup {x}
  <2>1. \A d \in Depths : LogsIn(D2[n][d]) \subseteq LogsIn(D[n][d]) \cup {x}
    BY <1>3, <1>4, <1>12
  <2>2. \A d \in Depths : LogsIn(D[n][d]) \subseteq LogsIn(D2[n][d])
    BY <1>3, <1>4, <1>12
  <2>3. x \in LogsIn(D2[n][0])
    BY <1>4
  <2> QED BY <1>4, <2>1, <2>2, <2>3 DEF LogsOf
<1>11. D2[n][0] # Gone
  BY <1>1, <1>3, LogsInFile
<1> QED BY <1>4, <1>5, <1>11, <1>12 DEF Adds

LEMMA AppendKept ==
    ASSUME NEW D \in [FileNames -> Files], NEW W, NEW R \in [FileNames -> SUBSET Nat],
           NEW n \in FileNames, NEW x \in Nat \ {0}, \A y \in W : y < x,
           D[n][0] # Gone, Kept(D, W, R),
           NEW D2, D2 = WithLog(D, n, x)
    PROVE  Kept(D2, W \cup {x}, R)
<1> DEFINE s == D[n][0]
<1>12. s = D[n][0] /\ 0 \in Depths /\ Depths \subseteq Nat
  BY DepthFacts
<1> HIDE DEF s
<1>3. /\ s \in Seq(Nat \ {0}) /\ D2[n][0] = Append(s, x)
      /\ \A d \in Depths : d # 0 => D2[n][d] = D[n][d]
      /\ \A m \in FileNames : m # n => D2[m] = D[m]
  BY <1>12, AppendHead
<1>1. LogsIn(D2[n][0]) = LogsIn(s) \cup {x}
  <2>1. Adds(LogsIn(D2[n][0]), LogsIn(D[n][0]), x)
    BY AppendMoves
  <2> QED BY <1>12, <2>1 DEF Adds
<1>0. s \in Seq(Nat \ {0})
  BY <1>3
<1>4. LogsIn(D2[n][0]) = LogsIn(s) \cup {x} /\ 0 \in Depths /\ Depths \subseteq Nat
  BY <1>1, <1>12
<1>5. LogsOf(D2[n]) = LogsOf(D[n]) \cup {x}
  <2>1. Adds(LogsOf(D2[n]), LogsOf(D[n]), x)
    BY AppendMoves
  <2> QED BY <2>1 DEF Adds
<1>6. \A m \in FileNames : LogsOf(D[m]) \subseteq W
  BY DEF Kept
<1>7. \A d \in Depths : \A y \in LogsIn(D[n][d]) : y < x
  BY <1>6 DEF LogsOf
<1>8. InOrder(D2[n])
  <2>1. \A d \in Depths : d # 0 => \A i, j \in DOMAIN D2[n][d] : i < j => D2[n][d][i] < D2[n][d][j]
    BY <1>3 DEF Kept, InOrder
  <2>2. ASSUME NEW i \in DOMAIN D2[n][0], NEW j \in DOMAIN D2[n][0], i < j
        PROVE  D2[n][0][i] < D2[n][0][j]
    <3>1. /\ DOMAIN Append(s, x) = 1 .. Len(s) + 1 /\ Len(s) \in Nat /\ DOMAIN s = 1 .. Len(s)
          /\ \A k \in 1 .. Len(s) : Append(s, x)[k] = s[k]
          /\ Append(s, x)[Len(s) + 1] = x
      BY <1>0, AppendProperties, LenProperties
    <3>2. i \in 1 .. Len(s) /\ j \in 1 .. Len(s) + 1
      BY <1>3, <2>2, <3>1
    <3>3. s[i] \in LogsIn(s)
      <4>1. LogsIn(s) = ToSet(s)
        BY <1>0, LogsInFile
      <4> QED BY <3>1, <3>2, <4>1 DEF ToSet
    <3>4. CASE j = Len(s) + 1
      BY <1>3, <1>4, <1>7, <1>12, <3>1, <3>2, <3>3, <3>4
    <3>5. CASE j # Len(s) + 1
      <4>1. j \in 1 .. Len(s)
        BY <3>1, <3>2, <3>5
      <4>2. s[i] < s[j]
        BY <1>4, <1>12, <2>2, <3>1, <3>2, <4>1 DEF Kept, InOrder
      <4> QED BY <1>3, <3>1, <3>2, <4>1, <4>2
    <3> QED BY <3>4, <3>5
  <2>3. ASSUME NEW d \in Depths, NEW e \in Depths, d < e,
               NEW older \in LogsIn(D2[n][e]), NEW newer \in LogsIn(D2[n][d])
        PROVE  older < newer
    <3>1. e # 0 /\ older \in LogsIn(D[n][e])
      BY <1>3, <1>4, <2>3
    <3>2. CASE d # 0
      BY <1>3, <2>3, <3>1, <3>2 DEF Kept, InOrder
    <3>3. CASE d = 0 /\ newer = x
      BY <1>7, <3>1, <3>3
    <3>4. CASE d = 0 /\ newer # x
      BY <1>4, <1>12, <2>3, <3>1, <3>4 DEF Kept, InOrder
    <3> QED BY <3>2, <3>3, <3>4
  <2> QED BY <2>1, <2>2, <2>3 DEF InOrder
<1>9. UNION {LogsOf(D2[m]) \cup R[m] : m \in FileNames} = W \cup {x}
  <2>1. \A m \in FileNames : LogsOf(D2[m]) \cup R[m] \subseteq (LogsOf(D[m]) \cup R[m]) \cup {x}
    BY <1>3, <1>5
  <2>2. \A m \in FileNames : LogsOf(D[m]) \cup R[m] \subseteq LogsOf(D2[m]) \cup R[m]
    BY <1>3, <1>5
  <2>3. x \in LogsOf(D2[n]) \cup R[n]
    BY <1>5
  <2> DEFINE old(m) == LogsOf(D[m]) \cup R[m]
             new(m) == LogsOf(D2[m]) \cup R[m]
  <2>4. UNION {old(m) : m \in FileNames} = W
    BY DEF Kept
  <2>5. \A m \in FileNames : new(m) \subseteq old(m) \cup {x} /\ old(m) \subseteq new(m)
    BY <2>1, <2>2
  <2>6. x \in new(n)
    BY <2>3
  <2> HIDE DEF old, new
  <2>7. UNION {new(m) : m \in FileNames} \subseteq W \cup {x}
    BY <2>4, <2>5
  <2>8. W \subseteq UNION {new(m) : m \in FileNames}
    BY <2>4, <2>5
  <2>9. x \in UNION {new(m) : m \in FileNames}
    BY <2>6
  <2>10. UNION {new(m) : m \in FileNames} = W \cup {x}
    BY <2>7, <2>8, <2>9
  <2> QED BY <2>10 DEF new
<1>10. \A m, k \in FileNames : m # k => LogsOf(D2[m]) \cap LogsOf(D2[k]) = {}
  <2>1. \A m \in FileNames : x \notin LogsOf(D[m])
    BY <1>6
  <2>2. ASSUME NEW m \in FileNames, NEW k \in FileNames, m # k
        PROVE  LogsOf(D2[m]) \cap LogsOf(D2[k]) = {}
    <3>1. LogsOf(D[m]) \cap LogsOf(D[k]) = {}
      BY <2>2 DEF Kept
    <3>2. CASE m = n
      BY <1>3, <1>5, <2>1, <2>2, <3>1, <3>2
    <3>3. CASE k = n
      BY <1>3, <1>5, <2>1, <2>2, <3>1, <3>3
    <3>4. CASE m # n /\ k # n
      BY <1>3, <3>1, <3>4
    <3> QED BY <3>2, <3>3, <3>4
  <2> QED BY <2>2
<1> QED BY <1>3, <1>5, <1>8, <1>9, <1>10 DEF Kept

LEMMA AppendOldest ==
    ASSUME NEW D \in [FileNames -> Files], NEW W, NEW R \in [FileNames -> SUBSET Nat],
           NEW n \in FileNames, NEW x \in Nat \ {0}, \A y \in W : y < x,
           D[n][0] # Gone, Kept(D, W, R), NEW max \in Nat, Oldest(D, R, max),
           NEW D2, D2 = WithLog(D, n, x)
    PROVE  Oldest(D2, R, max)
<1>1. /\ \A d \in Depths : d # 0 => D2[n][d] = D[n][d]
      /\ \A m \in FileNames : m # n => D2[m] = D[m]
  BY AppendHead
<1>5. LogsOf(D2[n]) = LogsOf(D[n]) \cup {x}
  <2>1. Adds(LogsOf(D2[n]), LogsOf(D[n]), x)
    BY AppendMoves
  <2> QED BY <2>1 DEF Adds
<1>2. \A r \in R[n] : r < x
  BY DEF Kept
<1>3. \A d \in Depths : d > max => d # 0
  BY DepthFacts
<1>4. ASSUME NEW m \in FileNames
      PROVE  /\ \A d \in Depths : d > max => D2[m][d] = Gone
             /\ \A r \in R[m], k \in LogsOf(D2[m]) : r < k
  <2>1. CASE m = n
    BY <1>1, <1>2, <1>3, <1>5, <2>1 DEF Oldest
  <2>2. CASE m # n
    BY <1>1, <2>2 DEF Oldest
  <2> QED BY <2>1, <2>2
<1> QED BY <1>4 DEF Oldest

\* The size of a file grows by the length of the log.
LEMMA SizeAppend ==
    ASSUME NEW s \in Seq(Nat \ {0}), NEW x \in Nat \ {0}
    PROVE  /\ FileSize(s) \in Nat /\ LenOf(x) \in Nat
           /\ FileSize(Append(s, x)) = FileSize(s) + LenOf(x)
<1> DEFINE odd == {i \in DOMAIN s : s[i] % 2 = 1}
           odd2 == {i \in DOMAIN Append(s, x) : Append(s, x)[i] % 2 = 1}
<1>1. /\ Append(s, x) \in Seq(Nat \ {0}) /\ Len(Append(s, x)) = Len(s) + 1
      /\ \A i \in 1 .. Len(s) : Append(s, x)[i] = s[i]
      /\ Append(s, x)[Len(s) + 1] = x
  BY AppendProperties
<1>2. Len(s) \in Nat /\ DOMAIN s = 1 .. Len(s) /\ DOMAIN Append(s, x) = 1 .. Len(s) + 1
  BY <1>1, LenProperties
<1>3. IsFiniteSet(odd) /\ Cardinality(odd) \in Nat
  <2>1. IsFiniteSet(1 .. Len(s))
    BY <1>2, FS_Interval
  <2>2. odd \subseteq 1 .. Len(s)
    BY <1>2
  <2> QED BY <2>1, <2>2, FS_Subset, FS_CardinalityType
<1>4. x % 2 \in 0 .. 1
  OBVIOUS
<1>7. /\ FileSize(s) = Len(s) + Cardinality(odd)
      /\ FileSize(Append(s, x)) = Len(s) + 1 + Cardinality(odd2)
  BY <1>1 DEF FileSize
<1>8. LenOf(x) = 1 + (x % 2)
  BY DEF LenOf
<1>5. CASE x % 2 = 1
  <2>1. odd2 = odd \cup {Len(s) + 1} /\ Len(s) + 1 \notin odd
    BY <1>1, <1>2, <1>5
  <2>2. Cardinality(odd2) = Cardinality(odd) + 1
    <3> HIDE DEF odd, odd2
    <3> QED BY <1>3, <2>1, FS_AddElement
  <2> HIDE DEF odd, odd2
  <2> QED BY <1>2, <1>3, <1>5, <1>7, <1>8, <2>2
<1>6. CASE x % 2 = 0
  <2>1. odd2 = odd
    BY <1>1, <1>2, <1>6
  <2> HIDE DEF odd, odd2
  <2> QED BY <1>2, <1>3, <1>6, <1>7, <1>8, <2>1
<1> QED BY <1>4, <1>5, <1>6

LEMMA SizeEmpty == FileSize(<<>>) = 0
<1>1. {i \in DOMAIN <<>> : <<>>[i] % 2 = 1} = {} /\ Len(<<>>) = 0
  OBVIOUS
<1>2. Cardinality({}) = 0
  BY FS_EmptySet
<1> QED BY <1>1, <1>2 DEF FileSize

-----------------------------------------------------------------------------
(* The steps of the device *)

LogFields == [size : Nat, day : Nat, hour : Nat, try : Nat, error : Nat, lines : Nat]

FileType ==
    /\ fcfg \in FileConfigs
    /\ disk \in [FileNames -> Files]
    /\ writer \in FileNames \cup {Closed}
    /\ dlog \in LogFields
    /\ clock \in Nat /\ clock > RETRY /\ clock <= MaxTime
    /\ sent \in Nat
    /\ written \subseteq 1 .. sent
    /\ removed \in [FileNames -> SUBSET Nat]
    /\ dropped \in Nat /\ changed \in BOOLEAN /\ events \in Nat
    /\ writer # Closed => disk[writer][0] # Gone

Rolls(len) == (fcfg.rollback > 0 \/ fcfg.limit > 0) /\ (~fcfg.stuff_up \/ LimitOut(fcfg, dlog, len))
RolledDisk(n, roll) == IF roll THEN RollIn(disk, n, MaxOf(fcfg)) ELSE disk
RolledLogs(n, roll) == IF roll THEN RolledOut(disk[n], MaxOf(fcfg)) ELSE {}
Reset(ts, len) == IF LimitOut(fcfg, dlog, len) \/ TimeOut(fcfg, dlog, ts)
                  THEN [dlog EXCEPT !.size = 0] ELSE dlog
HeadOf(D, n) == IF D[n][0] = Gone THEN <<>> ELSE D[n][0]

Failed(l, err, ts) == [l EXCEPT !.error = err, !.try = ts]

LEMMA FailedFields ==
    ASSUME NEW l \in LogFields, NEW err \in Nat, NEW ts \in Nat
    PROVE  /\ Failed(l, err, ts) \in LogFields
           /\ Failed(l, err, ts).error = err /\ Failed(l, err, ts).try = ts
BY DEF LogFields, Failed

LEMMA DivMonotone ==
    ASSUME NEW a \in Nat, NEW b \in Nat, NEW k \in Nat, k > 0, a <= b
    PROVE  a \div k \in 0 .. b \div k
<1> DEFINE p == a \div k
           q == b \div k
<1>1. p \in Nat /\ q \in Nat /\ p * k <= a /\ b < (q + 1) * k
  OBVIOUS
<1>2. ASSUME p > q PROVE FALSE
  <2> HIDE DEF p, q
  <2>1. p >= q + 1
    BY <1>1, <1>2
  <2>2. p * k >= (q + 1) * k
    BY <1>1, <2>1
  <2> QED BY <1>1, <2>2
<1> QED BY <1>1, <1>2

LEMMA NameIsName ==
    ASSUME FileType, NEW ts \in {clock - 1, clock}
    PROVE  /\ NameOf(fcfg, ts) \in FileNames /\ ts \in Nat /\ ts >= RETRY /\ ts > 0
           /\ Closed \notin FileNames
<1>1. ts \in Nat /\ ts <= MaxTime /\ ts >= RETRY /\ ts > 0 /\ MaxTime \in Nat /\ DAY \in Nat /\ DAY > 0
  BY FileBounds DEF FileType
<1>2. ts \div DAY \in 0 .. MaxTime \div DAY /\ 0 \in 0 .. MaxTime \div DAY
  <2>1. 0 \div DAY \in 0 .. MaxTime \div DAY /\ 0 \div DAY = 0
    BY <1>1, DivMonotone
  <2> QED BY <1>1, <2>1, DivMonotone
<1> QED BY <1>1, <1>2 DEF NameOf, FileNames, Closed

\* What writing a log does: the file stays open and takes the log or fails ...
Grown(l, log) == [l EXCEPT !.size = @ + LenOf(log), !.lines = @ + 1]
KeepWrote(log) ==
    /\ writer # Closed /\ ~LimitOut(fcfg, dlog, LenOf(log))
    /\ disk' = WithLog(disk, writer, log)
    /\ writer' = writer /\ written' = written \cup {log} /\ removed' = removed
    /\ dlog' = Grown(dlog, log) /\ dropped' = 0
KeepFailed(log) ==
    /\ disk' = disk /\ writer' = Closed /\ written' = written /\ removed' = removed
    /\ dlog' = Grown(dlog, log) /\ dropped' = 0

\* ... or its path is too long, or the disk refuses to open it ...
PathTooLong(ts) ==
    /\ disk' = disk /\ writer' = Closed /\ written' = written /\ removed' = removed
    /\ dlog' \in LogFields /\ dlog'.error # 0 /\ dlog'.try = ts /\ dropped' = ts
OpenRefused(ts, D, R) ==
    /\ disk' = D /\ writer' = Closed /\ written' = written /\ removed' = R
    /\ dlog' \in LogFields /\ dlog'.error # 0 /\ dlog'.try = ts /\ dropped' = ts

\* ... or it is opened and takes the log or fails.
OpenWrote(ts, log, n, D, R, E) ==
    /\ disk' = WithLog(E, n, log) /\ writer' = n
    /\ written' = written \cup {log} /\ removed' = R
    /\ dropped' = 0
    /\ \E l \in LogFields : dlog' = Grown(Opened(l, ts, HeadOf(D, n)), log)
OpenFailed(ts, log, n, D, R, E) ==
    /\ disk' = E /\ writer' = Closed /\ written' = written /\ removed' = R
    /\ dropped' = 0
    /\ \E l \in LogFields : dlog' = Grown(Opened(l, ts, HeadOf(D, n)), log)

LEMMA GrownFields ==
    ASSUME NEW l \in LogFields, NEW log \in Nat
    PROVE  /\ Grown(l, log) \in LogFields /\ Grown(l, log).size = l.size + LenOf(log)
           /\ Grown(l, log).error = l.error /\ Grown(l, log).try = l.try
<1>1. LenOf(log) \in Nat
  BY DEF LenOf
<1>2. l.size \in Nat /\ l.lines \in Nat
  BY DEF LogFields
<1>3. l.size + LenOf(log) \in Nat /\ l.lines + 1 \in Nat
  BY <1>1, <1>2
<1> DEFINE size == l.size + LenOf(log)
           lines == l.lines + 1
<1>4. Grown(l, log) = [l EXCEPT !.size = size, !.lines = lines]
  BY DEF Grown
<1>5. size \in Nat /\ lines \in Nat /\ size = l.size + LenOf(log)
  BY <1>3
<1> HIDE DEF size, lines
<1> QED BY <1>4, <1>5 DEF LogFields

LEMMA OpenedFields ==
    ASSUME NEW l \in LogFields, NEW ts \in Nat, NEW file, FileSize(file) \in Nat
    PROVE  /\ Opened(l, ts, file) \in LogFields /\ Opened(l, ts, file).size = FileSize(file)
           /\ Opened(l, ts, file).error = 0 /\ Opened(l, ts, file).try = 0
<1>1. DayOf(ts) \in Nat /\ HourOf(ts) \in Nat
  BY FileBounds DEF DayOf, HourOf
<1> QED BY <1>1 DEF LogFields, Opened

LEMMA WriteCases ==
    ASSUME FileType, NEW ts \in {clock - 1, clock},
           NEW can_open \in BOOLEAN, NEW can_write \in BOOLEAN,
           WriteLog(ts, can_open, can_write),
           NEW log, log = sent + 1, NEW n, n = NameOf(fcfg, ts),
           NEW roll, roll = Rolls(LenOf(log)), NEW D, D = RolledDisk(n, roll),
           NEW R, R = AddTo(removed, n, RolledLogs(n, roll)),
           NEW E, E = WithHead(D, n, HeadOf(D, n))
    PROVE  /\ sent' = log /\ UNCHANGED <<fcfg, clock, changed, events>>
           /\ \/ KeepWrote(log) \/ KeepFailed(log)
              \/ PathTooLong(ts) \/ OpenRefused(ts, D, R)
              \/ OpenWrote(ts, log, n, D, R, E) \/ OpenFailed(ts, log, n, D, R, E)
<1> DEFINE o == OpenFileDevice(ts, LenOf(log), can_open)
           l == Reset(ts, LenOf(log))
           taken == o.writer # Closed /\ can_write
<1>1. /\ sent' = log /\ UNCHANGED <<fcfg, clock, changed, events>>
      /\ disk' = IF taken THEN [o.disk EXCEPT ![o.writer][0] = Append(@, log)] ELSE o.disk
      /\ writer' = IF taken THEN o.writer ELSE Closed
      /\ dlog' = IF o.writer = Closed THEN o.dlog
                 ELSE Grown(o.dlog, log)
      /\ written' = IF taken THEN written \cup {log} ELSE written
      /\ removed' = [removed EXCEPT ![o.n] = @ \cup o.out]
      /\ dropped' = IF o.writer = Closed THEN ts ELSE 0
  BY DEF WriteLog, Grown
<1>2. \/ /\ writer # Closed /\ ~LimitOut(fcfg, dlog, LenOf(log))
         /\ o = [disk |-> disk, writer |-> writer, dlog |-> dlog, n |-> n, out |-> {}]
      \/ o = [disk |-> disk, writer |-> Closed, n |-> n, out |-> {},
              dlog |-> Failed(l, 1, ts)]
      \/ o = [disk |-> D, writer |-> Closed, n |-> n, out |-> RolledLogs(n, roll),
              dlog |-> Failed(l, 2, ts)]
      \/ o = [disk |-> E, writer |-> n, n |-> n, out |-> RolledLogs(n, roll),
              dlog |-> Opened(l, ts, HeadOf(D, n))]
  <2> DEFINE close == LimitOut(fcfg, dlog, LenOf(log)) \/ TimeOut(fcfg, dlog, ts)
  <2>1. CASE writer # Closed /\ ~close
    BY <2>1 DEF OpenFileDevice, Reset
  <2>2. CASE (writer = Closed \/ close) /\ fcfg.too_long
    BY <2>2 DEF OpenFileDevice, Reset, Failed
  <2>3. CASE (writer = Closed \/ close) /\ ~fcfg.too_long /\ ~can_open
    BY <2>3 DEF OpenFileDevice, Reset, Failed, RolledDisk, RollIn, RolledLogs, Rolls, MaxOf
  <2>4. CASE (writer = Closed \/ close) /\ ~fcfg.too_long /\ can_open
    <3>4. \/ roll = TRUE
          \/ roll = FALSE
      BY DEF Rolls
    <3>5. ASSUME roll = TRUE
          PROVE  /\ o.disk = E /\ o.writer = n /\ o.n = n /\ o.out = RolledLogs(n, roll)
                 /\ o.dlog = Opened(l, ts, HeadOf(D, n))
      <4>1. D = [disk EXCEPT ![n] = Rollback(@, MaxOf(fcfg))]
        BY <3>5 DEF RolledDisk, RollIn
      <4>2. o.writer = n /\ o.n = n
        BY <2>4 DEF OpenFileDevice
      <4>3. o.out = RolledLogs(n, roll)
        BY <2>4, <3>5 DEF OpenFileDevice, RolledLogs, Rolls, MaxOf
      <4>4. o.dlog = Opened(l, ts, HeadOf(D, n))
        <5> DEFINE X == [disk EXCEPT ![NameOf(fcfg, ts)] = Rollback(@, MaxOf(fcfg))]
        <5>1. Rolls(LenOf(log))
          BY <3>5
        <5>2. o.dlog = Opened(Reset(ts, LenOf(log)), ts,
                              IF X[NameOf(fcfg, ts)][0] = Gone THEN <<>> ELSE X[NameOf(fcfg, ts)][0])
          BY ONLY <2>4, <5>1 DEF OpenFileDevice, Reset, Rolls, MaxOf
        <5>3. X = D
          BY <4>1
        <5> HIDE DEF X, o
        <5> QED BY <5>2, <5>3 DEF HeadOf
      <4>5. o.disk = E
        BY <2>4, <3>5, <4>1 DEF OpenFileDevice, Rolls, MaxOf, WithHead, HeadOf
      <4> QED BY <4>2, <4>3, <4>4, <4>5
    <3>6. ASSUME roll = FALSE
          PROVE  /\ o.disk = E /\ o.writer = n /\ o.n = n /\ o.out = RolledLogs(n, roll)
                 /\ o.dlog = Opened(l, ts, HeadOf(D, n))
      BY <2>4, <3>6 DEF OpenFileDevice, Reset, RolledDisk, RollIn, RolledLogs, Rolls, MaxOf, WithHead, HeadOf
    <3>1. /\ o.disk = E /\ o.writer = n /\ o.n = n /\ o.out = RolledLogs(n, roll)
          /\ o.dlog = Opened(l, ts, HeadOf(D, n))
      BY <3>4, <3>5, <3>6
    <3>2. o = [disk |-> o.disk, writer |-> o.writer, n |-> o.n, out |-> o.out, dlog |-> o.dlog]
      BY <2>4 DEF OpenFileDevice
    <3> HIDE DEF o, l
    <3>3. o = [disk |-> E, writer |-> n, n |-> n, out |-> RolledLogs(n, roll),
               dlog |-> Opened(l, ts, HeadOf(D, n))]
      BY <3>1, <3>2
    <3> QED BY <3>3
  <2> QED BY <2>1, <2>2, <2>3, <2>4
<1>3. n \in FileNames /\ n # Closed /\ ts \in Nat /\ ts # 0
  BY NameIsName
<1>4. l \in LogFields
  BY DEF FileType, LogFields, Reset
<1>5. [removed EXCEPT ![n] = @ \cup {}] = removed
  BY <1>3 DEF FileType
<1> HIDE DEF o, l
<1>6. CASE /\ writer # Closed /\ ~LimitOut(fcfg, dlog, LenOf(log))
           /\ o = [disk |-> disk, writer |-> writer, dlog |-> dlog, n |-> n, out |-> {}]
  <2>1. /\ o.disk = disk /\ o.writer = writer /\ o.dlog = dlog /\ o.n = n /\ o.out = {}
    BY <1>6
  <2>2. removed' = removed
    BY <1>1, <1>5, <2>1
  <2>3. CASE can_write
    BY <1>1, <1>6, <2>1, <2>2, <2>3 DEF WithHead, WithLog, KeepWrote
  <2>4. CASE ~can_write
    BY <1>1, <1>6, <2>1, <2>2, <2>4 DEF KeepFailed
  <2> QED BY <2>3, <2>4
<1>7. CASE o = [disk |-> disk, writer |-> Closed, n |-> n, out |-> {},
                dlog |-> Failed(l, 1, ts)]
  <2>1. /\ o.disk = disk /\ o.writer = Closed /\ o.dlog = Failed(l, 1, ts)
        /\ o.n = n /\ o.out = {}
    BY <1>7
  <2>2. removed' = removed
    BY <1>1, <1>5, <2>1
  <2>4. dlog' = o.dlog
    BY <1>1, <2>1
  <2>5. /\ Failed(l, 1, ts) \in LogFields
        /\ Failed(l, 1, ts).error = 1 /\ Failed(l, 1, ts).try = ts
    BY <1>3, <1>4, FailedFields
  <2>3. dlog' \in LogFields /\ dlog'.error # 0 /\ dlog'.try = ts
    BY <2>1, <2>4, <2>5
  <2> QED BY <1>1, <2>1, <2>2, <2>3 DEF PathTooLong
<1>8. CASE o = [disk |-> D, writer |-> Closed, n |-> n, out |-> RolledLogs(n, roll),
                dlog |-> Failed(l, 2, ts)]
  <2>1. /\ o.disk = D /\ o.writer = Closed /\ o.dlog = Failed(l, 2, ts)
        /\ o.n = n /\ o.out = RolledLogs(n, roll)
    BY <1>8
  <2>2. removed' = R
    BY <1>1, <2>1 DEF AddTo
  <2>4. dlog' = o.dlog
    BY <1>1, <2>1
  <2>5. /\ Failed(l, 2, ts) \in LogFields
        /\ Failed(l, 2, ts).error = 2 /\ Failed(l, 2, ts).try = ts
    BY <1>3, <1>4, FailedFields
  <2>3. dlog' \in LogFields /\ dlog'.error # 0 /\ dlog'.try = ts
    BY <2>1, <2>4, <2>5
  <2> QED BY <1>1, <2>1, <2>2, <2>3 DEF OpenRefused
<1>9. CASE o = [disk |-> E, writer |-> n, n |-> n, out |-> RolledLogs(n, roll),
                dlog |-> Opened(l, ts, HeadOf(D, n))]
  <2>1. /\ o.disk = E /\ o.writer = n /\ o.dlog = Opened(l, ts, HeadOf(D, n))
        /\ o.n = n /\ o.out = RolledLogs(n, roll)
    BY <1>9
  <2>2. removed' = R /\ dropped' = 0
    BY <1>1, <1>3, <2>1 DEF AddTo
  <2>3. dlog' = Grown(Opened(l, ts, HeadOf(D, n)), log)
    BY <1>1, <1>3, <2>1
  <2>5. CASE can_write
    BY <1>1, <1>3, <1>4, <2>1, <2>2, <2>3, <2>5 DEF WithHead, WithLog, OpenWrote
  <2>6. CASE ~can_write
    BY <1>1, <1>3, <1>4, <2>1, <2>2, <2>3, <2>6 DEF OpenFailed
  <2> QED BY <2>5, <2>6
<1> QED BY <1>1, <1>2, <1>6, <1>7, <1>8, <1>9

\* The disk after the rollback (D) and with the file to write to (E).
LEMMA OpenStages ==
    ASSUME FileType, Kept(disk, written, removed), NEW n \in FileNames, NEW roll,
           NEW D, D = RolledDisk(n, roll),
           NEW R, R = AddTo(removed, n, RolledLogs(n, roll)),
           NEW E, E = WithHead(D, n, HeadOf(D, n))
    PROVE  /\ D \in [FileNames -> Files] /\ R \in [FileNames -> SUBSET Nat]
           /\ Kept(D, written, R)
           /\ E \in [FileNames -> Files] /\ Kept(E, written, R)
           /\ E[n][0] = HeadOf(D, n) /\ E[n][0] # Gone
           /\ \A m \in FileNames, d \in Depths :
                E[m][d] = D[m][d] \/ E[m][d] = <<>>
           /\ \A m \in FileNames, d \in Depths :
                D[m][d] = Gone \/ \E e \in Depths : D[m][d] = disk[m][e]
           /\ Oldest(disk, removed, MaxOf(fcfg)) =>
                Oldest(D, R, MaxOf(fcfg)) /\ Oldest(E, R, MaxOf(fcfg))
           /\ roll => D[n][0] = Gone
<1> DEFINE max == MaxOf(fcfg)
<1>0. /\ disk \in [FileNames -> Files] /\ removed \in [FileNames -> SUBSET Nat]
      /\ max \in Nat /\ max <= MaxDepth /\ max > 0 /\ 0 \in Depths
  BY DepthFacts DEF FileType
<1> HIDE DEF max
<1>1. /\ D \in [FileNames -> Files] /\ R \in [FileNames -> SUBSET Nat]
      /\ Kept(D, written, R)
      /\ \A m \in FileNames, d \in Depths :
           D[m][d] = Gone \/ \E e \in Depths : D[m][d] = disk[m][e]
      /\ Oldest(disk, removed, max) => Oldest(D, R, max)
      /\ roll => D[n][0] = Gone
  <2>1. CASE ~roll
    <3>1. D = disk /\ R = removed
      BY <1>0, <2>1 DEF RolledDisk, RolledLogs, AddTo
    <3> QED BY <1>0, <2>1, <3>1
  <2>2. CASE roll
    <3>1. /\ D = RollIn(disk, n, max)
          /\ R = AddTo(removed, n, RolledOut(disk[n], max))
      BY <2>2 DEF RolledDisk, RolledLogs, max
    <3>2. D \in [FileNames -> Files] /\ R \in [FileNames -> SUBSET Nat] /\ Kept(D, written, R)
      BY <1>0, <3>1, RollKept
    <3>3. InOrder(disk[n]) /\ disk[n] \in Files
      BY <1>0 DEF Kept
    <3>4. Oldest(disk, removed, max) => Oldest(D, R, max)
      BY <1>0, <3>1, <3>3, RollKeepsOldest
    <3>5. D[n] = Rollback(disk[n], max) /\ \A m \in FileNames : m # n => D[m] = disk[m]
      BY <1>0, <3>1 DEF RollIn
    <3>6. /\ D[n][0] = Gone
          /\ \A d \in Depths : Shifted(disk[n], max, d) => d - 1 \in Depths /\ D[n][d] = disk[n][d - 1]
          /\ \A d \in Depths : d # 0 /\ ~Shifted(disk[n], max, d) => D[n][d] = disk[n][d]
      BY <1>0, <3>3, <3>5, RollMoves
    <3>7. \A d \in Depths : D[n][d] = Gone \/ \E e \in Depths : D[n][d] = disk[n][e]
      BY <3>6
    <3> QED BY <3>2, <3>4, <3>5, <3>6, <3>7
  <2> QED BY <2>1, <2>2
<1>2. CASE D[n][0] # Gone
  <2>1. HeadOf(D, n) = D[n][0]
    BY <1>2 DEF HeadOf
  <2>2. E = D
    BY <1>0, <1>1, <2>1 DEF WithHead, Files
  <2> QED BY <1>1, <1>2, <2>1, <2>2 DEF max
<1>3. CASE D[n][0] = Gone
  <2>1. HeadOf(D, n) = <<>> /\ <<>> \in File
    BY <1>3 DEF HeadOf, File
  <2>2. E = WithHead(D, n, <<>>)
    BY <2>1
  <2>3. /\ E \in [FileNames -> Files] /\ E[n][0] = <<>>
        /\ \A d \in Depths : d # 0 => E[n][d] = D[n][d]
        /\ \A m \in FileNames : m # n => E[m] = D[m]
    BY <1>1, <2>1, <2>2, HeadIs
  <2>4. Kept(E, written, R) /\ \A m \in FileNames : LogsOf(E[m]) = LogsOf(D[m])
    BY <1>1, <1>3, <2>2, CreateKept
  <2>5. <<>> # Gone
    BY DEF Gone
  <2>6. Oldest(disk, removed, max) => Oldest(E, R, max)
    <3>1. \A d \in Depths : d > max => d # 0
      BY <1>0
    <3>2. \A m \in FileNames, d \in Depths : d > max => E[m][d] = D[m][d]
      BY <2>3, <3>1
    <3> QED BY <1>1, <2>4, <3>2 DEF Oldest
  <2>7. \A m \in FileNames, d \in Depths : E[m][d] = D[m][d] \/ E[m][d] = <<>>
    BY <2>3
  <2> QED BY <1>1, <2>1, <2>3, <2>4, <2>5, <2>6, <2>7 DEF max
<1> QED BY <1>2, <1>3

-----------------------------------------------------------------------------
(* FilesSound: the files hold what was written *)

FilesInv ==
    /\ FileType
    /\ Kept(disk, written, removed)
    /\ ~changed => Oldest(disk, removed, MaxOf(fcfg))

LEMMA WriteFiles ==
    ASSUME FilesInv, NEW ts \in {clock - 1, clock},
           NEW can_open \in BOOLEAN, NEW can_write \in BOOLEAN,
           WriteLog(ts, can_open, can_write)
    PROVE  FilesInv'
<1> DEFINE log == sent + 1
           n == NameOf(fcfg, ts)
           roll == Rolls(LenOf(log))
           D == RolledDisk(n, roll)
           R == AddTo(removed, n, RolledLogs(n, roll))
           E == WithHead(D, n, HeadOf(D, n))
           max == MaxOf(fcfg)
<1>0. FileType /\ Kept(disk, written, removed) /\ (~changed => Oldest(disk, removed, max))
  BY DEF FilesInv
<1>1. n \in FileNames /\ Closed \notin FileNames /\ ts \in Nat
  BY <1>0, NameIsName
<1>2. /\ sent \in Nat /\ log \in Nat \ {0} /\ \A y \in written : y < log
      /\ written \subseteq 1 .. log /\ written \cup {log} \subseteq 1 .. log
  BY <1>0 DEF FileType
<1>3. /\ D \in [FileNames -> Files] /\ R \in [FileNames -> SUBSET Nat]
      /\ Kept(D, written, R)
      /\ E \in [FileNames -> Files] /\ Kept(E, written, R)
      /\ E[n][0] # Gone
      /\ Oldest(disk, removed, max) => Oldest(D, R, max) /\ Oldest(E, R, max)
  BY <1>0, <1>1, OpenStages
<1>4. /\ sent' = log /\ UNCHANGED <<fcfg, clock, changed, events>>
      /\ \/ KeepWrote(log) \/ KeepFailed(log)
         \/ PathTooLong(ts) \/ OpenRefused(ts, D, R)
         \/ OpenWrote(ts, log, n, D, R, E) \/ OpenFailed(ts, log, n, D, R, E)
  BY <1>0, WriteCases
<1> HIDE DEF log, n, roll, D, R, E
<1> SUFFICES /\ disk' \in [FileNames -> Files]
             /\ writer' \in FileNames \cup {Closed} /\ (writer' # Closed => disk'[writer'][0] # Gone)
             /\ dlog' \in LogFields /\ dropped' \in Nat
             /\ written' \subseteq 1 .. log
             /\ removed' \in [FileNames -> SUBSET Nat]
             /\ Kept(disk', written', removed')
             /\ ~changed => Oldest(disk', removed', max)
  BY <1>0, <1>2, <1>4 DEF FilesInv, FileType
<1>5. ASSUME NEW l \in LogFields
      PROVE  Grown(Opened(l, ts, HeadOf(D, n)), log) \in LogFields
  <2>1. HeadOf(D, n) \in Seq(Nat \ {0})
    BY <1>1, <1>3, DepthFacts DEF HeadOf, Files, File
  <2>2. FileSize(HeadOf(D, n)) \in Nat
    BY <1>2, <2>1, SizeAppend
  <2> QED BY <1>1, <1>2, <2>2, OpenedFields, GrownFields
<1>6. dlog \in LogFields
  BY <1>0 DEF FileType
<1>13. max \in Nat
  BY <1>0, DepthFacts DEF FileType
<1>7. CASE KeepWrote(log)
  <2>1. /\ writer \in FileNames /\ disk[writer][0] # Gone /\ disk \in [FileNames -> Files]
        /\ removed \in [FileNames -> SUBSET Nat]
    BY <1>0, <1>7 DEF KeepWrote, FileType
  <2>6. Kept(WithLog(disk, writer, log), written \cup {log}, removed)
    BY <1>0, <1>2, <2>1, AppendKept
  <2>2. /\ WithLog(disk, writer, log) \in [FileNames -> Files]
        /\ WithLog(disk, writer, log)[writer][0] # Gone
    BY <1>0, <1>2, <2>1, AppendMoves, AppendHead
  <2>3. ~changed => Oldest(WithLog(disk, writer, log), removed, max)
    BY <1>0, <1>2, <1>13, <2>1, AppendOldest
  <2>4. Grown(dlog, log) \in LogFields
    BY <1>2, <1>6, GrownFields
  <2>5. /\ disk' = WithLog(disk, writer, log) /\ writer' = writer /\ written' = written \cup {log}
        /\ removed' = removed /\ dlog' = Grown(dlog, log) /\ dropped' = 0
    BY <1>7 DEF KeepWrote
  <2> QED BY <1>2, <2>1, <2>2, <2>3, <2>4, <2>5, <2>6
<1>8. CASE KeepFailed(log)
  BY <1>0, <1>2, <1>6, <1>8, GrownFields DEF KeepFailed, FileType
<1>9. CASE PathTooLong(ts)
  BY <1>0, <1>1, <1>2, <1>9 DEF PathTooLong, FileType
<1>10. CASE OpenRefused(ts, D, R)
  BY <1>0, <1>1, <1>2, <1>3, <1>10 DEF OpenRefused, FileType
<1>11. CASE OpenWrote(ts, log, n, D, R, E)
  <2>6. Kept(WithLog(E, n, log), written \cup {log}, R)
    BY <1>1, <1>2, <1>3, AppendKept
  <2>2. /\ WithLog(E, n, log) \in [FileNames -> Files]
        /\ WithLog(E, n, log)[n][0] # Gone
    BY <1>1, <1>2, <1>3, AppendMoves, AppendHead
  <2>3. ~changed => Oldest(WithLog(E, n, log), R, max)
    BY <1>0, <1>1, <1>2, <1>3, <1>13, AppendOldest
  <2>4. /\ disk' = WithLog(E, n, log) /\ writer' = n /\ written' = written \cup {log}
        /\ removed' = R /\ dropped' = 0 /\ dlog' \in LogFields
    BY <1>5, <1>11 DEF OpenWrote
  <2> QED BY <1>1, <1>2, <1>3, <2>2, <2>3, <2>4, <2>6
<1>12. CASE OpenFailed(ts, log, n, D, R, E)
  BY <1>0, <1>2, <1>3, <1>5, <1>12 DEF OpenFailed, FileType
<1> QED BY <1>4, <1>7, <1>8, <1>9, <1>10, <1>11, <1>12

LEMMA FilesInit == FileInit => FilesInv
<1> SUFFICES ASSUME FileInit PROVE FilesInv
  OBVIOUS
<1>1. /\ fcfg \in FileConfigs /\ disk = [m \in FileNames |-> [d \in Depths |-> Gone]]
      /\ writer = Closed /\ dlog = Log0 /\ clock = RETRY + 1 /\ sent = 0
      /\ written = {} /\ removed = [m \in FileNames |-> {}]
      /\ dropped = 0 /\ changed = FALSE /\ events = 0
  BY DEF FileInit
<1>2. RETRY \in Nat /\ MaxTime \in Nat /\ RETRY < MaxTime /\ clock \in Nat /\ clock > RETRY
      /\ clock <= MaxTime
  BY <1>1, FileBounds
<1>3. Gone \in File /\ disk \in [FileNames -> Files]
  BY <1>1 DEF File, Files
<1>4. dlog \in LogFields
  BY <1>1 DEF Log0, LogFields
<1>5. FileType
  BY <1>1, <1>2, <1>3, <1>4 DEF FileType
<1>6. \A m \in FileNames, d \in Depths : disk[m][d] = Gone
  BY <1>1
<1>7. DOMAIN Gone = {1} /\ LogsIn(Gone) = {}
  BY LogsInFile DEF Gone
<1>8. \A m \in FileNames : LogsOf(disk[m]) = {} /\ removed[m] = {}
  BY <1>1, <1>6, <1>7 DEF LogsOf
<1>9. \A m \in FileNames : InOrder(disk[m])
  BY <1>6, <1>7 DEF InOrder
<1>10. Kept(disk, written, removed)
  BY <1>1, <1>8, <1>9 DEF Kept
<1>11. Oldest(disk, removed, MaxOf(fcfg))
  BY <1>6, <1>8 DEF Oldest
<1> QED BY <1>5, <1>10, <1>11 DEF FilesInv

LEMMA FilesStep == FilesInv /\ [FileNext]_dvars => FilesInv'
<1> SUFFICES ASSUME FilesInv, [FileNext]_dvars PROVE FilesInv'
  OBVIOUS
<1>0. /\ FileType /\ Kept(disk, written, removed)
      /\ ~changed => Oldest(disk, removed, MaxOf(fcfg))
  BY DEF FilesInv
<1>1. ASSUME NEW ts \in {clock - 1, clock}, SkipLog(ts) PROVE FilesInv'
  <2>1. /\ sent' = sent + 1 /\ dropped' = ts
        /\ UNCHANGED <<fcfg, disk, writer, dlog, clock, written, removed, changed, events>>
    BY <1>1 DEF SkipLog
  <2>2. ts \in Nat
    BY <1>0, NameIsName
  <2>3. written \subseteq 1 .. sent + 1 /\ sent + 1 \in Nat
    BY <1>0 DEF FileType
  <2> QED BY <1>0, <2>1, <2>2, <2>3 DEF FilesInv, FileType
<1>2. ASSUME NEW ts \in {clock - 1, clock}, NEW can_open \in BOOLEAN, NEW can_write \in BOOLEAN,
             WriteLog(ts, can_open, can_write)
      PROVE  FilesInv'
  BY <1>2, WriteFiles
<1>3. CASE Tick
  <2>1. clock' = clock + 1 /\ clock < MaxTime
        /\ UNCHANGED <<fcfg, disk, writer, dlog, sent, written, removed, dropped, changed, events>>
    BY <1>3 DEF Tick
  <2>2. clock' \in Nat /\ clock' > RETRY /\ clock' <= MaxTime
    BY <1>0, <2>1, FileBounds DEF FileType
  <2> QED BY <1>0, <2>1, <2>2 DEF FilesInv, FileType
<1>4. CASE Reconfigure
  <2>1. fcfg' \in FileConfigs /\ changed' = TRUE /\ events' = events + 1
        /\ UNCHANGED <<disk, writer, dlog, clock, sent, written, removed, dropped>>
    BY <1>4 DEF Reconfigure
  <2> QED BY <1>0, <2>1 DEF FilesInv, FileType
<1>5. ASSUME NEW kept \in BOOLEAN, Restart(kept) PROVE FilesInv'
  <2>1. writer' = Closed /\ dropped' = 0 /\ events' = events + 1
        /\ UNCHANGED <<fcfg, disk, clock, sent, written, removed, changed>>
    BY <1>5 DEF Restart
  <2>2. dlog' = dlog \/ dlog' = Log0
    BY <1>5 DEF Restart
  <2>3. dlog' \in LogFields
    BY <1>0, <2>2 DEF FileType, Log0, LogFields
  <2> QED BY <1>0, <2>1, <2>3 DEF FilesInv, FileType
<1>6. CASE UNCHANGED dvars
  BY <1>0, <1>6 DEF FilesInv, FileType, dvars
<1> QED BY <1>1, <1>2, <1>3, <1>4, <1>5, <1>6 DEF FileNext

(* Whatever the disk refuses, the order of the time stamps, the changes of  *)
(* the configuration and the restarts are, every log fwrite has taken is in *)
(* one file of one name or in one rollback removed, the files of a name are *)
(* in order, and (while the configuration stays) rollback removed only the  *)
(* oldest: for every limit, every rollback depth and any number of logs.    *)
THEOREM FilesAreSound == FileSpec => []FilesSound
<1>1. FilesInv => FilesSound
  <2> SUFFICES ASSUME FilesInv PROVE FilesSound
    OBVIOUS
  <2>1. \A m \in FileNames : Logs(m) = LogsOf(disk[m])
    BY DEF Logs, LogsOf
  <2>2. {Logs(m) \cup removed[m] : m \in FileNames}
          = {LogsOf(disk[m]) \cup removed[m] : m \in FileNames}
    BY <2>1
  <2>3. FilesKept
    BY <2>1, <2>2 DEF FilesKept, FilesInv, Kept
  <2>4. OldestRemoved
    BY <2>1 DEF OldestRemoved, FilesInv, Oldest
  <2> QED BY <2>3, <2>4 DEF FilesSound
<1> QED BY <1>1, FilesInit, FilesStep, PTL DEF FileSpec

-----------------------------------------------------------------------------
(* DropsExplained: a log is dropped only after an open that failed *)

DropInv ==
    /\ FilesInv
    /\ dlog.error = 0 => dlog.try = 0
    /\ DropsExplained

LEMMA DropStep == DropInv /\ [FileNext]_dvars => DropInv'
<1> SUFFICES ASSUME DropInv, [FileNext]_dvars
             PROVE  (dlog.error = 0 => dlog.try = 0)' /\ DropsExplained'
  BY FilesStep DEF DropInv
<1>0. /\ FileType /\ Kept(disk, written, removed) /\ (dlog.error = 0 => dlog.try = 0)
      /\ (dropped # 0 => dlog.error # 0 /\ dlog.try + RETRY > dropped)
      /\ RETRY \in Nat /\ RETRY > 0 /\ dlog.try \in Nat
  BY FileBounds DEF DropInv, FilesInv, FileType, DropsExplained, LogFields
<1>1. ASSUME NEW ts \in {clock - 1, clock}, SkipLog(ts)
      PROVE  (dlog.error = 0 => dlog.try = 0)' /\ DropsExplained'
  <2>1. ts \in Nat /\ ts >= RETRY
    BY <1>0, NameIsName
  <2>2. dlog.try + RETRY > ts /\ dropped' = ts /\ dlog' = dlog
    BY <1>1 DEF SkipLog
  <2>3. dlog.error # 0
    BY <1>0, <2>1, <2>2
  <2> QED BY <1>0, <2>2, <2>3 DEF DropsExplained
<1>2. ASSUME NEW ts \in {clock - 1, clock}, NEW can_open \in BOOLEAN, NEW can_write \in BOOLEAN,
             WriteLog(ts, can_open, can_write)
      PROVE  (dlog.error = 0 => dlog.try = 0)' /\ DropsExplained'
  <2> DEFINE log == sent + 1
             n == NameOf(fcfg, ts)
             roll == Rolls(LenOf(log))
             D == RolledDisk(n, roll)
             R == AddTo(removed, n, RolledLogs(n, roll))
             E == WithHead(D, n, HeadOf(D, n))
  <2>1. \/ KeepWrote(log) \/ KeepFailed(log)
        \/ PathTooLong(ts) \/ OpenRefused(ts, D, R)
        \/ OpenWrote(ts, log, n, D, R, E) \/ OpenFailed(ts, log, n, D, R, E)
    BY <1>0, <1>2, WriteCases
  <2>2. ts \in Nat /\ n \in FileNames /\ log \in Nat /\ dlog \in LogFields
    BY <1>0, NameIsName DEF FileType
  <2>3. D \in [FileNames -> Files]
    BY <1>0, <2>2, OpenStages
  <2> HIDE DEF log, n, roll, D, R, E
  <2>4. ASSUME NEW l \in LogFields
        PROVE  Grown(Opened(l, ts, HeadOf(D, n)), log).try = 0
    <3>1. HeadOf(D, n) \in Seq(Nat \ {0})
      BY <2>2, <2>3, DepthFacts DEF HeadOf, Files, File
    <3>2. FileSize(HeadOf(D, n)) \in Nat
      <4>1. 1 \in Nat \ {0}
        OBVIOUS
      <4> QED BY <3>1, <4>1, SizeAppend
    <3>3. /\ Opened(l, ts, HeadOf(D, n)) \in LogFields
          /\ Opened(l, ts, HeadOf(D, n)).try = 0
      BY <2>2, <3>2, OpenedFields
    <3> QED BY <2>2, <3>3, GrownFields
  <2>5. CASE KeepWrote(log) \/ KeepFailed(log)
    <3>1. dlog' = Grown(dlog, log) /\ dropped' = 0
      BY <2>5 DEF KeepWrote, KeepFailed
    <3>2. dlog'.error = dlog.error /\ dlog'.try = dlog.try
      BY <2>2, <3>1, GrownFields
    <3> QED BY <1>0, <3>1, <3>2 DEF DropsExplained
  <2>6. CASE PathTooLong(ts) \/ OpenRefused(ts, D, R)
    <3>1. dlog'.error # 0 /\ dlog'.try = ts /\ dropped' = ts
      BY <2>6 DEF PathTooLong, OpenRefused
    <3> QED BY <1>0, <2>2, <3>1 DEF DropsExplained
  <2>7. CASE OpenWrote(ts, log, n, D, R, E) \/ OpenFailed(ts, log, n, D, R, E)
    <3>1. dlog'.try = 0 /\ dropped' = 0
      BY <2>4, <2>7 DEF OpenWrote, OpenFailed
    <3> QED BY <3>1 DEF DropsExplained
  <2> QED BY <2>1, <2>5, <2>6, <2>7
<1>3. CASE Tick \/ Reconfigure \/ UNCHANGED dvars
  <2>1. dlog' = dlog /\ dropped' = dropped
    BY <1>3 DEF Tick, Reconfigure, dvars
  <2> QED BY <1>0, <2>1 DEF DropsExplained
<1>4. ASSUME NEW kept \in BOOLEAN, Restart(kept)
      PROVE  (dlog.error = 0 => dlog.try = 0)' /\ DropsExplained'
  <2>1. dropped' = 0 /\ (dlog' = dlog \/ dlog' = Log0)
    BY <1>4 DEF Restart
  <2> QED BY <1>0, <2>1 DEF DropsExplained, Log0
<1> QED BY <1>1, <1>2, <1>3, <1>4 DEF FileNext

(* A log is dropped only within RETRY seconds of an open that failed and    *)
(* was not followed by one that succeeded: EnterProcOutFileDevice's early   *)
(* return never drops a log of a device that works.                         *)
THEOREM DropsAreExplained == FileSpec => []DropsExplained
<1>1. FileInit => DropInv
  <2> SUFFICES ASSUME FileInit PROVE DropInv
    OBVIOUS
  <2>1. dlog = Log0 /\ dropped = 0
    BY DEF FileInit
  <2> QED BY <2>1, FilesInit DEF DropInv, DropsExplained, Log0
<1>2. DropInv => DropsExplained
  BY DEF DropInv
<1> QED BY <1>1, <1>2, DropStep, PTL DEF FileSpec

-----------------------------------------------------------------------------
(* SizesSound: the size the device goes by is the file's *)

Limited == ~changed /\ ~fcfg.stuff_up /\ fcfg.limit > 0 /\ fcfg.rollback > 0

SizeInv ==
    /\ FilesInv
    /\ SizeKnown
    /\ Limited => Within(disk, fcfg.limit)

\* Gone and an empty file are within every limit.
LEMMA SmallFiles == Len(Gone) = 1 /\ \A limit \in Nat : FileSize(<<>>) <= limit
<1>1. Len(Gone) = 1
  BY DEF Gone
<1> QED BY <1>1, SizeEmpty

LEMMA WriteSizes ==
    ASSUME SizeInv, NEW ts \in {clock - 1, clock},
           NEW can_open \in BOOLEAN, NEW can_write \in BOOLEAN,
           WriteLog(ts, can_open, can_write)
    PROVE  SizeKnown' /\ (Limited => Within(disk, fcfg.limit))'
<1> DEFINE log == sent + 1
           n == NameOf(fcfg, ts)
           roll == Rolls(LenOf(log))
           D == RolledDisk(n, roll)
           R == AddTo(removed, n, RolledLogs(n, roll))
           E == WithHead(D, n, HeadOf(D, n))
           limit == fcfg.limit
<1>0. /\ FileType /\ Kept(disk, written, removed) /\ SizeKnown
      /\ Limited => Within(disk, limit)
  BY DEF SizeInv, FilesInv
<1>1. n \in FileNames /\ Closed \notin FileNames /\ ts \in Nat /\ limit \in Nat
      /\ log \in Nat \ {0} /\ dlog \in LogFields /\ disk \in [FileNames -> Files]
  BY <1>0, NameIsName, FileAssumption DEF FileType
<1>2. /\ D \in [FileNames -> Files] /\ E \in [FileNames -> Files]
      /\ E[n][0] = HeadOf(D, n) /\ E[n][0] # Gone
      /\ \A m \in FileNames, d \in Depths : E[m][d] = D[m][d] \/ E[m][d] = <<>>
      /\ \A m \in FileNames, d \in Depths :
           D[m][d] = Gone \/ \E e \in Depths : D[m][d] = disk[m][e]
      /\ roll => D[n][0] = Gone
  BY <1>0, <1>1, OpenStages
<1>3. /\ sent' = log /\ UNCHANGED <<fcfg, clock, changed, events>>
      /\ \/ KeepWrote(log) \/ KeepFailed(log)
         \/ PathTooLong(ts) \/ OpenRefused(ts, D, R)
         \/ OpenWrote(ts, log, n, D, R, E) \/ OpenFailed(ts, log, n, D, R, E)
  BY <1>0, WriteCases
<1>4. Limited => roll /\ (LimitOut(fcfg, dlog, LenOf(log)) <=> dlog.size + LenOf(log) > limit)
  BY DEF Limited, Rolls, LimitOut
<1> HIDE DEF log, n, roll, D, R, E
<1>5. Limited' <=> Limited
  BY <1>3 DEF Limited
<1>6. SUFFICES /\ writer' # Closed => dlog'.size = FileSize(disk'[writer'][0])
               /\ Limited => Within(disk', limit)
  BY <1>3, <1>5 DEF SizeKnown
<1>7. Limited => Within(D, limit) /\ Within(E, limit)
  <2> SUFFICES ASSUME Limited PROVE Within(D, limit) /\ Within(E, limit)
    OBVIOUS
  <2>1. Within(disk, limit)
    BY <1>0
  <2> HIDE DEF limit
  <2>2. Within(D, limit)
    BY <1>2, <2>1, SmallFiles DEF Within
  <2>3. Within(E, limit)
    BY <1>1, <1>2, <2>2, SmallFiles DEF Within
  <2> QED BY <2>2, <2>3
<1>8. 0 \in Depths
  BY DepthFacts
<1>9. CASE KeepWrote(log)
  <2>1. /\ writer \in FileNames /\ disk[writer][0] # Gone
        /\ dlog.size = FileSize(disk[writer][0])
    BY <1>0, <1>9 DEF KeepWrote, FileType, SizeKnown
  <2>2. /\ disk' = WithLog(disk, writer, log) /\ writer' = writer /\ dlog' = Grown(dlog, log)
        /\ ~LimitOut(fcfg, dlog, LenOf(log))
    BY <1>9 DEF KeepWrote
  <2>3. /\ disk[writer][0] \in Seq(Nat \ {0})
        /\ disk'[writer][0] = Append(disk[writer][0], log)
        /\ \A d \in Depths : d # 0 => disk'[writer][d] = disk[writer][d]
        /\ \A m \in FileNames : m # writer => disk'[m] = disk[m]
    BY <1>1, <2>1, <2>2, AppendHead
  <2>4. FileSize(disk'[writer][0]) = dlog.size + LenOf(log) /\ dlog.size + LenOf(log) \in Nat
    BY <1>1, <2>1, <2>3, SizeAppend
  <2>5. dlog'.size = dlog.size + LenOf(log)
    BY <1>1, <2>2, GrownFields
  <2>6. ASSUME Limited PROVE Within(disk', limit)
    <3>1. Within(disk, limit) /\ dlog.size + LenOf(log) <= limit
      BY <1>0, <1>1, <1>4, <2>2, <2>4, <2>6
    <3> HIDE DEF limit
    <3> QED BY <2>3, <2>4, <3>1 DEF Within
  <2> QED BY <2>2, <2>4, <2>5, <2>6
<1>10. CASE KeepFailed(log) \/ PathTooLong(ts)
  BY <1>0, <1>10 DEF KeepFailed, PathTooLong
<1>11. CASE OpenRefused(ts, D, R)
  BY <1>7, <1>11 DEF OpenRefused
<1>12. CASE OpenWrote(ts, log, n, D, R, E)
  <2>1. /\ disk' = WithLog(E, n, log) /\ writer' = n
    BY <1>12 DEF OpenWrote
  <2>2. PICK l \in LogFields : dlog' = Grown(Opened(l, ts, HeadOf(D, n)), log)
    BY <1>12 DEF OpenWrote
  <2>3. /\ E[n][0] \in Seq(Nat \ {0}) /\ disk'[n][0] = Append(E[n][0], log)
        /\ \A d \in Depths : d # 0 => disk'[n][d] = E[n][d]
        /\ \A m \in FileNames : m # n => disk'[m] = E[m]
    BY <1>1, <1>2, <2>1, AppendHead
  <2>4. /\ FileSize(E[n][0]) \in Nat
        /\ FileSize(disk'[n][0]) = FileSize(E[n][0]) + LenOf(log)
    BY <1>1, <2>3, SizeAppend
  <2>5. dlog'.size = FileSize(E[n][0]) + LenOf(log)
    <3>1. /\ Opened(l, ts, HeadOf(D, n)) \in LogFields
          /\ Opened(l, ts, HeadOf(D, n)).size = FileSize(E[n][0])
      BY <1>1, <1>2, <2>4, OpenedFields
    <3> QED BY <1>1, <2>2, <3>1, GrownFields
  <2>6. ASSUME Limited PROVE Within(disk', limit)
    <3>1. E[n][0] = <<>>
      BY <1>2, <1>4, <2>6 DEF HeadOf
    <3>2. Len(disk'[n][0]) = 1
      BY <2>3, <3>1
    <3> HIDE DEF limit
    <3>3. Within(E, limit)
      BY <1>7, <2>6
    <3>4. \A m \in FileNames, d \in Depths :
            disk'[m][d] = E[m][d] \/ (m = n /\ d = 0)
      BY <2>3
    <3> QED BY <3>2, <3>3, <3>4 DEF Within
  <2> QED BY <2>1, <2>4, <2>5, <2>6
<1>13. CASE OpenFailed(ts, log, n, D, R, E)
  BY <1>7, <1>13 DEF OpenFailed
<1> QED BY <1>3, <1>9, <1>10, <1>11, <1>12, <1>13

LEMMA SizeStep == SizeInv /\ [FileNext]_dvars => SizeInv'
<1> SUFFICES ASSUME SizeInv, [FileNext]_dvars
             PROVE  SizeKnown' /\ (Limited => Within(disk, fcfg.limit))'
  BY FilesStep DEF SizeInv
<1>0. SizeKnown /\ (Limited => Within(disk, fcfg.limit))
  BY DEF SizeInv
<1>1. ASSUME NEW ts \in {clock - 1, clock}, NEW can_open \in BOOLEAN, NEW can_write \in BOOLEAN,
             WriteLog(ts, can_open, can_write)
      PROVE  SizeKnown' /\ (Limited => Within(disk, fcfg.limit))'
  BY <1>1, WriteSizes
<1>2. CASE (\E ts \in {clock - 1, clock} : SkipLog(ts)) \/ Tick \/ UNCHANGED dvars
  <2>1. UNCHANGED <<fcfg, disk, writer, dlog, changed>>
    BY <1>2 DEF SkipLog, Tick, dvars
  <2> QED BY <1>0, <2>1 DEF SizeKnown, Limited, Within
<1>3. CASE Reconfigure
  <2>1. changed' = TRUE /\ UNCHANGED <<disk, writer, dlog>>
    BY <1>3 DEF Reconfigure
  <2> QED BY <1>0, <2>1 DEF SizeKnown, Limited
<1>4. CASE \E kept \in BOOLEAN : Restart(kept)
  <2>1. writer' = Closed /\ UNCHANGED <<fcfg, disk, changed>>
    BY <1>4 DEF Restart
  <2> QED BY <1>0, <2>1 DEF SizeKnown, Limited, Within
<1> QED BY <1>1, <1>2, <1>3, <1>4 DEF FileNext

(* While a file is open, the size the device counts is the file's, also for *)
(* a file that is continued; and so, for every limit, no file of a device   *)
(* with rollback and without stuff_up exceeds it unless one log does.       *)
THEOREM SizesAreSound == FileSpec => []SizesSound
<1>1. FileInit => SizeInv
  <2> SUFFICES ASSUME FileInit PROVE SizeInv
    OBVIOUS
  <2>1. writer = Closed /\ \A m \in FileNames, d \in Depths : disk[m][d] = Gone
    BY DEF FileInit
  <2> QED BY <2>1, FilesInit, SmallFiles DEF SizeInv, SizeKnown, Within
<1>2. SizeInv => SizesSound
  BY DEF SizeInv, SizesSound, LimitKept, Limited, Within
<1> QED BY <1>1, <1>2, SizeStep, PTL DEF FileSpec

-----------------------------------------------------------------------------
(* Channels, devices and what HotUpdateLogger makes of them *)

FilterFields == {"priority", "category", "category_extend", "category_mask",
                 "identify", "identify_extend", "identify_mask"}

LEMMA Fields ==
    /\ DOMAIN Filter0 = FilterFields
    /\ DOMAIN Channel0 = FilterFields \cup {"sync", "devices"}
    /\ Channel0.devices = <<>>
    /\ FilterFields \cup {"able", "in_type", "out_type", "path", "file"} \subseteq DOMAIN Device0
<1>1. DOMAIN Filter0 = FilterFields
  BY DEF Filter0, FilterFields
<1>2. DOMAIN Channel0 = FilterFields \cup {"sync", "devices"} /\ Channel0.devices = <<>>
  BY <1>1 DEF Channel0, FilterAnd
<1>3. FilterFields \cup {"able", "in_type", "out_type", "path", "file"} \subseteq DOMAIN Device0
  BY <1>1 DEF Device0, FilterAnd
<1> QED BY <1>1, <1>2, <1>3

\* A text the file can have: what ParseLogger returns, and Start.
Text == Parses \cup {Start}

LEMMA TextShape ==
    ASSUME NEW t \in Text
    PROVE  /\ Len(t.channels) \in Nat /\ DOMAIN t.channels = 1 .. Len(t.channels)
           /\ \A c \in DOMAIN t.channels : Parsed(t.channels[c])
<1>1. CASE t \in Parses
  BY <1>1, HotAssumption
<1>2. CASE t = Start
  <2>1. t.channels = <<>>
    BY <1>2 DEF Start
  <2> QED BY <2>1
<1> QED BY <1>1, <1>2 DEF Text

LEMMA SourceParsed ==
    ASSUME NEW t \in Text, NEW c \in Nat \ {0}
    PROVE  Parsed(Source(t, c))
<1>1. CASE c <= Len(t.channels)
  BY <1>1, TextShape DEF Source
<1>2. CASE ~(c <= Len(t.channels))
  <2>1. Source(t, c) = Channel0
    BY <1>2 DEF Source
  <2>2. Parsed(Channel0)
    BY Fields DEF Parsed
  <2> QED BY <2>1, <2>2
<1> QED BY <1>1, <1>2

\* m is a list of devices, and begins with those of b.
Updated(m, b) ==
    /\ Len(m) \in Nat /\ DOMAIN m = 1 .. Len(m) /\ Len(b) <= Len(m)
    /\ \A d \in DOMAIN m : /\ DOMAIN m[d] = DOMAIN Device0
                           /\ m[d].priority \in 0 .. PRIORITY_MAX - 1
    /\ \A d \in DOMAIN b : \A f \in FilterFields \cup {"able"} : m[d][f] = b[d][f]

LEMMA MergedDevices ==
    ASSUME NEW dst, NEW src, Parsed(dst), Parsed(src)
    PROVE  Updated(MergeDevices(dst.devices, src.devices), src.devices)
<1> SUFFICES ASSUME NEW m, m = MergeDevices(dst.devices, src.devices)
             PROVE  Updated(m, src.devices)
  OBVIOUS
<1> DEFINE a == dst.devices
           b == src.devices
           size == IF Len(a) > Len(b) THEN Len(a) ELSE Len(b)
<1>1. /\ Len(a) \in Nat /\ DOMAIN a = 1 .. Len(a) /\ Len(b) \in Nat /\ DOMAIN b = 1 .. Len(b)
      /\ \A d \in DOMAIN a : /\ DOMAIN a[d] = DOMAIN Device0
                             /\ a[d].priority \in 0 .. PRIORITY_MAX - 1
      /\ \A d \in DOMAIN b : /\ DOMAIN b[d] = DOMAIN Device0
                             /\ b[d].priority \in 0 .. PRIORITY_MAX - 1
  BY DEF Parsed
<1>2. size \in Nat /\ size >= Len(a) /\ size >= Len(b)
  BY <1>1
<1> DEFINE dev(i) == CASE i \in DOMAIN a /\ i \in DOMAIN b ->
                           [b[i] EXCEPT !.in_type = a[i].in_type, !.out_type = a[i].out_type,
                                        !.path = a[i].path, !.file = a[i].file]
                      [] i \in DOMAIN a /\ i \notin DOMAIN b -> a[i]
                      [] OTHER -> b[i]
<1>11. m = [i \in 1 .. size |-> dev(i)]
  BY DEF MergeDevices
<1> HIDE DEF a, b, size
<1>4. Len(m) = size /\ DOMAIN m = 1 .. size
  <2> HIDE DEF dev
  <2> QED BY <1>2, <1>11
<1>3. \A i \in 1 .. size : m[i] = dev(i)
  BY <1>11
<1>5. ASSUME NEW d \in 1 .. size, d \in DOMAIN a, d \in DOMAIN b
      PROVE  /\ DOMAIN m[d] = DOMAIN Device0 /\ m[d].priority = b[d].priority
             /\ \A f \in FilterFields \cup {"able"} : m[d][f] = b[d][f]
  <2>1. m[d] = [b[d] EXCEPT !.in_type = a[d].in_type, !.out_type = a[d].out_type,
                            !.path = a[d].path, !.file = a[d].file]
    BY <1>3, <1>5
  <2>2. DOMAIN m[d] = DOMAIN b[d] /\ DOMAIN b[d] = DOMAIN Device0
    BY <1>1, <1>5, <2>1
  <2>3. \A f \in FilterFields \cup {"able"} : f \in DOMAIN b[d]
    BY <2>2, Fields
  <2>4. \A f \in FilterFields \cup {"able"} : m[d][f] = b[d][f]
    BY <2>1, <2>3 DEF FilterFields
  <2> QED BY <2>2, <2>4 DEF FilterFields
<1>6. ASSUME NEW d \in 1 .. size, d \in DOMAIN a, d \notin DOMAIN b PROVE m[d] = a[d]
  BY <1>3, <1>6
<1>7. ASSUME NEW d \in 1 .. size, d \notin DOMAIN a PROVE m[d] = b[d] /\ d \in DOMAIN b
  BY <1>1, <1>2, <1>3, <1>7 DEF size
<1>8. \A d \in DOMAIN m : /\ DOMAIN m[d] = DOMAIN Device0
                          /\ m[d].priority \in 0 .. PRIORITY_MAX - 1
  BY <1>1, <1>4, <1>5, <1>6, <1>7
<1>9. \A d \in DOMAIN b : \A f \in FilterFields \cup {"able"} : m[d][f] = b[d][f]
  BY <1>1, <1>2, <1>5, <1>7
<1>10. b = src.devices
  BY DEF b
<1>12. Updated(m, b)
  BY <1>2, <1>4, <1>8, <1>9 DEF Updated
<1> QED BY <1>10, <1>12

\* A channel that is updated is the new one, but for what is left of the old.
LEMMA MergedChannel ==
    ASSUME NEW dst, NEW src, Parsed(dst), Parsed(src),
           NEW m, m = MergeChannel(dst, src)
    PROVE  Parsed(m) /\ Same(m, src)
<1>1. DOMAIN dst = FilterFields \cup {"sync", "devices"} /\ DOMAIN Channel0 = DOMAIN dst
  BY Fields DEF Parsed
<1>2. DOMAIN m = DOMAIN dst /\ m.devices = MergeDevices(dst.devices, src.devices)
  BY <1>1 DEF MergeChannel
<1>3. \A f \in FilterFields : m[f] = src[f]
  BY <1>1 DEF MergeChannel, FilterFields
<1> DEFINE n == m.devices
<1>7. n = MergeDevices(dst.devices, src.devices) /\ n = m.devices
  BY <1>2
<1> HIDE DEF n
<1>8. Updated(n, src.devices)
  BY <1>7, MergedDevices
<1>4. /\ Len(n) \in Nat /\ DOMAIN n = 1 .. Len(n)
      /\ Len(src.devices) <= Len(n)
      /\ \A d \in DOMAIN n : /\ DOMAIN n[d] = DOMAIN Device0
                             /\ n[d].priority \in 0 .. PRIORITY_MAX - 1
      /\ \A d \in DOMAIN src.devices : \A f \in FilterFields \cup {"able"} :
           n[d][f] = src.devices[d][f]
  BY <1>8 DEF Updated
<1>5. Parsed(m)
  BY <1>1, <1>2, <1>4, <1>7 DEF Parsed
<1>6. Same(m, src)
  BY <1>3, <1>4, <1>7, Fields DEF Same
<1> QED BY <1>5, <1>6

LEMMA SameSelf == ASSUME NEW chan, Parsed(chan) PROVE Same(chan, chan)
BY DEF Parsed, Same

\* A log that is let in has a device.
LEMMA BlockIsDispatch ==
    ASSUME NEW chan, Parsed(chan), NEW p \in Nat, NEW g, NEW i,
           NEW log, log = [priority |-> p, category |-> g, identify |-> i]
    PROVE  ~BlockInput(chan, log) <=> PassFilter(chan, log) /\ DispatchLog(chan, log) # {}
<1> DEFINE q == IF p >= PRIORITY_MAX THEN PRIORITY_MAX - 1 ELSE p
           safe == [priority |-> q, category |-> g, identify |-> i]
           takes(d, l) == /\ chan.devices[d].able /\ chan.devices[d].in_type = "null"
                          /\ PassFilter(chan.devices[d], l)
<1>1. [log EXCEPT !.priority = IF @ >= PRIORITY_MAX THEN PRIORITY_MAX - 1 ELSE @] = safe
  OBVIOUS
<1>2. ASSUME NEW d \in DOMAIN chan.devices
      PROVE  PassFilter(chan.devices[d], safe) <=> PassFilter(chan.devices[d], log)
  <2>1. chan.devices[d].priority \in 0 .. PRIORITY_MAX - 1
    BY DEF Parsed
  <2>2. q >= chan.devices[d].priority <=> p >= chan.devices[d].priority
    BY <2>1 DEF PRIORITY_MAX
  <2>3. /\ safe.priority = q /\ safe.category = g /\ safe.identify = i
        /\ log.priority = p /\ log.category = g /\ log.identify = i
    OBVIOUS
  <2> HIDE DEF q, safe
  <2> QED BY <2>2, <2>3 DEF PassFilter
<1>3. BlockInput(chan, log) <=> ~PassFilter(chan, log)
                                \/ ~\E d \in DOMAIN chan.devices : takes(d, safe)
  BY <1>1 DEF BlockInput
<1>4. DispatchLog(chan, log) # {} <=> \E d \in DOMAIN chan.devices : takes(d, log)
  BY DEF DispatchLog
<1>5. \A d \in DOMAIN chan.devices : takes(d, safe) <=> takes(d, log)
  BY <1>2
<1> HIDE DEF takes, safe
<1> QED BY <1>3, <1>4, <1>5

-----------------------------------------------------------------------------
(* ConfigWhole and LetInReaches: a channel is configured by one text *)

HotInv ==
    /\ versions \subseteq Text /\ yaml.conf \in versions
    /\ at \in [Chans -> {"none", "loop", "read", "lock", "finished"}]
    /\ read \in [Chans -> Text]
    /\ \A c \in Chans : at[c] = "lock" => read[c] \in versions
    /\ Len(channels) \in Nat /\ DOMAIN channels = 1 .. Len(channels)
    /\ \A c \in DOMAIN channels : Parsed(channels[c])
    /\ ConfigWhole

\* A text that is started with configures its channels.
LEMMA TextConfigures ==
    ASSUME NEW t \in Text, NEW c \in DOMAIN t.channels
    PROVE  Parsed(t.channels[c]) /\ Same(t.channels[c], Source(t, c))
<1>1. c <= Len(t.channels) /\ Parsed(t.channels[c])
  BY TextShape
<1>2. Source(t, c) = t.channels[c]
  BY <1>1 DEF Source
<1> QED BY <1>1, <1>2, SameSelf

LEMMA HotInitInv == HotInit => HotInv
<1> SUFFICES ASSUME HotInit PROVE HotInv
  OBVIOUS
<1>1. /\ yaml.conf = FirstParse /\ versions = {FirstParse} /\ channels = FirstParse.channels
      /\ at = [c \in Chans |-> IF c <= Len(FirstParse.channels) THEN "loop" ELSE "none"]
      /\ read = [c \in Chans |-> Start]
  BY DEF HotInit
<1>2. FirstParse \in Text /\ Start \in Text
  BY HotAssumption DEF Text
<1>3. /\ Len(channels) \in Nat /\ DOMAIN channels = 1 .. Len(channels)
      /\ \A c \in DOMAIN channels : Parsed(channels[c]) /\ Same(channels[c], Source(FirstParse, c))
  BY <1>1, <1>2, TextShape, TextConfigures
<1>4. \A c \in Chans : at[c] \in {"none", "loop"}
  BY <1>1
<1>5. at \in [Chans -> {"none", "loop", "read", "lock", "finished"}]
  BY <1>1
<1> QED BY <1>1, <1>2, <1>3, <1>4, <1>5 DEF HotInv, ConfigWhole

\* The threads move, and the texts stay.
LEMMA HotMoves ==
    ASSUME HotInv, NEW c \in Chans, NEW where \in {"none", "loop", "read", "finished"},
           at' = [at EXCEPT ![c] = where] \/ at' = [b \in Chans |-> where],
           UNCHANGED <<yaml, versions, channels, read>>
    PROVE  HotInv'
<1>1. \A b \in Chans : at'[b] = at[b] \/ at'[b] = where
  BY DEF HotInv
<1>2. at' \in [Chans -> {"none", "loop", "read", "lock", "finished"}]
  BY DEF HotInv
<1>3. \A b \in Chans : at'[b] = "lock" => read'[b] \in versions'
  BY <1>1 DEF HotInv
<1> QED BY <1>2, <1>3 DEF HotInv, ConfigWhole

LEMMA HotFile ==
    ASSUME HotInv, NEW t \in Text, yaml'.conf = t, versions' = versions \cup {t},
           UNCHANGED <<channels, at, read>>
    PROVE  HotInv'
BY DEF HotInv, ConfigWhole

\* HotUpdateLogger applies a text to its own channel.
LEMMA ApplyStep ==
    ASSUME HotInv, NEW c \in Chans, HotApply(c)
    PROVE  HotInv'
<1>1. /\ at[c] = "lock" /\ at' = [at EXCEPT ![c] = "loop"]
      /\ read' = [read EXCEPT ![c] = Start] /\ UNCHANGED <<yaml, versions>>
      /\ channels' \in {channels, [channels EXCEPT ![c] = MergeChannel(@, Source(read[c], c))]}
  BY DEF HotApply, Goto
<1>2. /\ versions \subseteq Text /\ yaml.conf \in versions /\ read[c] \in versions
      /\ at \in [Chans -> {"none", "loop", "read", "lock", "finished"}]
      /\ read \in [Chans -> Text] /\ Start \in Text
      /\ Len(channels) \in Nat /\ DOMAIN channels = 1 .. Len(channels)
      /\ \A b \in DOMAIN channels : Parsed(channels[b])
      /\ ConfigWhole
  BY <1>1 DEF HotInv, Text
<1>3. /\ at' \in [Chans -> {"none", "loop", "read", "lock", "finished"}]
      /\ read' \in [Chans -> Text]
      /\ \A b \in Chans : at'[b] = "lock" => read'[b] \in versions'
  BY <1>1, <1>2 DEF HotInv
<1>4. ASSUME channels' = channels PROVE HotInv'
  BY <1>1, <1>2, <1>3, <1>4 DEF HotInv, ConfigWhole
<1>5. ASSUME channels' = [channels EXCEPT ![c] = MergeChannel(@, Source(read[c], c))] PROVE HotInv'
  <2> DEFINE t == read[c]
             new == MergeChannel(channels[c], Source(t, c))
  <2>1. /\ DOMAIN channels' = DOMAIN channels /\ Len(channels') = Len(channels)
        /\ \A b \in DOMAIN channels : channels'[b] = IF b = c THEN new ELSE channels[b]
    <3> HIDE DEF new
    <3>1. channels' = [channels EXCEPT ![c] = new]
      BY <1>5 DEF new
    <3>2. DOMAIN channels' = 1 .. Len(channels)
      BY <1>2, <3>1
    <3>3. \A b \in DOMAIN channels : channels'[b] = IF b = c THEN new ELSE channels[b]
      BY <3>1
    <3> QED BY <1>2, <3>1, <3>2, <3>3
  <2>2. t \in Text /\ t \in versions /\ c \in Nat \ {0}
    BY <1>2, ConfigAssumption DEF Chans
  <2>3. ASSUME c \in DOMAIN channels PROVE Parsed(new) /\ Same(new, Source(t, c))
    <3>1. Parsed(channels[c]) /\ Parsed(Source(t, c))
      BY <1>2, <2>2, <2>3, SourceParsed
    <3> QED BY <3>1, MergedChannel
  <2> HIDE DEF new, t
  <2>4. \A b \in DOMAIN channels' : Parsed(channels'[b])
    BY <1>2, <2>1, <2>3
  <2>5. \A b \in DOMAIN channels' : \E v \in versions' : Same(channels'[b], Source(v, b))
    <3>1. ASSUME NEW b \in DOMAIN channels PROVE \E v \in versions : Same(channels'[b], Source(v, b))
      <4>1. CASE b = c
        BY <2>1, <2>2, <2>3, <3>1, <4>1
      <4>2. CASE b # c
        BY <1>2, <2>1, <3>1, <4>2 DEF ConfigWhole
      <4> QED BY <4>1, <4>2
    <3> QED BY <1>1, <2>1, <3>1
  <2> QED BY <1>1, <1>2, <1>3, <2>1, <2>4, <2>5 DEF HotInv, ConfigWhole
<1> QED BY <1>1, <1>4, <1>5

LEMMA HotStep == HotInv /\ [HotNext]_hvars => HotInv'
<1> SUFFICES ASSUME HotInv, [HotNext]_hvars PROVE HotInv'
  OBVIOUS
<1>1. CASE Truncate
  <2>1. yaml'.conf = Start /\ versions' = versions \cup {Start} /\ UNCHANGED <<channels, at, read>>
    BY <1>1, HotAssumption DEF Truncate
  <2>2. Start \in Text
    BY DEF Text
  <2> QED BY <2>1, <2>2, HotFile
<1>2. ASSUME NEW t \in Parses, Save(t) PROVE HotInv'
  <2>1. yaml'.conf = t /\ versions' = versions \cup {t} /\ UNCHANGED <<channels, at, read>>
    BY <1>2 DEF Save
  <2>2. t \in Text
    BY DEF Text
  <2> QED BY <2>1, <2>2, HotFile
<1>3. ASSUME NEW c \in Chans, HotCheck(c) PROVE HotInv'
  <2>1. at' = [at EXCEPT ![c] = "read"] /\ UNCHANGED <<yaml, versions, channels, read>>
    BY <1>3 DEF HotCheck, Goto
  <2> QED BY <2>1, HotMoves
<1>4. ASSUME NEW c \in Chans, Finish(c) PROVE HotInv'
  <2>1. at' = [at EXCEPT ![c] = "finished"] /\ UNCHANGED <<yaml, versions, channels, read>>
    BY <1>4 DEF Finish, Goto
  <2> QED BY <2>1, HotMoves
<1>5. ASSUME NEW c \in Chans, HotRead(c) PROVE HotInv'
  <2>1. /\ \E where \in {"lock", "loop"} :
             /\ at' = [at EXCEPT ![c] = where]
             /\ read' = [read EXCEPT ![c] = IF where = "lock" THEN yaml.conf ELSE Start]
        /\ UNCHANGED <<yaml, versions, channels>>
    BY <1>5 DEF HotRead, Goto
  <2>2. /\ at \in [Chans -> {"none", "loop", "read", "lock", "finished"}]
        /\ read \in [Chans -> Text] /\ yaml.conf \in versions /\ yaml.conf \in Text /\ Start \in Text
        /\ \A b \in Chans : at[b] = "lock" => read[b] \in versions
    BY DEF HotInv, Text
  <2>3. at' \in [Chans -> {"none", "loop", "read", "lock", "finished"}] /\ read' \in [Chans -> Text]
    BY <2>1, <2>2
  <2>4. \A b \in Chans : at'[b] = "lock" => read'[b] \in versions'
    BY <2>1, <2>2
  <2> QED BY <2>1, <2>3, <2>4 DEF HotInv, ConfigWhole
<1>6. ASSUME NEW c \in Chans, HotApply(c) PROVE HotInv'
  BY <1>6, ApplyStep
<1>7. CASE StopLock \/ UNCHANGED hvars
  <2>1. UNCHANGED <<yaml, versions, channels, at, read>>
    BY <1>7 DEF StopLock, hvars
  <2> QED BY <2>1 DEF HotInv, ConfigWhole
<1>8. CASE StopJoin
  <2>1. at' = [b \in Chans |-> "none"] /\ UNCHANGED <<yaml, versions, channels, read>>
    BY <1>8 DEF StopJoin
  <2>2. 1 \in Chans
    BY ConfigAssumption DEF Chans
  <2> QED BY <2>1, <2>2, HotMoves
<1>9. CASE LoadAndStart
  <2> DEFINE t == yaml.conf
  <2>1. /\ channels' = t.channels /\ UNCHANGED <<yaml, versions, read>>
        /\ at' = [c \in Chans |-> IF c <= Len(t.channels) THEN "loop" ELSE "none"]
    BY <1>9 DEF LoadAndStart
  <2>2. t \in versions /\ t \in Text
    BY DEF HotInv
  <2> HIDE DEF t
  <2>3. /\ Len(channels') \in Nat /\ DOMAIN channels' = 1 .. Len(channels')
        /\ \A c \in DOMAIN channels' : Parsed(channels'[c]) /\ Same(channels'[c], Source(t, c))
    BY <2>1, <2>2, TextShape, TextConfigures
  <2>4. /\ at' \in [Chans -> {"none", "loop", "read", "lock", "finished"}]
        /\ \A c \in Chans : at'[c] # "lock"
    BY <2>1
  <2> QED BY <2>1, <2>2, <2>3, <2>4 DEF HotInv, ConfigWhole
<1> QED BY <1>1, <1>2, <1>3, <1>4, <1>5, <1>6, <1>7, <1>8, <1>9 DEF HotNext, HotThread

(* However the threads of the channels, the saves of the file and StopLogger *)
(* interleave, a channel is configured by one text the file had: its own     *)
(* fields and those of all devices of that text, for any number of channels, *)
(* devices, saves and restarts.                                              *)
THEOREM ConfigIsWhole == HotSpec => []ConfigWhole
<1>1. HotInv => ConfigWhole
  BY DEF HotInv
<1> QED BY <1>1, HotInitInv, HotStep, PTL DEF HotSpec

(* Whatever was updated, what BlockInput lets into the queue is what         *)
(* DispatchLog gives to a device: no log is made for nothing, and none that  *)
(* a device would write is kept out.                                         *)
THEOREM LetInIsReached == HotSpec => []LetInReaches
<1>1. HotInv => LetInReaches
  <2> SUFFICES ASSUME HotInv PROVE LetInReaches
    OBVIOUS
  <2>1. ASSUME NEW c \in DOMAIN channels, NEW p \in {0, 1, 6, 7}, NEW g \in {0, 1, 2}, NEW i \in {0, 1},
               NEW log, log = [priority |-> p, category |-> g, identify |-> i]
        PROVE  ~BlockInput(channels[c], log) <=>
                 PassFilter(channels[c], log) /\ DispatchLog(channels[c], log) # {}
    <3>1. Parsed(channels[c]) /\ p \in Nat
      BY DEF HotInv
    <3> QED BY <2>1, <3>1, BlockIsDispatch
  <2> QED BY <2>1 DEF LetInReaches
<1> QED BY <1>1, HotInitInv, HotStep, PTL DEF HotSpec

-----------------------------------------------------------------------------
(* ParseLogger: the fold over the lines, line by line *)

\* What the parser has made of a text, before ParseLogger looks at the end.
Run(t) ==
    LET step(r, line) == CHOOSE u \in {ParseLine(s, line) : s \in {r}} : TRUE
    IN  FoldLeft(step, Start, t)

\* The recursion behind FoldLeft, over the subsets of the first n lines.
Folds(n, t, G) ==
    \A S \in SUBSET (1 .. n) :
      G[S] = IF S = {} THEN Start ELSE ParseLine(G[S \ {Max(S)}], t[Max(S)])

LEMMA LastOf ==
    ASSUME NEW n \in Nat, NEW S \in SUBSET (1 .. n), S # {}
    PROVE  Max(S) \in S /\ (\A i \in S : i <= Max(S)) /\ S \ {Max(S)} \in SUBSET (1 .. Max(S) - 1)
<1> DEFINE T == {n - i : i \in S}
<1>1. T \in SUBSET Nat /\ T # {}
  <2>1. \A i \in S : n - i \in Nat
    OBVIOUS
  <2>2. PICK i \in S : TRUE
    OBVIOUS
  <2>3. n - i \in T
    OBVIOUS
  <2>4. \A k \in T : k \in Nat
    BY <2>1
  <2> HIDE DEF T
  <2> QED BY <2>3, <2>4
<1>2. PICK m \in T : \A k \in T : m <= k
  <2> HIDE DEF T
  <2> QED BY <1>1, LeastNat
<1>3. PICK x \in S : m = n - x
  OBVIOUS
<1>4. \A i \in S : x >= i
  <2> TAKE i \in S
  <2>1. n - i \in T
    OBVIOUS
  <2> QED BY <1>2, <1>3, <2>1
<1>5. Max(S) \in S /\ \A i \in S : Max(S) >= i
  BY <1>4 DEF Max
<1> DEFINE y == Max(S)
<1> HIDE DEF y
<1>6. y \in S /\ \A i \in S : i <= y
  BY <1>5 DEF y
<1>7. S \ {y} \in SUBSET (1 .. y - 1)
  BY <1>6
<1> QED BY <1>6, <1>7 DEF y

\* There is such a function: one for the first k lines extends to those of k + 1.
LEMMA FoldExists ==
    ASSUME NEW n \in Nat, NEW t
    PROVE  \E G : DOMAIN G = SUBSET (1 .. n) /\ G = [S \in SUBSET (1 .. n) |-> G[S]] /\ Folds(n, t, G)
<1> DEFINE U == SUBSET (1 .. n)
           Does(k, G) == /\ G = [S \in U |-> G[S]]
                         /\ k <= n => Folds(k, t, G)
           Bad == {k \in Nat : ~ \E G : Does(k, G)}
<1>1. Does(0, [S \in U |-> Start])
  BY DEF Folds
<1>2. ASSUME NEW k \in Nat, NEW G, Does(k, G) PROVE \E H : Does(k + 1, H)
  <2> DEFINE H == [S \in U |-> IF S = {} THEN Start ELSE ParseLine(G[S \ {Max(S)}], t[Max(S)])]
  <2>1. H = [S \in U |-> H[S]]
    OBVIOUS
  <2>2. ASSUME k + 1 <= n, NEW S \in SUBSET (1 .. k + 1)
        PROVE  H[S] = IF S = {} THEN Start ELSE ParseLine(H[S \ {Max(S)}], t[Max(S)])
    <3>1. \A R \in SUBSET (1 .. k) : H[R] = G[R]
      <4>1. \A R \in SUBSET (1 .. k) : R \in U
        BY <2>2
      <4>2. \A R \in U : H[R] = IF R = {} THEN Start ELSE ParseLine(G[R \ {Max(R)}], t[Max(R)])
        OBVIOUS
      <4>3. Folds(k, t, G)
        BY <1>2, <2>2
      <4> HIDE DEF H, U
      <4> QED BY <4>1, <4>2, <4>3 DEF Folds
    <3>2. S \in U
      BY <2>2
    <3>3. S # {} => S \ {Max(S)} \in SUBSET (1 .. k)
      <4> SUFFICES ASSUME S # {} PROVE S \ {Max(S)} \in SUBSET (1 .. k)
        OBVIOUS
      <4> DEFINE y == Max(S)
      <4>0. k + 1 \in Nat
        OBVIOUS
      <4>1. y \in S /\ S \ {y} \in SUBSET (1 .. y - 1)
        BY <4>0, LastOf
      <4> HIDE DEF y
      <4>2. S \ {y} \in SUBSET (1 .. k)
        BY <4>1
      <4> QED BY <4>2 DEF y
    <3> QED BY <3>1, <3>2, <3>3
  <2>3. k + 1 <= n => Folds(k + 1, t, H)
    <3> HIDE DEF H
    <3> QED BY <2>2 DEF Folds
  <2> QED BY <2>1, <2>3
<1>3. Bad = {}
  <2> SUFFICES ASSUME Bad # {} PROVE FALSE
    OBVIOUS
  <2>1. PICK k \in Bad : \A m \in Bad : k <= m
    BY LeastNat
  <2> HIDE DEF Does
  <2>2. k # 0
    BY <1>1
  <2>3. k - 1 \in Nat /\ k - 1 \notin Bad
    BY <2>1, <2>2
  <2>4. PICK G : Does(k - 1, G)
    BY <2>3
  <2>5. \E H : Does((k - 1) + 1, H)
    BY <1>2, <2>3, <2>4
  <2>6. (k - 1) + 1 = k
    BY <2>1
  <2> QED BY <2>1, <2>5, <2>6
<1>4. PICK G : Does(n, G)
  <2> HIDE DEF Does
  <2> QED BY <1>3
<1>5. DOMAIN G = U
  BY <1>4
<1> QED BY <1>4, <1>5

\* And one only, also for a longer text.
LEMMA FoldsAgree ==
    ASSUME NEW n \in Nat, NEW m \in Nat, n <= m, NEW t, NEW u, \A i \in 1 .. n : t[i] = u[i],
           NEW G, Folds(n, t, G), NEW H, Folds(m, u, H)
    PROVE  \A S \in SUBSET (1 .. n) : G[S] = H[S]
<1> DEFINE Same1(k) == k <= n => \A S \in SUBSET (1 .. k) : G[S] = H[S]
           Bad == {k \in Nat : ~Same1(k)}
<1>1. \A S \in SUBSET (1 .. n) :
        /\ G[S] = IF S = {} THEN Start ELSE ParseLine(G[S \ {Max(S)}], t[Max(S)])
        /\ H[S] = IF S = {} THEN Start ELSE ParseLine(H[S \ {Max(S)}], u[Max(S)])
  BY DEF Folds
<1>2. Bad = {}
  <2> SUFFICES ASSUME Bad # {} PROVE FALSE
    OBVIOUS
  <2>1. PICK k \in Bad : \A j \in Bad : k <= j
    BY LeastNat
  <2>2. PICK S \in SUBSET (1 .. k) : k <= n /\ G[S] # H[S]
    OBVIOUS
  <2>3. S \in SUBSET (1 .. n) /\ S # {}
    BY <1>1, <2>2
  <2> DEFINE y == Max(S)
  <2>4. y \in S /\ S \ {y} \in SUBSET (1 .. y - 1)
    BY <2>3, LastOf
  <2>5. G[S] = ParseLine(G[S \ {y}], t[y]) /\ H[S] = ParseLine(H[S \ {y}], u[y])
    BY <1>1, <2>3
  <2> HIDE DEF y
  <2>6. y \in 1 .. k /\ y \in 1 .. n /\ t[y] = u[y]
    BY <2>3, <2>4
  <2>7. y - 1 \in Nat /\ y - 1 \notin Bad
    BY <2>1, <2>6
  <2>8. G[S \ {y}] = H[S \ {y}]
    BY <2>4, <2>6, <2>7
  <2> QED BY <2>2, <2>5, <2>6, <2>8
<1> QED BY <1>2

\* FoldLeft is that function at all the lines.
LEMMA RunFolds ==
    ASSUME NEW n \in Nat, NEW t, DOMAIN t = 1 .. n
    PROVE  \E G : Folds(n, t, G) /\ Run(t) = G[1 .. n]
<1> DEFINE Body(g) == [S \in SUBSET (DOMAIN t) |-> IF S = {} THEN Start
                         ELSE CHOOSE u \in {ParseLine(s, t[Max(S)]) : s \in {g[S \ {Max(S)}]}} : TRUE]
           iter == CHOOSE g : g = Body(g)
<1>1. Run(t) = iter[DOMAIN t]
  BY DEF Run, FoldLeft, MapThenFoldSet
<1>7. \A r, line : (CHOOSE u \in {ParseLine(s, line) : s \in {r}} : TRUE) = ParseLine(r, line)
  <2> TAKE r, line
  <2> DEFINE x == ParseLine(r, line)
  <2>1. {ParseLine(s, line) : s \in {r}} = {x}
    OBVIOUS
  <2> HIDE DEF x
  <2>2. (CHOOSE u \in {x} : TRUE) = x
    OBVIOUS
  <2> QED BY <2>1, <2>2 DEF x
<1>8. \A g : Body(g) = [S \in SUBSET (1 .. n) |-> IF S = {} THEN Start
                         ELSE ParseLine(g[S \ {Max(S)}], t[Max(S)])]
  BY <1>7
<1>2. PICK G : G = [S \in SUBSET (1 .. n) |-> G[S]] /\ Folds(n, t, G)
  BY FoldExists
<1>3. G = Body(G)
  <2> DEFINE F == [S \in SUBSET (1 .. n) |-> IF S = {} THEN Start
                         ELSE ParseLine(G[S \ {Max(S)}], t[Max(S)])]
  <2>1. Body(G) = F
    BY <1>8
  <2> HIDE DEF Body
  <2>2. G = F
    BY <1>2 DEF Folds
  <2> QED BY <2>1, <2>2
<1>4. iter = Body(iter)
  <2> HIDE DEF Body
  <2>1. \E g : g = Body(g)
    BY <1>3
  <2> QED BY <2>1, Zenon
<1> HIDE DEF iter
<1>5. Folds(n, t, iter)
  <2> DEFINE F == [S \in SUBSET (1 .. n) |-> IF S = {} THEN Start
                         ELSE ParseLine(iter[S \ {Max(S)}], t[Max(S)])]
  <2>2. iter = F
    BY <1>4, <1>8
  <2>1. \A S \in SUBSET (1 .. n) : iter[S] = IF S = {} THEN Start
                         ELSE ParseLine(iter[S \ {Max(S)}], t[Max(S)])
    BY <2>2
  <2> QED BY <2>1 DEF Folds
<1> QED BY <1>1, <1>5

\* The parser reads a text line by line.
LEMMA RunSteps ==
    /\ Run(<<>>) = Start
    /\ \A t \in Seq(LineSet), line \in LineSet : Run(Append(t, line)) = ParseLine(Run(t), line)
<1>1. Run(<<>>) = Start
  <2> DEFINE e == <<>>
             z0 == 0
  <2>1. DOMAIN e = 1 .. z0 /\ z0 \in Nat
    OBVIOUS
  <2> HIDE DEF e, z0
  <2>2. PICK G : Folds(z0, e, G) /\ Run(e) = G[1 .. z0]
    BY <2>1, RunFolds
  <2>3. 1 .. z0 = {}
    BY DEF z0
  <2>4. G[{}] = Start
    BY <2>2 DEF Folds
  <2> QED BY <2>2, <2>3, <2>4 DEF e
<1>2. ASSUME NEW t \in Seq(LineSet), NEW line \in LineSet
      PROVE  Run(Append(t, line)) = ParseLine(Run(t), line)
  <2> DEFINE u == Append(t, line)
             n == Len(t)
             m == n + 1
  <2>1. n \in Nat /\ m \in Nat /\ DOMAIN t = 1 .. n /\ DOMAIN u = 1 .. m
        /\ u[m] = line /\ \A i \in 1 .. n : t[i] = u[i]
    OBVIOUS
  <2>9. n <= m /\ m = n + 1
    BY <2>1
  <2> HIDE DEF u, n, m
  <2>2. PICK G : Folds(n, t, G) /\ Run(t) = G[1 .. n]
    BY <2>1, RunFolds
  <2>3. PICK H : Folds(m, u, H) /\ Run(u) = H[1 .. m]
    BY <2>1, RunFolds
  <2>4. \A S \in SUBSET (1 .. n) : G[S] = H[S]
    BY <2>1, <2>2, <2>3, <2>9, FoldsAgree
  <2> DEFINE S == 1 .. m
             y == Max(S)
  <2>5. S \in SUBSET (1 .. m) /\ S # {}
    <3>1. m \in S
      BY <2>1, <2>9
    <3> QED BY <3>1
  <2>6. y \in S /\ \A i \in S : i <= y
    BY <2>1, <2>5, LastOf
  <2>7. H[S] = ParseLine(H[S \ {y}], u[y])
    BY <2>3, <2>5 DEF Folds
  <2> HIDE DEF y
  <2>8. y = m /\ S \ {y} = 1 .. n
    <3>1. m \in S
      BY <2>1, <2>9
    <3>2. y = m
      BY <2>6, <3>1
    <3> QED BY <2>1, <2>9, <3>2
  <2> QED BY <2>1, <2>2, <2>3, <2>4, <2>7, <2>8 DEF u
<1> QED BY <1>1, <1>2

-----------------------------------------------------------------------------
(* The indentation of a text, and what one more line adds to it *)

OpenIn(t, i) ==
    {j \in 1 .. i - 1 :
       /\ t[j].key \in {"channel", "device"}
       /\ \A k \in j + 1 .. i : t[k].key = "" \/ t[k].blank > t[j].blank}
OwnerIn(t, i) ==
    IF OpenIn(t, i) = {} THEN 0 ELSE CHOOSE j \in OpenIn(t, i) : \A k \in OpenIn(t, i) : k <= j
LinesIn(t, key, owner) == {i \in DOMAIN t : t[i].key = key /\ OwnerIn(t, i) = owner}
\* The channel and the device that are still open at the end of the text.
OpenAt(t) ==
    {j \in DOMAIN t :
       /\ t[j].key \in {"channel", "device"}
       /\ \A k \in j + 1 .. Len(t) : t[k].key = "" \/ t[k].blank > t[j].blank}

LEMMA TopOf ==
    ASSUME NEW n \in Nat, NEW S \in SUBSET (0 .. n), S # {}
    PROVE  \E m \in S : \A i \in S : i <= m
<1> DEFINE T == {n - i : i \in S}
<1>1. T \in SUBSET Nat /\ T # {}
  <2>1. \A i \in S : n - i \in Nat
    OBVIOUS
  <2>2. PICK i \in S : TRUE
    OBVIOUS
  <2>3. n - i \in T
    OBVIOUS
  <2>4. \A k \in T : k \in Nat
    BY <2>1
  <2> HIDE DEF T
  <2> QED BY <2>3, <2>4
<1>2. PICK m \in T : \A k \in T : m <= k
  <2> HIDE DEF T
  <2> QED BY <1>1, LeastNat
<1>3. PICK x \in S : m = n - x
  OBVIOUS
<1>4. \A i \in S : i <= x
  <2> TAKE i \in S
  <2>1. n - i \in T
    OBVIOUS
  <2> QED BY <1>2, <1>3, <2>1
<1> QED BY <1>4

LEMMA OwnerIs ==
    ASSUME NEW t, NEW i \in Nat
    PROVE  \/ OpenIn(t, i) = {} /\ OwnerIn(t, i) = 0
           \/ OwnerIn(t, i) \in OpenIn(t, i) /\ \A k \in OpenIn(t, i) : k <= OwnerIn(t, i)
<1> SUFFICES ASSUME OpenIn(t, i) # {}
             PROVE  OwnerIn(t, i) \in OpenIn(t, i) /\ \A k \in OpenIn(t, i) : k <= OwnerIn(t, i)
  BY DEF OwnerIn
<1> DEFINE S == OpenIn(t, i)
<1>1. S \in SUBSET (0 .. i)
  <2>1. S \subseteq 1 .. i - 1
    BY DEF OpenIn
  <2> HIDE DEF S
  <2> QED BY <2>1
<1> HIDE DEF S
<1>2. \E m \in S : \A k \in S : k <= m
  BY <1>1, TopOf DEF S
<1> QED BY <1>2 DEF OwnerIn, S

LEMMA OwnerBefore ==
    ASSUME NEW t, NEW i \in Nat, i > 0 PROVE OwnerIn(t, i) \in 0 .. i - 1
<1>1. OpenIn(t, i) \subseteq 1 .. i - 1
  BY DEF OpenIn
<1> QED BY <1>1, OwnerIs

LEMMA OldOwner ==
    ASSUME NEW t \in Seq(LineSet), NEW line \in LineSet, NEW i \in 1 .. Len(t)
    PROVE  OwnerIn(Append(t, line), i) = OwnerIn(t, i)
<1> DEFINE u == Append(t, line)
<1>1. \A k \in 1 .. i : u[k] = t[k]
  OBVIOUS
<1> HIDE DEF u
<1>2. OpenIn(u, i) = OpenIn(t, i)
  <2>1. \A j \in 1 .. i - 1 : j \in 1 .. i /\ \A k \in j + 1 .. i : k \in 1 .. i
    OBVIOUS
  <2> QED BY <1>1, <2>1 DEF OpenIn
<1> QED BY <1>2 DEF OwnerIn, u

LEMMA NewLines ==
    ASSUME NEW t \in Seq(LineSet), NEW line \in LineSet, NEW key, NEW o
    PROVE  LET mine == line.key = key /\ OwnerIn(Append(t, line), Len(t) + 1) = o IN
           /\ mine => LinesIn(Append(t, line), key, o) = LinesIn(t, key, o) \cup {Len(t) + 1}
           /\ ~mine => LinesIn(Append(t, line), key, o) = LinesIn(t, key, o)
<1> DEFINE u == Append(t, line)
           n == Len(t)
<1>1. /\ n \in Nat /\ DOMAIN t = 1 .. n /\ DOMAIN u = 1 .. n + 1 /\ u[n + 1] = line
      /\ \A i \in 1 .. n : u[i] = t[i]
  OBVIOUS
<1>2. \A i \in 1 .. n : OwnerIn(u, i) = OwnerIn(t, i)
  BY OldOwner
<1> HIDE DEF u, n
<1>3. 1 .. n + 1 = (1 .. n) \cup {n + 1}
  BY <1>1
<1> DEFINE mine == line.key = key /\ OwnerIn(u, n + 1) = o
<1>4. /\ mine => LinesIn(u, key, o) = LinesIn(t, key, o) \cup {n + 1}
      /\ ~mine => LinesIn(u, key, o) = LinesIn(t, key, o)
  BY <1>1, <1>2, <1>3 DEF LinesIn
<1> QED BY <1>4 DEF u, n

\* The last line of u has joined those of its key and its owner.
Joins(t, u) ==
    \A key, o :
      IF u[Len(t) + 1].key = key /\ OwnerIn(u, Len(t) + 1) = o
      THEN LinesIn(u, key, o) = LinesIn(t, key, o) \cup {Len(t) + 1}
      ELSE LinesIn(u, key, o) = LinesIn(t, key, o)

LEMMA LinesNew ==
    ASSUME NEW t \in Seq(LineSet), NEW line \in LineSet
    PROVE  Joins(t, Append(t, line))
<1> SUFFICES ASSUME NEW key, NEW o
             PROVE  IF Append(t, line)[Len(t) + 1].key = key /\ OwnerIn(Append(t, line), Len(t) + 1) = o
                    THEN LinesIn(Append(t, line), key, o) = LinesIn(t, key, o) \cup {Len(t) + 1}
                    ELSE LinesIn(Append(t, line), key, o) = LinesIn(t, key, o)
  BY DEF Joins
<1>0. Append(t, line)[Len(t) + 1] = line
  OBVIOUS
<1>1. ASSUME line.key = key, OwnerIn(Append(t, line), Len(t) + 1) = o
      PROVE  LinesIn(Append(t, line), key, o) = LinesIn(t, key, o) \cup {Len(t) + 1}
  BY ONLY <1>1, NewLines, t \in Seq(LineSet), line \in LineSet
<1>2. ASSUME ~(line.key = key /\ OwnerIn(Append(t, line), Len(t) + 1) = o)
      PROVE  LinesIn(Append(t, line), key, o) = LinesIn(t, key, o)
  BY ONLY <1>2, NewLines, t \in Seq(LineSet), line \in LineSet
<1> QED BY <1>0, <1>1, <1>2

LEMMA NewOpen ==
    ASSUME NEW t \in Seq(LineSet), NEW line \in LineSet
    PROVE  /\ line.key = "" => OpenAt(Append(t, line)) = OpenAt(t)
           /\ line.key # "" =>
                /\ OpenIn(Append(t, line), Len(t) + 1) = {j \in OpenAt(t) : line.blank > t[j].blank}
                /\ OpenAt(Append(t, line)) = OpenIn(Append(t, line), Len(t) + 1) \cup
                     (IF line.key \in {"channel", "device"} THEN {Len(t) + 1} ELSE {})
<1> DEFINE u == Append(t, line)
           n == Len(t)
<1>1. /\ n \in Nat /\ n = Len(t) /\ DOMAIN t = 1 .. n /\ DOMAIN u = 1 .. n + 1 /\ Len(u) = n + 1
      /\ u[n + 1] = line /\ \A i \in 1 .. n : u[i] = t[i]
  OBVIOUS
<1> HIDE DEF u, n
<1>2. /\ 1 .. n + 1 = (1 .. n) \cup {n + 1} /\ (n + 1) - 1 = n /\ (n + 1) + 1 .. n + 1 = {}
      /\ \A j \in 1 .. n : j + 1 .. n + 1 = (j + 1 .. n) \cup {n + 1} /\ j + 1 .. n \subseteq 1 .. n
  BY <1>1
<1> DEFINE Deep(j) == line.key = "" \/ line.blank > t[j].blank
           Stays(j) == /\ t[j].key \in {"channel", "device"}
                       /\ \A k \in j + 1 .. n : t[k].key = "" \/ t[k].blank > t[j].blank
<1>3. \A j \in 1 .. n :
        (/\ u[j].key \in {"channel", "device"}
         /\ \A k \in j + 1 .. n + 1 : u[k].key = "" \/ u[k].blank > u[j].blank)
        <=> Stays(j) /\ Deep(j)
  <2> TAKE j \in 1 .. n
  <2>1. u[j] = t[j] /\ \A k \in j + 1 .. n : u[k] = t[k]
    BY <1>1, <1>2
  <2>2. \A k : k \in j + 1 .. n + 1 <=> k \in j + 1 .. n \/ k = n + 1
    BY <1>2
  <2> QED BY <1>1, <2>1, <2>2
<1>4. OpenAt(t) = {j \in 1 .. n : Stays(j)}
  BY <1>1 DEF OpenAt
<1>5. OpenIn(u, n + 1) = {j \in 1 .. n : Stays(j) /\ Deep(j)}
  <2> HIDE DEF Stays, Deep
  <2> QED BY <1>2, <1>3 DEF OpenIn
<1>6. OpenAt(u) = {j \in 1 .. n : Stays(j) /\ Deep(j)} \cup
                  (IF line.key \in {"channel", "device"} THEN {n + 1} ELSE {})
  <2>1. \A j : j \in OpenAt(u) <=>
          \/ j \in 1 .. n /\ Stays(j) /\ Deep(j)
          \/ j = n + 1 /\ line.key \in {"channel", "device"}
    <3> HIDE DEF Stays, Deep
    <3>1. \A j : j \in OpenAt(u) <=>
            /\ j \in (1 .. n) \cup {n + 1}
            /\ u[j].key \in {"channel", "device"}
            /\ \A k \in j + 1 .. n + 1 : u[k].key = "" \/ u[k].blank > u[j].blank
      BY <1>1, <1>2 DEF OpenAt
    <3>2. n + 1 \notin 1 .. n
      BY <1>1
    <3> QED BY <1>1, <1>2, <1>3, <3>1, <3>2
  <2> HIDE DEF Stays, Deep
  <2> QED BY <2>1
<1>7. line.key = "" => OpenAt(u) = OpenAt(t)
  <2> HAVE line.key = ""
  <2>1. line.key \notin {"channel", "device"} /\ \A j : Deep(j)
    OBVIOUS
  <2> HIDE DEF Stays, Deep
  <2> QED BY <1>4, <1>6, <2>1
<1>8. line.key # "" => OpenIn(u, n + 1) = {j \in OpenAt(t) : line.blank > t[j].blank}
  BY <1>4, <1>5
<1> QED BY <1>5, <1>6, <1>7, <1>8 DEF u, n

-----------------------------------------------------------------------------
(* Increasing lists of line numbers *)

Lists(q, S) ==
    /\ q \in Seq(Nat) /\ S = {q[a] : a \in DOMAIN q}
    /\ \A a, b \in DOMAIN q : a < b => q[a] < q[b]

LEMMA ListAppend ==
    ASSUME NEW q, NEW S, Lists(q, S), NEW x \in Nat, \A i \in S : i < x
    PROVE  Lists(Append(q, x), S \cup {x})
<1> DEFINE r == Append(q, x)
           m == Len(q)
<1>1. /\ m \in Nat /\ DOMAIN q = 1 .. m /\ DOMAIN r = 1 .. m + 1 /\ r \in Seq(Nat)
      /\ r[m + 1] = x /\ \A a \in 1 .. m : r[a] = q[a] /\ q[a] \in Nat
  BY DEF Lists
<1> HIDE DEF r, m
<1>2. \A a : a \in 1 .. m + 1 <=> a \in 1 .. m \/ a = m + 1
  BY <1>1
<1>3. S = {q[a] : a \in 1 .. m}
  BY <1>1 DEF Lists
<1>4. {r[a] : a \in 1 .. m + 1} = S \cup {x}
  BY <1>1, <1>2, <1>3
<1>5. ASSUME NEW a \in 1 .. m + 1, NEW b \in 1 .. m + 1, a < b PROVE r[a] < r[b]
  <2>1. a \in 1 .. m
    BY <1>1, <1>5
  <2>2. CASE b = m + 1
    BY <1>1, <1>3, <2>1, <2>2
  <2>3. CASE b \in 1 .. m
    BY <1>1, <1>5, <2>1, <2>3 DEF Lists
  <2> QED BY <1>2, <2>2, <2>3
<1> QED BY <1>1, <1>4, <1>5 DEF Lists, r

LEMMA EmptyList == Lists(<<>>, {})
BY DEF Lists

\* The k-th number of the list has rank k.
LEMMA ListRank ==
    ASSUME NEW q, NEW S, Lists(q, S)
    PROVE  Cardinality(S) = Len(q) /\ \A k \in DOMAIN q : Rank(S, q[k]) = k
<1> DEFINE m == Len(q)
           First(k) == {q[a] : a \in 1 .. k}
<1>1. m \in Nat /\ DOMAIN q = 1 .. m /\ S = First(m) /\ (\A a \in 1 .. m : q[a] \in Nat)
      /\ \A a, b \in 1 .. m : a < b => q[a] < q[b]
  BY DEF Lists
<1>2. ASSUME NEW k \in 0 .. m PROVE Cardinality(First(k)) = k
  <2> DEFINE T == First(k)
             I == 1 .. k
             f == [a \in I |-> q[a]]
  <2>1. \A a \in I : a \in 1 .. m
    BY <1>1
  <2>2. \A a, b \in I : a # b => q[a] # q[b]
    BY <1>1, <2>1
  <2>3. f \in Bijection(I, T)
    BY <2>2 DEF Bijection, Injection, Surjection, IsInjective
  <2>4. IsFiniteSet(I) /\ Cardinality(I) = k
    <3>1. 1 \in Int /\ k \in Int /\ (1 > k => k = 0)
      BY <1>1
    <3> QED BY <3>1, FS_Interval
  <2> HIDE DEF T, I, f
  <2>5. Cardinality(T) = Cardinality(I)
    BY <2>3, <2>4, FS_Bijection DEF ExistsBijection
  <2> QED BY <2>4, <2>5 DEF T
<1>3. Cardinality(S) = m
  BY <1>1, <1>2
<1>4. ASSUME NEW k \in 1 .. m PROVE Rank(S, q[k]) = k
  <2>1. {j \in S : j <= q[k]} = First(k)
    <3>1. \A a \in 1 .. m : q[a] <= q[k] <=> a \in 1 .. k
      <4> TAKE a \in 1 .. m
      <4>1. (a < k => q[a] < q[k]) /\ (k < a => q[k] < q[a]) /\ q[a] \in Nat /\ q[k] \in Nat
        BY <1>1
      <4> QED BY <4>1
    <3>2. \A a \in 1 .. k : a \in 1 .. m
      BY <1>1
    <3> QED BY <1>1, <3>1, <3>2
  <2>2. k \in 0 .. m
    OBVIOUS
  <2> HIDE DEF First
  <2> QED BY <1>2, <2>1, <2>2 DEF Rank
<1> QED BY <1>1, <1>3, <1>4

-----------------------------------------------------------------------------
(* What a line does to the parser's state *)

IsSeq(q) == \E S : q \in Seq(S)
Calls == [indent : Nat]

ChannelShape(c) ==
    /\ {"priority", "devices"} \subseteq DOMAIN c /\ IsSeq(c.devices)
    /\ \A d \in DOMAIN c.devices : "priority" \in DOMAIN c.devices[d]
ParserShape(s) ==
    /\ {"ret", "hot_update", "channels", "in"} \subseteq DOMAIN s
    /\ IsSeq(s.channels) /\ \A k \in DOMAIN s.channels : ChannelShape(s.channels[k])
    /\ s.in \in Seq(Calls) /\ Len(s.in) <= 2

\* A channel that differs in none of what is followed here.
Alike(c, e) ==
    /\ c.priority = e.priority /\ Len(c.devices) = Len(e.devices)
    /\ \A d \in 1 .. Len(e.devices) : c.devices[d].priority = e.devices[d].priority

LEMMA SeqIs ==
    ASSUME NEW q, IsSeq(q) PROVE Len(q) \in Nat /\ DOMAIN q = 1 .. Len(q)
BY DEF IsSeq

LEMMA SeqAppend ==
    ASSUME NEW q, IsSeq(q), NEW e
    PROVE  /\ IsSeq(Append(q, e)) /\ Len(Append(q, e)) = Len(q) + 1
           /\ DOMAIN Append(q, e) = 1 .. Len(q) + 1
           /\ Append(q, e)[Len(q) + 1] = e /\ \A i \in 1 .. Len(q) : Append(q, e)[i] = q[i]
<1>1. PICK S : q \in Seq(S)
  BY DEF IsSeq
<1> DEFINE T == S \cup {e}
<1>2. q \in Seq(T) /\ e \in T
  <2>1. Len(q) \in Nat /\ DOMAIN q = 1 .. Len(q) /\ \A i \in 1 .. Len(q) : q[i] \in T
    BY <1>1
  <2>2. q = [i \in 1 .. Len(q) |-> q[i]]
    BY <1>1
  <2>3. e \in T
    OBVIOUS
  <2> HIDE DEF T
  <2> QED BY ONLY <2>1, <2>2, <2>3
<1> HIDE DEF T
<1>3. Append(q, e) \in Seq(T)
  BY <1>2
<1> QED BY <1>2, <1>3 DEF IsSeq

LEMMA SeqUpdate ==
    ASSUME NEW q, IsSeq(q), NEW i \in DOMAIN q, NEW e
    PROVE  /\ IsSeq([q EXCEPT ![i] = e]) /\ Len([q EXCEPT ![i] = e]) = Len(q)
           /\ DOMAIN [q EXCEPT ![i] = e] = DOMAIN q
<1>1. PICK S : q \in Seq(S)
  BY DEF IsSeq
<1> DEFINE T == S \cup {e}
           r == [q EXCEPT ![i] = e]
<1>2. Len(q) \in Nat /\ DOMAIN q = 1 .. Len(q) /\ \A k \in 1 .. Len(q) : q[k] \in S
  BY <1>1
<1>3. DOMAIN r = 1 .. Len(q) /\ \A k \in 1 .. Len(q) : r[k] \in T
  BY <1>2
<1>4. r = [k \in 1 .. Len(q) |-> r[k]]
  BY <1>2
<1> HIDE DEF r, T
<1>5. r \in Seq(T)
  BY <1>2, <1>3, <1>4
<1>6. Len(r) = Len(q)
  BY <1>2, <1>3, <1>5
<1> QED BY <1>2, <1>3, <1>5, <1>6 DEF r, IsSeq

\* The calls that return at a line are those from the first one on that is
\* not indented less than the line.
LEMMA CallsLeft ==
    ASSUME NEW in \in Seq(Calls), NEW b \in Nat
    PROVE  LET out == CloseCalls(in, b) IN
           /\ out \in Seq(Calls) /\ Len(out) <= Len(in)
           /\ \A k \in 1 .. Len(out) : out[k] = in[k] /\ b > in[k].indent
           /\ Len(out) < Len(in) => b <= in[Len(out) + 1].indent
<1> DEFINE O == {n \in 0 .. Len(in) : \A k \in 1 .. n : b > in[k].indent}
           m == CHOOSE n \in O : \A k \in O : k <= n
<1>0. Len(in) \in Nat /\ \A k \in 1 .. Len(in) : in[k] \in Calls /\ in[k].indent \in Nat
  <2>1. Len(in) \in Nat /\ \A k \in 1 .. Len(in) : in[k] \in Calls
    OBVIOUS
  <2>2. \A c \in Calls : c.indent \in Nat
    BY DEF Calls
  <2> QED BY <2>1, <2>2
<1>1. O \in SUBSET (0 .. Len(in)) /\ 0 \in O
  BY <1>0
<1>2. \E n \in O : \A k \in O : k <= n
  <2> HIDE DEF O
  <2> QED BY <1>0, <1>1, TopOf
<1>3. m \in O /\ \A k \in O : k <= m
  <2> HIDE DEF O
  <2> QED BY <1>2
<1> DEFINE out == SubSeq(in, 1, m)
<1>4. CloseCalls(in, b) = out
  BY DEF CloseCalls
<1> HIDE DEF m
<1>5. m \in 0 .. Len(in) /\ \A k \in 1 .. m : b > in[k].indent
  BY <1>3
<1>6. out \in Seq(Calls) /\ Len(out) = m /\ \A k \in 1 .. m : out[k] = in[k]
  BY <1>0, <1>5
<1>7. ASSUME m < Len(in) PROVE b <= in[m + 1].indent
  <2> SUFFICES ASSUME b > in[m + 1].indent PROVE FALSE
    BY <1>0, <1>5, <1>7
  <2>1. m + 1 \in 0 .. Len(in)
    BY <1>0, <1>5, <1>7
  <2>2. \A k \in 1 .. m + 1 : b > in[k].indent
    BY <1>5
  <2>3. m + 1 \in O
    BY <2>1, <2>2
  <2> QED BY <1>3, <1>5, <2>3
<1> HIDE DEF out
<1> QED BY <1>4, <1>5, <1>6, <1>7

LEMMA FieldsOf ==
    \A key \in ChannelKeys \cup DeviceKeys :
      /\ (FieldOf(key) = "priority" <=> key = "priority") /\ FieldOf(key) # "devices"
      /\ \A val : Stored("priority", val) = val
<1>1. \A val : Stored("priority", val) = val
  BY DEF Stored
<1>2. \A key \in ChannelKeys \cup DeviceKeys :
        (FieldOf(key) = "priority" <=> key = "priority") /\ FieldOf(key) # "devices"
  BY DEF FieldOf, ChannelKeys, DeviceKeys, FilterKeys
<1> QED BY <1>1, <1>2

LEMMA NewShapes ==
    /\ Device0.priority = 0 /\ "priority" \in DOMAIN Device0
    /\ Channel0.priority = 0 /\ Channel0.devices = <<>> /\ ChannelShape(Channel0)
<1>1. Device0.priority = 0 /\ "priority" \in DOMAIN Device0
  BY DEF Device0, FilterAnd, Filter0
<1>2. /\ Channel0.priority = 0 /\ Channel0.devices = <<>>
      /\ {"priority", "devices"} \subseteq DOMAIN Channel0
  BY DEF Channel0, FilterAnd, Filter0
<1>3. IsSeq(<<>>) /\ DOMAIN <<>> = {}
  BY DEF IsSeq
<1> QED BY <1>1, <1>2, <1>3 DEF ChannelShape

\* A line outside of every channel.
LEMMA LoggerEffect ==
    ASSUME NEW s, ParserShape(s), s.ret = "PEC_NONE", NEW line, line.blank \in Nat,
           NEW r, r = LoggerLine(s, line)
    PROVE  /\ {"ret", "hot_update", "channels", "in"} \subseteq DOMAIN r
           /\ r.ret = "PEC_NONE" =>
                \/ /\ line.key = "channel" /\ line.val = Len(s.channels)
                   /\ r.channels = Append(s.channels, Channel0)
                   /\ r.in = <<[indent |-> line.blank]>>
                \/ /\ line.key \notin {"channel", "device", "priority"}
                   /\ r.channels = s.channels /\ r.in = s.in
<1>1. {"ret", "hot_update", "channels", "in"} \subseteq DOMAIN s /\ Len(s.channels) \in Nat
  BY SeqIs DEF ParserShape
<1>2. MAX_CHANNEL_SIZE \in Nat
  BY ConfigAssumption
<1>3. CASE line.key \notin LoggerKeys
  BY <1>1, <1>3 DEF LoggerLine, Fail
<1>4. CASE line.key = "channel"
  BY <1>1, <1>2, <1>4 DEF LoggerLine, Fail, LoggerKeys
<1>5. CASE line.key \in LoggerKeys /\ line.key # "channel"
  <2>1. line.key \notin {"channel", "device", "priority"}
    BY <1>5 DEF LoggerKeys
  <2> QED BY <1>1, <1>5, <2>1 DEF LoggerLine
<1> QED BY <1>3, <1>4, <1>5

ParserFields == {"ret", "hot_update", "channels", "in"}

\* A line of a channel c, which was old, has made it e.
ChannelMade(s, line, c, old, r, e) ==
    /\ r.channels = [s.channels EXCEPT ![c] = e] /\ ChannelShape(e)
    /\ \/ /\ line.key = "device" /\ r.in = Append(s.in, [indent |-> line.blank])
          /\ e.priority = old.priority /\ Len(e.devices) = Len(old.devices) + 1
          /\ \A d \in 1 .. Len(old.devices) : e.devices[d] = old.devices[d]
          /\ e.devices[Len(old.devices) + 1].priority = 0
       \/ /\ line.key = "priority" /\ r.in = s.in
          /\ e.priority = line.val /\ e.devices = old.devices
       \/ /\ line.key \notin {"channel", "device", "priority"} /\ r.in = s.in
          /\ e.priority = old.priority /\ e.devices = old.devices

\* The same for a line of its last device.
DeviceMade(s, line, c, old, r, e) ==
    /\ r.channels = [s.channels EXCEPT ![c] = e] /\ ChannelShape(e) /\ r.in = s.in
    /\ e.priority = old.priority /\ Len(e.devices) = Len(old.devices)
    /\ line.key \notin {"channel", "device"}
    /\ \A d \in 1 .. Len(old.devices) : e.devices[d].priority =
         IF d = Len(old.devices) /\ line.key = "priority" THEN line.val ELSE old.devices[d].priority

LEMMA ChannelEffect ==
    ASSUME NEW s, ParserShape(s), s.ret = "PEC_NONE", NEW line, line.blank \in Nat,
           NEW c, c = Len(s.channels), c > 0, NEW old, old = s.channels[c],
           NEW r, r = ChannelLine(s, line)
    PROVE  /\ ParserFields \subseteq DOMAIN r
           /\ r.ret = "PEC_NONE" => \E e : ChannelMade(s, line, c, old, r, e)
<1>1. /\ ParserFields \subseteq DOMAIN s /\ c \in Nat /\ DOMAIN s.channels = 1 .. c
      /\ c \in DOMAIN s.channels
  BY SeqIs DEF ParserShape, ParserFields
<1>2. /\ ChannelShape(old) /\ Len(old.devices) \in Nat /\ IsSeq(old.devices)
      /\ DOMAIN old.devices = 1 .. Len(old.devices)
  <2>1. ChannelShape(old)
    BY <1>1 DEF ParserShape
  <2> QED BY <2>1, SeqIs DEF ChannelShape
<1>3. MAX_DEVICE_SIZE \in Nat
  BY ConfigAssumption
<1>4. LastChannel(s) = old
  BY DEF LastChannel
<1> DEFINE n == Len(old.devices)
<1>5. CASE line.key \notin ChannelKeys
  <2>1. r = Fail(s, "PEC_UNDEFINED_CHANNEL_KEY")
    <3>1. line.key # "device"
      BY <1>5 DEF ChannelKeys
    <3> QED BY <1>5, <3>1 DEF ChannelLine
  <2> QED BY <1>1, <2>1 DEF Fail, ParserFields
<1>6. CASE line.key = "device"
  <2> DEFINE q == Append(old.devices, Device0)
             e == [old EXCEPT !.devices = q]
  <2>1. IsSeq(q) /\ Len(q) = n + 1 /\ DOMAIN q = 1 .. n + 1 /\ q[n + 1] = Device0
        /\ \A d \in 1 .. n : q[d] = old.devices[d]
    BY <1>2, SeqAppend
  <2>2. line.key \in ChannelKeys
    BY <1>6 DEF ChannelKeys
  <2>3. CASE n >= MAX_DEVICE_SIZE \/ line.val # n
    <3>1. r = Fail(s, "E_OUT_OF_DEVICE_SIZE") \/ r = Fail(s, "E_DEVICE_NOT_SEQUENCE")
      BY <1>2, <1>3, <1>4, <1>6, <2>2, <2>3 DEF ChannelLine
    <3> QED BY <1>1, <3>1 DEF Fail, ParserFields
  <2>4. CASE ~(n >= MAX_DEVICE_SIZE \/ line.val # n)
    <3>1. n < MAX_DEVICE_SIZE /\ line.val = n
      BY <1>2, <1>3, <2>4
    <3>2. r = [s EXCEPT !.channels[c].devices = Append(@, Device0),
                        !.in = Append(@, [indent |-> line.blank])]
      BY <1>4, <1>6, <2>2, <2>4, <3>1 DEF ChannelLine
    <3>3. r.channels = [s.channels EXCEPT ![c] = e] /\ r.in = Append(s.in, [indent |-> line.blank])
          /\ ParserFields \subseteq DOMAIN r
      BY <1>1, <3>2 DEF ParserFields
    <3> HIDE DEF q
    <3>4. e.priority = old.priority /\ e.devices = q /\ {"priority", "devices"} \subseteq DOMAIN e
      BY <1>2 DEF ChannelShape
    <3> HIDE DEF e
    <3>5. ASSUME NEW d \in 1 .. n + 1 PROVE "priority" \in DOMAIN q[d]
      <4>1. CASE d = n + 1
        BY <2>1, <4>1, NewShapes
      <4>2. CASE d \in 1 .. n
        BY <1>2, <2>1, <4>2 DEF ChannelShape
      <4> QED BY <1>2, <4>1, <4>2
    <3>6. ChannelShape(e)
      BY <2>1, <3>4, <3>5 DEF ChannelShape
    <3> QED BY <1>6, <2>1, <3>3, <3>4, <3>6, NewShapes DEF ChannelMade
  <2> QED BY <2>3, <2>4
<1>7. CASE line.key \in ChannelKeys /\ line.key # "device"
  <2> DEFINE e == [old EXCEPT ![FieldOf(line.key)] = Stored(line.key, line.val)]
  <2>1. r = [s EXCEPT !.channels[c][FieldOf(line.key)] = Stored(line.key, line.val)]
    BY <1>4, <1>7 DEF ChannelLine
  <2>2. r.channels = [s.channels EXCEPT ![c] = e] /\ r.in = s.in /\ ParserFields \subseteq DOMAIN r
    BY <1>1, <2>1 DEF ParserFields
  <2>3. /\ e.devices = old.devices /\ DOMAIN e = DOMAIN old
        /\ line.key = "priority" => e.priority = line.val
        /\ line.key # "priority" => e.priority = old.priority
    BY <1>2, <1>7, FieldsOf DEF ChannelShape
  <2> HIDE DEF e
  <2>4. ChannelShape(e)
    BY <1>2, <2>3 DEF ChannelShape
  <2>5. line.key # "channel"
    BY <1>7 DEF ChannelKeys, FilterKeys
  <2> QED BY <1>7, <2>2, <2>3, <2>4, <2>5 DEF ChannelMade
<1> QED BY <1>5, <1>6, <1>7

\* A line of a device.
LEMMA DeviceEffect ==
    ASSUME NEW s, ParserShape(s), s.ret = "PEC_NONE", NEW line, line.blank \in Nat,
           NEW c, c = Len(s.channels), c > 0, NEW old, old = s.channels[c],
           NEW n, n = Len(old.devices), n > 0,
           NEW r, r = DeviceLine(s, line)
    PROVE  /\ ParserFields \subseteq DOMAIN r
           /\ r.ret = "PEC_NONE" => \E e : DeviceMade(s, line, c, old, r, e)
<1>1. /\ ParserFields \subseteq DOMAIN s /\ c \in Nat /\ DOMAIN s.channels = 1 .. c
      /\ c \in DOMAIN s.channels
  BY SeqIs DEF ParserShape, ParserFields
<1>2. /\ ChannelShape(old) /\ n \in Nat /\ IsSeq(old.devices)
      /\ DOMAIN old.devices = 1 .. n /\ n \in DOMAIN old.devices
  <2>1. ChannelShape(old)
    BY <1>1 DEF ParserShape
  <2> QED BY <2>1, SeqIs DEF ChannelShape
<1>3. LastChannel(s) = old
  BY DEF LastChannel
<1>4. CASE line.key \notin DeviceKeys
  <2>1. r = Fail(s, "PEC_UNDEFINED_DEVICE_KEY")
    <3>1. line.key \notin {"out_type", "udp_addr"}
      BY <1>4 DEF DeviceKeys
    <3> QED BY <1>4, <3>1 DEF DeviceLine
  <2> QED BY <1>1, <2>1 DEF Fail, ParserFields
<1>5. CASE line.key \in DeviceKeys
  <2> DEFINE f == FieldOf(line.key)
             v == Stored(line.key, line.val)
             dev == [old.devices[n] EXCEPT ![f] = v]
             q == [old.devices EXCEPT ![n] = dev]
             e == [old EXCEPT !.devices = q]
             t == [s EXCEPT !.channels[c].devices[n][f] = v]
  <2>1. \/ r = t
        \/ \E err \in {"PEC_UNDEFINED_DEVICE_TYPE", "PEC_ILLEGAL_ADDR_IP", "PEC_ILLEGAL_ADDR_PORT"} :
             r = Fail(t, err)
    BY <1>3, <1>5 DEF DeviceLine
  <2>2. t.channels = [s.channels EXCEPT ![c] = e] /\ t.in = s.in /\ ParserFields \subseteq DOMAIN t
    BY <1>1 DEF ParserFields
  <2>3. /\ DOMAIN dev = DOMAIN old.devices[n]
        /\ dev.priority = IF line.key = "priority" THEN line.val ELSE old.devices[n].priority
    BY <1>2, <1>5, FieldsOf DEF ChannelShape
  <2> HIDE DEF dev
  <2>4. IsSeq(q) /\ Len(q) = n /\ DOMAIN q = 1 .. n
    BY <1>2, SeqUpdate
  <2>5. \A d \in 1 .. n : q[d] = IF d = n THEN dev ELSE old.devices[d]
    BY <1>2
  <2> HIDE DEF q
  <2>6. e.priority = old.priority /\ e.devices = q /\ {"priority", "devices"} \subseteq DOMAIN e
    BY <1>2 DEF ChannelShape
  <2> HIDE DEF e
  <2>7. \A d \in 1 .. n : "priority" \in DOMAIN q[d]
    BY <1>2, <2>3, <2>5 DEF ChannelShape
  <2>8. ChannelShape(e)
    BY <2>4, <2>6, <2>7 DEF ChannelShape
  <2>9. line.key \notin {"channel", "device"}
    BY <1>5 DEF DeviceKeys, FilterKeys
  <2>10. \A d \in 1 .. n : e.devices[d].priority =
           IF d = n /\ line.key = "priority" THEN line.val ELSE old.devices[d].priority
    BY <2>3, <2>5, <2>6
  <2> HIDE DEF t
  <2>11. CASE r = t
    <3>1. /\ ParserFields \subseteq DOMAIN r
          /\ r.channels = [s.channels EXCEPT ![c] = e] /\ r.in = s.in
      BY <2>2, <2>11
    <3>2. Len(e.devices) = n
      BY <2>4, <2>6
    <3>3. \A d \in 1 .. Len(old.devices) : e.devices[d].priority =
            IF d = Len(old.devices) /\ line.key = "priority" THEN line.val ELSE old.devices[d].priority
      BY <2>10
    <3>4. Len(e.devices) = Len(old.devices)
      BY <3>2
    <3>5. DeviceMade(s, line, c, old, r, e)
      BY ONLY <2>6, <2>8, <2>9, <3>1, <3>3, <3>4 DEF DeviceMade
    <3> QED BY ONLY <3>1, <3>5
  <2>12. CASE r # t
    BY <2>1, <2>2, <2>12 DEF Fail, ParserFields
  <2> QED BY <2>11, <2>12
<1> QED BY <1>4, <1>5

-----------------------------------------------------------------------------
(* The channels and devices of a text, by the numbers of their lines *)

\* The priority v is that of the last of the lines S, 0 if there is none.
Prio(t, S, v) ==
    \/ S = {} /\ v = 0
    \/ \E i \in S : (\A j \in S : j <= i) /\ v = t[i].val

\* The k-th channel h is that of line x and its devices are those of the lines q.
NamedAt(t, h, x, q, k) ==
    /\ OwnerIn(t, x) = 0 /\ t[x].val = k - 1
    /\ Lists(q, LinesIn(t, "device", x)) /\ Len(q) = Len(h.devices)
    /\ Prio(t, LinesIn(t, "priority", x), h.priority)
    /\ \A d \in DOMAIN q : Prio(t, LinesIn(t, "priority", q[d]), h.devices[d].priority)

LEMMA PrioKept ==
    ASSUME NEW t \in Seq(LineSet), NEW line \in LineSet, NEW u, u = Append(t, line),
           NEW S \in SUBSET (1 .. Len(t)), NEW v, Prio(t, S, v)
    PROVE  Prio(u, S, v)
<1>1. \A i \in S : u[i] = t[i]
  OBVIOUS
<1> QED BY <1>1 DEF Prio

LEMMA PrioAdd ==
    ASSUME NEW t \in Seq(LineSet), NEW line \in LineSet, NEW u, u = Append(t, line),
           NEW S \in SUBSET (1 .. Len(t))
    PROVE  Prio(u, S \cup {Len(t) + 1}, line.val)
<1> DEFINE x == Len(t) + 1
<1>1. u[x] = line /\ \A j \in S \cup {x} : j <= x
  OBVIOUS
<1> HIDE DEF x
<1>2. x \in S \cup {x}
  OBVIOUS
<1>3. Prio(u, S \cup {x}, line.val)
  BY <1>1, <1>2 DEF Prio
<1> QED BY <1>3 DEF x

LEMMA LinesOld ==
    ASSUME NEW t \in Seq(LineSet), NEW key, NEW o
    PROVE  LinesIn(t, key, o) \in SUBSET (1 .. Len(t))
BY DEF LinesIn

\* A line of the owner o is neither a device nor a priority of the channel of
\* line x, nor a priority of its devices q.
Foreign(line, o, x, q) ==
    /\ line.key = "device" => o # x
    /\ line.key = "priority" => o # x /\ \A d \in DOMAIN q : o # q[d]

\* Nothing changes for a channel to which the line does not belong.
LEMMA NamedKept ==
    ASSUME NEW t \in Seq(LineSet), NEW line \in LineSet, NEW u, u = Append(t, line),
           NEW n, n = Len(t), NEW o, o = OwnerIn(u, n + 1),
           NEW h, NEW x \in 1 .. n, NEW q, NEW k, NamedAt(t, h, x, q, k),
           Foreign(line, o, x, q), NEW g, Alike(g, h)
    PROVE  NamedAt(u, g, x, q, k)
<1>1. OwnerIn(u, x) = 0 /\ u[x].val = k - 1
  <2>1. u[x] = t[x]
    OBVIOUS
  <2>2. OwnerIn(u, x) = OwnerIn(t, x)
    BY OldOwner
  <2> QED BY <2>1, <2>2 DEF NamedAt
<1>2. /\ LinesIn(u, "device", x) = LinesIn(t, "device", x)
      /\ LinesIn(u, "priority", x) = LinesIn(t, "priority", x)
      /\ \A d \in DOMAIN q : LinesIn(u, "priority", q[d]) = LinesIn(t, "priority", q[d])
  <2>1. Joins(t, u)
    BY LinesNew
  <2>2. u[Len(t) + 1] = line
    OBVIOUS
  <2>3. \A key, y :
          IF line.key = key /\ o = y
          THEN LinesIn(u, key, y) = LinesIn(t, key, y) \cup {n + 1}
          ELSE LinesIn(u, key, y) = LinesIn(t, key, y)
    BY <2>1, <2>2 DEF Joins
  <2> QED BY <2>3 DEF Foreign
<1>3. /\ q \in Seq(Nat) /\ DOMAIN q = 1 .. Len(q) /\ Len(q) = Len(h.devices)
      /\ Len(g.devices) = Len(h.devices)
  BY DEF NamedAt, Lists, Alike
<1>4. /\ Prio(t, LinesIn(t, "priority", x), g.priority)
      /\ \A d \in DOMAIN q : Prio(t, LinesIn(t, "priority", q[d]), h.devices[d].priority)
  BY DEF NamedAt, Alike
<1>5. Prio(u, LinesIn(u, "priority", x), g.priority)
  BY <1>2, <1>4, PrioKept, LinesOld
<1>6. \A d \in DOMAIN q : g.devices[d].priority = h.devices[d].priority
  BY <1>3 DEF Alike
<1>7. ASSUME NEW d \in DOMAIN q PROVE Prio(u, LinesIn(u, "priority", q[d]), g.devices[d].priority)
  BY <1>2, <1>4, <1>6, PrioKept, LinesOld
<1> QED BY <1>1, <1>2, <1>3, <1>5, <1>7 DEF NamedAt

\* A new device of a channel.
LEMMA NamedDevice ==
    ASSUME NEW t \in Seq(LineSet), NEW line \in LineSet, NEW u, u = Append(t, line),
           NEW n, n = Len(t), NEW o, o = OwnerIn(u, n + 1),
           NEW h, NEW x \in 1 .. n, NEW q, NEW k, NamedAt(t, h, x, q, k),
           line.key = "device", o = x,
           NEW g, g.priority = h.priority, Len(g.devices) = Len(h.devices) + 1,
           \A d \in 1 .. Len(h.devices) : g.devices[d] = h.devices[d],
           g.devices[Len(h.devices) + 1].priority = 0
    PROVE  NamedAt(u, g, x, Append(q, n + 1), k)
<1> DEFINE r == Append(q, n + 1)
<1>0. n \in Nat /\ DOMAIN u = 1 .. n + 1
  OBVIOUS
<1>1. OwnerIn(u, x) = 0 /\ u[x].val = k - 1
  <2>1. u[x] = t[x]
    OBVIOUS
  <2>2. OwnerIn(u, x) = OwnerIn(t, x)
    BY OldOwner
  <2> QED BY <2>1, <2>2 DEF NamedAt
<1>2. /\ LinesIn(u, "device", x) = LinesIn(t, "device", x) \cup {n + 1}
      /\ \A y : LinesIn(u, "priority", y) = LinesIn(t, "priority", y)
  <2>1. Joins(t, u)
    BY LinesNew
  <2>2. u[Len(t) + 1] = line
    OBVIOUS
  <2>3. \A key, y :
          IF line.key = key /\ o = y
          THEN LinesIn(u, key, y) = LinesIn(t, key, y) \cup {n + 1}
          ELSE LinesIn(u, key, y) = LinesIn(t, key, y)
    BY <2>1, <2>2 DEF Joins
  <2> QED BY <2>3
<1>3. /\ q \in Seq(Nat) /\ DOMAIN q = 1 .. Len(q) /\ Len(q) = Len(h.devices) /\ Len(q) \in Nat
      /\ Lists(q, LinesIn(t, "device", x))
  BY DEF NamedAt, Lists
<1>4. /\ DOMAIN r = 1 .. Len(q) + 1 /\ Len(r) = Len(q) + 1 /\ r[Len(q) + 1] = n + 1
      /\ \A d \in 1 .. Len(q) : r[d] = q[d]
  BY <1>0, <1>3
<1>5. Lists(r, LinesIn(u, "device", x))
  <2> DEFINE S == LinesIn(t, "device", x)
             y == n + 1
  <2>1. y \in Nat /\ \A i \in S : i < y
    BY <1>0, LinesOld
  <2>2. Lists(q, S)
    BY <1>3
  <2> HIDE DEF S, y
  <2>3. Lists(Append(q, y), S \cup {y})
    BY <2>1, <2>2, ListAppend
  <2> QED BY <1>2, <2>3 DEF S, y
<1> HIDE DEF r
<1>6. Prio(u, LinesIn(u, "priority", x), g.priority)
  <2>1. Prio(t, LinesIn(t, "priority", x), g.priority)
    BY DEF NamedAt
  <2> QED BY <1>2, <2>1, PrioKept, LinesOld
<1>7. ASSUME NEW d \in DOMAIN r PROVE Prio(u, LinesIn(u, "priority", r[d]), g.devices[d].priority)
  <2>1. CASE d = Len(q) + 1
    <3>1. LinesIn(u, "priority", n + 1) = {}
      <4>1. ASSUME NEW i \in 1 .. n + 1 PROVE OwnerIn(u, i) # n + 1
        <5>1. i \in Nat /\ i > 0
          BY <1>0
        <5>2. OwnerIn(u, i) \in 0 .. i - 1
          BY <5>1, OwnerBefore
        <5> QED BY <1>0, <5>2
      <4> QED BY <1>0, <4>1 DEF LinesIn
    <3> QED BY <1>3, <1>4, <2>1, <3>1 DEF Prio
  <2>2. CASE d \in 1 .. Len(q)
    <3>1. r[d] = q[d] /\ g.devices[d] = h.devices[d]
      BY <1>3, <1>4, <2>2
    <3>2. Prio(t, LinesIn(t, "priority", q[d]), h.devices[d].priority)
      BY <1>3, <2>2 DEF NamedAt
    <3> QED BY <1>2, <3>1, <3>2, PrioKept, LinesOld
  <2> QED BY <1>3, <1>4, <2>1, <2>2
<1> QED BY <1>1, <1>3, <1>4, <1>5, <1>6, <1>7 DEF NamedAt, r

\* The channel g is h after a priority line of the owner o.
Given(g, h, x, q, o, val) ==
    /\ Len(g.devices) = Len(h.devices)
    /\ g.priority = IF o = x THEN val ELSE h.priority
    /\ \A d \in DOMAIN q : g.devices[d].priority = IF o = q[d] THEN val ELSE h.devices[d].priority

\* A priority of a channel, or of one of its devices.
LEMMA NamedPriority ==
    ASSUME NEW t \in Seq(LineSet), NEW line \in LineSet, NEW u, u = Append(t, line),
           NEW n, n = Len(t), NEW o, o = OwnerIn(u, n + 1),
           NEW h, NEW x \in 1 .. n, NEW q, NEW k, NamedAt(t, h, x, q, k),
           line.key = "priority",
           NEW g, Given(g, h, x, q, o, line.val)
    PROVE  NamedAt(u, g, x, q, k)
<1>1. OwnerIn(u, x) = 0 /\ u[x].val = k - 1
  <2>1. u[x] = t[x]
    OBVIOUS
  <2>2. OwnerIn(u, x) = OwnerIn(t, x)
    BY OldOwner
  <2> QED BY <2>1, <2>2 DEF NamedAt
<1>2. /\ LinesIn(u, "device", x) = LinesIn(t, "device", x)
      /\ \A y : LinesIn(u, "priority", y) = LinesIn(t, "priority", y) \cup (IF o = y THEN {n + 1} ELSE {})
  <2>1. Joins(t, u)
    BY LinesNew
  <2>2. u[Len(t) + 1] = line
    OBVIOUS
  <2>3. \A key, y :
          IF line.key = key /\ o = y
          THEN LinesIn(u, key, y) = LinesIn(t, key, y) \cup {n + 1}
          ELSE LinesIn(u, key, y) = LinesIn(t, key, y)
    BY <2>1, <2>2 DEF Joins
  <2> QED BY <2>3
<1>3. \A y, v, w : Prio(t, LinesIn(t, "priority", y), v) /\ w = (IF o = y THEN line.val ELSE v)
                   => Prio(u, LinesIn(u, "priority", y), w)
  <2> TAKE y, v, w
  <2> HAVE Prio(t, LinesIn(t, "priority", y), v) /\ w = (IF o = y THEN line.val ELSE v)
  <2> DEFINE S == LinesIn(t, "priority", y)
  <2>1. S \in SUBSET (1 .. Len(t)) /\ Prio(t, S, v)
    BY LinesOld
  <2>2. LinesIn(u, "priority", y) = S \cup (IF o = y THEN {Len(t) + 1} ELSE {})
    BY <1>2
  <2> HIDE DEF S
  <2>3. CASE o = y
    <3>1. LinesIn(u, "priority", y) = S \cup {Len(t) + 1} /\ w = line.val
      BY <2>2, <2>3
    <3> QED BY <2>1, <3>1, PrioAdd
  <2>4. CASE o # y
    <3>1. LinesIn(u, "priority", y) = S /\ w = v
      BY <2>2, <2>4
    <3> QED BY <2>1, <3>1, PrioKept
  <2> QED BY <2>3, <2>4
<1>4. Prio(u, LinesIn(u, "priority", x), g.priority)
  BY <1>3 DEF NamedAt, Given
<1>5. ASSUME NEW d \in DOMAIN q PROVE Prio(u, LinesIn(u, "priority", q[d]), g.devices[d].priority)
  BY <1>3 DEF NamedAt, Given
<1>6. Lists(q, LinesIn(u, "device", x)) /\ Len(q) = Len(g.devices)
  BY <1>2 DEF NamedAt, Given
<1> QED BY <1>1, <1>4, <1>5, <1>6 DEF NamedAt

\* A new channel.
LEMMA NamedNew ==
    ASSUME NEW t \in Seq(LineSet), NEW line \in LineSet, NEW u, u = Append(t, line),
           NEW n, n = Len(t), OwnerIn(u, n + 1) = 0, NEW k, line.val = k - 1
    PROVE  NamedAt(u, Channel0, n + 1, <<>>, k)
<1>1. n \in Nat /\ DOMAIN u = 1 .. n + 1 /\ u[n + 1] = line
  OBVIOUS
<1>2. \A key : LinesIn(u, key, n + 1) = {}
  <2>1. ASSUME NEW i \in 1 .. n + 1 PROVE OwnerIn(u, i) # n + 1
    <3>1. i \in Nat /\ i > 0
      BY <1>1
    <3>2. OwnerIn(u, i) \in 0 .. i - 1
      BY <3>1, OwnerBefore
    <3> QED BY <1>1, <3>2
  <2> QED BY <1>1, <2>1 DEF LinesIn
<1>3. Lists(<<>>, {}) /\ DOMAIN <<>> = {}
  BY EmptyList
<1>4. Channel0.priority = 0 /\ Channel0.devices = <<>>
  BY NewShapes
<1>5. Prio(u, LinesIn(u, "priority", n + 1), Channel0.priority)
  BY <1>2, <1>4 DEF Prio
<1> QED BY <1>1, <1>2, <1>3, <1>4, <1>5 DEF NamedAt

\* The lines of the channels are C, those of the devices of the k-th are D[k].
ChannelLines(t) == {i \in DOMAIN t : t[i].key = "channel"}
Named(t, H, C, D) ==
    /\ Lists(C, ChannelLines(t)) /\ Len(C) = Len(H) /\ IsSeq(D) /\ Len(D) = Len(C)
    /\ \A k \in 1 .. Len(C) : NamedAt(t, H[k], C[k], D[k], k)

LEMMA NamedFacts ==
    ASSUME NEW t \in Seq(LineSet), NEW H, NEW C, NEW D, Named(t, H, C, D)
    PROVE  /\ Len(C) \in Nat /\ DOMAIN C = 1 .. Len(C) /\ DOMAIN D = 1 .. Len(C)
           /\ \A k \in 1 .. Len(C) :
                /\ C[k] \in 1 .. Len(t) /\ t[C[k]].key = "channel"
                /\ DOMAIN D[k] = 1 .. Len(D[k]) /\ Len(D[k]) \in Nat
                /\ Len(D[k]) = Len(H[k].devices)
                /\ \A d \in 1 .. Len(D[k]) : /\ D[k][d] \in 1 .. Len(t) /\ t[D[k][d]].key = "device"
                                             /\ OwnerIn(t, D[k][d]) = C[k] /\ C[k] < D[k][d]
<1>1. Len(C) \in Nat /\ DOMAIN C = 1 .. Len(C) /\ C \in Seq(Nat)
  BY DEF Named, Lists
<1>2. DOMAIN D = 1 .. Len(C)
  BY SeqIs DEF Named
<1>3. ASSUME NEW k \in 1 .. Len(C) PROVE C[k] \in ChannelLines(t)
  BY <1>1, <1>3 DEF Named, Lists
<1>4. ASSUME NEW k \in 1 .. Len(C)
      PROVE  /\ C[k] \in 1 .. Len(t) /\ t[C[k]].key = "channel"
             /\ DOMAIN D[k] = 1 .. Len(D[k]) /\ Len(D[k]) \in Nat
             /\ Len(D[k]) = Len(H[k].devices)
             /\ \A d \in 1 .. Len(D[k]) : /\ D[k][d] \in 1 .. Len(t) /\ t[D[k][d]].key = "device"
                                          /\ OwnerIn(t, D[k][d]) = C[k] /\ C[k] < D[k][d]
  <2>1. C[k] \in 1 .. Len(t) /\ t[C[k]].key = "channel"
    BY <1>3 DEF ChannelLines
  <2>2. Lists(D[k], LinesIn(t, "device", C[k])) /\ Len(D[k]) = Len(H[k].devices)
    BY DEF Named, NamedAt
  <2>3. DOMAIN D[k] = 1 .. Len(D[k]) /\ Len(D[k]) \in Nat
    BY <2>2 DEF Lists
  <2>4. ASSUME NEW d \in 1 .. Len(D[k])
        PROVE  /\ D[k][d] \in 1 .. Len(t) /\ t[D[k][d]].key = "device"
               /\ OwnerIn(t, D[k][d]) = C[k] /\ C[k] < D[k][d]
    <3>1. D[k][d] \in LinesIn(t, "device", C[k])
      BY <2>2, <2>3 DEF Lists
    <3>2. /\ D[k][d] \in 1 .. Len(t) /\ t[D[k][d]].key = "device"
          /\ OwnerIn(t, D[k][d]) = C[k]
      BY <3>1 DEF LinesIn
    <3> DEFINE x == D[k][d]
    <3>3. x \in Nat /\ x > 0 /\ OwnerIn(t, x) = C[k]
      BY <3>2
    <3> HIDE DEF x
    <3>4. OwnerIn(t, x) \in 0 .. x - 1
      BY <3>3, OwnerBefore
    <3>5. C[k] < x
      BY <3>3, <3>4
    <3> QED BY <3>2, <3>5 DEF x
  <2> QED BY <2>1, <2>2, <2>3, <2>4
<1> QED BY <1>1, <1>2, <1>4

LEMMA Distinct ==
    ASSUME NEW t \in Seq(LineSet), NEW H, NEW C, NEW D, Named(t, H, C, D)
    PROVE  \A k, j \in 1 .. Len(C) :
             /\ C[k] = C[j] => k = j
             /\ \A d \in 1 .. Len(D[j]) : C[k] # D[j][d]
             /\ \A d \in 1 .. Len(D[j]), e \in 1 .. Len(D[k]) : D[j][d] = D[k][e] => k = j /\ d = e
<1>1. \A a, b \in 1 .. Len(C) : a < b => C[a] < C[b]
  BY NamedFacts DEF Named, Lists
<1>2. \A k, j \in 1 .. Len(C) : C[k] = C[j] => k = j
  <2> TAKE k, j \in 1 .. Len(C)
  <2> HAVE C[k] = C[j]
  <2>1. C[k] \in Nat /\ Len(C) \in Nat
    BY NamedFacts
  <2> QED BY <1>1, <2>1
<1>3. ASSUME NEW k \in 1 .. Len(C), NEW j \in 1 .. Len(C),
             NEW d \in 1 .. Len(D[j]), NEW e \in 1 .. Len(D[k]), D[j][d] = D[k][e]
      PROVE  k = j /\ d = e
  <2>1. OwnerIn(t, D[j][d]) = C[j] /\ OwnerIn(t, D[k][e]) = C[k]
    BY NamedFacts
  <2>2. k = j
    BY <1>2, <1>3, <2>1
  <2>3. D[k][d] \in Nat /\ DOMAIN D[k] = 1 .. Len(D[k]) /\ Len(D[k]) \in Nat
    BY <2>2, NamedFacts
  <2>4. \A a, b \in 1 .. Len(D[k]) : a < b => D[k][a] < D[k][b]
    BY <2>3 DEF Named, NamedAt, Lists
  <2> QED BY <1>3, <2>2, <2>3, <2>4
<1>4. \A k, j \in 1 .. Len(C) : \A d \in 1 .. Len(D[j]) : C[k] # D[j][d]
  <2> TAKE k, j \in 1 .. Len(C)
  <2> TAKE d \in 1 .. Len(D[j])
  <2>1. t[C[k]].key = "channel" /\ t[D[j][d]].key = "device"
    BY NamedFacts
  <2> QED BY <2>1
<1> QED BY <1>2, <1>3, <1>4

LEMMA ChannelLinesNew ==
    ASSUME NEW t \in Seq(LineSet), NEW line \in LineSet
    PROVE  ChannelLines(Append(t, line)) =
             ChannelLines(t) \cup (IF line.key = "channel" THEN {Len(t) + 1} ELSE {})
<1> DEFINE u == Append(t, line)
           n == Len(t)
<1>1. /\ n \in Nat /\ DOMAIN t = 1 .. n /\ DOMAIN u = 1 .. n + 1 /\ u[n + 1] = line
      /\ \A i \in 1 .. n : u[i] = t[i]
  OBVIOUS
<1> HIDE DEF u, n
<1>2. 1 .. n + 1 = (1 .. n) \cup {n + 1}
  BY <1>1
<1>3. ChannelLines(u) = ChannelLines(t) \cup (IF line.key = "channel" THEN {n + 1} ELSE {})
  BY <1>1, <1>2 DEF ChannelLines
<1> QED BY <1>3 DEF u, n

\* The channels G are H after a line of the owner o that opens nothing: at most
\* the priority of the owner is another.
Rewritten(line, o, H, G, C, D) ==
    /\ Len(G) = Len(H)
    /\ \A k \in 1 .. Len(C) :
         /\ Len(G[k].devices) = Len(H[k].devices)
         /\ G[k].priority = IF line.key = "priority" /\ o = C[k] THEN line.val ELSE H[k].priority
         /\ \A d \in 1 .. Len(H[k].devices) : G[k].devices[d].priority =
              IF line.key = "priority" /\ o = D[k][d] THEN line.val ELSE H[k].devices[d].priority

\* A line that opens nothing.
LEMMA SameLines ==
    ASSUME NEW t \in Seq(LineSet), NEW line \in LineSet, NEW u, u = Append(t, line),
           NEW n, n = Len(t), NEW o, o = OwnerIn(u, n + 1),
           NEW H, NEW C, NEW D, Named(t, H, C, D), line.key \notin {"channel", "device"},
           NEW G, Rewritten(line, o, H, G, C, D)
    PROVE  Named(u, G, C, D)
<1>1. ChannelLines(u) = ChannelLines(t)
  BY ChannelLinesNew
<1>2. ASSUME NEW k \in 1 .. Len(C) PROVE NamedAt(u, G[k], C[k], D[k], k)
  <2>1. /\ NamedAt(t, H[k], C[k], D[k], k) /\ C[k] \in 1 .. n
        /\ DOMAIN D[k] = 1 .. Len(H[k].devices)
    <3>1. NamedAt(t, H[k], C[k], D[k], k)
      BY DEF Named
    <3>2. C[k] \in 1 .. n /\ DOMAIN D[k] = 1 .. Len(H[k].devices)
      BY NamedFacts
    <3> QED BY <3>1, <3>2
  <2> DEFINE g == G[k]
             h == H[k]
             x == C[k]
             q == D[k]
  <2>2. /\ NamedAt(t, h, x, q, k) /\ x \in 1 .. n /\ DOMAIN q = 1 .. Len(h.devices)
        /\ Len(g.devices) = Len(h.devices)
        /\ g.priority = IF line.key = "priority" /\ o = x THEN line.val ELSE h.priority
        /\ \A d \in 1 .. Len(h.devices) : g.devices[d].priority =
             IF line.key = "priority" /\ o = q[d] THEN line.val ELSE h.devices[d].priority
    BY <2>1 DEF Rewritten
  <2> HIDE DEF g, h, x, q
  <2>3. CASE line.key = "priority"
    <3>1. Given(g, h, x, q, o, line.val)
      BY <2>2, <2>3 DEF Given
    <3>2. NamedAt(u, g, x, q, k)
      <4>1. OwnerIn(Append(t, line), Len(t) + 1) = o
        OBVIOUS
      <4>2. /\ NamedAt(t, h, x, q, k) /\ x \in 1 .. Len(t)
            /\ Given(g, h, x, q, OwnerIn(Append(t, line), Len(t) + 1), line.val)
        BY <2>2, <3>1, <4>1
      <4>3. NamedAt(Append(t, line), g, x, q, k)
        BY ONLY <2>3, <4>2, NamedPriority, t \in Seq(LineSet), line \in LineSet
      <4> QED BY <4>3
    <3> QED BY <3>2 DEF g, x, q
  <2>4. CASE line.key # "priority"
    <3>1. Alike(g, h)
      BY <2>2, <2>4 DEF Alike
    <3>2. NamedAt(u, g, x, q, k)
      <4>1. OwnerIn(Append(t, line), Len(t) + 1) = o
        OBVIOUS
      <4>2. /\ NamedAt(t, h, x, q, k) /\ x \in 1 .. Len(t)
            /\ Foreign(line, OwnerIn(Append(t, line), Len(t) + 1), x, q)
        BY <2>2, <2>4, <4>1 DEF Foreign
      <4>3. NamedAt(Append(t, line), g, x, q, k)
        BY ONLY <3>1, <4>2, NamedKept, t \in Seq(LineSet), line \in LineSet
      <4> QED BY <4>3
    <3> QED BY <3>2 DEF g, x, q
  <2> QED BY <2>3, <2>4
<1> QED BY <1>1, <1>2 DEF Named, Rewritten

\* The last channel gets a device.
LEMMA MoreDevices ==
    ASSUME NEW t \in Seq(LineSet), NEW line \in LineSet, NEW u, u = Append(t, line),
           NEW n, n = Len(t),
           NEW H, NEW C, NEW D, Named(t, H, C, D), line.key = "device",
           NEW c \in 1 .. Len(C), OwnerIn(u, n + 1) = C[c],
           NEW G, Len(G) = Len(H),
           \A k \in 1 .. Len(C) : k # c => G[k] = H[k],
           G[c].priority = H[c].priority,
           Len(G[c].devices) = Len(H[c].devices) + 1,
           \A d \in 1 .. Len(H[c].devices) : G[c].devices[d] = H[c].devices[d],
           G[c].devices[Len(H[c].devices) + 1].priority = 0
    PROVE  Named(u, G, C, [D EXCEPT ![c] = Append(@, n + 1)])
<1> DEFINE q == Append(D[c], n + 1)
           E == [D EXCEPT ![c] = q]
<1>1. ChannelLines(u) = ChannelLines(t)
  BY ChannelLinesNew
<1>2. IsSeq(E) /\ Len(E) = Len(C) /\ E[c] = q /\ \A k \in 1 .. Len(C) : k # c => E[k] = D[k]
  <2>1. c \in DOMAIN D /\ IsSeq(D) /\ Len(D) = Len(C) /\ DOMAIN D = 1 .. Len(C)
    BY NamedFacts DEF Named
  <2> HIDE DEF q
  <2>2. IsSeq(E) /\ Len(E) = Len(D)
    BY <2>1, SeqUpdate
  <2> QED BY <2>1, <2>2
<1> HIDE DEF E
<1>3. \A k \in 1 .. Len(C) : NamedAt(t, H[k], C[k], D[k], k) /\ C[k] \in 1 .. Len(t)
  BY NamedFacts DEF Named
<1>4. OwnerIn(Append(t, line), Len(t) + 1) = C[c]
  OBVIOUS
<1>5. NamedAt(u, G[c], C[c], E[c], c)
  <2> DEFINE g == G[c]
             h == H[c]
             x == C[c]
             r == D[c]
  <2>1. /\ NamedAt(t, h, x, r, c) /\ x \in 1 .. Len(t)
        /\ OwnerIn(Append(t, line), Len(t) + 1) = x
        /\ g.priority = h.priority /\ Len(g.devices) = Len(h.devices) + 1
        /\ \A d \in 1 .. Len(h.devices) : g.devices[d] = h.devices[d]
        /\ g.devices[Len(h.devices) + 1].priority = 0
    BY <1>3, <1>4
  <2> HIDE DEF g, h, x, r
  <2>2. NamedAt(Append(t, line), g, x, Append(r, Len(t) + 1), c)
    BY ONLY <2>1, NamedDevice, line.key = "device", t \in Seq(LineSet), line \in LineSet
  <2> QED BY <1>2, <2>2 DEF g, x, r
<1>6. ASSUME NEW k \in 1 .. Len(C), k # c PROVE NamedAt(u, G[k], C[k], E[k], k)
  <2> DEFINE g == G[k]
             h == H[k]
             x == C[k]
             r == D[k]
  <2>0. C[c] # x
    BY <1>6, Distinct
  <2>1. /\ NamedAt(t, h, x, r, k) /\ x \in 1 .. Len(t)
        /\ OwnerIn(Append(t, line), Len(t) + 1) # x
        /\ g = h
    BY <1>3, <1>4, <1>6, <2>0
  <2>2. Alike(g, h)
    BY <2>1 DEF Alike
  <2> HIDE DEF g, h, x, r
  <2>4. NamedAt(t, h, x, r, k) /\ x \in 1 .. Len(t)
        /\ Foreign(line, OwnerIn(Append(t, line), Len(t) + 1), x, r)
    BY <2>1 DEF Foreign
  <2>3. NamedAt(Append(t, line), g, x, r, k)
    BY ONLY <2>2, <2>4, NamedKept, t \in Seq(LineSet), line \in LineSet
  <2> QED BY <1>2, <1>6, <2>3 DEF g, x, r
<1>7. \A k \in 1 .. Len(C) : NamedAt(u, G[k], C[k], E[k], k)
  BY <1>5, <1>6
<1>8. Named(u, G, C, E)
  BY <1>1, <1>2, <1>7 DEF Named
<1> QED BY <1>8 DEF E

\* A new channel.
LEMMA MoreChannels ==
    ASSUME NEW t \in Seq(LineSet), NEW line \in LineSet, NEW u, u = Append(t, line),
           NEW n, n = Len(t),
           NEW H, NEW C, NEW D, Named(t, H, C, D), line.key = "channel",
           OwnerIn(u, n + 1) = 0, IsSeq(H), line.val = Len(H)
    PROVE  Named(u, Append(H, Channel0), Append(C, n + 1), Append(D, <<>>))
<1> DEFINE m == Len(C)
           B == Append(C, n + 1)
           E == Append(D, <<>>)
           G == Append(H, Channel0)
<1>0. m \in Nat /\ n \in Nat /\ DOMAIN C = 1 .. m /\ Len(H) = m /\ Len(D) = m /\ IsSeq(C) /\ IsSeq(D)
  <2>1. m \in Nat /\ DOMAIN C = 1 .. m
    BY NamedFacts
  <2>2. Len(H) = m /\ Len(D) = m /\ IsSeq(C) /\ IsSeq(D)
    BY DEF Named, Lists, IsSeq
  <2> QED BY <2>1, <2>2
<1> HIDE DEF m
<1>1. Lists(B, ChannelLines(u))
  <2> DEFINE S == ChannelLines(t)
             x == n + 1
  <2>1. ChannelLines(u) = S \cup {x}
    BY ChannelLinesNew
  <2>2. x \in Nat /\ \A i \in S : i < x
    BY <1>0 DEF ChannelLines
  <2>3. Lists(C, S)
    BY DEF Named
  <2> HIDE DEF S, x
  <2>4. Lists(Append(C, x), S \cup {x})
    BY <2>2, <2>3, ListAppend
  <2> QED BY <2>1, <2>4 DEF x
<1>2. /\ Len(B) = m + 1 /\ B[m + 1] = n + 1 /\ \A k \in 1 .. m : B[k] = C[k]
  BY <1>0, SeqAppend
<1>3. /\ Len(E) = m + 1 /\ E[m + 1] = <<>> /\ \A k \in 1 .. m : E[k] = D[k]
      /\ IsSeq(E)
  BY <1>0, SeqAppend
<1>4. /\ Len(G) = m + 1 /\ G[m + 1] = Channel0 /\ \A k \in 1 .. m : G[k] = H[k]
  BY <1>0, SeqAppend
<1> HIDE DEF B, E, G
<1>5. \A k \in 1 .. m : NamedAt(t, H[k], C[k], D[k], k) /\ C[k] \in 1 .. Len(t)
  BY NamedFacts DEF Named, m
<1>6. ASSUME NEW k \in 1 .. m PROVE NamedAt(u, G[k], B[k], E[k], k)
  <2> DEFINE g == G[k]
             h == H[k]
             x == C[k]
             r == D[k]
  <2>1. NamedAt(t, h, x, r, k) /\ x \in 1 .. Len(t) /\ g = h
    BY <1>4, <1>5
  <2>2. Alike(g, h)
    BY <2>1 DEF Alike
  <2> HIDE DEF g, h, x, r
  <2>3. Foreign(line, OwnerIn(Append(t, line), Len(t) + 1), x, r)
    BY DEF Foreign
  <2>4. NamedAt(Append(t, line), g, x, r, k)
    BY ONLY <2>1, <2>2, <2>3, NamedKept, t \in Seq(LineSet), line \in LineSet
  <2> QED BY <1>2, <1>3, <2>4 DEF g, x, r
<1>7. NamedAt(u, G[m + 1], B[m + 1], E[m + 1], m + 1)
  <2> DEFINE k == m + 1
  <2>1. line.val = k - 1 /\ OwnerIn(Append(t, line), Len(t) + 1) = 0
    BY <1>0
  <2> HIDE DEF k
  <2>2. NamedAt(Append(t, line), Channel0, Len(t) + 1, <<>>, k)
    BY ONLY <2>1, NamedNew, t \in Seq(LineSet), line \in LineSet
  <2> QED BY <1>2, <1>3, <1>4, <2>2 DEF k
<1>8. \A k \in 1 .. m + 1 : NamedAt(u, G[k], B[k], E[k], k)
  <2> TAKE k \in 1 .. m + 1
  <2>1. k \in 1 .. m \/ k = m + 1
    BY <1>0
  <2> QED BY <1>6, <1>7, <2>1
<1>9. Named(u, G, B, E)
  BY <1>1, <1>2, <1>3, <1>4, <1>8 DEF Named
<1> QED BY <1>9 DEF G, B, E

-----------------------------------------------------------------------------
(* The calls of the parser and the lines that are open *)

\* The line of the k-th call: the last channel, or its last device.
At(C, D, k) == IF k = 1 THEN C[Len(C)] ELSE D[Len(C)][Len(D[Len(C)])]

\* The lines O are those the calls in are for.
Opens(t, O, in, C, D) ==
    /\ Len(in) > 0 => Len(C) > 0
    /\ Len(in) > 1 => Len(D[Len(C)]) > 0
    /\ O = {At(C, D, k) : k \in 1 .. Len(in)}
    /\ \A k \in 1 .. Len(in) : in[k].indent = t[At(C, D, k)].blank
    /\ \A j, k \in 1 .. Len(in) : j < k => At(C, D, j) < At(C, D, k) /\ in[j].indent < in[k].indent

LEMMA OpenPrefix ==
    ASSUME NEW N \in Nat, NEW M \in 0 .. N, NEW b \in Nat,
           NEW ind \in [1 .. N -> Nat], NEW a \in [1 .. N -> Nat],
           \A k \in 1 .. M : b > ind[k], M < N => b <= ind[M + 1],
           \A j, k \in 1 .. N : j < k => a[j] < a[k] /\ ind[j] < ind[k]
    PROVE  /\ \A k \in 1 .. N : b > ind[k] <=> k \in 1 .. M
           /\ \A k \in 1 .. M : a[k] <= a[M]
<1>1. ASSUME NEW k \in 1 .. N PROVE b > ind[k] <=> k \in 1 .. M
  <2>1. CASE k \in 1 .. M
    BY <2>1
  <2>2. CASE k \notin 1 .. M
    <3>1. M + 1 \in 1 .. N /\ M + 1 <= k /\ b <= ind[M + 1] /\ ind[k] \in Nat /\ ind[M + 1] \in Nat
      BY <2>2
    <3>2. M + 1 = k \/ M + 1 < k
      BY <3>1
    <3>3. ind[M + 1] <= ind[k]
      BY <3>1, <3>2
    <3> QED BY <2>2, <3>1, <3>3
  <2> QED BY <2>1, <2>2
<1>2. ASSUME NEW k \in 1 .. M PROVE a[k] <= a[M]
  <2>1. k \in 1 .. N /\ M \in 1 .. N /\ (k = M \/ k < M) /\ a[k] \in Nat /\ a[M] \in Nat
    OBVIOUS
  <2> QED BY <2>1
<1> QED BY <1>1, <1>2

\* When the line is read, the calls in are for the lines that are open around
\* it, and its owner is the innermost of these.
Around(t, line, in, C, D) ==
    /\ Opens(t, OpenIn(Append(t, line), Len(t) + 1), in, C, D)
    /\ OwnerIn(Append(t, line), Len(t) + 1) = IF Len(in) = 0 THEN 0 ELSE At(C, D, Len(in))

LEMMA CloseOpens ==
    ASSUME NEW t \in Seq(LineSet), NEW line \in LineSet, line.key # "",
           NEW in \in Seq(Calls), NEW C, NEW D, Opens(t, OpenAt(t), in, C, D)
    PROVE  Around(t, line, CloseCalls(in, line.blank), C, D)
<1> DEFINE u == Append(t, line)
           n == Len(t)
           out == CloseCalls(in, line.blank)
           P == OpenIn(u, n + 1)
           O == OpenAt(t)
           N == Len(in)
           M == Len(out)
           a == [k \in 1 .. N |-> At(C, D, k)]
           ind == [k \in 1 .. N |-> in[k].indent]
           b == line.blank
           w == OwnerIn(u, n + 1)
<1>0. n \in Nat /\ b \in Nat
  <2>1. n \in Nat
    BY ONLY t \in Seq(LineSet), n = Len(t)
  <2>2. b \in Nat
    BY ONLY LinesAssumption, line \in LineSet
  <2> QED BY <2>1, <2>2
<1>1. P = {j \in O : b > t[j].blank}
  <2>1. OpenIn(Append(t, line), Len(t) + 1) = {j \in OpenAt(t) : line.blank > t[j].blank}
    BY ONLY NewOpen, t \in Seq(LineSet), line \in LineSet, line.key # ""
  <2> QED BY <2>1
<1>2. O \subseteq 1 .. n
  <2>1. DOMAIN t = 1 .. n
    BY ONLY t \in Seq(LineSet), n = Len(t)
  <2> QED BY ONLY <2>1 DEF OpenAt
<1>3. /\ out \in Seq(Calls) /\ M <= N
      /\ \A k \in 1 .. M : out[k] = in[k] /\ b > in[k].indent
      /\ M < N => b <= in[M + 1].indent
  BY <1>0, CallsLeft
<1>4. N \in Nat /\ M \in Nat /\ \A k \in 1 .. N : in[k].indent \in Nat
  <2>1. N \in Nat /\ \A k \in 1 .. N : in[k] \in Calls
    BY ONLY in \in Seq(Calls)
  <2>2. M \in Nat
    BY ONLY <1>3
  <2>3. \A x \in Calls : x.indent \in Nat
    BY DEF Calls
  <2> QED BY ONLY <2>1, <2>2, <2>3
<1>5. /\ O = {At(C, D, k) : k \in 1 .. N}
      /\ \A k \in 1 .. N : in[k].indent = t[At(C, D, k)].blank
      /\ \A j, k \in 1 .. N : j < k => At(C, D, j) < At(C, D, k) /\ in[j].indent < in[k].indent
      /\ N > 0 => Len(C) > 0
      /\ N > 1 => Len(D[Len(C)]) > 0
  BY DEF Opens
<1>6. \/ P = {} /\ w = 0
      \/ w \in P /\ \A k \in P : k <= w
  <2> DEFINE m == n + 1
  <2>1. m \in Nat
    BY ONLY <1>0
  <2> HIDE DEF m
  <2>2. \/ OpenIn(u, m) = {} /\ OwnerIn(u, m) = 0
        \/ OwnerIn(u, m) \in OpenIn(u, m) /\ \A k \in OpenIn(u, m) : k <= OwnerIn(u, m)
    BY ONLY <2>1, OwnerIs
  <2> QED BY <2>2 DEF m
<1> HIDE DEF P, O, N, M, b, w, u, n, out
<1>7. \A k \in 1 .. N : At(C, D, k) \in Nat
  BY ONLY <1>0, <1>2, <1>5
<1>8. a \in [1 .. N -> Nat] /\ ind \in [1 .. N -> Nat] /\ M \in 0 .. N
  BY ONLY <1>3, <1>4, <1>7
<1>9. /\ \A k \in 1 .. M : k \in 1 .. N /\ b > ind[k]
      /\ M < N => b <= ind[M + 1]
      /\ \A j, k \in 1 .. N : j < k => a[j] < a[k] /\ ind[j] < ind[k]
  BY ONLY <1>3, <1>4, <1>5
<1>10. \A k \in 1 .. N : a[k] = At(C, D, k) /\ ind[k] = in[k].indent
  OBVIOUS
<1> HIDE DEF a, ind
<1>11. /\ \A k \in 1 .. N : b > ind[k] <=> k \in 1 .. M
       /\ \A k \in 1 .. M : a[k] <= a[M]
  <2>1. N \in Nat /\ M \in 0 .. N /\ b \in Nat
        /\ ind \in [1 .. N -> Nat] /\ a \in [1 .. N -> Nat]
    BY ONLY <1>0, <1>4, <1>8
  <2>2. \A k \in 1 .. M : b > ind[k]
    BY ONLY <1>9
  <2>3. /\ M < N => b <= ind[M + 1]
        /\ \A j, k \in 1 .. N : j < k => a[j] < a[k] /\ ind[j] < ind[k]
    BY ONLY <1>9
  <2> QED BY ONLY <2>1, <2>2, <2>3, OpenPrefix
<1>12. P = {At(C, D, k) : k \in 1 .. M}
  <2>1. \A k \in 1 .. N : b > t[At(C, D, k)].blank <=> k \in 1 .. M
    BY ONLY <1>5, <1>10, <1>11
  <2> QED BY ONLY <1>1, <1>5, <1>9, <2>1
<1>13. Opens(t, P, out, C, D)
  <2>1. (M > 0 => Len(C) > 0) /\ (M > 1 => Len(D[Len(C)]) > 0)
    BY ONLY <1>3, <1>4, <1>5
  <2>2. /\ \A k \in 1 .. M : out[k].indent = t[At(C, D, k)].blank
        /\ \A j, k \in 1 .. M : j < k => At(C, D, j) < At(C, D, k) /\ out[j].indent < out[k].indent
    BY ONLY <1>3, <1>5, <1>9
  <2> QED BY ONLY <1>12, <2>1, <2>2 DEF Opens, M
<1>14. w = IF M = 0 THEN 0 ELSE At(C, D, M)
  <2>1. CASE M = 0
    <3>1. P = {}
      BY ONLY <1>12, <2>1
    <3> QED BY ONLY <1>6, <2>1, <3>1
  <2>2. CASE M # 0
    <3>1. M \in 1 .. M
      BY ONLY <1>4, <2>2
    <3>2. a[M] \in P /\ a[M] = At(C, D, M)
      BY ONLY <1>9, <1>10, <1>12, <3>1
    <3>3. w \in P /\ a[M] <= w
      BY ONLY <1>6, <3>2
    <3>4. w <= a[M]
      BY ONLY <1>9, <1>10, <1>11, <1>12, <3>3
    <3>5. w \in Nat /\ a[M] \in Nat
      <4>1. \A j \in P : j \in Nat
        <5>1. P \subseteq O
          BY ONLY <1>1
        <5>2. \A j \in 1 .. n : j \in Nat
          BY ONLY <1>0
        <5> QED BY ONLY <1>2, <5>1, <5>2
      <4> QED BY ONLY <4>1, <3>2, <3>3
    <3>6. w = a[M]
      BY ONLY <3>3, <3>4, <3>5
    <3> QED BY ONLY <2>2, <3>2, <3>6
  <2> QED BY ONLY <2>1, <2>2
<1> QED BY ONLY <1>13, <1>14 DEF P, w, M, u, n, out, Around

-----------------------------------------------------------------------------
(* The invariant of the parser *)

ParsedTo(t, s, C, D) == Named(t, s.channels, C, D) /\ Opens(t, OpenAt(t), s.in, C, D)
ParserInv(t, s) ==
    /\ ParserFields \subseteq DOMAIN s
    /\ s.ret = "PEC_NONE" => ParserShape(s) /\ \E C, D : ParsedTo(t, s, C, D)

\* The lines of the calls do not change when the text grows.
LEMMA OpensMore ==
    ASSUME NEW t \in Seq(LineSet), NEW line \in LineSet, NEW O \in SUBSET (1 .. Len(t)),
           NEW in, NEW C, NEW D, Opens(t, O, in, C, D)
    PROVE  Opens(Append(t, line), O, in, C, D)
<1>1. \A i \in O : Append(t, line)[i] = t[i]
  OBVIOUS
<1>2. \A k \in 1 .. Len(in) : At(C, D, k) \in O
  BY DEF Opens
<1> QED BY <1>1, <1>2 DEF Opens

LEMMA ShapeOf ==
    ASSUME NEW s, ParserShape(s), NEW c \in DOMAIN s.channels, NEW e, ChannelShape(e),
           NEW r, r.channels = [s.channels EXCEPT ![c] = e], ParserFields \subseteq DOMAIN r,
           r.in \in Seq(Calls), Len(r.in) <= 2
    PROVE  ParserShape(r) /\ Len(r.channels) = Len(s.channels)
           /\ \A k \in 1 .. Len(s.channels) : r.channels[k] = IF k = c THEN e ELSE s.channels[k]
<1>1. /\ IsSeq(s.channels) /\ \A k \in DOMAIN s.channels : ChannelShape(s.channels[k])
      /\ DOMAIN s.channels = 1 .. Len(s.channels)
  BY SeqIs DEF ParserShape
<1>2. IsSeq(r.channels) /\ Len(r.channels) = Len(s.channels) /\ DOMAIN r.channels = DOMAIN s.channels
  BY <1>1, SeqUpdate
<1>3. \A k \in 1 .. Len(s.channels) : r.channels[k] = IF k = c THEN e ELSE s.channels[k]
  BY <1>1
<1>4. \A k \in DOMAIN r.channels : ChannelShape(r.channels[k])
  BY <1>1, <1>2, <1>3
<1> QED BY <1>2, <1>3, <1>4 DEF ParserShape, ParserFields

LEMMA NoLines ==
    ParserInv(<<>>, Start)
<1>1. Start.ret = "PEC_NONE" /\ Start.channels = <<>> /\ Start.in = <<>> /\ ParserFields \subseteq DOMAIN Start
  BY DEF Start, ParserFields
<1>2. IsSeq(<<>>) /\ <<>> \in Seq(Calls) /\ DOMAIN <<>> = {} /\ Len(<<>>) = 0
  BY DEF IsSeq
<1>3. ParserShape(Start)
  BY <1>1, <1>2 DEF ParserShape, ParserFields
<1>4. Named(<<>>, <<>>, <<>>, <<>>)
  <2>1. ChannelLines(<<>>) = {}
    BY <1>2 DEF ChannelLines
  <2>2. 1 .. Len(<<>>) = {}
    BY <1>2
  <2> QED BY <1>2, <2>1, <2>2, EmptyList DEF Named
<1>5. Opens(<<>>, OpenAt(<<>>), <<>>, <<>>, <<>>)
  <2>1. OpenAt(<<>>) = {}
    BY <1>2 DEF OpenAt
  <2>2. 1 .. Len(<<>>) = {} /\ ~(Len(<<>>) > 0) /\ ~(Len(<<>>) > 1)
    BY <1>2
  <2> QED BY <2>1, <2>2 DEF Opens
<1> QED BY <1>1, <1>3, <1>4, <1>5 DEF ParserInv, ParsedTo

\* The state w in which the line is read, after the calls it leaves have returned.
ReadIn(t, line, w, C, D) ==
    /\ ParserShape(w) /\ w.ret = "PEC_NONE" /\ line.key # ""
    /\ Named(t, w.channels, C, D)
    /\ Opens(t, OpenIn(Append(t, line), Len(t) + 1), w.in, C, D)
    /\ OwnerIn(Append(t, line), Len(t) + 1) = IF Len(w.in) = 0 THEN 0 ELSE At(C, D, Len(w.in))

LEMMA OpenOld ==
    ASSUME NEW t \in Seq(LineSet) PROVE OpenAt(t) \in SUBSET (1 .. Len(t))
<1>1. DOMAIN t = 1 .. Len(t)
  OBVIOUS
<1> QED BY ONLY <1>1 DEF OpenAt

LEMMA ClosedOld ==
    ASSUME NEW t \in Seq(LineSet), NEW line \in LineSet, NEW w, NEW C, NEW D, ReadIn(t, line, w, C, D)
    PROVE  /\ OpenIn(Append(t, line), Len(t) + 1) \in SUBSET (1 .. Len(t))
           /\ Opens(Append(t, line), OpenIn(Append(t, line), Len(t) + 1), w.in, C, D)
           /\ line.key \notin {"channel", "device"}
                => Opens(Append(t, line), OpenAt(Append(t, line)), w.in, C, D)
           /\ line.key \in {"channel", "device"}
                => OpenAt(Append(t, line)) = OpenIn(Append(t, line), Len(t) + 1) \cup {Len(t) + 1}
<1> DEFINE u == Append(t, line)
           n == Len(t)
           P == OpenIn(u, n + 1)
<1>1. line.key # "" /\ Opens(t, P, w.in, C, D)
  BY DEF ReadIn
<1>2. P = {j \in OpenAt(t) : line.blank > t[j].blank} /\
      OpenAt(u) = P \cup (IF line.key \in {"channel", "device"} THEN {n + 1} ELSE {})
  BY <1>1, NewOpen
<1>3. OpenAt(t) \in SUBSET (1 .. n)
  BY OpenOld
<1> HIDE DEF P
<1>4. P \in SUBSET (1 .. n)
  BY <1>2, <1>3
<1>5. Opens(u, P, w.in, C, D)
  BY <1>1, <1>4, OpensMore
<1> HIDE DEF u, n
<1>6. line.key \notin {"channel", "device"} => OpenAt(u) = P
  BY <1>2
<1>7. line.key \in {"channel", "device"} => OpenAt(u) = P \cup {n + 1}
  BY <1>2
<1> QED BY <1>4, <1>5, <1>6, <1>7 DEF P, u, n

LEMMA BlankStep ==
    ASSUME NEW t \in Seq(LineSet), NEW line \in LineSet, line.key = "",
           NEW s, NEW C, NEW D, ParsedTo(t, s, C, D)
    PROVE  ParsedTo(Append(t, line), s, C, D)
<1>1. OpenAt(Append(t, line)) = OpenAt(t)
  BY NewOpen
<1>2. OpenAt(t) \in SUBSET (1 .. Len(t))
  BY OpenOld
<1>3. Opens(Append(t, line), OpenAt(Append(t, line)), s.in, C, D)
  BY <1>1, <1>2, OpensMore DEF ParsedTo
<1>4. Named(Append(t, line), s.channels, C, D)
  <2> DEFINE H == s.channels
             o == OwnerIn(Append(t, line), Len(t) + 1)
             u == Append(t, line)
             n == Len(t)
  <2>1. Named(t, H, C, D) /\ line.key \notin {"channel", "device"} /\ line.key # "priority"
    BY DEF ParsedTo
  <2>2. u = Append(t, line) /\ n = Len(t) /\ o = OwnerIn(u, n + 1)
    OBVIOUS
  <2> HIDE DEF H, o, u, n
  <2>3. Rewritten(line, o, H, H, C, D)
    BY <2>1 DEF Rewritten
  <2>4. Named(u, H, C, D)
    BY ONLY <2>1, <2>2, <2>3, SameLines, t \in Seq(LineSet), line \in LineSet
  <2> QED BY <2>4 DEF H, u
<1> QED BY <1>3, <1>4 DEF ParsedTo

LEMMA LoggerStep ==
    ASSUME NEW t \in Seq(LineSet), NEW line \in LineSet, NEW w, NEW C, NEW D,
           ReadIn(t, line, w, C, D), Len(w.in) = 0, NEW r, r = LoggerLine(w, line)
    PROVE  ParserInv(Append(t, line), r)
<1> DEFINE u == Append(t, line)
           n == Len(t)
           H == w.channels
<1>0. /\ line.blank \in Nat /\ n \in Nat /\ u[n + 1] = line
      /\ u = Append(t, line) /\ n = Len(t)
  BY LinesAssumption
<1>1. /\ ParserShape(w) /\ w.ret = "PEC_NONE" /\ Named(t, H, C, D)
      /\ Opens(t, OpenIn(u, n + 1), w.in, C, D) /\ OwnerIn(u, n + 1) = 0
  BY DEF ReadIn
<1>2. ParserFields \subseteq DOMAIN r
  BY <1>0, <1>1, LoggerEffect DEF ParserFields
<1>3. ASSUME r.ret = "PEC_NONE" PROVE ParserShape(r) /\ \E B, E : ParsedTo(u, r, B, E)
  <2>1. \/ /\ line.key = "channel" /\ line.val = Len(w.channels)
           /\ r.channels = Append(w.channels, Channel0)
           /\ r.in = <<[indent |-> line.blank]>>
        \/ /\ line.key \notin {"channel", "device", "priority"}
           /\ r.channels = w.channels /\ r.in = w.in
    BY <1>0, <1>1, <1>3, LoggerEffect
  <2>2. CASE line.key = "channel"
    <3> DEFINE G == Append(H, Channel0)
               B == Append(C, n + 1)
               E == Append(D, <<>>)
               in == r.in
    <3>1. line.val = Len(H) /\ r.channels = G /\ in = <<[indent |-> line.blank]>>
      BY <2>1, <2>2
    <3>2. IsSeq(H) /\ \A k \in DOMAIN H : ChannelShape(H[k])
      BY <1>1 DEF ParserShape
    <3>3. IsSeq(G) /\ DOMAIN G = 1 .. Len(H) + 1 /\ G[Len(H) + 1] = Channel0
          /\ (\A k \in 1 .. Len(H) : G[k] = H[k]) /\ DOMAIN H = 1 .. Len(H) /\ Len(H) \in Nat
      BY <3>2, SeqAppend, SeqIs
    <3>4. Named(u, G, B, E)
      BY <1>0, <1>1, <2>2, <3>1, <3>2, MoreChannels
    <3>5. Len(C) \in Nat /\ IsSeq(C)
      BY <1>1, NamedFacts DEF Named, Lists, IsSeq
    <3>6. Len(B) = Len(C) + 1 /\ B[Len(C) + 1] = n + 1
      BY <3>5, SeqAppend
    <3>7. Len(in) = 1 /\ in[1].indent = line.blank /\ in \in Seq(Calls)
      BY <1>0, <3>1 DEF Calls
    <3>8. OpenAt(u) = {n + 1}
      <4>1. OpenIn(u, n + 1) = {}
        BY <1>1 DEF Opens
      <4> QED BY <2>2, <4>1, ClosedOld
    <3> HIDE DEF G, B, E, in, u, n, H
    <3>9. ParserShape(r)
      <4>1. ASSUME NEW k \in 1 .. Len(H) + 1 PROVE ChannelShape(G[k])
        <5>1. k \in 1 .. Len(H) \/ k = Len(H) + 1
          BY <3>3
        <5> QED BY <3>2, <3>3, <5>1, NewShapes
      <4> QED BY <1>2, <3>1, <3>3, <3>7, <4>1 DEF ParserShape, ParserFields, in
    <3>10. At(B, E, 1) = n + 1
      BY <3>6 DEF At
    <3>11. Opens(u, OpenAt(u), in, B, E)
      <4>1. 1 .. Len(in) = {1} /\ Len(B) > 0 /\ ~(Len(in) > 1)
        BY <3>5, <3>6, <3>7
      <4>2. {At(B, E, k) : k \in {1}} = {n + 1}
        BY <3>10
      <4>3. \A j, k \in 1 .. Len(in) : ~(j < k)
        BY <4>1
      <4>4. \A k \in 1 .. Len(in) : in[k].indent = u[At(B, E, k)].blank
        BY <1>0, <3>7, <3>10, <4>1
      <4> QED BY <3>8, <4>1, <4>2, <4>3, <4>4 DEF Opens
    <3>12. ParsedTo(u, r, B, E)
      BY <3>1, <3>4, <3>11 DEF ParsedTo, in
    <3> QED BY <3>9, <3>12
  <2>3. CASE line.key # "channel"
    <3>1. line.key \notin {"channel", "device", "priority"} /\ r.channels = H /\ r.in = w.in
      BY <2>1, <2>3
    <3>2. Opens(u, OpenAt(u), r.in, C, D)
      BY <3>1, ClosedOld
    <3>3. Named(u, H, C, D)
      <4> DEFINE o == OwnerIn(u, n + 1)
      <4>1. u = Append(t, line) /\ n = Len(t) /\ o = OwnerIn(u, n + 1) /\ Named(t, H, C, D)
            /\ line.key \notin {"channel", "device"} /\ line.key # "priority"
        BY <1>0, <1>1, <3>1
      <4> HIDE DEF H, o, u, n
      <4>2. Rewritten(line, o, H, H, C, D)
        BY <4>1 DEF Rewritten
      <4> QED BY ONLY <4>1, <4>2, SameLines, t \in Seq(LineSet), line \in LineSet
    <3>4. ParserShape(r)
      BY <1>1, <1>2, <3>1 DEF ParserShape, ParserFields
    <3> HIDE DEF u, H
    <3>5. ParsedTo(u, r, C, D)
      BY <3>1, <3>2, <3>3 DEF ParsedTo
    <3> QED BY <3>4, <3>5
  <2> QED BY <2>2, <2>3
<1> QED BY <1>2, <1>3 DEF ParserInv

LEMMA ChannelStep ==
    ASSUME NEW t \in Seq(LineSet), NEW line \in LineSet, NEW w, NEW C, NEW D,
           ReadIn(t, line, w, C, D), Len(w.in) = 1, NEW r, r = ChannelLine(w, line)
    PROVE  ParserInv(Append(t, line), r)
<1> DEFINE u == Append(t, line)
           n == Len(t)
           H == w.channels
           c == Len(H)
           old == H[c]
           o == OwnerIn(u, n + 1)
<1>0. /\ line.blank \in Nat /\ n \in Nat /\ u[n + 1] = line
      /\ u = Append(t, line) /\ n = Len(t) /\ o = OwnerIn(u, n + 1)
  BY LinesAssumption
<1>1. /\ ParserShape(w) /\ w.ret = "PEC_NONE" /\ Named(t, H, C, D)
      /\ Opens(t, OpenIn(u, n + 1), w.in, C, D) /\ o = C[Len(C)]
  <2>1. ReadIn(t, line, w, C, D) /\ Len(w.in) = 1
    OBVIOUS
  <2>3. Len(w.in) # 0
    BY ONLY <2>1
  <2>4. o = At(C, D, Len(w.in))
    BY ONLY <2>1, <2>3 DEF ReadIn
  <2>2. o = At(C, D, 1)
    BY ONLY <2>1, <2>4
  <2> QED BY ONLY <2>1, <2>2 DEF ReadIn, At
<1>2. c \in Nat /\ c > 0 /\ c = Len(C) /\ c \in DOMAIN H /\ c \in 1 .. Len(C) /\ DOMAIN H = 1 .. c
  <2>1. Len(C) = c /\ Len(C) > 0
    BY <1>1 DEF Named, Opens
  <2>2. c \in Nat /\ DOMAIN H = 1 .. c
    BY <1>1, SeqIs DEF ParserShape
  <2> QED BY <2>1, <2>2
<1>3. w.in \in Seq(Calls) /\ w.in[1] \in Calls
  BY <1>1 DEF ParserShape
<1>4. ParserFields \subseteq DOMAIN r
  BY <1>0, <1>1, <1>2, ChannelEffect
<1>5. ASSUME r.ret = "PEC_NONE" PROVE ParserShape(r) /\ \E E : ParsedTo(u, r, C, E)
  <2>0. PICK e : ChannelMade(w, line, c, old, r, e)
    <3>1. /\ ParserShape(w) /\ w.ret = "PEC_NONE" /\ line.blank \in Nat
          /\ c = Len(w.channels) /\ c > 0 /\ old = w.channels[c] /\ r = ChannelLine(w, line)
          /\ r.ret = "PEC_NONE"
      BY <1>0, <1>1, <1>2, <1>5
    <3> HIDE DEF c, old
    <3> QED BY ONLY <3>1, ChannelEffect
  <2>1. /\ r.channels = [H EXCEPT ![c] = e] /\ ChannelShape(e)
        /\ \/ /\ line.key = "device" /\ r.in = Append(w.in, [indent |-> line.blank])
              /\ e.priority = old.priority /\ Len(e.devices) = Len(old.devices) + 1
              /\ \A d \in 1 .. Len(old.devices) : e.devices[d] = old.devices[d]
              /\ e.devices[Len(old.devices) + 1].priority = 0
           \/ /\ line.key = "priority" /\ r.in = w.in
              /\ e.priority = line.val /\ e.devices = old.devices
           \/ /\ line.key \notin {"channel", "device", "priority"} /\ r.in = w.in
              /\ e.priority = old.priority /\ e.devices = old.devices
    BY <2>0 DEF ChannelMade
  <2>2. Len(r.in) \in Nat /\ r.in \in Seq(Calls) /\ Len(r.in) <= 2
    <3>1. CASE r.in = w.in
      BY ONLY <1>3, <3>1, Len(w.in) = 1
    <3>2. CASE r.in = Append(w.in, [indent |-> line.blank])
      <4>1. [indent |-> line.blank] \in Calls
        BY <1>0 DEF Calls
      <4> QED BY <1>3, <3>2, <4>1
    <3> QED BY <2>1, <3>1, <3>2
  <2> DEFINE G == r.channels
  <2>3. ParserShape(r) /\ Len(G) = Len(H)
        /\ \A k \in 1 .. Len(H) : G[k] = IF k = c THEN e ELSE H[k]
    <3>1. /\ ParserShape(w) /\ c \in DOMAIN w.channels /\ ChannelShape(e)
          /\ r.channels = [w.channels EXCEPT ![c] = e] /\ ParserFields \subseteq DOMAIN r
          /\ r.in \in Seq(Calls) /\ Len(r.in) <= 2
      BY <1>1, <1>2, <1>4, <2>1, <2>2
    <3> HIDE DEF c
    <3> QED BY ONLY <3>1, ShapeOf
  <2> HIDE DEF H
  <2>4. G[c] = e /\ \A k \in 1 .. Len(C) : k # c => G[k] = H[k]
    BY <1>2, <2>3
  <2> HIDE DEF G
  <2>5. CASE line.key = "device"
    <3> DEFINE E == [D EXCEPT ![c] = Append(@, n + 1)]
               in == r.in
    <3>1. Named(u, G, C, E)
      <4>1. /\ Named(t, H, C, D) /\ line.key = "device" /\ c \in 1 .. Len(C) /\ OwnerIn(u, n + 1) = C[c]
            /\ Len(G) = Len(H) /\ (\A k \in 1 .. Len(C) : k # c => G[k] = H[k])
            /\ G[c].priority = H[c].priority
            /\ Len(G[c].devices) = Len(H[c].devices) + 1
            /\ (\A d \in 1 .. Len(H[c].devices) : G[c].devices[d] = H[c].devices[d])
            /\ G[c].devices[Len(H[c].devices) + 1].priority = 0
            /\ u = Append(t, line) /\ n = Len(t)
        BY <1>0, <1>1, <1>2, <2>1, <2>3, <2>4, <2>5
      <4> HIDE DEF u, n, c
      <4> QED BY ONLY <4>1, MoreDevices, t \in Seq(LineSet), line \in LineSet
    <3>2. in = Append(w.in, [indent |-> line.blank])
      BY <2>1, <2>5
    <3>3. Len(in) = 2 /\ in[1] = w.in[1] /\ in[2].indent = line.blank
      BY <1>3, <3>2
    <3>4. OpenAt(u) = {C[c], n + 1}
      <4>1. OpenIn(u, n + 1) = {C[c]}
        <5>1. 1 .. 1 = {1}
          OBVIOUS
        <5> QED BY <1>1, <1>2, <5>1 DEF Opens, At
      <4>2. OpenAt(u) = OpenIn(u, n + 1) \cup {n + 1}
        BY <2>5, ClosedOld
      <4> QED BY <4>1, <4>2
    <3>5. E[c] = Append(D[c], n + 1) /\ Len(E[c]) \in Nat /\ Len(E[c]) > 0 /\ E[c][Len(E[c])] = n + 1
      <4>1. c \in DOMAIN D /\ D[c] \in Seq(Nat)
        <5>1. c \in DOMAIN D
          BY <1>1, <1>2, NamedFacts
        <5> QED BY <1>1, <1>2, <5>1 DEF Named, NamedAt, Lists
      <4> QED BY <1>0, <4>1
    <3>6. At(C, E, 1) = C[c] /\ At(C, E, 2) = n + 1
      BY <1>2, <3>5 DEF At
    <3>7. in[1].indent = u[C[c]].blank /\ C[c] \in 1 .. n /\ in[1].indent < in[2].indent
      <4>1. Opens(u, OpenIn(u, n + 1), w.in, C, D)
        BY ClosedOld
      <4>2. 1 \in 1 .. Len(w.in) /\ At(C, D, 1) = C[c]
        BY <1>2 DEF At
      <4>3. in[1].indent = u[C[c]].blank
        BY <3>3, <4>1, <4>2 DEF Opens
      <4>4. C[c] \in OpenIn(u, n + 1)
        BY <1>1, <4>2 DEF Opens
      <4>5. C[c] \in 1 .. n
        BY <4>4, ClosedOld
      <4>6. C[c] \in OpenIn(u, n + 1) => u[n + 1].key = "" \/ u[n + 1].blank > u[C[c]].blank
        <5>1. \A j \in 1 .. n : n + 1 \in j + 1 .. n + 1
          BY <1>0
        <5>2. \A j \in OpenIn(u, n + 1) : \A k \in j + 1 .. n + 1 : u[k].key = "" \/ u[k].blank > u[j].blank
          BY DEF OpenIn
        <5> QED BY <4>5, <5>1, <5>2
      <4>7. line.blank > u[C[c]].blank
        BY <1>0, <2>5, <4>4, <4>6
      <4>8. in[1].indent \in Nat
        <5>1. \A x \in Calls : x.indent \in Nat
          BY DEF Calls
        <5> QED BY <1>3, <3>3, <5>1
      <4> QED BY <1>0, <3>3, <4>3, <4>5, <4>7, <4>8
    <3> HIDE DEF E, in, u, n
    <3>8. Opens(u, OpenAt(u), in, C, E)
      <4>1. 1 .. Len(in) = {1, 2} /\ Len(C) > 0 /\ Len(E[Len(C)]) > 0
        BY <1>2, <3>3, <3>5
      <4>2. {At(C, E, k) : k \in {1, 2}} = {C[c], n + 1}
        BY <3>6
      <4>3. \A k \in {1, 2} : in[k].indent = u[At(C, E, k)].blank
        BY <1>0, <3>3, <3>6, <3>7
      <4>4. \A j, k \in {1, 2} : j < k => j = 1 /\ k = 2
        OBVIOUS
      <4>5. At(C, E, 1) < At(C, E, 2) /\ in[1].indent < in[2].indent
        BY <1>0, <3>6, <3>7
      <4> QED BY <3>4, <4>1, <4>2, <4>3, <4>4, <4>5 DEF Opens
    <3>9. ParsedTo(u, r, C, E)
      BY <3>1, <3>8 DEF ParsedTo, G, in
    <3> QED BY <2>3, <3>9
  <2>6. CASE line.key # "device"
    <3>1. line.key \notin {"channel", "device"} /\ r.in = w.in
      BY <2>1, <2>6
    <3>2. Opens(u, OpenAt(u), r.in, C, D)
      BY <3>1, ClosedOld
    <3>3. /\ e.devices = H[c].devices
          /\ e.priority = IF line.key = "priority" THEN line.val ELSE H[c].priority
      BY <2>1, <2>6
    <3>4. ASSUME NEW k \in 1 .. Len(C)
          PROVE  /\ Len(G[k].devices) = Len(H[k].devices)
                 /\ G[k].priority = IF line.key = "priority" /\ o = C[k] THEN line.val ELSE H[k].priority
                 /\ \A d \in 1 .. Len(H[k].devices) : G[k].devices[d].priority =
                      IF line.key = "priority" /\ o = D[k][d] THEN line.val ELSE H[k].devices[d].priority
      <4>1. \A d \in 1 .. Len(H[k].devices) : o # D[k][d]
        <5>1. Len(H[k].devices) = Len(D[k])
          BY <1>1, NamedFacts
        <5> QED BY <1>1, <1>2, <5>1, Distinct
      <4>2. o = C[k] <=> k = c
        <5>1. o = C[c]
          BY <1>1, <1>2
        <5>2. C[k] = C[c] => k = c
          <6>1. k \in 1 .. Len(C) /\ c \in 1 .. Len(C) /\ Named(t, H, C, D)
            BY <1>1, <1>2
          <6> HIDE DEF c
          <6> QED BY ONLY <6>1, Distinct, t \in Seq(LineSet)
        <5> QED BY <5>1, <5>2
      <4> HIDE DEF o, c
      <4> QED BY <2>4, <3>3, <4>1, <4>2
    <3>5. Named(u, G, C, D)
      <4>1. u = Append(t, line) /\ n = Len(t) /\ o = OwnerIn(u, n + 1) /\ Named(t, H, C, D)
            /\ line.key \notin {"channel", "device"} 
            /\ Rewritten(line, o, H, G, C, D)
        BY <1>0, <1>1, <2>3, <3>1, <3>4 DEF Rewritten
      <4> HIDE DEF o, u, n
      <4> QED BY ONLY <4>1, SameLines, t \in Seq(LineSet), line \in LineSet
    <3> HIDE DEF u
    <3>6. ParsedTo(u, r, C, D)
      BY <3>2, <3>5 DEF ParsedTo, G
    <3> QED BY <2>3, <3>6
  <2> QED BY <2>5, <2>6
<1> QED BY <1>4, <1>5 DEF ParserInv
LEMMA DeviceStep ==
    ASSUME NEW t \in Seq(LineSet), NEW line \in LineSet, NEW w, NEW C, NEW D,
           ReadIn(t, line, w, C, D), Len(w.in) = 2, NEW r, r = DeviceLine(w, line)
    PROVE  ParserInv(Append(t, line), r)
<1> DEFINE u == Append(t, line)
           n == Len(t)
           H == w.channels
           c == Len(H)
           old == H[c]
           m == Len(old.devices)
           o == OwnerIn(u, n + 1)
<1>0. /\ line.blank \in Nat /\ n \in Nat /\ u[n + 1] = line
      /\ u = Append(t, line) /\ n = Len(t) /\ o = OwnerIn(u, n + 1)
  BY LinesAssumption
<1>1. /\ ParserShape(w) /\ w.ret = "PEC_NONE" /\ Named(t, H, C, D)
      /\ Opens(t, OpenIn(u, n + 1), w.in, C, D) /\ o = D[Len(C)][Len(D[Len(C)])]
  <2>1. ReadIn(t, line, w, C, D) /\ Len(w.in) = 2
    OBVIOUS
  <2>2. Len(w.in) # 0
    BY ONLY <2>1
  <2>3. o = At(C, D, Len(w.in))
    BY ONLY <2>1, <2>2 DEF ReadIn
  <2>4. o = At(C, D, 2)
    BY ONLY <2>1, <2>3
  <2>5. At(C, D, 2) = D[Len(C)][Len(D[Len(C)])]
    BY DEF At
  <2>6. /\ ParserShape(w) /\ w.ret = "PEC_NONE" /\ Named(t, H, C, D)
        /\ Opens(t, OpenIn(u, n + 1), w.in, C, D)
    BY ONLY <2>1 DEF ReadIn
  <2> QED BY ONLY <2>4, <2>5, <2>6
<1>2. /\ c \in Nat /\ c > 0 /\ c = Len(C) /\ c \in DOMAIN H /\ c \in 1 .. Len(C) /\ DOMAIN H = 1 .. c
      /\ m = Len(D[c]) /\ m \in Nat /\ m > 0
  <2>1. Len(C) = c /\ Len(C) > 0 /\ Len(D[Len(C)]) > 0
    BY <1>1 DEF Named, Opens
  <2>2. c \in Nat /\ DOMAIN H = 1 .. c
    BY <1>1, SeqIs DEF ParserShape
  <2>3. c \in 1 .. Len(C) /\ c \in DOMAIN H
    BY <2>1, <2>2
  <2>4. m = Len(D[c]) /\ m \in Nat
    BY <1>1, <2>3, NamedFacts
  <2> QED BY <2>1, <2>2, <2>3, <2>4
<1>3. w.in \in Seq(Calls)
  BY <1>1 DEF ParserShape
<1>4. /\ ParserFields \subseteq DOMAIN r
      /\ r.ret = "PEC_NONE" => \E e : DeviceMade(w, line, c, old, r, e)
  <2>1. /\ ParserShape(w) /\ w.ret = "PEC_NONE" /\ line.blank \in Nat
        /\ c = Len(w.channels) /\ c > 0 /\ old = w.channels[c] /\ r = DeviceLine(w, line)
        /\ m = Len(old.devices) /\ m > 0
    BY <1>0, <1>1, <1>2
  <2> HIDE DEF m, c, old
  <2> QED BY ONLY <2>1, DeviceEffect
<1>5. ASSUME r.ret = "PEC_NONE" PROVE ParserShape(r) /\ \E E : ParsedTo(u, r, C, E)
  <2>0. PICK e : DeviceMade(w, line, c, old, r, e)
    BY <1>4, <1>5
  <2>1. /\ r.channels = [H EXCEPT ![c] = e] /\ ChannelShape(e) /\ r.in = w.in
        /\ e.priority = old.priority /\ Len(e.devices) = m
        /\ line.key \notin {"channel", "device"}
        /\ \A d \in 1 .. m : e.devices[d].priority =
             IF d = m /\ line.key = "priority" THEN line.val ELSE old.devices[d].priority
    BY <2>0 DEF DeviceMade
  <2> DEFINE G == r.channels
  <2>3. ParserShape(r) /\ Len(G) = Len(H)
        /\ \A k \in 1 .. Len(H) : G[k] = IF k = c THEN e ELSE H[k]
    <3>1. /\ ParserShape(w) /\ c \in DOMAIN w.channels /\ ChannelShape(e)
          /\ r.channels = [w.channels EXCEPT ![c] = e] /\ ParserFields \subseteq DOMAIN r
          /\ r.in \in Seq(Calls) /\ Len(r.in) <= 2
      <4>1. Len(r.in) <= 2
        BY ONLY <2>1, Len(w.in) = 2
      <4> QED BY <1>1, <1>2, <1>3, <1>4, <2>1, <4>1
    <3> HIDE DEF c
    <3> QED BY ONLY <3>1, ShapeOf
  <2> HIDE DEF H
  <2>4. G[c] = e /\ \A k \in 1 .. Len(C) : k # c => G[k] = H[k]
    BY <1>2, <2>3
  <2> HIDE DEF G
  <2>5. ASSUME NEW k \in 1 .. Len(C)
        PROVE  /\ Len(G[k].devices) = Len(H[k].devices)
               /\ G[k].priority = IF line.key = "priority" /\ o = C[k] THEN line.val ELSE H[k].priority
               /\ \A d \in 1 .. Len(H[k].devices) : G[k].devices[d].priority =
                    IF line.key = "priority" /\ o = D[k][d] THEN line.val ELSE H[k].devices[d].priority
    <3>1. o = D[c][m] /\ m \in 1 .. Len(D[c])
      BY <1>1, <1>2
    <3>2. k \in 1 .. Len(C) /\ c \in 1 .. Len(C) /\ Named(t, H, C, D)
      BY <1>1, <1>2
    <3>3. Len(H[k].devices) = Len(D[k])
      BY <3>2, NamedFacts
    <3> HIDE DEF c, m, o
    <3>4. /\ C[k] # D[c][m]
          /\ \A d \in 1 .. Len(D[k]) : D[k][d] = D[c][m] => k = c /\ d = m
      BY ONLY <3>1, <3>2, Distinct, t \in Seq(LineSet)
    <3>5. CASE k # c
      BY <2>4, <3>1, <3>3, <3>4, <3>5
    <3>6. CASE k = c
      <4>1. G[k] = e /\ H[k] = old /\ Len(H[k].devices) = m
        BY <2>4, <3>6 DEF m
      <4> HIDE DEF old
      <4> QED BY <2>1, <3>1, <3>3, <3>4, <3>6, <4>1
    <3> QED BY <3>5, <3>6
  <2>6. Opens(u, OpenAt(u), r.in, C, D)
    BY <2>1, ClosedOld
  <2>7. Named(u, G, C, D)
    <3>1. u = Append(t, line) /\ n = Len(t) /\ o = OwnerIn(u, n + 1) /\ Named(t, H, C, D)
          /\ line.key \notin {"channel", "device"}
          /\ Rewritten(line, o, H, G, C, D)
      BY <1>0, <1>1, <2>1, <2>3, <2>5 DEF Rewritten
    <3> HIDE DEF o, u, n
    <3> QED BY ONLY <3>1, SameLines, t \in Seq(LineSet), line \in LineSet
  <2> HIDE DEF u
  <2>8. ParsedTo(u, r, C, D)
    BY <2>6, <2>7 DEF ParsedTo, G
  <2> QED BY <2>3, <2>8
<1> QED BY <1>4, <1>5 DEF ParserInv

\* One more line.
LEMMA ParserStep ==
    ASSUME NEW t \in Seq(LineSet), NEW line \in LineSet, NEW s, ParserInv(t, s)
    PROVE  ParserInv(Append(t, line), ParseLine(s, line))
<1> DEFINE u == Append(t, line)
           r == ParseLine(s, line)
           w == [s EXCEPT !.in = CloseCalls(s.in, line.blank)]
<1>1. ParserFields \subseteq DOMAIN s
  BY DEF ParserInv
<1>2. CASE s.ret # "PEC_NONE"
  <2>1. r = s
    BY <1>2 DEF ParseLine
  <2> HIDE DEF r, u
  <2> QED BY <1>1, <1>2, <2>1 DEF ParserInv, r, u
<1>3. CASE s.ret = "PEC_NONE" /\ line.key = ""
  <2>1. r = s
    BY <1>3 DEF ParseLine
  <2>2. ParserShape(s)
    BY <1>3 DEF ParserInv
  <2>3. PICK C, D : ParsedTo(t, s, C, D)
    BY <1>3 DEF ParserInv
  <2>4. ParsedTo(u, s, C, D)
    BY <1>3, <2>3, BlankStep
  <2> HIDE DEF r, u
  <2> QED BY <1>1, <2>1, <2>2, <2>4 DEF ParserInv, r, u
<1>4. CASE s.ret = "PEC_NONE" /\ line.key # ""
  <2>1. ParserShape(s)
    BY <1>4 DEF ParserInv
  <2>2. PICK C, D : ParsedTo(t, s, C, D)
    BY <1>4 DEF ParserInv
  <2> DEFINE out == CloseCalls(s.in, line.blank)
  <2>3. s.in \in Seq(Calls) /\ Len(s.in) <= 2 /\ line.blank \in Nat
    BY <2>1, LinesAssumption DEF ParserShape
  <2>4. out \in Seq(Calls) /\ Len(out) <= Len(s.in)
    BY <2>3, CallsLeft
  <2>5. Len(out) \in {0, 1, 2}
    <3>1. Len(out) \in Nat /\ Len(s.in) \in Nat
      BY <2>3, <2>4
    <3> HIDE DEF out
    <3>2. Len(out) <= Len(s.in) /\ Len(s.in) <= 2
      BY <2>3, <2>4
    <3> DEFINE x == Len(out)
               y == Len(s.in)
    <3>3. x \in Nat /\ y \in Nat /\ x <= y /\ y <= 2
      BY <3>1, <3>2
    <3> HIDE DEF x, y
    <3>4. x \in {0, 1, 2}
      BY ONLY <3>3
    <3> QED BY <3>4 DEF x
  <2>6. w.in = out /\ w.channels = s.channels /\ w.ret = s.ret /\ ParserFields \subseteq DOMAIN w
    BY <1>1 DEF ParserFields
  <2>7. /\ Opens(t, OpenIn(u, Len(t) + 1), out, C, D)
        /\ OwnerIn(u, Len(t) + 1) = IF Len(out) = 0 THEN 0 ELSE At(C, D, Len(out))
    <3>1. s.in \in Seq(Calls) /\ line.key # "" /\ Opens(t, OpenAt(t), s.in, C, D)
      BY <1>4, <2>2, <2>3 DEF ParsedTo
    <3>2. Around(t, line, CloseCalls(s.in, line.blank), C, D)
      BY ONLY <3>1, CloseOpens, t \in Seq(LineSet), line \in LineSet
    <3> QED BY ONLY <3>2 DEF Around
  <2> HIDE DEF w, out
  <2>8. ParserShape(w)
    BY <2>1, <2>3, <2>4, <2>5, <2>6 DEF ParserShape, ParserFields
  <2>9. ReadIn(t, line, w, C, D)
    BY <1>4, <2>2, <2>6, <2>7, <2>8 DEF ReadIn, ParsedTo
  <2>10. r = CASE Len(w.in) = 0 -> LoggerLine(w, line)
               [] Len(w.in) = 1 -> ChannelLine(w, line)
               [] OTHER -> DeviceLine(w, line)
    BY <1>4 DEF ParseLine, w
  <2> HIDE DEF r, u
  <2>11. CASE Len(w.in) = 0
    <3>1. r = LoggerLine(w, line)
      BY <2>10, <2>11
    <3> QED BY <2>9, <2>11, <3>1, LoggerStep DEF r, u
  <2>12. CASE Len(w.in) = 1
    <3>1. r = ChannelLine(w, line)
      BY <2>10, <2>12
    <3> QED BY <2>9, <2>12, <3>1, ChannelStep DEF r, u
  <2>13. CASE Len(w.in) = 2
    <3>1. r = DeviceLine(w, line)
      BY <2>10, <2>13
    <3> QED BY <2>9, <2>13, <3>1, DeviceStep DEF r, u
  <2> QED BY <2>5, <2>6, <2>11, <2>12, <2>13 DEF r, u
<1> QED BY <1>2, <1>3, <1>4

-----------------------------------------------------------------------------
(* ParsedAsIndented *)

TextInv == text \in Seq(LineSet) /\ ParserInv(text, Run(text))

LEMMA TextInit == ConfigInit => TextInv
<1>1. Run(<<>>) = Start /\ ParserInv(<<>>, Start) /\ <<>> \in Seq(LineSet)
  BY RunSteps, NoLines
<1> QED BY <1>1 DEF ConfigInit, TextInv

LEMMA TextStep == TextInv /\ [ConfigNext]_text => TextInv'
<1> SUFFICES ASSUME TextInv, [ConfigNext]_text PROVE TextInv'
  OBVIOUS
<1>1. CASE UNCHANGED text
  BY <1>1 DEF TextInv
<1>2. ASSUME NEW line \in LineSet, WriteLine(line) PROVE TextInv'
  <2>1. text' = Append(text, line)
    BY <1>2 DEF WriteLine
  <2>2. text \in Seq(LineSet) /\ ParserInv(text, Run(text))
    BY DEF TextInv
  <2>3. Run(Append(text, line)) = ParseLine(Run(text), line)
    BY <2>2, RunSteps
  <2>4. ParserInv(Append(text, line), ParseLine(Run(text), line))
    BY <2>2, ParserStep
  <2>5. Append(text, line) \in Seq(LineSet)
    BY <2>2
  <2>6. ParserInv(text', Run(text'))
    BY <2>1, <2>3, <2>4
  <2> QED BY <2>1, <2>5, <2>6 DEF TextInv
<1> QED BY <1>1, <1>2 DEF ConfigNext

\* ParseLogger accepts only what the lines alone have not refused.
LEMMA Accepted ==
    ASSUME NEW t, ParserFields \subseteq DOMAIN Run(t), text = t, ParseLogger(t).ret = "PEC_NONE"
    PROVE  Run(t).ret = "PEC_NONE" /\ ParseLogger(t) = Run(t)
<1> DEFINE s == Run(t)
           blank_end == t = <<>> \/ t[Len(t)].key = ""
<1>1. ParseLogger(t) = IF s.ret = "PEC_NONE" /\ s.channels = <<>> /\ ~blank_end
                       THEN Fail(s, "E_INVALID_CHANNEL_SIZE") ELSE s
  BY DEF ParseLogger, Run
<1> HIDE DEF s, blank_end
<1>2. Fail(s, "E_INVALID_CHANNEL_SIZE").ret # "PEC_NONE"
  BY DEF Fail, ParserFields, s
<1> QED BY <1>1, <1>2 DEF s

LEMMA LastPrio ==
    ASSUME NEW S \in SUBSET Nat, NEW v, Prio(text, S, v)
    PROVE  v = IF S = {} THEN 0 ELSE LastVal(S)
<1>1. CASE S = {}
  BY <1>1 DEF Prio
<1>2. CASE S # {}
  <2>1. PICK i \in S : (\A j \in S : j <= i) /\ v = text[i].val
    BY <1>2 DEF Prio
  <2> DEFINE m == CHOOSE k \in S : \A j \in S : j <= k
  <2>2. m \in S /\ \A j \in S : j <= m
    BY <2>1
  <2> HIDE DEF m
  <2>3. m = i
    BY <2>1, <2>2
  <2> QED BY <1>2, <2>1, <2>3 DEF LastVal, m
<1> QED BY <1>1, <1>2

LEMMA TextParsed == TextInv => ParsedAsIndented
<1> SUFFICES ASSUME TextInv, ParseLogger(text).ret = "PEC_NONE"
             PROVE  LET p == ParseLogger(text)
                        chans == Lines("channel", 0)
                        prio(f, S) == f.priority = IF S = {} THEN 0 ELSE LastVal(S)
                    IN  /\ chans = {i \in DOMAIN text : text[i].key = "channel"}
                        /\ Len(p.channels) = Cardinality(chans)
                        /\ \A i \in chans :
                             LET c == p.channels[Rank(chans, i)]
                                 devs == Lines("device", i)
                             IN /\ text[i].val = Rank(chans, i) - 1
                                /\ prio(c, Lines("priority", i))
                                /\ Len(c.devices) = Cardinality(devs)
                                /\ \A j \in devs : prio(c.devices[Rank(devs, j)], Lines("priority", j))
  BY DEF ParsedAsIndented
<1> DEFINE p == ParseLogger(text)
           H == p.channels
           chans == Lines("channel", 0)
<1>1. text \in Seq(LineSet) /\ p = Run(text) /\ p.ret = "PEC_NONE"
  BY Accepted DEF TextInv, ParserInv
<1>2. PICK C, D : Named(text, H, C, D)
  <2>1. ParserInv(text, p)
    BY <1>1 DEF TextInv
  <2> QED BY <1>1, <2>1 DEF ParserInv, ParsedTo
<1>3. \A key, o : Lines(key, o) = LinesIn(text, key, o)
  BY DEF Lines, LinesIn, Owner, OwnerIn, OpenIn
<1> HIDE DEF p, H
<1>4. chans = ChannelLines(text)
  <2>1. \A i \in ChannelLines(text) : OwnerIn(text, i) = 0
    <3> TAKE i \in ChannelLines(text)
    <3>1. PICK k \in DOMAIN C : i = C[k]
      BY <1>2 DEF Named, Lists
    <3> QED BY <1>1, <1>2, <3>1, NamedFacts DEF Named, NamedAt
  <2>2. LinesIn(text, "channel", 0) = ChannelLines(text)
    BY <2>1 DEF LinesIn, ChannelLines
  <2> QED BY <1>3, <2>2
<1> HIDE DEF chans
<1>5. Lists(C, chans) /\ Len(C) = Len(H)
  BY <1>2, <1>4 DEF Named
<1>6. Len(H) = Cardinality(chans) /\ \A k \in DOMAIN C : Rank(chans, C[k]) = k
  BY <1>5, ListRank
<1>7. ASSUME NEW k \in DOMAIN C
      PROVE  /\ text[C[k]].val = k - 1
             /\ H[k].priority = IF Lines("priority", C[k]) = {} THEN 0 ELSE LastVal(Lines("priority", C[k]))
             /\ Len(H[k].devices) = Cardinality(Lines("device", C[k]))
             /\ \A j \in Lines("device", C[k]) :
                  H[k].devices[Rank(Lines("device", C[k]), j)].priority =
                    IF Lines("priority", j) = {} THEN 0 ELSE LastVal(Lines("priority", j))
  <2> DEFINE x == C[k]
             devs == Lines("device", x)
             q == D[k]
             h == H[k]
  <2>1. NamedAt(text, h, x, q, k)
    <3>1. k \in 1 .. Len(C)
      BY <1>1, <1>2, NamedFacts
    <3> QED BY <1>2, <3>1 DEF Named
  <2>2. \A o : Lines("priority", o) \in SUBSET Nat
    <3>1. DOMAIN text = 1 .. Len(text)
      BY ONLY <1>1
    <3>2. DOMAIN text \subseteq Nat
      BY ONLY <3>1
    <3> QED BY ONLY <3>2 DEF Lines
  <2> HIDE DEF x, q, h
  <2>3. Lists(q, devs) /\ Len(q) = Len(h.devices)
    BY <1>3, <2>1 DEF NamedAt
  <2>4. text[x].val = k - 1
    BY <2>1 DEF NamedAt
  <2>5. h.priority = IF Lines("priority", x) = {} THEN 0 ELSE LastVal(Lines("priority", x))
    <3>1. Prio(text, Lines("priority", x), h.priority)
      BY <1>3, <2>1 DEF NamedAt
    <3> QED BY <2>2, <3>1, LastPrio
  <2> HIDE DEF devs
  <2>6. Len(h.devices) = Cardinality(devs) /\ \A d \in DOMAIN q : Rank(devs, q[d]) = d
    BY <2>3, ListRank
  <2>7. ASSUME NEW j \in devs
        PROVE  h.devices[Rank(devs, j)].priority =
                 IF Lines("priority", j) = {} THEN 0 ELSE LastVal(Lines("priority", j))
    <3>1. PICK d \in DOMAIN q : j = q[d]
      BY <2>3 DEF Lists
    <3>2. Prio(text, Lines("priority", q[d]), h.devices[d].priority)
      BY <1>3, <2>1 DEF NamedAt
    <3>3. Rank(devs, j) = d
      BY <2>6, <3>1
    <3> QED BY <2>2, <3>1, <3>2, <3>3, LastPrio
  <2> QED BY <2>4, <2>5, <2>6, <2>7 DEF x, h, devs
<1>8. ASSUME NEW i \in chans
      PROVE  LET c == H[Rank(chans, i)]
                 devs == Lines("device", i)
             IN  /\ text[i].val = Rank(chans, i) - 1
                 /\ c.priority = IF Lines("priority", i) = {} THEN 0 ELSE LastVal(Lines("priority", i))
                 /\ Len(c.devices) = Cardinality(devs)
                 /\ \A j \in devs : c.devices[Rank(devs, j)].priority =
                      IF Lines("priority", j) = {} THEN 0 ELSE LastVal(Lines("priority", j))
  <2>1. PICK k \in DOMAIN C : i = C[k]
    BY <1>5 DEF Lists
  <2>2. Rank(chans, i) = k
    BY <1>6, <2>1
  <2> QED BY <1>7, <2>1, <2>2
<1>9. chans = {i \in DOMAIN text : text[i].key = "channel"}
  BY <1>4 DEF ChannelLines
<1> QED BY <1>6, <1>8, <1>9 DEF p, H, chans

\* What ParseLogger accepts has the channels and devices the indentation of the
\* text says, in any text of any lines, and each has the priority of its own
\* last priority line, never that of a neighbour.
THEOREM ParsedAlways == ConfigSpec => []ParsedAsIndented
<1>1. TextInv /\ [ConfigNext]_text => TextInv'
  BY TextStep
<1> QED BY <1>1, TextInit, TextParsed, PTL DEF ConfigSpec

=============================================================================
