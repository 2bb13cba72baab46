---------------------------- MODULE FnRingProofs ----------------------------
(***************************************************************************)
(* Invariance proofs for FnRing: for every number of logging threads,      *)
(* every length of the ring, sync and async channels, any number of stops  *)
(* and crashes, as long as no thread sleeps a whole turn of the ring       *)
(* between its load of an index and its compare_exchange (LapFree).        *)
(***************************************************************************)
EXTENDS FnRing, TLAPS, SequenceTheorems

-----------------------------------------------------------------------------
(* Indices modulo the length of the ring *)

LEMMA RingLen == BUFFER_LEN \in Nat /\ BUFFER_LEN > 1
BY RingAssumption

LEMMA AtSlot == ASSUME NEW a \in Nat PROVE At(a) \in Slots
BY RingLen DEF At, Slots

\* The remainder of a division is unique.
LEMMA Remainder ==
    ASSUME NEW N \in Nat, NEW x \in Int, NEW y \in Int, NEW r \in 0 .. N - 1,
           NEW s \in 0 .. N - 1, N * x + r = N * y + s
    PROVE  x = y /\ r = s
<1>1. r - s = N * (y - x)
  OBVIOUS
<1>2. CASE y - x >= 1
  <2>1. N * (y - x) >= N
    BY <1>2
  <2> QED BY <1>1, <2>1
<1>3. CASE y - x <= -1
  <2>1. N * (y - x) <= -N
    BY <1>3
  <2> QED BY <1>1, <2>1
<1>4. CASE y = x
  BY <1>1, <1>4
<1> QED BY <1>2, <1>3, <1>4

LEMMA Divided ==
    ASSUME NEW a \in Nat
    PROVE  \E q \in Nat : a = BUFFER_LEN * q + At(a) /\ At(a) \in 0 .. BUFFER_LEN - 1
<1>1. /\ a \div BUFFER_LEN \in Nat
      /\ a = BUFFER_LEN * (a \div BUFFER_LEN) + At(a) /\ At(a) \in 0 .. BUFFER_LEN - 1
  BY RingLen DEF At
<1> QED BY <1>1

\* Two indices less than a turn apart are in the same slot only if they are equal.
LEMMA SameSlot ==
    ASSUME NEW a \in Nat, NEW b \in Nat, a <= b, b - a < BUFFER_LEN, At(a) = At(b)
    PROVE  a = b
<1> PICK x \in Nat : a = BUFFER_LEN * x + At(a) /\ At(a) \in 0 .. BUFFER_LEN - 1
  BY Divided
<1> PICK y \in Nat : b = BUFFER_LEN * y + At(b) /\ At(b) \in 0 .. BUFFER_LEN - 1
  BY Divided
<1>1. b - a \in 0 .. BUFFER_LEN - 1 /\ 0 \in 0 .. BUFFER_LEN - 1
  BY RingLen
<1>2. BUFFER_LEN * (y - x) + 0 = BUFFER_LEN * 0 + (b - a)
  BY RingLen
<1> QED BY <1>1, <1>2, RingLen, Remainder

\* One turn later an index is in the same slot.
LEMMA NextTurn == ASSUME NEW a \in Nat PROVE At(a + BUFFER_LEN) = At(a)
<1> DEFINE b == a + BUFFER_LEN
<1>1. b \in Nat
  BY RingLen
<1>2. PICK x \in Nat : a = BUFFER_LEN * x + At(a) /\ At(a) \in 0 .. BUFFER_LEN - 1
  BY Divided
<1> HIDE DEF b
<1>3. PICK y \in Nat : b = BUFFER_LEN * y + At(b) /\ At(b) \in 0 .. BUFFER_LEN - 1
  BY <1>1, Divided
<1>4. PICK z \in Int : z = x + 1
  OBVIOUS
<1>5. BUFFER_LEN * z + At(a) = BUFFER_LEN * y + At(b)
  <2>1. BUFFER_LEN * z = BUFFER_LEN * x + BUFFER_LEN
    BY <1>4, RingLen
  <2> QED BY <1>2, <1>3, <2>1, RingLen DEF b
<1>6. At(a) - At(b) = BUFFER_LEN * (y - z)
  BY <1>2, <1>3, <1>5, RingLen
<1>7. CASE y - z >= 1
  <2>1. BUFFER_LEN * (y - z) >= BUFFER_LEN
    BY <1>7, RingLen
  <2> QED BY <1>2, <1>3, <1>6, <2>1, RingLen
<1>8. CASE y - z <= -1
  <2>1. BUFFER_LEN * (y - z) <= -BUFFER_LEN
    BY <1>8, RingLen
  <2> QED BY <1>2, <1>3, <1>6, <2>1, RingLen
<1>9. CASE y = z
  BY <1>2, <1>3, <1>6, <1>9, RingLen DEF b
<1> QED BY <1>7, <1>8, <1>9

-----------------------------------------------------------------------------
(* The inductive invariant.  Everything but the types is stated while the  *)
(* queue is Open, that is until CleanChannels.                             *)

PreReady == {"mark", "fill", "push", "ready"}   \* a thread that owns a slot
Pushing == {"wload", "wcheck", "wcas"}          \* a log marked READY, not returned
Owns(t) == pc[t] \in PreReady

\* The number of a log that is being made is within its bound.
Numbered == \A t \in Threads : seq[t] >= 1 /\ (pc[t] # "idle" => seq[t] <= MaxLogs)

Order ==
    /\ read <= proc /\ proc <= write /\ write <= hold
    /\ hold - read < BUFFER_LEN

\* What a thread has loaded was the index at some earlier moment; if it still
\* is, what the thread has compared it with then still leaves room for a step.
Loaded(p) ==
    /\ pc[p] = "cas" => old[p] <= hold /\ (old[p] = hold => hold + 1 - read < BUFFER_LEN)
    /\ pc[p] \in {"wcheck", "wcas"} => old[p] <= write
    /\ pc[p] = "wcas" => (old[p] = write => write < hold)
    /\ pc[p] = "pcas" => old[p] <= proc /\ (old[p] = proc => proc < write)
    /\ pc[p] = "rcas" => old[p] <= read /\ (old[p] = read => read < proc)
    /\ pc[p] = "dispatch" => old[p] < proc

\* Nobody uses the ring before the logger is started, or after a crash.
Quiet == logger = "UNINIT" => \A p \in Procs : pc[p] \in {"idle", "off"}

\* A queue that is closing has been stopped once at least.
Stopping == logger = "CLOSING" => stops > 0

RingInv == Order /\ Quiet /\ \A p \in Procs : Loaded(p)
OrderInv == Stopping /\ (Open => RingInv)

\* A thread between HoldChannel and its mark READY owns a slot that write_idx_
\* has not passed, alone, and the slot is not marked READY for it.
Owned(t) ==
    Owns(t) => /\ write <= my[t] /\ my[t] < hold
               /\ mark[At(my[t])] # "READY"
               /\ \A u \in Threads : u # t /\ Owns(u) => my[u] # my[t]

\* The slot that write_idx_ or read_idx_ is about to pass is nobody's any more.
Passing(p) ==
    /\ pc[p] = "wcas" /\ old[p] = write => \A t \in Threads : Owns(t) => my[t] # write
    /\ pc[p] = "rcas" /\ old[p] = read => mark[At(read)] = "INVALID"

Unused == \A i \in hold .. read + BUFFER_LEN - 1 : mark[At(i)] = "INVALID"
Filled(t) == pc[t] \in {"push", "ready"} => slot[At(my[t])].log = Log(t)

\* A log waits in the ring, marked READY, in a slot that nobody owns.
Waits(l) ==
    \E a \in read .. hold - 1 :
        /\ slot[At(a)].log = l /\ mark[At(a)] = "READY"
        /\ \A t \in Threads : Owns(t) => my[t] # a

Kept ==
    /\ \A l \in accepted : Written(l) \/ Waits(l)
    /\ \A t \in Threads : pc[t] \in Pushing => Written(Log(t)) \/ Waits(Log(t))

SlotInv ==
    /\ Unused /\ Kept
    /\ \A t \in Threads : Owned(t) /\ Filled(t)
    /\ \A p \in Procs : Passing(p)

KeptInv == Open => SlotInv

\* Nothing without a log in it is ever taken for one, torn slots apart.
Good(c) == c.log # NoLog \/ c.core

\* What write_idx_ has passed, or is about to pass, and what was written.
Whole ==
    /\ \A i \in Slots : mark[i] = "READY" => Good(slot[i])
    /\ \A a \in 0 .. write - 1 : Good(slot[At(a)])
    /\ \A p \in Procs : pc[p] = "wcas" /\ old[p] = write => Good(slot[At(write)])
    /\ \A i \in DOMAIN out : Good(out[i])

GoodInv == Open => Whole

\* Without a crash the ring holds what HoldChannel gave away, in order.
Fresh(t) ==
    \A i \in 1 .. hold : held[i][1] = t =>
        held[i][2] <= seq[t] /\ (pc[t] \in {"idle", "hold", "cas"} => held[i][2] < seq[t])

\* HoldChannel gives every log one slot, in the order of held.
HeldInv ==
    /\ Len(held) = hold
    /\ \A i, j \in 1 .. hold : held[i] = held[j] => i = j
    /\ \A t \in Threads : Fresh(t) /\ (Owns(t) => held[my[t] + 1] = Log(t))
    /\ logger = "UNINIT" => hold = 0

\* A READY slot holds the log it was given to; write_idx_ passes READY slots.
ReadyInv ==
    /\ \A a \in read .. hold - 1 : mark[At(a)] = "READY" => slot[At(a)].log = held[a + 1]
    /\ \A a \in proc .. write - 1 : mark[At(a)] = "READY"
    /\ \A p \in Procs : pc[p] = "wcas" /\ old[p] = write => mark[At(write)] = "READY"

\* A slot that is being written out stays what it was and nobody else's.
NotOut(a) == \A i \in DOMAIN out : out[i].log # held[a + 1]
Taken(p) ==
    pc[p] = "dispatch" =>
        /\ read <= old[p] /\ mark[At(old[p])] = "READY" /\ NotOut(old[p])
        /\ \A q \in Procs : q # p /\ pc[q] = "dispatch" => old[q] # old[p]

OutInv ==
    /\ \A p \in Procs : Taken(p)
    /\ \A a \in proc .. hold - 1 : NotOut(a)
    /\ \A i \in DOMAIN out : \E j \in 1 .. hold : out[i].log = held[j]
    /\ \A i, j \in DOMAIN out : i # j => out[i].log # out[j].log

\* Of an async channel, only its own thread writes logs out.
InTurn ==
    /\ \A t \in Threads : pc[t] \notin ProcSteps
    /\ pc[Writer] = "dispatch" => old[Writer] = proc - 1
    /\ Len(out) = IF pc[Writer] = "dispatch" THEN proc - 1 ELSE proc
    /\ \A i \in DOMAIN out : out[i].log = held[i]

TurnInv == type = "async" => InTurn
Once == HeldInv /\ ReadyInv /\ OutInv /\ TurnInv
OnceInv == Open /\ crashes = 0 => Once

-----------------------------------------------------------------------------
(* Types *)

LEMMA StepNames ==
    /\ "idle" \in Steps /\ "off" \in Steps /\ "done" \in Steps
    /\ "hold" \in Steps /\ "cas" \in Steps /\ "mark" \in Steps /\ "fill" \in Steps
    /\ "push" \in Steps /\ "ready" \in Steps
    /\ "wload" \in Steps /\ "wcheck" \in Steps /\ "wcas" \in Steps
    /\ "pload" \in Steps /\ "pcas" \in Steps /\ "dispatch" \in Steps
    /\ "rload" \in Steps /\ "rcas" \in Steps /\ "tail" \in Steps
BY DEF Steps, HoldSteps, PushSteps, ProcSteps

LocalOK == pc \in [Procs -> Steps] /\ seq \in [Threads -> Nat] /\ Numbered
IndexOK ==
    /\ hold \in Nat /\ write \in Nat /\ proc \in Nat /\ read \in Nat
    /\ old \in [Procs -> Nat] /\ my \in [Threads -> Nat]

\* A process goes on to its next step, or ends its log.
LEMMA MoveType ==
    ASSUME LocalOK, NEW p \in Procs, NEW s \in Steps, Goto(p, s),
           seq' = seq, s = "idle" \/ pc[p] # "idle" \/ (p \in Threads => seq[p] <= MaxLogs)
    PROVE  LocalOK'
BY DEF LocalOK, Numbered, Goto, Procs

LEMMA EndType == ASSUME LocalOK, NEW p \in Procs, LogEnd(p) PROVE LocalOK'
<1>1. pc' \in [Procs -> Steps] /\ seq' \in [Threads -> Nat]
  <2>1. CASE p \in Threads
    BY <2>1, StepNames DEF LocalOK, LogEnd, Goto
  <2>2. CASE p \notin Threads
    BY <2>2, StepNames DEF LocalOK, LogEnd, Goto
  <2> QED BY <2>1, <2>2
<1>2. \A t \in Threads : IF t = p THEN pc'[t] = "idle" /\ seq'[t] = seq[t] + 1
                         ELSE pc'[t] = pc[t] /\ seq'[t] = seq[t]
  BY DEF LocalOK, LogEnd, Goto, Procs
<1> QED BY <1>1, <1>2 DEF LocalOK, Numbered

LEMMA SplitType == TypeOK /\ Numbered => LocalOK /\ IndexOK
BY DEF TypeOK, LocalOK, IndexOK

LEMMA LogType == ASSUME TypeOK, Numbered, NEW t \in Threads, pc[t] # "idle" PROVE Log(t) \in Logs
BY RingAssumption DEF Log, Logs, TypeOK, Numbered

LEMMA InitType == Init => TypeOK /\ Numbered
<1> SUFFICES ASSUME Init PROVE TypeOK /\ Numbered
  OBVIOUS
<1>1. held \in Seq(Logs) /\ out \in Seq(Content)
  BY EmptySeq DEF Init
<1>2. pc \in [Procs -> Steps] /\ slot \in [Slots -> Content] /\ mark \in [Slots -> Marks]
  BY StepNames DEF Init, Content, Marks
<1>3. Numbered
  BY RingAssumption DEF Init, Numbered, Procs
<1>4. old \in [Procs -> Nat] /\ my \in [Threads -> Nat] /\ seq \in [Threads -> Nat]
  BY DEF Init
<1>5. attached \in BOOLEAN /\ joining \in BOOLEAN /\ type \in Types
  BY DEF Init
<1>6. accepted \subseteq Logs /\ {hold, write, proc, read, stops, crashes} \subseteq Nat
  BY DEF Init
<1> QED
  BY <1>1, <1>2, <1>3, <1>4, <1>5, <1>6 DEF Init, TypeOK, LoggerStates, ChannelStates

LEMMA ProduceType ==
    ASSUME TypeOK, Numbered, NEW t \in Threads, LogBegin(t) \/ Produce(t)
    PROVE  TypeOK' /\ Numbered'
<1> USE SplitType, StepNames
<1>0. t \in Procs
  BY DEF Procs
<1>1. CASE LogBegin(t)
  <2>1. LocalOK'
    BY <1>0, <1>1, MoveType DEF LogBegin
  <2> QED BY <1>1, <2>1 DEF LogBegin, TypeOK, LocalOK, ctl, ring, slots, history
<1>2. CASE HoldLoad(t)
  <2>1. LocalOK'
    BY <1>0, <1>2, MoveType, EndType DEF HoldLoad
  <2>2. old' \in [Procs -> Nat]
    BY <1>0, <1>2 DEF HoldLoad, TypeOK
  <2> QED BY <1>2, <2>1, <2>2 DEF HoldLoad, TypeOK, LocalOK, ctl, ring, slots, history
<1>3. CASE HoldCas(t)
  <2>1. LocalOK'
    BY <1>0, <1>3, MoveType DEF HoldCas
  <2>2. held' \in Seq(Logs)
    <3>1. Log(t) \in Logs /\ held \in Seq(Logs)
      BY <1>3, LogType DEF HoldCas, TypeOK
    <3> QED BY <1>3, <3>1, AppendProperties DEF HoldCas
  <2>3. IndexOK'
    <3>1. /\ hold' = hold \/ hold' = hold + 1
          /\ my' = my \/ my' = [my EXCEPT ![t] = hold]
          /\ old' = [old EXCEPT ![t] = 0]
          /\ write' = write /\ proc' = proc /\ read' = read
      BY <1>3 DEF HoldCas, Leave
    <3> QED BY <1>0, <3>1 DEF IndexOK
  <2> QED BY <1>3, <2>1, <2>2, <2>3 DEF HoldCas, TypeOK, LocalOK, IndexOK, ctl, slots
<1>4. CASE HoldMark(t)
  <2>1. LocalOK'
    BY <1>0, <1>4, MoveType DEF HoldMark
  <2>2. mark' \in [Slots -> Marks]
    BY <1>4, AtSlot DEF HoldMark, Marks, TypeOK
  <2> QED BY <1>4, <2>1, <2>2 DEF HoldMark, TypeOK, LocalOK, ctl, ring, history
<1>5. CASE Fill(t)
  <2>1. LocalOK'
    BY <1>0, <1>5, MoveType DEF Fill
  <2>2. slot' \in [Slots -> Content]
    BY <1>5, AtSlot, LogType DEF Fill, Content, TypeOK
  <2> QED BY <1>5, <2>1, <2>2 DEF Fill, TypeOK, LocalOK, ctl, ring, history
<1>6. CASE PushEnter(t)
  <2>1. LocalOK'
    BY <1>0, <1>6, MoveType, EndType DEF PushEnter
  <2>2. my' \in [Threads -> Nat]
    BY <1>6 DEF PushEnter, Leave, TypeOK
  <2> QED BY <1>6, <2>1, <2>2 DEF PushEnter, TypeOK, LocalOK, ctl, ring, slots, history
<1>7. CASE PushReady(t)
  <2>1. LocalOK'
    BY <1>0, <1>7, MoveType DEF PushReady
  <2>2. mark' \in [Slots -> Marks] /\ my' \in [Threads -> Nat]
    BY <1>7, AtSlot DEF PushReady, Marks, Leave, TypeOK
  <2> QED BY <1>7, <2>1, <2>2 DEF PushReady, TypeOK, LocalOK, ctl, ring, history
<1>8. CASE WriteLoad(t)
  <2>1. LocalOK'
    BY <1>0, <1>8, MoveType DEF WriteLoad
  <2> QED BY <1>8, <2>1 DEF WriteLoad, TypeOK, LocalOK, ctl, ring, slots, history
<1>9. CASE WriteCheck(t)
  <2>1. LocalOK'
    BY <1>0, <1>9, MoveType, EndType DEF WriteCheck, PushDone
  <2>2. accepted' \subseteq Logs /\ old' \in [Procs -> Nat]
    BY <1>9, LogType DEF WriteCheck, PushDone, Leave, TypeOK
  <2> QED BY <1>9, <2>1, <2>2 DEF WriteCheck, TypeOK, LocalOK, ctl, ring, slots
<1>10. CASE WriteCas(t)
  <2>1. LocalOK'
    BY <1>0, <1>10, MoveType, EndType DEF WriteCas, PushDone
  <2>3. accepted' \subseteq Logs
    BY <1>10, LogType DEF WriteCas, PushDone, TypeOK
  <2>2. old' \in [Procs -> Nat] /\ write' \in Nat
    <3>1. (write' = write \/ write' = write + 1) /\ old' = [old EXCEPT ![t] = 0]
      BY <1>10 DEF WriteCas, Leave
    <3> QED BY <1>0, <3>1 DEF IndexOK
  <2> QED BY <1>10, <2>1, <2>2, <2>3 DEF WriteCas, TypeOK, LocalOK, ctl, slots
<1> QED
  BY <1>1, <1>2, <1>3, <1>4, <1>5, <1>6, <1>7, <1>8, <1>9, <1>10 DEF Produce

LEMMA ProcType ==
    ASSUME TypeOK, Numbered, NEW c \in Procs, EnterProcChannel(c)
    PROVE  TypeOK' /\ Numbered'
<1> USE SplitType, StepNames
<1>1. CASE ProcLoad(c)
  <2>1. LocalOK'
    BY <1>1, MoveType DEF ProcLoad
  <2>2. old' \in [Procs -> Nat]
    BY <1>1 DEF ProcLoad, TypeOK
  <2> QED BY <1>1, <2>1, <2>2 DEF ProcLoad, TypeOK, LocalOK, ctl, ring, slots, history
<1>2. CASE ProcCas(c)
  <2>1. LocalOK'
    BY <1>2, MoveType DEF ProcCas
  <2>2. old' \in [Procs -> Nat] /\ proc' \in Nat
    BY <1>2 DEF ProcCas, Leave, IndexOK
  <2> QED BY <1>2, <2>1, <2>2 DEF ProcCas, TypeOK, LocalOK, ctl, slots, history
<1>3. CASE Dispatch(c)
  <2>1. LocalOK'
    BY <1>3, MoveType DEF Dispatch
  <2>2. slot[At(old[c])] \in Content /\ out \in Seq(Content)
    BY AtSlot DEF TypeOK
  <2>3. out' \in Seq(Content)
    BY <1>3, <2>2, AppendProperties DEF Dispatch
  <2>4. mark' \in [Slots -> Marks] /\ old' \in [Procs -> Nat]
    BY <1>3, AtSlot DEF Dispatch, Marks, Leave, TypeOK
  <2> QED BY <1>3, <2>1, <2>3, <2>4 DEF Dispatch, TypeOK, LocalOK, ctl, ring
<1>4. CASE ReadLoad(c)
  <2>1. LocalOK'
    BY <1>4, MoveType DEF ReadLoad
  <2>2. old' \in [Procs -> Nat]
    BY <1>4 DEF ReadLoad, TypeOK
  <2> QED BY <1>4, <2>1, <2>2 DEF ReadLoad, TypeOK, LocalOK, ctl, ring, slots, history
<1>5. CASE ReadCas(c)
  <2>1. LocalOK'
    BY <1>5, MoveType DEF ReadCas
  <2>2. old' \in [Procs -> Nat] /\ read' \in Nat
    BY <1>5 DEF ReadCas, Leave, TypeOK
  <2> QED BY <1>5, <2>1, <2>2 DEF ReadCas, TypeOK, LocalOK, ctl, slots, history
<1>6. CASE ProcTail(c)
  <2>1. LocalOK'
    BY <1>6, MoveType, EndType DEF ProcTail
  <2>2. chan' \in ChannelStates
    BY <1>6 DEF ProcTail, ChannelStates, TypeOK
  <2> QED BY <1>6, <2>1, <2>2 DEF ProcTail, TypeOK, LocalOK, ring, slots, history
<1> QED BY <1>1, <1>2, <1>3, <1>4, <1>5, <1>6 DEF EnterProcChannel

LEMMA ControlType ==
    ASSUME TypeOK, Numbered,
           \/ StartLogger \/ StartChannels \/ StartTimeout
           \/ StopLogger \/ StopChannels \/ Crash
    PROVE  TypeOK' /\ Numbered'
<1> USE StepNames
<1>0. Writer \in Procs /\ Writer \notin Threads
  BY RingAssumption DEF Procs
<1>1. CASE StartLogger
  <2>1. mark' \in [Slots -> Marks]
    BY <1>1 DEF StartLogger, LoadSharedMemory, Marks, TypeOK, slots
  <2>2. slot' \in [Slots -> Content]
    <3> DEFINE Close(i) == [slot[i] EXCEPT !.core = TRUE]
    <3>1. \A i \in Slots : slot[i] \in Content /\ Close(i) \in Content
      BY DEF TypeOK, Content
    <3>2. slot' = slot \/ slot' = [i \in Slots |-> IF Torn(i) THEN Close(i) ELSE slot[i]]
      BY <1>1 DEF StartLogger, LoadSharedMemory, slots
    <3> HIDE DEF Close
    <3> QED BY <3>1, <3>2 DEF TypeOK
  <2>3. {hold', write', proc', read'} \subseteq Nat
    BY <1>1 DEF StartLogger, LoadSharedMemory, RecoverTo, TypeOK, ring
  <2>4. pc' \in [Procs -> Steps] /\ \A t \in Threads : pc'[t] = pc[t]
    BY <1>0, <1>1 DEF StartLogger, Goto, TypeOK, Procs
  <2>5. Numbered'
    BY <1>1, <2>4 DEF StartLogger, Numbered
  <2> QED
    BY <1>1, <2>1, <2>2, <2>3, <2>4, <2>5 DEF StartLogger, TypeOK, LoggerStates,
       ChannelStates, history
<1>2. CASE StartChannels
  BY <1>2 DEF StartChannels, TypeOK, Numbered, LoggerStates, ring, slots, local, history
<1>3. CASE StartTimeout
  BY <1>3 DEF StartTimeout, TypeOK, Numbered, ring, slots, local, history
<1>4. CASE StopLogger
  BY <1>4 DEF StopLogger, StopState, TypeOK, Numbered, LoggerStates, ChannelStates,
     ring, slots, local, history
<1>5. CASE StopChannels
  <2>1. mark' \in [Slots -> Marks]
    BY <1>5 DEF StopChannels, Marks, TypeOK
  <2>2. held' \in Seq(Logs) /\ out' \in Seq(Content)
    BY <1>5, EmptySeq DEF StopChannels
  <2>3. pc' \in [Procs -> Steps] /\ \A t \in Threads : pc'[t] = pc[t]
    BY <1>0, <1>5 DEF StopChannels, TypeOK, Procs
  <2>4. Numbered'
    BY <1>5, <2>3 DEF StopChannels, Numbered
  <2> QED
    BY <1>5, <2>1, <2>2, <2>3, <2>4 DEF StopChannels, TypeOK, LoggerStates, ChannelStates
<1>6. CASE Crash
  <2>1. pc' \in [Procs -> Steps]
    BY <1>6 DEF Crash
  <2>2. \A t \in Threads : pc'[t] = "idle" /\ seq'[t] \in Nat /\ seq'[t] >= 1
    BY <1>0, <1>6 DEF Crash, Procs, Numbered, TypeOK
  <2>3. Numbered' /\ seq' \in [Threads -> Nat]
    BY <1>6, <2>2 DEF Crash, Numbered
  <2>4. old' \in [Procs -> Nat] /\ my' \in [Threads -> Nat] /\ crashes' \in Nat
    BY <1>6 DEF Crash, TypeOK
  <2>5. attached' \in BOOLEAN /\ joining' \in BOOLEAN /\ logger' \in LoggerStates
    BY <1>6 DEF Crash, LoggerStates
  <2> QED
    BY <1>6, <2>1, <2>3, <2>4, <2>5 DEF Crash, TypeOK, ring, slots, history
<1> QED BY <1>1, <1>2, <1>3, <1>4, <1>5, <1>6

LEMMA StutterType == ASSUME TypeOK, Numbered, UNCHANGED vars PROVE TypeOK' /\ Numbered'
BY DEF TypeOK, Numbered, vars, ctl, ring, slots, local, history

\* Every value the threads share keeps its type, after a stop too.
THEOREM TypeCorrect == Spec => [](TypeOK /\ Numbered)
<1>1. TypeOK /\ Numbered /\ [Next]_vars => (TypeOK /\ Numbered)'
  BY ProduceType, ProcType, ControlType, StutterType DEF Next
<1> QED BY <1>1, InitType, PTL DEF Spec

-----------------------------------------------------------------------------
(* The order of the indices *)

\* A step of process p: the indices only grow, nobody else moves.
Forward(p) ==
    /\ hold <= hold' /\ write <= write' /\ proc <= proc' /\ read <= read'
    /\ \A q \in Procs : q # p => pc'[q] = pc[q] /\ old'[q] = old[q]
    /\ logger' = logger /\ stops' = stops
    /\ pc[p] \notin {"idle", "off"} \/ logger # "UNINIT"

LEMMA LoadedKept ==
    ASSUME IndexOK, IndexOK', NEW p \in Procs, Forward(p), NEW q \in Procs, q # p, Loaded(q)
    PROVE  Loaded(q)'
<1>1. /\ hold \in Nat /\ write \in Nat /\ proc \in Nat /\ read \in Nat
      /\ hold' \in Nat /\ write' \in Nat /\ proc' \in Nat /\ read' \in Nat
      /\ old[q] \in Nat /\ BUFFER_LEN \in Nat
  BY RingLen DEF IndexOK
<1>2. /\ hold <= hold' /\ write <= write' /\ proc <= proc' /\ read <= read'
      /\ pc'[q] = pc[q] /\ old'[q] = old[q]
  BY DEF Forward
<1>3. CASE pc[q] = "cas"
  BY <1>1, <1>2, <1>3 DEF Loaded
<1>4. CASE pc[q] = "wcheck"
  BY <1>1, <1>2, <1>4 DEF Loaded
<1>8. CASE pc[q] = "wcas"
  BY <1>1, <1>2, <1>8 DEF Loaded
<1>5. CASE pc[q] = "pcas"
  BY <1>1, <1>2, <1>5 DEF Loaded
<1>6. CASE pc[q] = "rcas"
  BY <1>1, <1>2, <1>6 DEF Loaded
<1>7. CASE pc[q] = "dispatch"
  BY <1>1, <1>2, <1>7 DEF Loaded
<1> QED BY <1>2, <1>3, <1>4, <1>5, <1>6, <1>7, <1>8 DEF Loaded

LEMMA StepInv ==
    ASSUME IndexOK, IndexOK', NEW p \in Procs, Forward(p), RingInv, Order', Loaded(p)'
    PROVE  RingInv'
<1>1. \A q \in Procs : Loaded(q)'
  BY LoadedKept DEF RingInv
<1>2. Quiet'
  BY DEF RingInv, Forward, Quiet
<1> QED BY <1>1, <1>2 DEF RingInv

\* Nothing but p moves, and p has nothing loaded.
LEMMA PlainInv ==
    ASSUME IndexOK, IndexOK', NEW p \in Procs, Forward(p), RingInv, UNCHANGED ring,
           pc'[p] \notin {"cas", "wcheck", "wcas", "pcas", "rcas", "dispatch"}
    PROVE  RingInv'
<1>1. Order'
  BY DEF RingInv, Order, ring
<1>2. Loaded(p)'
  BY DEF Loaded
<1> QED BY <1>1, <1>2, StepInv

\* A compare_exchange that succeeds has loaded the index itself.
LEMMA CasExact ==
    ASSUME LapFree, NEW p \in Procs, NEW i \in Nat, NEW W, pc[p] \in W, Turn(i, W),
           old[p] \in Nat, old[p] <= i, At(i) = At(old[p])
    PROVE  old[p] = i
<1>1. i - old[p] < BUFFER_LEN
  BY RingLen DEF Turn
<1> QED BY <1>1, SameSlot

LEMMA ProduceOrder ==
    ASSUME LapFree, TypeOK, Numbered, RingInv, NEW t \in Threads, LogBegin(t) \/ Produce(t)
    PROVE  RingInv'
<1>0. t \in Procs /\ IndexOK /\ IndexOK' /\ pc \in [Procs -> Steps] /\ old \in [Procs -> Nat]
  <2>1. TypeOK'
    BY ProduceType
  <2> QED BY <2>1 DEF Procs, TypeOK, IndexOK
<1>a. hold \in Nat /\ write \in Nat /\ proc \in Nat /\ read \in Nat /\ BUFFER_LEN \in Nat
  BY <1>0, RingLen DEF IndexOK
<1>b. Order /\ Loaded(t)
  BY <1>0 DEF RingInv
<1>1. CASE LogBegin(t)
  <2>1. Forward(t) /\ UNCHANGED ring /\ pc'[t] = "hold"
    BY <1>0, <1>1, <1>a DEF LogBegin, BlockInput, Forward, Goto, ring, ctl
  <2> QED BY <1>0, <2>1, PlainInv
<1>2. CASE HoldLoad(t)
  <2>1. Forward(t) /\ UNCHANGED ring
    BY <1>0, <1>2, <1>a DEF HoldLoad, Forward, Goto, LogEnd, ring, ctl
  <2>2. CASE pc'[t] = "idle"
    BY <1>0, <2>1, <2>2, PlainInv
  <2>3. CASE pc'[t] = "cas" /\ old'[t] = hold /\ ~Full
    <3>1. hold + 1 - read < BUFFER_LEN
      <4>1. hold + 1 # read + BUFFER_LEN
        BY <1>a, <2>3, NextTurn DEF Full
      <4> QED BY <1>a, <1>b, <4>1 DEF Order
    <3>2. Loaded(t)'
      BY <1>a, <2>1, <2>3, <3>1 DEF Loaded, ring
    <3>3. Order'
      BY <1>b, <2>1 DEF Order, ring
    <3> QED BY <1>0, <2>1, <3>2, <3>3, StepInv
  <2>4. pc'[t] = "idle" \/ (pc'[t] = "cas" /\ old'[t] = hold /\ ~Full)
    BY <1>0, <1>2 DEF HoldLoad, Goto, LogEnd
  <2> QED BY <2>2, <2>3, <2>4
<1>3. CASE HoldCas(t)
  <2>0. pc[t] = "cas"
    BY <1>3 DEF HoldCas
  <2>2. CASE hold' = hold
    <3>1. Forward(t) /\ UNCHANGED ring /\ pc'[t] \in {"hold", "mark"}
      BY <1>0, <1>3, <1>a, <2>2 DEF HoldCas, Forward, Goto, Leave, ring, ctl
    <3> QED BY <1>0, <3>1, PlainInv
  <2>3. CASE /\ hold' = hold + 1 /\ At(hold) = At(old[t]) /\ Turn(hold, {"cas"})
    <3>1. old[t] = hold
      BY <1>0, <1>a, <1>b, <2>0, <2>3, CasExact DEF Loaded
    <3>2. Forward(t) /\ pc'[t] \in {"hold", "mark"}
      BY <1>0, <1>3, <1>a, <2>3 DEF HoldCas, Forward, Goto, Leave, ring, ctl
    <3>3. Order'
      <4>1. write' = write /\ proc' = proc /\ read' = read
        BY <1>3 DEF HoldCas
      <4> QED BY <1>a, <1>b, <2>0, <2>3, <3>1, <4>1 DEF Order, Loaded
    <3>4. Loaded(t)'
      BY <3>2 DEF Loaded
    <3> QED BY <1>0, <3>2, <3>3, <3>4, StepInv
  <2> QED BY <1>3, <2>2, <2>3 DEF HoldCas
<1>4. CASE HoldMark(t)
  <2>1. Forward(t) /\ UNCHANGED ring /\ pc'[t] = "fill"
    BY <1>0, <1>4, <1>a DEF HoldMark, Forward, Goto, ring, ctl
  <2> QED BY <1>0, <2>1, PlainInv
<1>5. CASE Fill(t)
  <2>1. Forward(t) /\ UNCHANGED ring /\ pc'[t] = "push"
    BY <1>0, <1>5, <1>a DEF Fill, Forward, Goto, ring, ctl
  <2> QED BY <1>0, <2>1, PlainInv
<1>6. CASE PushEnter(t)
  <2>1. Forward(t) /\ UNCHANGED ring /\ pc'[t] \in {"idle", "ready"}
    BY <1>0, <1>6, <1>a DEF PushEnter, LogEnd, Forward, Goto, ring, ctl
  <2> QED BY <1>0, <2>1, PlainInv
<1>7. CASE PushReady(t)
  <2>1. Forward(t) /\ UNCHANGED ring /\ pc'[t] = "wload"
    BY <1>0, <1>7, <1>a DEF PushReady, Forward, Goto, ring, ctl
  <2> QED BY <1>0, <2>1, PlainInv
<1>8. CASE WriteLoad(t)
  <2>1. Forward(t) /\ UNCHANGED ring /\ pc'[t] = "wcheck" /\ old'[t] = write
    BY <1>0, <1>8, <1>a DEF WriteLoad, Forward, Goto, ring, ctl
  <2>2. Order' /\ Loaded(t)'
    BY <1>a, <1>b, <2>1 DEF Order, Loaded, ring
  <2> QED BY <1>0, <2>1, <2>2, StepInv
<1>9. CASE WriteCheck(t)
  <2>0. pc[t] = "wcheck"
    BY <1>9 DEF WriteCheck
  <2>1. Forward(t) /\ UNCHANGED ring
    BY <1>0, <1>9, <1>a DEF WriteCheck, PushDone, LogEnd, Forward, Goto, Leave, ring, ctl
  <2>2. CASE UnreadyAt(old[t])
    <3>1. pc'[t] \in {"idle", "pload"}
      BY <1>0, <1>9, <2>2 DEF WriteCheck, PushDone, LogEnd, Goto
    <3> QED BY <1>0, <2>1, <3>1, PlainInv
  <2>3. CASE ~UnreadyAt(old[t])
    <3>1. pc'[t] = "wcas" /\ old'[t] = old[t]
      BY <1>0, <1>9, <2>3 DEF WriteCheck, Goto
    <3>2. old[t] <= write /\ old[t] # hold
      BY <1>b, <2>0, <2>3 DEF Loaded, UnreadyAt
    <3>3. old[t] \in Nat /\ hold' = hold /\ write' = write
      BY <1>0, <2>1 DEF ring
    <3>4. Order' /\ Loaded(t)'
      BY <1>a, <1>b, <2>1, <3>1, <3>2, <3>3 DEF Order, Loaded, ring
    <3> QED BY <1>0, <2>1, <3>4, StepInv
  <2> QED BY <2>2, <2>3
<1>10. CASE WriteCas(t)
  <2>0. pc[t] = "wcas"
    BY <1>10 DEF WriteCas
  <2>1. pc'[t] \in {"wload", "idle", "pload"}
    BY <1>0, <1>10 DEF WriteCas, PushDone, LogEnd, Goto
  <2>2. CASE write' = write
    <3>1. Forward(t) /\ UNCHANGED ring
      BY <1>0, <1>10, <1>a, <2>2 DEF WriteCas, PushDone, LogEnd, Forward, Goto, Leave, ring, ctl
    <3> QED BY <1>0, <2>1, <3>1, PlainInv
  <2>3. CASE write' = write + 1 /\ At(write) = At(old[t]) /\ Turn(write, {"wcheck", "wcas"})
    <3>1. old[t] = write
      BY <1>0, <1>a, <1>b, <2>0, <2>3, CasExact DEF Loaded
    <3>2. Forward(t)
      BY <1>0, <1>10, <1>a, <2>3 DEF WriteCas, PushDone, LogEnd, Forward, Goto, Leave, ring, ctl
    <3>3. Order'
      <4>1. hold' = hold /\ proc' = proc /\ read' = read
        BY <1>10 DEF WriteCas
      <4> QED BY <1>a, <1>b, <2>0, <2>3, <3>1, <4>1 DEF Order, Loaded
    <3>4. Loaded(t)'
      BY <2>1 DEF Loaded
    <3> QED BY <1>0, <3>2, <3>3, <3>4, StepInv
  <2> QED BY <1>10, <2>2, <2>3 DEF WriteCas
<1> QED
  BY <1>1, <1>2, <1>3, <1>4, <1>5, <1>6, <1>7, <1>8, <1>9, <1>10 DEF Produce

LEMMA ProcOrder ==
    ASSUME LapFree, TypeOK, Numbered, RingInv, NEW c \in Procs, EnterProcChannel(c)
    PROVE  RingInv'
<1>0. IndexOK /\ IndexOK' /\ pc \in [Procs -> Steps] /\ old \in [Procs -> Nat]
  <2>1. TypeOK'
    BY ProcType
  <2> QED BY <2>1 DEF TypeOK, IndexOK
<1>a. hold \in Nat /\ write \in Nat /\ proc \in Nat /\ read \in Nat /\ BUFFER_LEN \in Nat
  BY <1>0, RingLen DEF IndexOK
<1>b. Order /\ Loaded(c)
  BY DEF RingInv
<1>1. CASE ProcLoad(c)
  <2>1. Forward(c) /\ UNCHANGED ring
    BY <1>0, <1>1, <1>a DEF ProcLoad, Forward, Goto, ring, ctl
  <2>2. CASE At(proc) = At(write)
    <3>1. pc'[c] = "tail"
      BY <1>0, <1>1, <2>2 DEF ProcLoad, Goto
    <3> QED BY <1>0, <2>1, <3>1, PlainInv
  <2>3. CASE At(proc) # At(write)
    <3>1. pc'[c] = "pcas" /\ old'[c] = proc
      BY <1>0, <1>1, <2>3 DEF ProcLoad, Goto
    <3>2. Order' /\ proc < write
      BY <1>a, <1>b, <2>1, <2>3 DEF Order, ring
    <3>3. Loaded(c)'
      BY <1>a, <2>1, <3>1, <3>2 DEF Loaded, ring
    <3> QED BY <1>0, <2>1, <3>2, <3>3, StepInv
  <2> QED BY <2>2, <2>3
<1>2. CASE ProcCas(c)
  <2>0. pc[c] = "pcas"
    BY <1>2 DEF ProcCas
  <2>1. proc' = proc \/ proc' = proc + 1
    BY <1>2 DEF ProcCas
  <2>2. Forward(c) /\ hold' = hold /\ write' = write /\ read' = read
    BY <1>0, <1>2, <1>a, <2>1 DEF ProcCas, Forward, Goto, Leave, ring, ctl
  <2>3. CASE At(proc) # At(old[c])
    <3>1. pc'[c] = "tail" /\ UNCHANGED ring
      BY <1>0, <1>2, <2>2, <2>3 DEF ProcCas, Goto, ring
    <3> QED BY <1>0, <2>2, <3>1, PlainInv
  <2>4. CASE At(proc) = At(old[c])
    <3>1. /\ Turn(proc, {"pcas"}) /\ proc' = proc + 1
          /\ pc'[c] = "dispatch" /\ old'[c] = old[c]
      BY <1>0, <1>2, <2>4 DEF ProcCas, Goto
    <3>2. old[c] = proc
      BY <1>0, <1>a, <1>b, <2>0, <2>4, <3>1, CasExact DEF Loaded
    <3>3. Order'
      BY <1>a, <1>b, <2>0, <2>2, <3>1, <3>2 DEF Order, Loaded
    <3>4. Loaded(c)'
      BY <1>a, <3>1, <3>2 DEF Loaded
    <3> QED BY <1>0, <2>2, <3>3, <3>4, StepInv
  <2> QED BY <2>3, <2>4
<1>3. CASE Dispatch(c)
  <2>1. Forward(c) /\ UNCHANGED ring /\ pc'[c] = "rload"
    BY <1>0, <1>3, <1>a DEF Dispatch, Forward, Goto, Leave, ring, ctl
  <2> QED BY <1>0, <2>1, PlainInv
<1>4. CASE ReadLoad(c)
  <2>1. Forward(c) /\ UNCHANGED ring
    BY <1>0, <1>4, <1>a DEF ReadLoad, Forward, Goto, ring, ctl
  <2>2. CASE pc'[c] = "pload"
    BY <1>0, <2>1, <2>2, PlainInv
  <2>3. CASE At(read) # At(proc) /\ pc'[c] = "rcas" /\ old'[c] = read
    <3>2. Order' /\ read < proc
      BY <1>a, <1>b, <2>1, <2>3 DEF Order, ring
    <3>3. Loaded(c)'
      BY <1>a, <2>1, <2>3, <3>2 DEF Loaded, ring
    <3> QED BY <1>0, <2>1, <3>2, <3>3, StepInv
  <2>4. pc'[c] = "pload" \/ (At(read) # At(proc) /\ pc'[c] = "rcas" /\ old'[c] = read)
    BY <1>0, <1>4 DEF ReadLoad, Goto
  <2> QED BY <2>2, <2>3, <2>4
<1>5. CASE ReadCas(c)
  <2>0. pc[c] = "rcas"
    BY <1>5 DEF ReadCas
  <2>1. read' = read \/ read' = read + 1
    BY <1>5 DEF ReadCas
  <2>2. Forward(c) /\ hold' = hold /\ write' = write /\ proc' = proc /\ pc'[c] = "rload"
    BY <1>0, <1>5, <1>a, <2>1 DEF ReadCas, Forward, Goto, Leave, ring, ctl
  <2>3. CASE read' = read
    BY <1>0, <2>2, <2>3, PlainInv DEF ring
  <2>4. CASE read' = read + 1 /\ At(read) = At(old[c]) /\ Turn(read, {"rcas"})
    <3>2. old[c] = read
      BY <1>0, <1>a, <1>b, <2>0, <2>4, CasExact DEF Loaded
    <3>3. Order'
      BY <1>a, <1>b, <2>0, <2>2, <2>4, <3>2 DEF Order, Loaded
    <3>4. Loaded(c)'
      BY <2>2 DEF Loaded
    <3> QED BY <1>0, <2>2, <3>3, <3>4, StepInv
  <2> QED BY <1>5, <2>3, <2>4 DEF ReadCas
<1>6. CASE ProcTail(c)
  <2>1. Forward(c) /\ UNCHANGED ring /\ pc'[c] \in {"pload", "done", "idle"}
    BY <1>0, <1>6, <1>a DEF ProcTail, LogEnd, Forward, Goto, ring
  <2> QED BY <1>0, <2>1, PlainInv
<1> QED BY <1>1, <1>2, <1>3, <1>4, <1>5, <1>6 DEF EnterProcChannel

\* The logger's state is the same before and after a step of a thread.
LEMMA ThreadOpen ==
    ASSUME (\E t \in Threads : LogBegin(t) \/ Produce(t)) \/ (\E c \in Procs : EnterProcChannel(c))
    PROVE  UNCHANGED <<logger, stops, crashes, type, attached>>
BY DEF LogBegin, Produce, HoldLoad, HoldCas, HoldMark, Fill, PushEnter, PushReady, WriteLoad,
       WriteCheck, WriteCas, EnterProcChannel, ProcLoad, ProcCas, Dispatch, ReadLoad, ReadCas,
       ProcTail, ctl

LEMMA StoppingKept == ASSUME TypeOK, Stopping, [Next]_vars PROVE Stopping'
<1>1. CASE \/ \E t \in Threads : LogBegin(t) \/ Produce(t)
           \/ \E c \in Procs : EnterProcChannel(c)
  BY <1>1, ThreadOpen DEF Stopping
<1>2. CASE \/ StartLogger \/ StartChannels \/ StartTimeout
           \/ StopLogger \/ StopChannels \/ Crash
  BY <1>2 DEF Stopping, StartLogger, StartChannels, StartTimeout, StopLogger, StopChannels,
              Crash, TypeOK
<1>3. CASE UNCHANGED vars
  BY <1>3 DEF Stopping, vars, ctl
<1> QED BY <1>1, <1>2, <1>3 DEF Next

LEMMA ControlOrder ==
    ASSUME TypeOK, Numbered, OrderInv,
           \/ StartLogger \/ StartChannels \/ StartTimeout
           \/ StopLogger \/ StopChannels \/ Crash
    PROVE  OrderInv'
<1> SUFFICES ASSUME Open' PROVE RingInv'
  BY StoppingKept DEF OrderInv, RingInv, Next
<1>0. /\ Writer \in Procs /\ pc \in [Procs -> Steps] /\ stops \in Nat
      /\ hold \in Nat /\ write \in Nat /\ proc \in Nat /\ read \in Nat /\ BUFFER_LEN \in Nat
  BY RingLen DEF Procs, TypeOK
<1>1. CASE StartLogger
  <2>1. RingInv /\ \A p \in Procs : pc[p] \in {"idle", "off"}
    BY <1>1 DEF StartLogger, Open, OrderInv, RingInv, Quiet
  <2>2. \A p \in Procs : pc'[p] \in {"idle", "off", "pload"}
    BY <1>0, <1>1, <2>1 DEF StartLogger, Goto
  <2>3. \A p \in Procs : Loaded(p)'
    BY <2>2 DEF Loaded
  <2>4. Order'
    BY <1>0, <1>1, <2>1 DEF StartLogger, LoadSharedMemory, RecoverTo, RingInv, Order, ring
  <2> QED BY <1>1, <2>3, <2>4 DEF StartLogger, RingInv, Quiet
<1>2. CASE StartChannels
  BY <1>2 DEF StartChannels, Open, OrderInv, RingInv, Order, Quiet, Loaded, ring, local
<1>3. CASE StartTimeout
  BY <1>3 DEF StartTimeout, Open, OrderInv, RingInv, Order, Quiet, Loaded, ring, local
<1>4. CASE StopLogger
  <2>1. Open
    BY <1>0, <1>4 DEF StopLogger, Open
  <2> QED BY <1>4, <2>1 DEF StopLogger, OrderInv, RingInv, Order, Quiet, Loaded, ring, local
<1>5. CASE StopChannels
  BY <1>0, <1>5 DEF StopChannels, Open, OrderInv, Stopping
<1>6. CASE Crash
  <2>1. Open
    BY <1>6 DEF Crash, Open
  <2>2. \A p \in Procs : pc'[p] \in {"idle", "off"}
    BY <1>6 DEF Crash
  <2>3. \A p \in Procs : Loaded(p)'
    BY <2>2 DEF Loaded
  <2> QED BY <1>6, <2>1, <2>2, <2>3 DEF Crash, OrderInv, RingInv, Order, Quiet, ring
<1> QED BY <1>1, <1>2, <1>3, <1>4, <1>5, <1>6

LEMMA InitOrder == Init => OrderInv
BY RingLen DEF Init, OrderInv, RingInv, Stopping, Order, Quiet, Loaded, Procs

LEMMA NextOrder ==
    ASSUME LapFree, TypeOK, Numbered, OrderInv, [Next]_vars
    PROVE  OrderInv'
<1>1. CASE \E t \in Threads : LogBegin(t) \/ Produce(t)
  <2> SUFFICES ASSUME Open' PROVE RingInv'
    BY StoppingKept DEF OrderInv, RingInv
  <2>1. RingInv
    BY <1>1, ThreadOpen DEF Open, OrderInv, RingInv
  <2> QED BY <1>1, <2>1, ProduceOrder
<1>2. CASE \E c \in Procs : EnterProcChannel(c)
  <2> SUFFICES ASSUME Open' PROVE RingInv'
    BY StoppingKept DEF OrderInv, RingInv
  <2>1. RingInv
    BY <1>2, ThreadOpen DEF Open, OrderInv, RingInv
  <2> QED BY <1>2, <2>1, ProcOrder
<1>3. CASE UNCHANGED vars
  BY <1>3 DEF OrderInv, RingInv, Stopping, Open, Order, Quiet, Loaded, vars, ctl, ring, local
<1> QED BY <1>1, <1>2, <1>3, ControlOrder DEF Next

\* RingSound for every instance: the indices of the queue stay in order and the
\* ring is never overfilled, whatever the threads interleave, with crashes.
THEOREM RingIsSound == ASSUME LapFree PROVE Spec => []RingSound
<1>1. TypeOK /\ Numbered /\ OrderInv => RingSound
  BY DEF OrderInv, RingInv, Order, RingSound, RingOrder
<1>2. TypeOK /\ Numbered /\ OrderInv /\ [Next]_vars => OrderInv'
  BY NextOrder
<1> QED BY <1>1, <1>2, InitOrder, TypeCorrect, PTL DEF Spec

-----------------------------------------------------------------------------
(* What an accepted log waits in *)

\* Two indices within one turn from read_idx_ are in different slots.
LEMMA Apart ==
    ASSUME NEW r \in Nat, NEW a \in Nat, NEW b \in Nat, r <= a, r <= b,
           a < r + BUFFER_LEN, b < r + BUFFER_LEN, At(a) = At(b)
    PROVE  a = b
<1>1. CASE a <= b
  BY <1>1, RingLen, SameSlot
<1>2. CASE b <= a
  <2>1. a - b < BUFFER_LEN
    BY <1>2, RingLen
  <2> QED BY <1>2, <2>1, SameSlot
<1> QED BY <1>1, <1>2

\* The slot of a thread between HoldChannel and PushChannel lies in the ring.
LEMMA OwnSlot ==
    ASSUME IndexOK, Order, NEW t \in Threads, Owned(t), Owns(t)
    PROVE  /\ my[t] \in Nat /\ read <= my[t] /\ my[t] < hold /\ my[t] < read + BUFFER_LEN
           /\ write <= my[t]
BY RingLen DEF IndexOK, Order, Owned

\* What a step has to show for Kept: a waiting log goes on waiting or is written.
LEMMA KeptStep ==
    ASSUME Kept,
           \A l : Written(l) => Written(l)',
           \A l : Waits(l) => Waits(l)' \/ Written(l)',
           \A l \in accepted' : \/ l \in accepted
                                \/ \E t \in Threads : pc[t] \in Pushing /\ l = Log(t),
           \A t \in Threads : pc'[t] \in Pushing =>
               (pc[t] \in Pushing /\ seq'[t] = seq[t]) \/ Waits(Log(t))'
    PROVE  Kept'
<1>1. \A l \in accepted' : (Written(l) \/ Waits(l))'
  BY DEF Kept
<1>2. ASSUME NEW t \in Threads, pc'[t] \in Pushing
      PROVE  (Written(Log(t)) \/ Waits(Log(t)))'
  <2>1. CASE Waits(Log(t))'
    BY <2>1
  <2>2. CASE pc[t] \in Pushing /\ seq'[t] = seq[t]
    <3>1. Log(t)' = Log(t)
      BY <2>2 DEF Log
    <3>2. Written(Log(t)) \/ Waits(Log(t))
      BY <2>2 DEF Kept
    <3> DEFINE l == Log(t)
    <3>3. Written(l)' \/ Waits(l)'
      BY <3>1, <3>2
    <3> QED BY <3>3
  <2> QED BY <1>2, <2>1, <2>2
<1>3. Pushing' = Pushing
  BY DEF Pushing
<1> QED BY <1>1, <1>2, <1>3 DEF Kept

\* What a step of p leaves to the other processes.
OthersKeep(p) ==
    /\ \A q \in Procs : q # p => pc'[q] = pc[q] /\ old'[q] = old[q]
    /\ \A t \in Threads : t # p => my'[t] = my[t] /\ seq'[t] = seq[t]

\* A log is accepted at the end of PushChannel.
Accepts(p) == accepted' \subseteq accepted \cup {Log(t) : t \in {u \in Threads : u = p /\ pc[u] \in Pushing}}

\* The next step of p in its own log.
Continues(p) ==
    p \in Threads =>
        /\ pc'[p] \in PreReady => pc[p] \in PreReady /\ my'[p] = my[p]
        /\ pc'[p] \in {"push", "ready"} => pc[p] \in {"push", "ready"} /\ seq'[p] = seq[p]
        /\ pc'[p] \in Pushing => pc[p] \in Pushing /\ seq'[p] = seq[p]

\* Steps that touch neither the slots nor what is written.
LEMMA StillKept ==
    ASSUME SlotInv, NEW p \in Procs, OthersKeep(p), Continues(p), Accepts(p),
           UNCHANGED <<hold, write, read, mark, slot, out>>, Passing(p)'
    PROVE  SlotInv'
<1>1. \A t \in Threads : Owns(t)' => Owns(t) /\ my'[t] = my[t]
  BY DEF OthersKeep, Continues, Owns, Procs, PreReady
<1>2. Unused'
  BY DEF SlotInv, Unused
<1>3. ASSUME NEW t \in Threads PROVE Owned(t)'
  <2>1. Owned(t) /\ \A u \in Threads : Owned(u)
    BY DEF SlotInv
  <2> QED BY <1>1, <2>1 DEF Owned
<1>4. ASSUME NEW t \in Threads PROVE Filled(t)'
  <2>1. Filled(t)
    BY DEF SlotInv
  <2>2. pc'[t] \in {"push", "ready"} =>
            pc[t] \in {"push", "ready"} /\ seq'[t] = seq[t] /\ my'[t] = my[t]
    BY DEF OthersKeep, Continues, PreReady, Procs
  <2> QED BY <2>1, <2>2 DEF Filled, Log
<1>5. ASSUME NEW q \in Procs PROVE Passing(q)'
  <2>1. CASE q = p
    BY <2>1
  <2>2. CASE q # p
    <3>1. Passing(q) /\ pc'[q] = pc[q] /\ old'[q] = old[q]
      BY <2>2 DEF SlotInv, OthersKeep
    <3> QED BY <1>1, <3>1 DEF Passing
  <2> QED BY <2>1, <2>2
<1>6. Kept'
  <2>1. \A l : Written(l) => Written(l)'
    BY DEF Written
  <2>2. \A l : Waits(l) => Waits(l)'
    BY <1>1 DEF Waits
  <2>3. \A l \in accepted' : \/ l \in accepted
                             \/ \E t \in Threads : pc[t] \in Pushing /\ l = Log(t)
    BY DEF Accepts
  <2>4. \A t \in Threads : pc'[t] \in Pushing => pc[t] \in Pushing /\ seq'[t] = seq[t]
    BY DEF OthersKeep, Continues, Procs
  <2> QED BY <2>1, <2>2, <2>3, <2>4, KeptStep DEF SlotInv
<1> QED BY <1>2, <1>3, <1>4, <1>5, <1>6 DEF SlotInv

\* A slot of the ring that is not the one with index a does not change with it.
LEMMA OtherSlot ==
    ASSUME TypeOK, NEW a \in Nat, read <= a, a < read + BUFFER_LEN,
           NEW b \in Nat, read <= b, b < read + BUFFER_LEN, b # a
    PROVE  At(a) # At(b) /\ At(a) \in Slots /\ At(b) \in Slots
<1>1. read \in Nat /\ At(a) \in Slots /\ At(b) \in Slots
  BY AtSlot DEF TypeOK
<1> QED BY <1>1, Apart

\* Steps of a thread on the slot it owns.
LEMMA OwnKept ==
    ASSUME TypeOK, Numbered, RingInv, SlotInv, NEW t \in Threads, Owns(t), OthersKeep(t),
           UNCHANGED <<hold, write, read, out, accepted>>,
           NEW v, NEW w, mark' = [mark EXCEPT ![At(my[t])] = v] \/ mark' = mark,
           slot' = [slot EXCEPT ![At(my[t])] = w] \/ slot' = slot,
           \/ pc'[t] \in PreReady /\ my'[t] = my[t] /\ mark'[At(my[t])] # "READY"
           \/ pc'[t] \in Pushing /\ mark'[At(my[t])] = "READY" /\ slot'[At(my[t])].log = Log(t)',
           pc'[t] \in {"push", "ready"} => slot'[At(my[t])].log = Log(t)',
           pc'[t] \notin {"wcas", "rcas"}
    PROVE  SlotInv'
<1>0. t \in Procs /\ IndexOK /\ Order /\ Owned(t) /\ BUFFER_LEN \in Nat /\ hold \in Nat
      /\ read \in Nat /\ write \in Nat
  BY SplitType, RingLen DEF RingInv, SlotInv, Procs, IndexOK
<1>1. my[t] \in Nat /\ read <= my[t] /\ my[t] < hold /\ my[t] < read + BUFFER_LEN /\ write <= my[t]
  BY <1>0, OwnSlot
<1>2. \A b \in Nat : read <= b /\ b < read + BUFFER_LEN /\ b # my[t] =>
          mark'[At(b)] = mark[At(b)] /\ slot'[At(b)] = slot[At(b)]
  <2> TAKE b \in Nat
  <2> HAVE read <= b /\ b < read + BUFFER_LEN /\ b # my[t]
  <2>1. At(my[t]) # At(b) /\ At(my[t]) \in Slots /\ At(b) \in Slots
    BY <1>1, OtherSlot
  <2>2. mark'[At(b)] = mark[At(b)]
    BY <2>1 DEF TypeOK
  <2>3. slot'[At(b)] = slot[At(b)]
    BY <2>1 DEF TypeOK
  <2> QED BY <2>2, <2>3
<1>3. \A u \in Threads : Owns(u)' => Owns(u) /\ my'[u] = my[u]
  BY DEF OthersKeep, Owns, Procs, PreReady, Pushing
<1>4. \A u \in Threads : Owned(u)
  BY DEF SlotInv
<1>5. \A u \in Threads : Owns(u) => my[u] \in Nat /\ read <= my[u] /\ my[u] < read + BUFFER_LEN
  BY <1>0, <1>4, OwnSlot
<1>6. Unused'
  BY <1>0, <1>1, <1>2 DEF Unused, SlotInv
<1>7. ASSUME NEW u \in Threads PROVE Owned(u)'
  <2>1. CASE u = t
    BY <1>3, <1>4, <2>1 DEF Owned, Owns, PreReady, Pushing
  <2>2. CASE u # t
    <3>1. Owns(u)' => my[u] # my[t] /\ mark'[At(my[u])] = mark[At(my[u])]
      BY <1>2, <1>3, <1>4, <1>5, <2>2 DEF Owned
    <3> QED BY <1>3, <1>4, <3>1 DEF Owned
  <2> QED BY <2>1, <2>2
<1>8. ASSUME NEW u \in Threads PROVE Filled(u)'
  <2>1. CASE u = t
    BY <1>3, <2>1 DEF Filled, Owns, PreReady
  <2>2. CASE u # t
    <3>1. pc'[u] = pc[u] /\ seq'[u] = seq[u] /\ my'[u] = my[u]
      BY <2>2 DEF OthersKeep, Procs
    <3>2. pc[u] \in {"push", "ready"} => slot'[At(my[u])] = slot[At(my[u])]
      BY <1>2, <1>4, <1>5, <2>2 DEF Owned, Owns, PreReady
    <3> QED BY <3>1, <3>2 DEF Filled, Log, SlotInv
  <2> QED BY <2>1, <2>2
<1>9. ASSUME NEW q \in Procs PROVE Passing(q)'
  <2>1. CASE q = t
    BY <2>1 DEF Passing
  <2>2. CASE q # t
    <3>1. Passing(q) /\ Loaded(q) /\ pc'[q] = pc[q] /\ old'[q] = old[q]
      BY <2>2 DEF SlotInv, RingInv, OthersKeep
    <3>2. pc[q] = "rcas" /\ old[q] = read => mark'[At(read)] = mark[At(read)]
      <4>1. pc[q] = "rcas" /\ old[q] = read => read < my[t]
        BY <1>0, <1>1, <3>1 DEF Loaded, Order, IndexOK
      <4> QED BY <1>0, <1>1, <1>2, <4>1, RingLen
    <3> QED BY <1>3, <3>1, <3>2 DEF Passing
  <2> QED BY <2>1, <2>2
<1>10. Kept'
  <2>1. \A l : Written(l) => Written(l)'
    BY DEF Written
  <2>2. ASSUME NEW l, Waits(l) PROVE Waits(l)'
    <3>1. PICK a \in read .. hold - 1 :
              /\ slot[At(a)].log = l /\ mark[At(a)] = "READY"
              /\ \A u \in Threads : Owns(u) => my[u] # a
      BY <2>2 DEF Waits
    <3>2. mark'[At(a)] = mark[At(a)] /\ slot'[At(a)] = slot[At(a)]
      BY <1>0, <1>2, <3>1 DEF Order
    <3> QED BY <1>3, <3>1, <3>2 DEF Waits
  <2>3. pc'[t] \in Pushing => Waits(Log(t))'
    <3> SUFFICES ASSUME pc'[t] \in Pushing PROVE Waits(Log(t))'
      OBVIOUS
    <3>1. mark'[At(my[t])] = "READY" /\ slot'[At(my[t])].log = Log(t)'
      BY DEF PreReady, Pushing
    <3>2. \A u \in Threads : Owns(u)' => my'[u] # my[t]
      <4>1. ~Owns(t)'
        BY DEF Owns, PreReady, Pushing
      <4> QED BY <1>3, <1>4, <4>1 DEF Owned
    <3>3. my[t] \in read' .. hold' - 1
      BY <1>0, <1>1
    <3> QED BY <3>1, <3>2, <3>3 DEF Waits
  <2>4. \A u \in Threads : pc'[u] \in Pushing =>
            (pc[u] \in Pushing /\ seq'[u] = seq[u]) \/ Waits(Log(u))'
    BY <2>3 DEF OthersKeep, Procs
  <2> QED BY <2>1, <2>2, <2>4, KeptStep DEF SlotInv
<1> QED BY <1>6, <1>7, <1>8, <1>9, <1>10 DEF SlotInv

LEMMA ProduceKept ==
    ASSUME LapFree, TypeOK, Numbered, RingInv, SlotInv, NEW t \in Threads,
           LogBegin(t) \/ Produce(t)
    PROVE  SlotInv'
<1>0. /\ t \in Procs /\ IndexOK /\ pc \in [Procs -> Steps] /\ old \in [Procs -> Nat]
      /\ my \in [Threads -> Nat] /\ seq \in [Threads -> Nat]
      /\ mark \in [Slots -> Marks] /\ slot \in [Slots -> Content]
  BY SplitType DEF Procs, TypeOK
<1>a. hold \in Nat /\ write \in Nat /\ read \in Nat /\ BUFFER_LEN \in Nat /\ my[t] \in Nat
  BY <1>0, RingLen DEF IndexOK
<1>b. Order /\ Loaded(t) /\ Owned(t) /\ Passing(t)
  BY <1>0 DEF RingInv, SlotInv
<1>c. At(my[t]) \in Slots
  BY <1>a, AtSlot
<1>1. CASE LogBegin(t)
  <2>1. OthersKeep(t) /\ pc'[t] = "hold"
    BY <1>0, <1>1 DEF LogBegin, OthersKeep, Goto
  <2>2. UNCHANGED <<hold, write, read, mark, slot, out, accepted>>
    BY <1>1 DEF LogBegin, ring, slots, history
  <2>3. Continues(t) /\ Accepts(t) /\ Passing(t)'
    BY <2>1, <2>2 DEF Continues, Accepts, Passing, PreReady, Pushing
  <2> QED BY <1>0, <2>1, <2>2, <2>3, StillKept
<1>2. CASE HoldLoad(t)
  <2>1. OthersKeep(t) /\ pc'[t] \in {"idle", "cas"}
    BY <1>0, <1>2 DEF HoldLoad, LogEnd, OthersKeep, Goto
  <2>2. UNCHANGED <<hold, write, read, mark, slot, out, accepted>>
    BY <1>2 DEF HoldLoad, ring, slots, history
  <2>3. Continues(t) /\ Accepts(t) /\ Passing(t)'
    BY <2>1, <2>2 DEF Continues, Accepts, Passing, PreReady, Pushing
  <2> QED BY <1>0, <2>1, <2>2, <2>3, StillKept
<1>3. CASE HoldCas(t)
  <2>0. pc[t] = "cas"
    BY <1>3 DEF HoldCas
  <2>1. CASE At(hold) # At(old[t])
    <3>1. OthersKeep(t) /\ pc'[t] = "hold"
      BY <1>0, <1>3, <2>1 DEF HoldCas, OthersKeep, Goto, Leave
    <3>2. UNCHANGED <<hold, write, read, mark, slot, out, accepted>>
      BY <1>3, <2>1 DEF HoldCas, slots
    <3>3. Continues(t) /\ Accepts(t) /\ Passing(t)'
      BY <3>1, <3>2 DEF Continues, Accepts, Passing, PreReady, Pushing
    <3> QED BY <1>0, <3>1, <3>2, <3>3, StillKept
  <2>2. CASE At(hold) = At(old[t])
    <3>1. OthersKeep(t) /\ pc'[t] = "mark" /\ hold' = hold + 1 /\ my'[t] = hold
      BY <1>0, <1>3, <2>2 DEF HoldCas, OthersKeep, Goto, Leave
    <3>2. UNCHANGED <<write, read, mark, slot, out, accepted>>
      BY <1>3 DEF HoldCas, slots
    <3>3. Unused'
      BY <1>a, <3>1, <3>2 DEF Unused, SlotInv
    <3>4. mark[At(hold)] = "INVALID"
      BY <1>a, <1>b DEF Unused, SlotInv, Order
    <3>5. \A u \in Threads : Owned(u) /\ (u # t => (Owns(u)' <=> Owns(u)) /\ my'[u] = my[u])
      BY <3>1 DEF SlotInv, OthersKeep, Owns, Procs
    <3>6. ASSUME NEW u \in Threads PROVE Owned(u)'
      <4>1. CASE u = t
        <5>1. write' <= my'[t] /\ my'[t] < hold' /\ mark'[At(my'[t])] # "READY"
          BY <1>a, <1>b, <3>1, <3>2, <3>4 DEF Order
        <5>2. \A v \in Threads : v # t /\ Owns(v)' => my'[v] # my'[t]
          BY <1>0, <1>a, <3>1, <3>5 DEF Owned, IndexOK
        <5> QED BY <4>1, <5>1, <5>2 DEF Owned
      <4>2. CASE u # t
        <5>1. Owns(u)' => /\ write <= my[u] /\ my[u] < hold + 1 /\ my[u] # hold
                          /\ mark[At(my[u])] # "READY"
          BY <1>0, <1>a, <3>5, <4>2 DEF Owned, IndexOK
        <5>2. Owns(u)' => \A v \in Threads : v # u /\ Owns(v)' => my'[v] # my[u]
          BY <3>1, <3>5, <4>2, <5>1 DEF Owned
        <5> QED BY <3>1, <3>2, <3>5, <4>2, <5>1, <5>2 DEF Owned
      <4> QED BY <4>1, <4>2
    <3>7. ASSUME NEW u \in Threads PROVE Filled(u)'
      BY <3>1, <3>2 DEF SlotInv, OthersKeep, Filled, Log, Procs
    <3>8. ASSUME NEW q \in Procs PROVE Passing(q)'
      <4>1. CASE q = t
        BY <3>1, <4>1 DEF Passing
      <4>2. CASE q # t
        <5>1. Passing(q) /\ Loaded(q) /\ pc'[q] = pc[q] /\ old'[q] = old[q]
          BY <3>1, <4>2 DEF SlotInv, RingInv, OthersKeep
        <5>2. pc[q] = "wcas" /\ old[q] = write => hold # write
          BY <1>a, <5>1 DEF Loaded
        <5>3. pc[q] = "wcas" /\ old[q] = write => \A u \in Threads : Owns(u)' => my'[u] # write
          BY <3>1, <3>5, <5>1, <5>2 DEF Passing
        <5> QED BY <3>2, <5>1, <5>3 DEF Passing
      <4> QED BY <4>1, <4>2
    <3>9. Kept'
      <4>1. \A l : Written(l) => Written(l)'
        BY <3>2 DEF Written
      <4>2. ASSUME NEW l, Waits(l) PROVE Waits(l)'
        <5>1. PICK a \in read .. hold - 1 :
                  /\ slot[At(a)].log = l /\ mark[At(a)] = "READY"
                  /\ \A u \in Threads : Owns(u) => my[u] # a
          BY <4>2 DEF Waits
        <5>2. a \in read' .. hold' - 1 /\ a # hold
          BY <1>a, <3>1, <3>2
        <5>3. \A u \in Threads : Owns(u)' => my'[u] # a
          BY <3>1, <3>5, <5>1, <5>2
        <5> QED BY <3>2, <5>1, <5>2, <5>3 DEF Waits
      <4>3. \A u \in Threads : pc'[u] \in Pushing => pc[u] \in Pushing /\ seq'[u] = seq[u]
        BY <3>1 DEF OthersKeep, Procs, Pushing
      <4> QED BY <3>2, <4>1, <4>2, <4>3, KeptStep DEF SlotInv
    <3> QED BY <3>3, <3>6, <3>7, <3>8, <3>9 DEF SlotInv
  <2> QED BY <2>1, <2>2
<1>4. CASE HoldMark(t)
  <2>1. /\ OthersKeep(t) /\ Owns(t) /\ pc'[t] = "fill" /\ my'[t] = my[t]
        /\ mark' = [mark EXCEPT ![At(my[t])] = "HOLD"]
    BY <1>0, <1>4 DEF HoldMark, OthersKeep, Goto, Owns, PreReady
  <2>2. UNCHANGED <<hold, write, read, slot, out, accepted>>
    BY <1>4 DEF HoldMark, ring, history
  <2>3. mark'[At(my[t])] # "READY" /\ pc'[t] \in PreReady
    BY <1>0, <1>c, <2>1 DEF PreReady
  <2> QED BY <2>1, <2>2, <2>3, OwnKept
<1>5. CASE Fill(t)
  <2>1. /\ OthersKeep(t) /\ Owns(t) /\ pc'[t] = "push" /\ my'[t] = my[t] /\ seq'[t] = seq[t]
        /\ slot' = [slot EXCEPT ![At(my[t])] = [log |-> Log(t), core |-> FALSE]]
    BY <1>0, <1>5 DEF Fill, OthersKeep, Goto, Owns, PreReady
  <2>2. UNCHANGED <<hold, write, read, mark, out, accepted>>
    BY <1>5 DEF Fill, ring, history
  <2>3. mark'[At(my[t])] # "READY" /\ pc'[t] \in PreReady
    BY <1>b, <2>1, <2>2 DEF PreReady, Owned
  <2>4. slot'[At(my[t])].log = Log(t)'
    BY <1>0, <1>c, <2>1 DEF Log
  <2> QED BY <2>1, <2>2, <2>3, <2>4, OwnKept
<1>6. CASE PushEnter(t)
  <2>1. OthersKeep(t) /\ pc[t] = "push"
    BY <1>0, <1>6 DEF PushEnter, LogEnd, OthersKeep, Goto, Leave
  <2>4. pc'[t] = "idle" \/ (pc'[t] = "ready" /\ my'[t] = my[t] /\ seq'[t] = seq[t])
    BY <1>0, <1>6 DEF PushEnter, LogEnd, Goto
  <2>2. UNCHANGED <<hold, write, read, mark, slot, out, accepted>>
    BY <1>6 DEF PushEnter, ring, slots, history
  <2>3. Continues(t) /\ Accepts(t) /\ Passing(t)'
    BY <2>1, <2>2, <2>4 DEF Continues, Accepts, Passing, PreReady, Pushing
  <2> QED BY <1>0, <2>1, <2>2, <2>3, StillKept
<1>7. CASE PushReady(t)
  <2>1. /\ OthersKeep(t) /\ Owns(t) /\ pc'[t] = "wload" /\ pc[t] = "ready" /\ seq'[t] = seq[t]
        /\ mark' = [mark EXCEPT ![At(my[t])] = "READY"]
    BY <1>0, <1>7 DEF PushReady, OthersKeep, Goto, Owns, PreReady, Leave
  <2>2. UNCHANGED <<hold, write, read, slot, out, accepted>>
    BY <1>7 DEF PushReady, ring, history
  <2>3. mark'[At(my[t])] = "READY" /\ pc'[t] \in Pushing
    BY <1>0, <1>c, <2>1 DEF Pushing
  <2>4. slot'[At(my[t])].log = Log(t)'
    BY <2>1, <2>2 DEF Log, SlotInv, Filled
  <2> QED BY <2>1, <2>2, <2>3, <2>4, OwnKept
<1>8. CASE WriteLoad(t)
  <2>1. OthersKeep(t) /\ pc[t] = "wload" /\ pc'[t] = "wcheck" /\ seq'[t] = seq[t]
    BY <1>0, <1>8 DEF WriteLoad, OthersKeep, Goto
  <2>2. UNCHANGED <<hold, write, read, mark, slot, out, accepted>>
    BY <1>8 DEF WriteLoad, ring, slots, history
  <2>3. Continues(t) /\ Accepts(t) /\ Passing(t)'
    BY <2>1, <2>2 DEF Continues, Accepts, Passing, PreReady, Pushing
  <2> QED BY <1>0, <2>1, <2>2, <2>3, StillKept
<1>9. CASE WriteCheck(t)
  <2>1. OthersKeep(t) /\ pc[t] = "wcheck"
    BY <1>0, <1>9 DEF WriteCheck, PushDone, LogEnd, OthersKeep, Goto, Leave
  <2>2. UNCHANGED <<hold, write, read, mark, slot, out, my>>
    BY <1>9 DEF WriteCheck, ring, slots
  <2>4. Accepts(t)
    BY <1>9, <2>1 DEF WriteCheck, PushDone, Accepts, Pushing
  <2>5. CASE UnreadyAt(old[t])
    <3>1. pc'[t] \in {"idle", "pload"}
      BY <1>0, <1>9, <2>5 DEF WriteCheck, PushDone, LogEnd, Goto
    <3>2. Continues(t) /\ Passing(t)'
      BY <3>1 DEF Continues, Passing, PreReady, Pushing
    <3> QED BY <1>0, <2>1, <2>2, <2>4, <3>2, StillKept
  <2>6. CASE ~UnreadyAt(old[t])
    <3>1. pc'[t] = "wcas" /\ seq'[t] = seq[t] /\ old'[t] = old[t] /\ mark[At(old[t])] = "READY"
      BY <1>0, <1>9, <2>6 DEF WriteCheck, Goto, UnreadyAt
    <3>2. Continues(t)
      BY <2>1, <3>1 DEF Continues, PreReady, Pushing
    <3>3. \A u \in Threads : (Owns(u)' => Owns(u)) /\ Owned(u)
      BY <2>1, <3>1 DEF Owns, OthersKeep, PreReady, Procs, SlotInv
    <3>4. Passing(t)'
      BY <2>2, <3>1, <3>3 DEF Passing, Owned
    <3> QED BY <1>0, <2>1, <2>2, <2>4, <3>2, <3>4, StillKept
  <2> QED BY <2>5, <2>6
<1>10. CASE WriteCas(t)
  <2>1. OthersKeep(t) /\ pc[t] = "wcas"
    BY <1>0, <1>10 DEF WriteCas, PushDone, LogEnd, OthersKeep, Goto, Leave
  <2>2. UNCHANGED <<hold, read, mark, slot, out, my>>
    BY <1>10 DEF WriteCas, slots
  <2>3. Accepts(t)
    BY <1>10, <2>1 DEF WriteCas, PushDone, Accepts, Pushing
  <2>4. \/ pc'[t] \in {"idle", "pload"}
        \/ pc'[t] = "wload" /\ seq'[t] = seq[t]
    BY <1>0, <1>10 DEF WriteCas, PushDone, LogEnd, Goto
  <2>5. Continues(t) /\ Passing(t)'
    BY <2>1, <2>4 DEF Continues, Passing, PreReady, Pushing
  <2>6. CASE write' = write
    BY <1>0, <2>1, <2>2, <2>3, <2>5, <2>6, StillKept
  <2>7. CASE write' = write + 1 /\ At(write) = At(old[t]) /\ Turn(write, {"wcheck", "wcas"})
    <3>1. old[t] = write
      BY <1>0, <1>a, <1>b, <2>1, <2>7, CasExact DEF Loaded
    <3>2. \A u \in Threads : Owned(u) /\ (Owns(u)' => Owns(u))
      BY <2>1, <2>5 DEF SlotInv, OthersKeep, Owns, Procs, Continues
    <3>3. \A u \in Threads : Owns(u) => my[u] # write
      BY <1>b, <2>1, <3>1 DEF Passing
    <3>4. \A u \in Threads : Owned(u)'
      BY <1>0, <1>a, <2>2, <2>7, <3>2, <3>3 DEF Owned, IndexOK
    <3>5. ASSUME NEW u \in Threads PROVE Filled(u)'
      BY <2>1, <2>2, <2>4 DEF SlotInv, OthersKeep, Filled, Log, Procs
    <3>6. ASSUME NEW q \in Procs PROVE Passing(q)'
      <4>1. CASE q = t
        BY <2>5, <4>1
      <4>2. CASE q # t
        <5>1. Passing(q) /\ Loaded(q) /\ pc'[q] = pc[q] /\ old'[q] = old[q] /\ old[q] \in Nat
          BY <1>0, <2>1, <4>2 DEF SlotInv, RingInv, OthersKeep
        <5>2. pc[q] = "wcas" => old[q] # write'
          BY <1>a, <2>7, <5>1 DEF Loaded
        <5> QED BY <2>2, <5>1, <5>2 DEF Passing
      <4> QED BY <4>1, <4>2
    <3>7. Kept'
      <4>1. \A l : Written(l) => Written(l)'
        BY <2>2 DEF Written
      <4>2. \A l : Waits(l) => Waits(l)'
        BY <2>2, <3>2 DEF Waits
      <4>3. \A l \in accepted' : \/ l \in accepted
                                 \/ \E u \in Threads : pc[u] \in Pushing /\ l = Log(u)
        BY <2>3 DEF Accepts
      <4>4. \A u \in Threads : pc'[u] \in Pushing => pc[u] \in Pushing /\ seq'[u] = seq[u]
        BY <2>1, <2>5 DEF OthersKeep, Continues, Procs
      <4> QED BY <4>1, <4>2, <4>3, <4>4, KeptStep DEF SlotInv
    <3>8. Unused'
      BY <2>2 DEF Unused, SlotInv
    <3> QED BY <3>4, <3>5, <3>6, <3>7, <3>8 DEF SlotInv
  <2> QED BY <1>10, <2>6, <2>7 DEF WriteCas
<1> QED
  BY <1>1, <1>2, <1>3, <1>4, <1>5, <1>6, <1>7, <1>8, <1>9, <1>10 DEF Produce

LEMMA ProcKept ==
    ASSUME LapFree, TypeOK, Numbered, RingInv, SlotInv, NEW c \in Procs, EnterProcChannel(c)
    PROVE  SlotInv'
<1>0. /\ IndexOK /\ pc \in [Procs -> Steps] /\ old \in [Procs -> Nat]
      /\ my \in [Threads -> Nat] /\ seq \in [Threads -> Nat]
      /\ mark \in [Slots -> Marks] /\ slot \in [Slots -> Content]
  BY SplitType DEF TypeOK
<1>a. hold \in Nat /\ write \in Nat /\ read \in Nat /\ proc \in Nat /\ BUFFER_LEN \in Nat
  BY <1>0, RingLen DEF IndexOK
<1>b. Order /\ Loaded(c) /\ Passing(c)
  BY DEF RingInv, SlotInv
<1>1. CASE ProcLoad(c)
  <2>1. OthersKeep(c) /\ pc'[c] \in {"tail", "pcas"}
    BY <1>0, <1>1 DEF ProcLoad, OthersKeep, Goto
  <2>2. UNCHANGED <<hold, write, read, mark, slot, out, accepted>>
    BY <1>1 DEF ProcLoad, ring, slots, history
  <2>3. Continues(c) /\ Accepts(c) /\ Passing(c)'
    BY <2>1, <2>2 DEF Continues, Accepts, Passing, PreReady, Pushing
  <2> QED BY <2>1, <2>2, <2>3, StillKept
<1>2. CASE ProcCas(c)
  <2>1. OthersKeep(c) /\ pc'[c] \in {"tail", "dispatch"}
    BY <1>0, <1>2 DEF ProcCas, OthersKeep, Goto, Leave
  <2>2. UNCHANGED <<hold, write, read, mark, slot, out, accepted>>
    BY <1>2 DEF ProcCas, slots, history
  <2>3. Continues(c) /\ Accepts(c) /\ Passing(c)'
    BY <2>1, <2>2 DEF Continues, Accepts, Passing, PreReady, Pushing
  <2> QED BY <2>1, <2>2, <2>3, StillKept
<1>3. CASE Dispatch(c)
  <2>1. OthersKeep(c) /\ pc[c] = "dispatch" /\ pc'[c] = "rload"
    BY <1>0, <1>3 DEF Dispatch, OthersKeep, Goto, Leave
  <2>2. UNCHANGED <<hold, write, read, slot, my, seq, accepted>>
    BY <1>3 DEF Dispatch, ring
  <2>3. At(old[c]) \in Slots /\ slot[At(old[c])] \in Content /\ out \in Seq(Content)
    BY <1>0, AtSlot DEF TypeOK
  <2>4. mark' = [mark EXCEPT ![At(old[c])] = "INVALID"]
    BY <1>3 DEF Dispatch
  <2>5. \A a \in Nat : mark'[At(a)] = mark[At(a)] \/ mark'[At(a)] = "INVALID"
    BY <1>0, <2>3, <2>4, AtSlot
  <2>6. \A u \in Threads : Owns(u)' => Owns(u)
    BY <2>1 DEF OthersKeep, Owns, Procs, PreReady
  <2>7. Unused'
    BY <1>a, <2>2, <2>5 DEF Unused, SlotInv
  <2>8. ASSUME NEW u \in Threads PROVE Owned(u)'
    BY <1>0, <2>2, <2>5, <2>6 DEF SlotInv, Owned
  <2>9. ASSUME NEW u \in Threads PROVE Filled(u)'
    BY <2>1, <2>2 DEF SlotInv, Filled, Log, OthersKeep, Procs
  <2>10. ASSUME NEW q \in Procs PROVE Passing(q)'
    <3>1. CASE q = c
      BY <2>1, <3>1 DEF Passing
    <3>2. CASE q # c
      <4>1. Passing(q) /\ pc'[q] = pc[q] /\ old'[q] = old[q]
        BY <2>1, <3>2 DEF SlotInv, OthersKeep
      <4> QED BY <1>a, <2>2, <2>5, <2>6, <4>1 DEF Passing
    <3> QED BY <3>1, <3>2
  <2>11. /\ \A i \in DOMAIN out : i \in DOMAIN out' /\ out'[i] = out[i]
         /\ \E i \in DOMAIN out' : out'[i] = slot[At(old[c])]
    <3>1. out' = Append(out, slot[At(old[c])])
      BY <1>3 DEF Dispatch
    <3>2. Len(out) + 1 \in 1 .. Len(out') /\ out'[Len(out) + 1] = slot[At(old[c])]
      BY <2>3, <3>1, AppendProperties, LenProperties
    <3> QED BY <2>3, <3>1, <3>2, AppendProperties, LenProperties
  <2>12. \A l : Written(l) => Written(l)'
    BY <2>11 DEF Written
  <2>13. ASSUME NEW l, Waits(l) PROVE Waits(l)' \/ Written(l)'
    <3>1. PICK a \in read .. hold - 1 :
              /\ slot[At(a)].log = l /\ mark[At(a)] = "READY"
              /\ \A u \in Threads : Owns(u) => my[u] # a
      BY <2>13 DEF Waits
    <3>2. CASE At(a) = At(old[c])
      BY <2>11, <3>1, <3>2 DEF Written
    <3>3. CASE At(a) # At(old[c])
      <4>1. mark'[At(a)] = "READY"
        <5>1. At(a) \in Slots
          BY <1>a, AtSlot
        <5> QED BY <1>0, <2>3, <2>4, <3>1, <3>3, <5>1
      <4> QED BY <2>2, <2>6, <3>1, <4>1 DEF Waits
    <3> QED BY <3>2, <3>3
  <2>14. \A t \in Threads : pc'[t] \in Pushing => pc[t] \in Pushing /\ seq'[t] = seq[t]
    BY <2>1, <2>2 DEF OthersKeep, Procs, Pushing
  <2>15. Kept'
    BY <2>2, <2>12, <2>13, <2>14, KeptStep DEF SlotInv
  <2> QED BY <2>7, <2>8, <2>9, <2>10, <2>15 DEF SlotInv
<1>4. CASE ReadLoad(c)
  <2>1. OthersKeep(c) /\ pc'[c] \in {"pload", "rcas"}
    BY <1>0, <1>4 DEF ReadLoad, OthersKeep, Goto
  <2>2. UNCHANGED <<hold, write, read, mark, slot, out, accepted>>
    BY <1>4 DEF ReadLoad, ring, slots, history
  <2>3. pc'[c] = "rcas" => mark[At(read)] = "INVALID"
    BY <1>0, <1>4 DEF ReadLoad, Goto
  <2>4. Continues(c) /\ Accepts(c) /\ Passing(c)'
    BY <2>1, <2>2, <2>3 DEF Continues, Accepts, Passing, PreReady, Pushing
  <2> QED BY <2>1, <2>2, <2>4, StillKept
<1>5. CASE ReadCas(c)
  <2>1. OthersKeep(c) /\ pc[c] = "rcas" /\ pc'[c] = "rload"
    BY <1>0, <1>5 DEF ReadCas, OthersKeep, Goto, Leave
  <2>2. UNCHANGED <<hold, write, mark, slot, out, my, seq, accepted>>
    BY <1>5 DEF ReadCas, slots, history
  <2>3. Continues(c) /\ Accepts(c) /\ Passing(c)'
    BY <2>1, <2>2 DEF Continues, Accepts, Passing, PreReady, Pushing
  <2>4. CASE read' = read
    BY <2>1, <2>2, <2>3, <2>4, StillKept
  <2>5. CASE read' = read + 1 /\ At(read) = At(old[c]) /\ Turn(read, {"rcas"})
    <3>1. old[c] = read
      BY <1>0, <1>a, <1>b, <2>1, <2>5, CasExact DEF Loaded
    <3>2. mark[At(read)] = "INVALID" /\ mark[At(read + BUFFER_LEN)] = "INVALID"
      BY <1>a, <1>b, <2>1, <3>1, NextTurn DEF Passing
    <3>3. Unused'
      <4>1. \A i \in hold .. read + BUFFER_LEN : mark[At(i)] = "INVALID"
        BY <1>a, <3>2 DEF Unused, SlotInv
      <4> QED BY <1>a, <2>2, <2>5, <4>1 DEF Unused
    <3>4. \A u \in Threads : Owns(u)' => Owns(u)
      BY <2>1 DEF OthersKeep, Owns, Procs, PreReady
    <3>5. ASSUME NEW u \in Threads PROVE Owned(u)' /\ Filled(u)'
      BY <2>1, <2>2, <3>4 DEF SlotInv, Owned, Filled, Log, OthersKeep, Procs
    <3>6. ASSUME NEW q \in Procs PROVE Passing(q)'
      <4>1. CASE q = c
        BY <2>3, <4>1
      <4>2. CASE q # c
        <5>1. Passing(q) /\ Loaded(q) /\ pc'[q] = pc[q] /\ old'[q] = old[q] /\ old[q] \in Nat
          BY <1>0, <2>1, <4>2 DEF SlotInv, RingInv, OthersKeep
        <5>2. pc[q] = "rcas" => old[q] # read'
          BY <1>a, <2>5, <5>1 DEF Loaded
        <5> QED BY <2>2, <3>4, <5>1, <5>2 DEF Passing
      <4> QED BY <4>1, <4>2
    <3>7. \A l : Written(l) => Written(l)'
      BY <2>2 DEF Written
    <3>8. ASSUME NEW l, Waits(l) PROVE Waits(l)'
      <4>1. PICK a \in read .. hold - 1 :
                /\ slot[At(a)].log = l /\ mark[At(a)] = "READY"
                /\ \A u \in Threads : Owns(u) => my[u] # a
        BY <3>8 DEF Waits
      <4>2. a # read
        BY <3>2, <4>1
      <4>3. a \in read' .. hold' - 1
        BY <1>a, <2>2, <2>5, <4>2
      <4> QED BY <2>2, <3>4, <4>1, <4>3 DEF Waits
    <3>9. \A t \in Threads : pc'[t] \in Pushing => pc[t] \in Pushing /\ seq'[t] = seq[t]
      BY <2>1, <2>2 DEF OthersKeep, Procs, Pushing
    <3>10. Kept'
      BY <2>2, <3>7, <3>8, <3>9, KeptStep DEF SlotInv
    <3> QED BY <3>3, <3>5, <3>6, <3>10 DEF SlotInv
  <2> QED BY <1>5, <2>4, <2>5 DEF ReadCas
<1>6. CASE ProcTail(c)
  <2>1. OthersKeep(c) /\ pc'[c] \in {"pload", "done", "idle"}
    BY <1>0, <1>6 DEF ProcTail, LogEnd, OthersKeep, Goto
  <2>2. UNCHANGED <<hold, write, read, mark, slot, out, accepted>>
    BY <1>6 DEF ProcTail, ring, slots, history
  <2>3. Continues(c) /\ Accepts(c) /\ Passing(c)'
    BY <2>1, <2>2 DEF Continues, Accepts, Passing, PreReady, Pushing
  <2> QED BY <2>1, <2>2, <2>3, StillKept
<1> QED BY <1>1, <1>2, <1>3, <1>4, <1>5, <1>6 DEF EnterProcChannel

\* A queue nobody uses: only what it holds matters.
LEMMA QuietKept ==
    ASSUME Unused', \A p \in Procs : pc'[p] \in {"idle", "off", "pload"},
           Kept, \A l : Waits(l) => Waits(l)', UNCHANGED <<out, accepted>>
    PROVE  SlotInv'
<1>1. \A t \in Threads : Owned(t)' /\ Filled(t)'
  BY DEF Owned, Filled, Owns, PreReady, Procs
<1>2. \A p \in Procs : Passing(p)'
  BY DEF Passing
<1>3. Kept'
  <2>1. \A l : Written(l) => Written(l)'
    BY DEF Written
  <2>2. \A t \in Threads : pc'[t] \notin Pushing
    BY DEF Pushing, Procs
  <2> QED BY <2>1, <2>2, KeptStep
<1> QED BY <1>1, <1>2, <1>3 DEF SlotInv

LEMMA SameKept == ASSUME SlotInv, UNCHANGED <<ring, slots, local, history>> PROVE SlotInv'
<1>1. Writer \in Procs /\ Writer \notin Threads
  BY RingAssumption DEF Procs
<1>2. OthersKeep(Writer) /\ Continues(Writer) /\ Accepts(Writer)
  BY <1>1 DEF OthersKeep, Continues, Accepts, local, history
<1>3. Passing(Writer)'
  <2>1. Passing(Writer)
    BY <1>1 DEF SlotInv
  <2> QED BY <2>1 DEF Passing, Owns, ring, slots, local
<1>4. UNCHANGED <<hold, write, read, mark, slot, out>>
  BY DEF ring, slots, history
<1> QED BY <1>1, <1>2, <1>3, <1>4, StillKept

LEMMA ControlKept ==
    ASSUME TypeOK, Numbered, OrderInv, KeptInv, Open',
           \/ StartLogger \/ StartChannels \/ StartTimeout
           \/ StopLogger \/ StopChannels \/ Crash
    PROVE  SlotInv'
<1>0. /\ Writer \in Procs /\ pc \in [Procs -> Steps] /\ stops \in Nat
      /\ hold \in Nat /\ write \in Nat /\ proc \in Nat /\ read \in Nat /\ BUFFER_LEN \in Nat
      /\ slot \in [Slots -> Content] /\ mark \in [Slots -> Marks]
  BY RingLen DEF Procs, TypeOK
<1>1. CASE StartLogger
  <2>1. RingInv /\ SlotInv /\ \A p \in Procs : pc[p] \in {"idle", "off"}
    BY <1>1 DEF StartLogger, Open, OrderInv, RingInv, KeptInv, Quiet
  <2>2. \A p \in Procs : pc'[p] \in {"idle", "off", "pload"}
    BY <1>0, <1>1, <2>1 DEF StartLogger, Goto
  <2>3. UNCHANGED <<out, accepted>>
    BY <1>1 DEF StartLogger, history
  <2>4. hold' = hold /\ read' = read
    BY <1>1 DEF StartLogger, LoadSharedMemory, RecoverTo, ring
  <2>5. \A i \in Slots : /\ mark[i] = "READY" => mark'[i] = "READY"
                         /\ slot'[i].log = slot[i].log
    <3>1. CASE attached
      BY <1>1, <3>1 DEF StartLogger, slots
    <3>2. CASE ~attached
      <4>1. \A i \in Slots : [slot[i] EXCEPT !.core = TRUE].log = slot[i].log
        BY <1>0 DEF Content
      <4> QED BY <1>0, <1>1, <3>2, <4>1 DEF StartLogger, LoadSharedMemory
    <3> QED BY <3>1, <3>2
  <2>6. ASSUME NEW i \in hold .. read + BUFFER_LEN - 1 PROVE mark'[At(i)] = mark[At(i)]
    <3>1. CASE attached
      BY <1>1, <3>1 DEF StartLogger, slots
    <3>2. CASE ~attached
      <4>1. ~Torn(At(i))
        <5> SUFFICES ASSUME NEW a \in write .. hold - 1, At(a) = At(i) PROVE FALSE
          BY DEF Torn
        <5>1. a \in Nat /\ i \in Nat /\ read <= a /\ read <= i /\ a < i
          BY <1>0, <2>1 DEF RingInv, Order
        <5>2. a < read + BUFFER_LEN /\ i < read + BUFFER_LEN
          BY <1>0, <5>1
        <5> QED BY <1>0, <5>1, <5>2, Apart
      <4>2. At(i) \in Slots
        BY <1>0, AtSlot
      <4> QED BY <1>0, <1>1, <3>2, <4>1, <4>2 DEF StartLogger, LoadSharedMemory
    <3> QED BY <3>1, <3>2
  <2>7. Unused'
    BY <2>1, <2>4, <2>6 DEF SlotInv, Unused
  <2>8. ASSUME NEW l, Waits(l) PROVE Waits(l)'
    <3>1. PICK a \in read .. hold - 1 : slot[At(a)].log = l /\ mark[At(a)] = "READY"
      BY <2>8 DEF Waits
    <3>2. slot'[At(a)].log = l /\ mark'[At(a)] = "READY"
      BY <1>0, <2>5, <3>1, AtSlot
    <3>3. \A t \in Threads : ~Owns(t)'
      BY <2>2 DEF Owns, PreReady, Procs
    <3> QED BY <2>4, <3>2, <3>3 DEF Waits
  <2> QED BY <2>1, <2>2, <2>3, <2>7, <2>8, QuietKept DEF SlotInv
<1>2. CASE StartChannels \/ StartTimeout \/ StopLogger
  <2>1. SlotInv
    BY <1>0, <1>2 DEF StartChannels, StartTimeout, StopLogger, Open, KeptInv
  <2>2. UNCHANGED <<ring, slots, local, history>>
    BY <1>2 DEF StartChannels, StartTimeout, StopLogger
  <2> QED BY <2>1, <2>2, SameKept
<1>5. CASE StopChannels
  BY <1>0, <1>5 DEF StopChannels, Open, OrderInv, Stopping
<1>6. CASE Crash
  <2>1. SlotInv
    BY <1>6 DEF Crash, Open, KeptInv
  <2>2. \A p \in Procs : pc'[p] \in {"idle", "off"}
    BY <1>6 DEF Crash
  <2>3. UNCHANGED <<ring, slots, history>>
    BY <1>6 DEF Crash
  <2>4. Unused'
    BY <2>1, <2>3 DEF SlotInv, Unused, ring, slots
  <2>5. \A t \in Threads : ~Owns(t)'
    BY <2>2 DEF Owns, PreReady, Procs
  <2>6. \A l : Waits(l) => Waits(l)'
    BY <2>3, <2>5 DEF Waits, ring, slots
  <2> QED BY <2>1, <2>2, <2>3, <2>4, <2>6, QuietKept DEF SlotInv, history
<1> QED BY <1>1, <1>2, <1>5, <1>6

LEMMA InitKept == Init => KeptInv
<1> SUFFICES ASSUME Init PROVE SlotInv
  BY DEF KeptInv
<1>1. \A p \in Procs : pc[p] \in {"idle", "off"}
  BY DEF Init
<1>2. \A t \in Threads : Owned(t) /\ Filled(t) /\ pc[t] \notin Pushing
  BY <1>1 DEF Owned, Filled, Owns, PreReady, Pushing, Procs
<1>3. \A p \in Procs : Passing(p)
  BY <1>1 DEF Passing
<1>4. Unused
  BY AtSlot, RingLen DEF Init, Unused
<1> QED BY <1>2, <1>3, <1>4 DEF Init, SlotInv, Kept

LEMMA NextKept ==
    ASSUME LapFree, TypeOK, Numbered, OrderInv, KeptInv, [Next]_vars
    PROVE  KeptInv'
<1> SUFFICES ASSUME Open' PROVE SlotInv'
  BY DEF KeptInv
<1>1. CASE \E t \in Threads : LogBegin(t) \/ Produce(t)
  <2>1. RingInv /\ SlotInv
    BY <1>1, ThreadOpen DEF Open, OrderInv, KeptInv
  <2> QED BY <1>1, <2>1, ProduceKept
<1>2. CASE \E c \in Procs : EnterProcChannel(c)
  <2>1. RingInv /\ SlotInv
    BY <1>2, ThreadOpen DEF Open, OrderInv, KeptInv
  <2> QED BY <1>2, <2>1, ProcKept
<1>3. CASE UNCHANGED vars
  BY <1>3, SameKept DEF KeptInv, Open, vars, ctl
<1> QED BY <1>1, <1>2, <1>3, ControlKept DEF Next

\* AcceptedKept for every instance: no log that PushChannel returned 0 for is
\* lost, not to another thread that reuses its slot and not to a crash.
THEOREM AcceptedIsKept == ASSUME LapFree PROVE Spec => []AcceptedKept
<1>1. KeptInv => AcceptedKept
  BY DEF KeptInv, SlotInv, Kept, Waits, AcceptedKept, InRing
<1>2. TypeOK /\ Numbered /\ OrderInv /\ [Next]_vars => OrderInv'
  BY NextOrder
<1>3. TypeOK /\ Numbered /\ OrderInv /\ KeptInv /\ [Next]_vars => KeptInv'
  BY NextKept
<1> QED BY <1>1, <1>2, <1>3, InitOrder, InitKept, TypeCorrect, PTL DEF Spec

-----------------------------------------------------------------------------
(* What is written out is a log, or a slot that a crash has torn *)

LEMMA LogIsLog == ASSUME NEW t PROVE Log(t) # NoLog
BY DEF Log, NoLog

\* A step of p that leaves alone what is written.
LEMMA WholeStep ==
    ASSUME TypeOK, Whole, NEW p \in Procs,
           \A q \in Procs : q # p => pc'[q] = pc[q] /\ old'[q] = old[q],
           \A q \in Procs : q # p /\ pc[q] = "wcas" => old[q] <= write,
           \A i \in Slots : Good(slot[i]) => Good(slot'[i]),
           \A i \in Slots : mark'[i] = "READY" => mark[i] = "READY" \/ Good(slot'[i]),
           write' = write \/ (write' = write + 1 /\ Good(slot[At(write)])),
           pc'[p] = "wcas" => write' = write /\ Good(slot[At(write)]),
           out' = out
    PROVE  Whole'
<1>0. write \in Nat /\ \A a \in Nat : At(a) \in Slots
  BY AtSlot DEF TypeOK
<1>1. \A i \in Slots : mark'[i] = "READY" => Good(slot'[i])
  BY DEF Whole
<1>2. \A a \in 0 .. write' - 1 : Good(slot'[At(a)])
  <2>1. \A a \in 0 .. write - 1 : Good(slot'[At(a)])
    BY <1>0 DEF Whole
  <2>2. write' = write + 1 => Good(slot'[At(write)])
    BY <1>0
  <2> QED BY <1>0, <2>1, <2>2
<1>3. ASSUME NEW q \in Procs, pc'[q] = "wcas", old'[q] = write' PROVE Good(slot'[At(write')])
  <2>1. CASE q = p
    BY <1>0, <1>3, <2>1
  <2>2. CASE q # p
    <3>1. pc[q] = "wcas" /\ old[q] = write' /\ old[q] <= write
      BY <1>3, <2>2
    <3>2. write' = write
      BY <1>0, <3>1
    <3> QED BY <1>0, <3>1, <3>2 DEF Whole
  <2> QED BY <2>1, <2>2
<1>4. \A i \in DOMAIN out' : Good(out'[i])
  BY DEF Whole
<1> QED BY <1>1, <1>2, <1>3, <1>4 DEF Whole, Good

LEMMA ProduceWhole ==
    ASSUME LapFree, TypeOK, Numbered, RingInv, SlotInv, Whole, NEW t \in Threads,
           LogBegin(t) \/ Produce(t)
    PROVE  Whole'
<1>0. /\ t \in Procs /\ IndexOK /\ pc \in [Procs -> Steps] /\ old \in [Procs -> Nat]
      /\ my \in [Threads -> Nat] /\ write \in Nat
      /\ mark \in [Slots -> Marks] /\ slot \in [Slots -> Content] /\ At(my[t]) \in Slots
  BY SplitType, AtSlot DEF Procs, TypeOK
<1>a. \A q \in Procs : q # t => pc'[q] = pc[q] /\ old'[q] = old[q]
  BY <1>0 DEF LogBegin, Produce, HoldLoad, HoldCas, HoldMark, Fill, PushEnter, PushReady,
     WriteLoad, WriteCheck, WriteCas, PushDone, LogEnd, Goto, Leave
<1>b. \A q \in Procs : Loaded(q)
  BY DEF RingInv
<1>c. \A q \in Procs : pc[q] = "wcas" => old[q] <= write
  BY <1>b DEF Loaded
<1>d. out' = out
  BY DEF LogBegin, Produce, HoldLoad, HoldCas, HoldMark, Fill, PushEnter, PushReady,
     WriteLoad, WriteCheck, WriteCas, history
<1>1. CASE LogBegin(t) \/ HoldLoad(t) \/ HoldCas(t) \/ PushEnter(t) \/ WriteLoad(t)
  <2>1. UNCHANGED <<write, mark, slot>> /\ pc'[t] # "wcas"
    BY <1>0, <1>1 DEF LogBegin, HoldLoad, HoldCas, PushEnter, WriteLoad, LogEnd, Goto, ring, slots
  <2> QED BY <1>0, <1>a, <1>c, <1>d, <2>1, WholeStep
<1>2. CASE HoldMark(t)
  <2>1. UNCHANGED <<write, slot>> /\ pc'[t] # "wcas"
    BY <1>0, <1>2 DEF HoldMark, Goto, ring
  <2>2. \A i \in Slots : mark'[i] = "READY" => mark[i] = "READY"
    BY <1>0, <1>2 DEF HoldMark
  <2> QED BY <1>0, <1>a, <1>c, <1>d, <2>1, <2>2, WholeStep
<1>3. CASE Fill(t)
  <2>1. UNCHANGED <<write, mark>> /\ pc'[t] # "wcas"
    BY <1>0, <1>3 DEF Fill, Goto, ring
  <2>2. \A i \in Slots : Good(slot[i]) => Good(slot'[i])
    BY <1>0, <1>3, LogIsLog DEF Fill, Good
  <2> QED BY <1>0, <1>a, <1>c, <1>d, <2>1, <2>2, WholeStep
<1>4. CASE PushReady(t)
  <2>1. UNCHANGED <<write, slot>> /\ pc'[t] # "wcas" /\ pc[t] = "ready"
    BY <1>0, <1>4 DEF PushReady, Goto, ring
  <2>2. Good(slot[At(my[t])])
    BY <2>1, LogIsLog DEF SlotInv, Filled, Good
  <2>3. \A i \in Slots : mark'[i] = "READY" => mark[i] = "READY" \/ Good(slot'[i])
    BY <1>0, <1>4, <2>1, <2>2 DEF PushReady
  <2> QED BY <1>0, <1>a, <1>c, <1>d, <2>1, <2>3, WholeStep
<1>5. CASE WriteCheck(t)
  <2>1. UNCHANGED <<write, mark, slot>>
    BY <1>5 DEF WriteCheck, ring, slots
  <2>2. ASSUME pc'[t] = "wcas", old'[t] = write PROVE Good(slot[At(write)])
    <3>1. mark[At(old[t])] = "READY" /\ old'[t] = old[t]
      BY <1>0, <1>5, <2>2 DEF WriteCheck, UnreadyAt, PushDone, LogEnd, Goto
    <3> QED BY <1>0, <2>2, <3>1, AtSlot DEF Whole
  <2>3. CASE pc'[t] = "wcas" /\ old'[t] = write
    BY <1>0, <1>a, <1>c, <1>d, <2>1, <2>2, <2>3, WholeStep
  <2>4. CASE ~(pc'[t] = "wcas" /\ old'[t] = write)
    BY <1>0, <1>a, <1>d, <2>1, <2>4 DEF Whole, Good
  <2> QED BY <2>3, <2>4
<1>6. CASE WriteCas(t)
  <2>1. UNCHANGED <<mark, slot>> /\ pc'[t] # "wcas" /\ pc[t] = "wcas"
    BY <1>0, <1>6 DEF WriteCas, PushDone, LogEnd, Goto, slots
  <2>2. CASE write' = write
    BY <1>0, <1>a, <1>c, <1>d, <2>1, <2>2, WholeStep
  <2>3. CASE write' = write + 1 /\ At(write) = At(old[t]) /\ Turn(write, {"wcheck", "wcas"})
    <3>1. old[t] = write
      BY <1>0, <1>c, <2>1, <2>3, CasExact
    <3>2. Good(slot[At(write)])
      BY <1>0, <2>1, <3>1 DEF Whole
    <3> QED BY <1>0, <1>a, <1>c, <1>d, <2>1, <2>3, <3>2, WholeStep
  <2> QED BY <1>6, <2>2, <2>3 DEF WriteCas
<1> QED BY <1>1, <1>2, <1>3, <1>4, <1>5, <1>6 DEF Produce

LEMMA ProcWhole ==
    ASSUME TypeOK, Numbered, RingInv, Whole, NEW c \in Procs, EnterProcChannel(c)
    PROVE  Whole'
<1>0. /\ IndexOK /\ pc \in [Procs -> Steps] /\ old \in [Procs -> Nat]
      /\ write \in Nat /\ proc \in Nat /\ out \in Seq(Content)
      /\ mark \in [Slots -> Marks] /\ slot \in [Slots -> Content] /\ At(old[c]) \in Slots
  BY SplitType, AtSlot DEF TypeOK
<1>a. \A q \in Procs : q # c => pc'[q] = pc[q] /\ old'[q] = old[q]
  BY <1>0 DEF EnterProcChannel, ProcLoad, ProcCas, Dispatch, ReadLoad, ReadCas, ProcTail, LogEnd,
     Goto, Leave
<1>b. \A q \in Procs : pc[q] = "wcas" => old[q] <= write
  BY DEF RingInv, Loaded
<1>1. CASE ProcLoad(c) \/ ProcCas(c) \/ ReadLoad(c) \/ ReadCas(c) \/ ProcTail(c)
  <2>1. UNCHANGED <<write, mark, slot, out>> /\ pc'[c] # "wcas"
    BY <1>0, <1>1 DEF ProcLoad, ProcCas, ReadLoad, ReadCas, ProcTail, LogEnd, Goto, ring, slots,
       history
  <2> QED BY <1>0, <1>a, <1>b, <2>1, WholeStep
<1>2. CASE Dispatch(c)
  <2>1. UNCHANGED <<write, slot>> /\ pc'[c] # "wcas" /\ pc[c] = "dispatch"
    BY <1>0, <1>2 DEF Dispatch, Goto, ring
  <2>2. \A i \in Slots : mark'[i] = "READY" => mark[i] = "READY"
    BY <1>0, <1>2 DEF Dispatch
  <2>3. Good(slot[At(old[c])])
    <3>1. old[c] < proc /\ proc <= write
      BY <2>1 DEF RingInv, Loaded, Order
    <3> QED BY <1>0, <3>1 DEF Whole
  <2>4. ASSUME NEW i \in DOMAIN out' PROVE Good(out'[i])
    <3>1. slot[At(old[c])] \in Content /\ out' = Append(out, slot[At(old[c])])
      BY <1>0, <1>2 DEF Dispatch
    <3>2. DOMAIN out' = 1 .. Len(out) + 1 /\ DOMAIN out = 1 .. Len(out) /\ Len(out) \in Nat
      BY <1>0, <3>1, AppendProperties, LenProperties
    <3>3. CASE i = Len(out) + 1
      BY <1>0, <2>3, <3>1, <3>3, AppendProperties
    <3>4. CASE i \in 1 .. Len(out)
      BY <1>0, <3>1, <3>2, <3>4, AppendProperties DEF Whole
    <3> QED BY <3>2, <3>3, <3>4
  <2>5. \A i \in Slots : mark'[i] = "READY" => Good(slot'[i])
    BY <2>1, <2>2 DEF Whole
  <2>6. \A q \in Procs : pc'[q] = "wcas" => pc[q] = "wcas" /\ old'[q] = old[q]
    BY <1>a, <2>1
  <2> QED BY <2>1, <2>4, <2>5, <2>6 DEF Whole, Good
<1> QED BY <1>1, <1>2 DEF EnterProcChannel

LEMMA ControlWhole ==
    ASSUME TypeOK, OrderInv, GoodInv, Open',
           \/ StartLogger \/ StartChannels \/ StartTimeout
           \/ StopLogger \/ StopChannels \/ Crash
    PROVE  Whole'
<1>0. /\ Writer \in Procs /\ pc \in [Procs -> Steps] /\ stops \in Nat
      /\ hold \in Nat /\ write \in Nat
      /\ slot \in [Slots -> Content] /\ mark \in [Slots -> Marks]
  BY DEF Procs, TypeOK
<1>1. CASE StartLogger
  <2>1. RingInv /\ Whole /\ \A p \in Procs : pc[p] \in {"idle", "off"}
    BY <1>1 DEF StartLogger, Open, OrderInv, RingInv, GoodInv, Quiet
  <2>2. \A p \in Procs : pc'[p] # "wcas"
    BY <1>0, <1>1, <2>1 DEF StartLogger, Goto
  <2>3. \A i \in DOMAIN out' : Good(out'[i])
    BY <1>1, <2>1 DEF StartLogger, history, Whole
  <2>4. CASE attached
    BY <1>1, <2>1, <2>2, <2>3, <2>4 DEF StartLogger, ring, slots, Whole
  <2>5. CASE ~attached
    <3>1. \A i \in Slots : slot[i] \in Content /\ [slot[i] EXCEPT !.core = TRUE].core
      BY <1>0 DEF Content
    <3>2. \A i \in Slots : Torn(i) => Good(slot'[i])
      BY <1>1, <2>5, <3>1 DEF StartLogger, LoadSharedMemory, Good
    <3>3. \A i \in Slots : ~Torn(i) => slot'[i] = slot[i] /\ mark'[i] = mark[i]
      BY <1>1, <2>5 DEF StartLogger, LoadSharedMemory
    <3>4. \A i \in Slots : mark'[i] = "READY" => Good(slot'[i])
      BY <2>1, <3>2, <3>3 DEF Whole
    <3>5. write' = hold
      BY <1>1, <2>5 DEF StartLogger, LoadSharedMemory, RecoverTo
    <3>6. ASSUME NEW a \in 0 .. hold - 1 PROVE Good(slot'[At(a)])
      <4>1. At(a) \in Slots
        BY <1>0, AtSlot
      <4>2. CASE Torn(At(a))
        BY <3>2, <4>1, <4>2
      <4>3. CASE ~Torn(At(a))
        <5>1. a \in 0 .. write - 1
          BY <1>0, <4>3 DEF Torn
        <5> QED BY <2>1, <3>3, <4>1, <4>3, <5>1 DEF Whole
      <4> QED BY <4>2, <4>3
    <3> QED BY <2>2, <2>3, <3>4, <3>5, <3>6 DEF Whole, Good
  <2> QED BY <2>4, <2>5
<1>2. CASE StartChannels \/ StartTimeout \/ StopLogger
  <2>1. Whole
    BY <1>0, <1>2 DEF StartChannels, StartTimeout, StopLogger, Open, GoodInv
  <2>2. UNCHANGED <<ring, slots, local, history>>
    BY <1>2 DEF StartChannels, StartTimeout, StopLogger
  <2> QED BY <2>1, <2>2 DEF Whole, Good, ring, slots, local, history
<1>3. CASE StopChannels
  BY <1>0, <1>3 DEF StopChannels, Open, OrderInv, Stopping
<1>4. CASE Crash
  <2>1. Whole /\ UNCHANGED <<ring, slots, history>>
    BY <1>4 DEF Crash, Open, GoodInv
  <2>2. \A p \in Procs : pc'[p] # "wcas"
    BY <1>4 DEF Crash
  <2> QED BY <2>1, <2>2 DEF Whole, Good, ring, slots, history
<1> QED BY <1>1, <1>2, <1>3, <1>4

LEMMA InitWhole == Init => GoodInv
<1> SUFFICES ASSUME Init PROVE Whole
  BY DEF GoodInv
<1>1. \A p \in Procs : pc[p] # "wcas"
  BY DEF Init
<1> QED BY <1>1 DEF Init, Whole

LEMMA NextWhole ==
    ASSUME LapFree, TypeOK, Numbered, OrderInv, KeptInv, GoodInv, [Next]_vars
    PROVE  GoodInv'
<1> SUFFICES ASSUME Open' PROVE Whole'
  BY DEF GoodInv
<1>1. CASE \E t \in Threads : LogBegin(t) \/ Produce(t)
  <2>1. RingInv /\ SlotInv /\ Whole
    BY <1>1, ThreadOpen DEF Open, OrderInv, KeptInv, GoodInv
  <2> QED BY <1>1, <2>1, ProduceWhole
<1>2. CASE \E c \in Procs : EnterProcChannel(c)
  <2>1. RingInv /\ Whole
    BY <1>2, ThreadOpen DEF Open, OrderInv, GoodInv
  <2> QED BY <1>2, <2>1, ProcWhole
<1>3. CASE UNCHANGED vars
  BY <1>3 DEF GoodInv, Open, Whole, Good, vars, ctl, ring, slots, local, history
<1> QED BY <1>1, <1>2, <1>3, ControlWhole DEF Next

-----------------------------------------------------------------------------
(* Without a crash: each log once, whole, and in turn *)

\* The mover's log: it keeps its number until it ends.
Progress(p) ==
    p \in Threads =>
        /\ pc'[p] \in PreReady => pc[p] \in PreReady /\ my'[p] = my[p] /\ seq'[p] = seq[p]
        /\ \/ seq'[p] = seq[p] + 1
           \/ /\ seq'[p] = seq[p]
              /\ pc'[p] \in {"idle", "hold", "cas"} => pc[p] \in {"idle", "hold", "cas"}

LEMMA HeldSame ==
    ASSUME TypeOK, HeldInv, NEW p \in Procs, OthersKeep(p), Progress(p),
           UNCHANGED <<held, hold, logger>>
    PROVE  HeldInv'
<1>0. hold \in Nat /\ seq \in [Threads -> Nat] /\ Len(held) = hold /\ held \in Seq(Logs)
  BY DEF TypeOK, HeldInv
<1>1. \A i \in 1 .. hold : held[i] \in Logs /\ held[i][2] \in Nat
  BY <1>0, RingAssumption, ElementOfSeq DEF Logs
<1>2. ASSUME NEW t \in Threads PROVE Fresh(t)'
  <2>1. Fresh(t)
    BY DEF HeldInv
  <2>2. CASE t # p
    BY <2>1, <2>2 DEF OthersKeep, Procs, Fresh
  <2>3. CASE t = p
    <3>1. CASE seq'[t] = seq[t] + 1
      <4>1. \A i \in 1 .. hold : held[i][1] = t => held[i][2] < seq'[t]
        BY <1>0, <1>1, <2>1, <3>1 DEF Fresh
      <4> QED BY <1>0, <1>1, <3>1, <4>1 DEF Fresh
    <3>2. CASE seq'[t] = seq[t] /\ (pc'[t] \in {"idle", "hold", "cas"}
                                    => pc[t] \in {"idle", "hold", "cas"})
      BY <2>1, <3>2 DEF Fresh
    <3> QED BY <2>3, <3>1, <3>2 DEF Progress
  <2> QED BY <2>2, <2>3
<1>3. ASSUME NEW t \in Threads, Owns(t)' PROVE held'[my'[t] + 1] = Log(t)'
  <2>1. Owns(t) /\ my'[t] = my[t] /\ seq'[t] = seq[t]
    BY <1>3 DEF Owns, OthersKeep, Progress, Procs, PreReady
  <2> QED BY <2>1 DEF HeldInv, Log
<1> QED BY <1>2, <1>3 DEF HeldInv

\* A thread takes a slot: its log is the last one held, and new.
LEMMA HeldCas ==
    ASSUME TypeOK, Numbered, RingInv, SlotInv, HeldInv, NEW t \in Threads, HoldCas(t),
           hold' = hold + 1
    PROVE  /\ HeldInv' /\ held'[hold + 1] = Log(t)
           /\ \A i \in 1 .. hold : held'[i] = held[i] /\ held[i] # Log(t)
<1>0. /\ hold \in Nat /\ seq \in [Threads -> Nat] /\ Len(held) = hold /\ held \in Seq(Logs)
      /\ pc[t] = "cas" /\ t \in Procs /\ pc \in [Procs -> Steps] /\ my \in [Threads -> Nat]
  BY DEF TypeOK, HeldInv, HoldCas, Procs
<1>1. \A i \in 1 .. hold : held[i] \in Logs /\ held[i][2] \in Nat
  BY <1>0, RingAssumption, ElementOfSeq DEF Logs
<1>2. Log(t) \in Logs
  BY <1>0, LogType
<1>3. /\ held' = Append(held, Log(t)) /\ pc' = [pc EXCEPT ![t] = "mark"]
      /\ my' = [my EXCEPT ![t] = hold] /\ seq' = seq /\ logger' = logger
  BY <1>0 DEF HoldCas, Goto, ctl
<1>4. /\ Len(held') = hold + 1 /\ held'[hold + 1] = Log(t)
      /\ \A i \in 1 .. hold : held'[i] = held[i]
  BY <1>0, <1>2, <1>3, AppendProperties
<1>5. \A i \in 1 .. hold : held[i] # Log(t)
  <2>1. \A i \in 1 .. hold : held[i][1] = t => held[i][2] < seq[t]
    BY <1>0 DEF HeldInv, Fresh
  <2>2. Log(t)[1] = t /\ Log(t)[2] = seq[t] /\ seq[t] \in Nat
    BY <1>0 DEF Log
  <2> QED BY <1>1, <2>1, <2>2
<1>6. \A i, j \in 1 .. hold + 1 : held'[i] = held'[j] => i = j
  BY <1>0, <1>4, <1>5 DEF HeldInv
<1>7. ASSUME NEW u \in Threads PROVE Fresh(u)'
  <2>1. Fresh(u)
    BY DEF HeldInv
  <2>2. CASE u = t
    <3>1. pc'[u] = "mark" /\ seq'[u] = seq[u]
      BY <1>0, <1>3, <2>2
    <3>2. \A i \in 1 .. hold + 1 : held'[i][1] = u => held'[i][2] <= seq[u]
      BY <1>0, <1>4, <2>1, <2>2 DEF Fresh, Log
    <3> QED BY <3>1, <3>2 DEF Fresh
  <2>3. CASE u # t
    <3>1. pc'[u] = pc[u] /\ seq'[u] = seq[u] /\ held'[hold + 1][1] # u
      BY <1>0, <1>3, <1>4, <2>3 DEF Log, Procs
    <3>2. \A i \in 1 .. hold + 1 : held'[i][1] = u => i \in 1 .. hold /\ held'[i] = held[i]
      BY <1>0, <1>4, <3>1
    <3> QED BY <2>1, <3>1, <3>2 DEF Fresh
  <2> QED BY <2>2, <2>3
<1>8. ASSUME NEW u \in Threads, Owns(u)' PROVE held'[my'[u] + 1] = Log(u)'
  <2>1. CASE u = t
    BY <1>0, <1>3, <1>4, <2>1 DEF Log
  <2>2. CASE u # t
    <3>1. Owns(u) /\ my'[u] = my[u] /\ Log(u)' = Log(u)
      BY <1>0, <1>3, <1>8, <2>2 DEF Owns, Log, Procs
    <3>2. my[u] < hold /\ my[u] \in Nat
      BY <1>0, <3>1 DEF SlotInv, Owned
    <3> QED BY <1>0, <1>4, <3>1, <3>2 DEF HeldInv
  <2> QED BY <2>1, <2>2
<1>9. logger' # "UNINIT"
  BY <1>0, <1>3 DEF RingInv, Quiet
<1> QED BY <1>4, <1>5, <1>6, <1>7, <1>8, <1>9 DEF HeldInv

\* Nothing is written out, taken or released; held may get longer.
LEMMA OutSame ==
    ASSUME TypeOK, RingInv, OutInv, NEW p \in Procs, OthersKeep(p), pc'[p] # "dispatch",
           proc' = proc, out' = out,
           \/ hold' = hold
           \/ hold' = hold + 1 /\ \A i \in DOMAIN out : out[i].log # held'[hold + 1],
           \A q \in Procs : q # p /\ pc[q] = "dispatch" =>
               read' <= old[q] /\ mark'[At(old[q])] = "READY",
           \A i \in 1 .. hold : held'[i] = held[i]
    PROVE  OutInv'
<1>0. hold \in Nat /\ proc \in Nat /\ write \in Nat /\ old \in [Procs -> Nat]
  BY DEF TypeOK
<1>1. Order /\ \A q \in Procs : Loaded(q)
  BY DEF RingInv
<1>2. \A a \in 0 .. hold - 1 : NotOut(a) => NotOut(a)'
  BY <1>0 DEF NotOut
<1>3. \A q \in Procs : pc'[q] = "dispatch" =>
          q # p /\ pc[q] = "dispatch" /\ old'[q] = old[q] /\ old[q] < hold
  BY <1>0, <1>1 DEF OthersKeep, Loaded, Order
<1>4. ASSUME NEW q \in Procs, pc'[q] = "dispatch"
      PROVE  /\ read' <= old'[q] /\ mark'[At(old'[q])] = "READY" /\ NotOut(old[q])'
             /\ \A r \in Procs : r # q /\ pc'[r] = "dispatch" => old'[r] # old'[q]
  <2>1. Taken(q) /\ q # p /\ pc[q] = "dispatch" /\ old'[q] = old[q] /\ old[q] \in 0 .. hold - 1
    BY <1>0, <1>3, <1>4 DEF OutInv
  <2> QED BY <1>2, <1>3, <2>1 DEF Taken
<1>5. \A a \in proc' .. hold' - 1 : \A i \in DOMAIN out' : out'[i].log # held'[a + 1]
  <2>1. \A a \in proc .. hold - 1 : \A i \in DOMAIN out : out[i].log # held'[a + 1]
    BY <1>0 DEF OutInv, NotOut
  <2>2. CASE hold' = hold
    BY <1>0, <2>1, <2>2
  <2>3. CASE hold' = hold + 1 /\ \A i \in DOMAIN out : out[i].log # held'[hold + 1]
    <3>1. \A a \in proc .. hold : a = hold \/ a \in proc .. hold - 1
      BY <1>0
    <3>2. hold' - 1 = hold
      BY <1>0, <2>3
    <3>3. \A a \in proc .. hold : \A i \in DOMAIN out : out[i].log # held'[a + 1]
      BY <2>1, <2>3, <3>1
    <3> QED BY <3>2, <3>3
  <2> QED BY <2>2, <2>3
<1>6. \A i \in DOMAIN out' : \E j \in 1 .. hold' : out'[i].log = held'[j]
  BY <1>0 DEF OutInv
<1>7. \A i, j \in DOMAIN out' : i # j => out'[i].log # out'[j].log
  BY DEF OutInv
<1>8. \A q \in Procs : Taken(q)'
  BY <1>3, <1>4 DEF Taken, NotOut
<1> QED BY <1>5, <1>6, <1>7, <1>8 DEF OutInv, NotOut

LEMMA TurnSame ==
    ASSUME TypeOK, RingInv, TurnInv, NEW p \in Procs, OthersKeep(p), type' = type,
           proc' = proc, out' = out,
           pc[p] # "dispatch" /\ pc'[p] # "dispatch",
           type = "async" /\ p \in Threads => pc'[p] \notin ProcSteps,
           \A i \in 1 .. hold : held'[i] = held[i]
    PROVE  TurnInv'
<1> SUFFICES ASSUME type = "async" PROVE InTurn'
  BY DEF TurnInv
<1>0. /\ hold \in Nat /\ proc \in Nat /\ write \in Nat /\ out \in Seq(Content)
      /\ Writer \in Procs /\ Order /\ InTurn
  BY DEF TypeOK, Procs, RingInv, TurnInv
<1>1. \A t \in Threads : pc'[t] \notin ProcSteps
  BY <1>0 DEF OthersKeep, InTurn, Procs
<1>2. (pc'[Writer] = "dispatch" <=> pc[Writer] = "dispatch")
      /\ (pc[Writer] = "dispatch" => old'[Writer] = old[Writer])
  BY <1>0 DEF OthersKeep
<1>3. \A i \in DOMAIN out : i \in 1 .. hold
  BY <1>0, LenProperties DEF InTurn, Order
<1>4. \A i \in DOMAIN out' : out'[i].log = held'[i]
  BY <1>0, <1>3 DEF InTurn
<1>5. Len(out') = IF pc'[Writer] = "dispatch" THEN proc' - 1 ELSE proc'
  BY <1>0, <1>2 DEF InTurn
<1>6. pc'[Writer] = "dispatch" => old'[Writer] = proc' - 1
  BY <1>0, <1>2 DEF InTurn
<1> QED BY <1>1, <1>4, <1>5, <1>6 DEF InTurn

\* Steps that change no slot and give none away.
LEMMA ReadySame ==
    ASSUME TypeOK, ReadyInv, NEW p \in Procs, OthersKeep(p),
           UNCHANGED <<hold, write, held, mark, slot>>,
           read' = read \/ read' = read + 1, proc' = proc \/ proc' = proc + 1,
           pc'[p] = "wcas" /\ old'[p] = write => mark[At(write)] = "READY"
    PROVE  ReadyInv'
<1>0. hold \in Nat /\ write \in Nat /\ proc \in Nat /\ read \in Nat
  BY DEF TypeOK
<1>1. \A a \in read' .. hold - 1 : a \in read .. hold - 1
  BY <1>0
<1>2. \A a \in proc' .. write - 1 : a \in proc .. write - 1
  BY <1>0
<1>3. \A q \in Procs : pc'[q] = "wcas" /\ old'[q] = write => mark[At(write)] = "READY"
  BY DEF OthersKeep, ReadyInv
<1> QED BY <1>1, <1>2, <1>3 DEF ReadyInv

\* Steps of a thread on the slot it owns.
LEMMA ReadyOwn ==
    ASSUME TypeOK, Numbered, RingInv, SlotInv, HeldInv, ReadyInv, NEW t \in Threads, Owns(t),
           OthersKeep(t), UNCHANGED <<hold, write, proc, read, held>>, pc'[t] # "wcas",
           NEW v, NEW w, mark' = [mark EXCEPT ![At(my[t])] = v] \/ mark' = mark,
           slot' = [slot EXCEPT ![At(my[t])] = w] \/ slot' = slot,
           mark'[At(my[t])] = "READY" => slot'[At(my[t])].log = Log(t)
    PROVE  /\ ReadyInv'
           /\ \A q \in Procs : pc[q] = "dispatch" /\ read <= old[q] =>
                  mark'[At(old[q])] = mark[At(old[q])]
<1>0. /\ t \in Procs /\ IndexOK /\ Order /\ Owned(t) /\ BUFFER_LEN \in Nat /\ hold \in Nat
      /\ read \in Nat /\ write \in Nat /\ proc \in Nat /\ old \in [Procs -> Nat]
  BY SplitType, RingLen DEF RingInv, SlotInv, Procs, IndexOK
<1>1. my[t] \in Nat /\ read <= my[t] /\ my[t] < hold /\ my[t] < read + BUFFER_LEN /\ write <= my[t]
  BY <1>0, OwnSlot
<1>2. \A b \in Nat : read <= b /\ b < read + BUFFER_LEN /\ b # my[t] =>
          mark'[At(b)] = mark[At(b)] /\ slot'[At(b)] = slot[At(b)]
  <2> TAKE b \in Nat
  <2> HAVE read <= b /\ b < read + BUFFER_LEN /\ b # my[t]
  <2>1. At(my[t]) # At(b) /\ At(my[t]) \in Slots /\ At(b) \in Slots
    BY <1>1, OtherSlot
  <2>2. mark'[At(b)] = mark[At(b)]
    BY <2>1 DEF TypeOK
  <2>3. slot'[At(b)] = slot[At(b)]
    BY <2>1 DEF TypeOK
  <2> QED BY <2>2, <2>3
<1>3. ASSUME NEW a \in read .. hold - 1, mark'[At(a)] = "READY"
      PROVE  slot'[At(a)].log = held[a + 1]
  <2>1. CASE a = my[t]
    BY <1>3, <2>1 DEF HeldInv
  <2>2. CASE a # my[t]
    <3>1. mark'[At(a)] = mark[At(a)] /\ slot'[At(a)] = slot[At(a)]
      BY <1>0, <1>2, <2>2 DEF Order
    <3> QED BY <1>3, <3>1 DEF ReadyInv
  <2> QED BY <2>1, <2>2
<1>4. ASSUME NEW a \in proc .. write - 1 PROVE mark'[At(a)] = "READY"
  <2>1. a \in Nat /\ read <= a /\ a < read + BUFFER_LEN /\ a # my[t]
    BY <1>0, <1>1 DEF Order
  <2> QED BY <1>2, <2>1 DEF ReadyInv
<1>5. ASSUME NEW q \in Procs, pc'[q] = "wcas", old'[q] = write PROVE mark'[At(write)] = "READY"
  <2>1. pc[q] = "wcas" /\ old[q] = write
    BY <1>5 DEF OthersKeep
  <2>2. my[t] # write /\ read <= write /\ write < read + BUFFER_LEN
    BY <1>0, <2>1 DEF SlotInv, Passing, Order
  <2> QED BY <1>0, <1>2, <2>1, <2>2 DEF ReadyInv
<1>6. ASSUME NEW q \in Procs, pc[q] = "dispatch", read <= old[q]
      PROVE  mark'[At(old[q])] = mark[At(old[q])]
  <2>1. old[q] \in Nat /\ old[q] < proc
    BY <1>0, <1>6 DEF RingInv, Loaded
  <2>2. old[q] < read + BUFFER_LEN /\ old[q] # my[t]
    BY <1>0, <1>1, <2>1 DEF Order
  <2> QED BY <1>2, <1>6, <2>1, <2>2
<1> QED BY <1>3, <1>4, <1>5, <1>6 DEF ReadyInv

LEMMA ProduceOnce ==
    ASSUME LapFree, TypeOK, Numbered, RingInv, SlotInv, Once, NEW t \in Threads,
           LogBegin(t) \/ Produce(t)
    PROVE  Once'
<1>0. /\ t \in Procs /\ IndexOK /\ pc \in [Procs -> Steps] /\ old \in [Procs -> Nat]
      /\ my \in [Threads -> Nat] /\ seq \in [Threads -> Nat] /\ Order /\ BUFFER_LEN \in Nat
      /\ hold \in Nat /\ write \in Nat /\ read \in Nat /\ proc \in Nat /\ type \in {"async", "sync"}
      /\ mark \in [Slots -> Marks] /\ slot \in [Slots -> Content] /\ At(my[t]) \in Slots
  BY SplitType, AtSlot, RingLen, RingAssumption DEF Procs, TypeOK, RingInv
<1>a. HeldInv /\ ReadyInv /\ OutInv /\ TurnInv
  BY DEF Once
<1>b. /\ OthersKeep(t) /\ type' = type /\ logger' = logger /\ proc' = proc /\ read' = read /\ out' = out
      /\ pc[t] # "dispatch" /\ pc'[t] # "dispatch"
  BY <1>0 DEF LogBegin, Produce, HoldLoad, HoldCas, HoldMark, Fill, PushEnter, PushReady,
     WriteLoad, WriteCheck, WriteCas, PushDone, LogEnd, Goto, Leave, OthersKeep, ctl, ring, history
<1>c. type = "async" => pc'[t] \notin ProcSteps
  BY <1>0 DEF LogBegin, Produce, HoldLoad, HoldCas, HoldMark, Fill, PushEnter, PushReady,
     WriteLoad, WriteCheck, WriteCas, PushDone, LogEnd, Goto, ProcSteps
<1>d. \A q \in Procs : pc[q] = "dispatch" => read <= old[q] /\ mark[At(old[q])] = "READY"
  BY <1>a DEF OutInv, Taken
<1>1. CASE LogBegin(t) \/ HoldLoad(t) \/ PushEnter(t) \/ WriteLoad(t) \/ WriteCheck(t)
  <2>1. UNCHANGED <<hold, write, held, mark, slot>>
    BY <1>1 DEF LogBegin, HoldLoad, PushEnter, WriteLoad, WriteCheck, ring, slots, history
  <2>2. Progress(t)
    BY <1>0, <1>1 DEF LogBegin, HoldLoad, PushEnter, WriteLoad, WriteCheck, PushDone, LogEnd, Goto,
       Progress, PreReady
  <2>3. pc'[t] = "wcas" /\ old'[t] = write => mark[At(write)] = "READY"
    BY <1>0, <1>1 DEF LogBegin, HoldLoad, PushEnter, WriteLoad, WriteCheck, UnreadyAt, PushDone,
       LogEnd, Goto
  <2>4. HeldInv'
    BY <1>0, <1>a, <1>b, <2>1, <2>2, HeldSame
  <2>5. ReadyInv'
    BY <1>0, <1>a, <1>b, <2>1, <2>3, ReadySame
  <2>6. OutInv'
    BY <1>0, <1>a, <1>b, <1>d, <2>1, OutSame
  <2>7. TurnInv'
    BY <1>0, <1>a, <1>b, <1>c, <2>1, TurnSame
  <2> QED BY <2>4, <2>5, <2>6, <2>7 DEF Once
<1>2. CASE HoldCas(t)
  <2>0. UNCHANGED <<write, mark, slot>> /\ pc'[t] # "wcas"
    BY <1>0, <1>2 DEF HoldCas, Goto, slots
  <2>1. CASE At(hold) # At(old[t])
    <3>1. UNCHANGED <<hold, held>> /\ Progress(t)
      BY <1>0, <1>2, <2>1 DEF HoldCas, Goto, Progress, PreReady
    <3>2. HeldInv'
      BY <1>0, <1>a, <1>b, <3>1, HeldSame
    <3>3. ReadyInv'
      BY <1>0, <1>a, <1>b, <2>0, <3>1, ReadySame
    <3>4. OutInv'
      BY <1>0, <1>a, <1>b, <1>d, <2>0, <3>1, OutSame
    <3>5. TurnInv'
      BY <1>0, <1>a, <1>b, <1>c, <3>1, TurnSame
    <3> QED BY <3>2, <3>3, <3>4, <3>5 DEF Once
  <2>2. CASE At(hold) = At(old[t])
    <3>1. hold' = hold + 1
      BY <1>2, <2>2 DEF HoldCas
    <3>2. /\ HeldInv' /\ held'[hold + 1] = Log(t)
          /\ \A i \in 1 .. hold : held'[i] = held[i] /\ held[i] # Log(t)
      BY <1>2, <1>a, <3>1, HeldCas
    <3>3. ReadyInv'
      <4>1. mark[At(hold)] = "INVALID"
        BY <1>0 DEF Unused, SlotInv, Order
      <4>2. ASSUME NEW a \in read .. hold, mark[At(a)] = "READY"
            PROVE  slot[At(a)].log = held'[a + 1]
        <5>1. a # hold
          BY <4>1, <4>2
        <5>2. a \in read .. hold - 1 /\ a + 1 \in 1 .. hold
          BY <1>0, <5>1
        <5> QED BY <1>a, <3>2, <4>2, <5>2 DEF ReadyInv
      <4>3. \A q \in Procs : pc'[q] = "wcas" /\ old'[q] = write => mark[At(write)] = "READY"
        BY <1>a, <1>b, <2>0 DEF OthersKeep, ReadyInv
      <4>4. hold' - 1 = hold
        BY <1>0, <3>1
      <4> QED BY <1>a, <1>b, <2>0, <4>2, <4>3, <4>4 DEF ReadyInv
    <3>4. OutInv'
      <4>1. \A i \in DOMAIN out : out[i].log # held'[hold + 1]
        BY <1>a, <3>2 DEF OutInv
      <4> QED BY <1>0, <1>a, <1>b, <1>d, <2>0, <3>1, <3>2, <4>1, OutSame
    <3>5. TurnInv'
      BY <1>0, <1>a, <1>b, <1>c, <3>2, TurnSame
    <3> QED BY <3>2, <3>3, <3>4, <3>5 DEF Once
  <2> QED BY <2>1, <2>2
<1>3. CASE HoldMark(t) \/ Fill(t) \/ PushReady(t)
  <2>1. UNCHANGED <<hold, write, held>> /\ Owns(t) /\ pc'[t] # "wcas" /\ Progress(t)
    BY <1>0, <1>3 DEF HoldMark, Fill, PushReady, Goto, Owns, PreReady, Progress, ring, history
  <2>2. Owned(t) /\ Filled(t)
    BY DEF SlotInv
  <2>3. /\ ReadyInv'
        /\ \A q \in Procs : pc[q] = "dispatch" /\ read <= old[q] =>
               mark'[At(old[q])] = mark[At(old[q])]
    <3>1. CASE HoldMark(t)
      <4>1. mark' = [mark EXCEPT ![At(my[t])] = "HOLD"] /\ slot' = slot
        BY <3>1 DEF HoldMark
      <4>2. mark'[At(my[t])] # "READY"
        BY <1>0, <4>1
      <4> QED BY <1>a, <1>b, <2>1, <4>1, <4>2, ReadyOwn
    <3>2. CASE Fill(t)
      <4>1. /\ mark' = mark
            /\ slot' = [slot EXCEPT ![At(my[t])] = [log |-> Log(t), core |-> FALSE]]
        BY <3>2 DEF Fill
      <4>2. mark'[At(my[t])] # "READY"
        BY <2>1, <2>2, <4>1 DEF Owned
      <4> QED BY <1>a, <1>b, <2>1, <4>1, <4>2, ReadyOwn
    <3>3. CASE PushReady(t)
      <4>1. mark' = [mark EXCEPT ![At(my[t])] = "READY"] /\ slot' = slot /\ pc[t] = "ready"
        BY <3>3 DEF PushReady
      <4>2. slot'[At(my[t])].log = Log(t)
        BY <2>2, <4>1 DEF Filled
      <4> QED BY <1>a, <1>b, <2>1, <4>1, <4>2, ReadyOwn
    <3> QED BY <1>3, <3>1, <3>2, <3>3
  <2>4. HeldInv'
    BY <1>0, <1>a, <1>b, <2>1, HeldSame
  <2>5. OutInv'
    BY <1>0, <1>a, <1>b, <1>d, <2>1, <2>3, OutSame
  <2>6. TurnInv'
    BY <1>0, <1>a, <1>b, <1>c, <2>1, TurnSame
  <2> QED BY <2>3, <2>4, <2>5, <2>6 DEF Once
<1>4. CASE WriteCas(t)
  <2>1. UNCHANGED <<hold, held, mark, slot>> /\ pc[t] = "wcas" /\ pc'[t] # "wcas"
    BY <1>0, <1>4 DEF WriteCas, PushDone, LogEnd, Goto, slots
  <2>2. Progress(t)
    BY <1>0, <1>4 DEF WriteCas, PushDone, LogEnd, Goto, Progress, PreReady
  <2>3. HeldInv'
    BY <1>0, <1>a, <1>b, <2>1, <2>2, HeldSame
  <2>4. OutInv'
    BY <1>0, <1>a, <1>b, <1>d, <2>1, OutSame
  <2>5. TurnInv'
    BY <1>0, <1>a, <1>b, <1>c, <2>1, TurnSame
  <2>6. ReadyInv'
    <3>1. CASE write' = write
      BY <1>0, <1>a, <1>b, <2>1, <3>1, ReadySame
    <3>2. CASE write' = write + 1 /\ At(write) = At(old[t]) /\ Turn(write, {"wcheck", "wcas"})
      <4>0. \A q \in Procs : pc[q] = "wcas" => old[q] <= write
        BY DEF RingInv, Loaded
      <4>1. old[t] = write
        BY <1>0, <2>1, <3>2, <4>0, CasExact
      <4>2. mark[At(write)] = "READY"
        BY <1>0, <1>a, <2>1, <4>1 DEF ReadyInv
      <4>3. \A a \in proc .. write' - 1 : mark[At(a)] = "READY"
        BY <1>0, <1>a, <3>2, <4>2 DEF ReadyInv
      <4>4. ASSUME NEW q \in Procs, pc'[q] = "wcas" PROVE old'[q] # write'
        <5>1. pc[q] = "wcas" /\ old'[q] = old[q]
          BY <1>b, <2>1, <4>4 DEF OthersKeep
        <5>2. old[q] \in Nat /\ old[q] <= write
          BY <1>0, <4>0, <5>1
        <5> QED BY <1>0, <3>2, <5>1, <5>2
      <4> QED BY <1>a, <1>b, <2>1, <4>3, <4>4 DEF ReadyInv
    <3> QED BY <1>4, <3>1, <3>2 DEF WriteCas
  <2> QED BY <2>3, <2>4, <2>5, <2>6 DEF Once
<1> QED BY <1>1, <1>2, <1>3, <1>4 DEF Produce

LEMMA ProcOnce ==
    ASSUME LapFree, TypeOK, Numbered, RingInv, SlotInv, Once, NEW c \in Procs, EnterProcChannel(c)
    PROVE  Once'
<1>0. /\ IndexOK /\ pc \in [Procs -> Steps] /\ old \in [Procs -> Nat]
      /\ my \in [Threads -> Nat] /\ seq \in [Threads -> Nat] /\ Order /\ BUFFER_LEN \in Nat
      /\ hold \in Nat /\ write \in Nat /\ read \in Nat /\ proc \in Nat /\ type \in {"async", "sync"}
      /\ mark \in [Slots -> Marks] /\ slot \in [Slots -> Content] /\ out \in Seq(Content)
  BY SplitType, RingLen, RingAssumption DEF TypeOK, RingInv
<1>a. HeldInv /\ ReadyInv /\ OutInv /\ TurnInv
  BY DEF Once
<1>b. OthersKeep(c) /\ type' = type /\ logger' = logger /\ UNCHANGED <<hold, write, held, slot, my>>
  BY <1>0 DEF EnterProcChannel, ProcLoad, ProcCas, Dispatch, ReadLoad, ReadCas, ProcTail, LogEnd,
     Goto, Leave, OthersKeep, ctl, ring, slots, history
<1>c. Progress(c) /\ pc'[c] # "wcas" /\ pc[c] \in ProcSteps
  BY <1>0 DEF EnterProcChannel, ProcLoad, ProcCas, Dispatch, ReadLoad, ReadCas, ProcTail, LogEnd,
     Goto, Progress, PreReady, ProcSteps
<1>d. type = "async" => c = Writer /\ c \notin Threads
  BY <1>a, <1>c, RingAssumption DEF TurnInv, InTurn, Procs
<1>e. HeldInv'
  BY <1>a, <1>b, <1>c, HeldSame
<1>f. \A q \in Procs : Taken(q) /\ Loaded(q) /\ Passing(q) /\ old[q] \in Nat
  BY <1>0, <1>a DEF OutInv, RingInv, SlotInv
<1>1. CASE \/ ProcLoad(c) \/ ReadLoad(c) \/ ReadCas(c) \/ ProcTail(c)
           \/ ProcCas(c) /\ At(proc) # At(old[c])
  <2>1. UNCHANGED <<proc, mark, out>> /\ pc'[c] # "dispatch" /\ pc[c] # "dispatch"
    BY <1>0, <1>1 DEF ProcLoad, ReadLoad, ReadCas, ProcTail, ProcCas, LogEnd, Goto, ring, slots,
       history
  <2>2. \/ read' = read
        \/ read' = read + 1 /\ pc[c] = "rcas" /\ At(read) = At(old[c]) /\ Turn(read, {"rcas"})
    BY <1>1 DEF ProcLoad, ReadLoad, ReadCas, ProcTail, ProcCas, ring
  <2>3. ReadyInv'
    BY <1>a, <1>b, <1>c, <2>1, <2>2, ReadySame
  <2>4. ASSUME NEW q \in Procs, pc[q] = "dispatch"
        PROVE  read' <= old[q] /\ mark'[At(old[q])] = "READY"
    <3>1. read <= old[q] /\ mark[At(old[q])] = "READY"
      BY <1>f, <2>4 DEF Taken
    <3>2. read' = read + 1 => old[q] # read
      <4>1. read' = read + 1 => read' # read
        BY <1>0
      <4>2. pc[c] = "rcas" /\ At(read) = At(old[c]) /\ Turn(read, {"rcas"}) =>
                mark[At(read)] = "INVALID"
        BY <1>0, <1>f, CasExact DEF Loaded, Passing
      <4> QED BY <2>2, <3>1, <4>1, <4>2
    <3> QED BY <1>0, <1>f, <2>1, <2>2, <3>1, <3>2
  <2>5. OutInv'
    BY <1>a, <1>b, <2>1, <2>4, OutSame
  <2>6. TurnInv'
    BY <1>a, <1>b, <1>d, <2>1, TurnSame
  <2> QED BY <1>e, <2>3, <2>5, <2>6 DEF Once
<1>2. CASE ProcCas(c) /\ At(proc) = At(old[c])
  <2>1. /\ pc[c] = "pcas" /\ pc'[c] = "dispatch" /\ proc' = proc + 1 /\ old' = old
        /\ Turn(proc, {"pcas"}) /\ UNCHANGED <<read, mark, out>>
    BY <1>0, <1>2 DEF ProcCas, Goto, slots, history
  <2>2. old[c] = proc /\ proc < write
    <3>1. old[c] <= proc /\ (old[c] = proc => proc < write)
      BY <1>f, <2>1 DEF Loaded
    <3>2. old[c] = proc
      BY <1>0, <1>2, <1>f, <2>1, <3>1, CasExact
    <3> QED BY <3>1, <3>2
  <2>3. ReadyInv'
    BY <1>a, <1>b, <1>c, <2>1, ReadySame
  <2>4. mark[At(proc)] = "READY" /\ read <= proc /\ NotOut(proc)
    BY <1>0, <1>a, <2>2 DEF ReadyInv, OutInv, Order
  <2>5. \A q \in Procs : q # c => pc'[q] = pc[q] /\ (pc[q] = "dispatch" => old[q] < proc)
    BY <1>b, <1>f DEF OthersKeep, Loaded
  <2>6. ASSUME NEW q \in Procs PROVE Taken(q)'
    <3>1. CASE q = c
      <4>1. \A i \in DOMAIN out' : out'[i].log # held'[old'[c] + 1]
        BY <1>b, <2>1, <2>2, <2>4 DEF NotOut
      <4>2. \A r \in Procs : r # c /\ pc'[r] = "dispatch" => old'[r] # old'[c]
        BY <1>0, <1>f, <2>1, <2>2, <2>5
      <4> QED BY <2>1, <2>2, <2>4, <3>1, <4>1, <4>2 DEF Taken, NotOut
    <3>2. CASE q # c
      <4>1. \A r \in Procs : r # q /\ pc[q] = "dispatch" /\ pc'[r] = "dispatch" => old[r] # old[q]
        <5> TAKE r \in Procs
        <5>1. CASE r = c
          BY <1>0, <1>f, <2>2, <2>5, <3>2, <5>1
        <5>2. CASE r # c
          BY <1>f, <2>5, <5>2 DEF Taken
        <5> QED BY <5>1, <5>2
      <4> QED BY <1>b, <1>f, <2>1, <2>5, <3>2, <4>1 DEF Taken, NotOut
    <3> QED BY <3>1, <3>2
  <2>7. \A a \in proc' .. hold' - 1 : \A i \in DOMAIN out' : out'[i].log # held'[a + 1]
    <3>1. \A a \in proc .. hold - 1 : \A i \in DOMAIN out : out[i].log # held[a + 1]
      BY <1>a DEF OutInv, NotOut
    <3>2. \A a \in proc + 1 .. hold - 1 : a \in proc .. hold - 1
      BY <1>0
    <3> QED BY <1>b, <2>1, <3>1, <3>2
  <2>8. OutInv'
    BY <1>a, <1>b, <2>1, <2>6, <2>7 DEF OutInv, NotOut
  <2>9. TurnInv'
    <3> SUFFICES ASSUME type = "async" PROVE InTurn'
      BY <1>b DEF TurnInv
    <3>1. c = Writer /\ InTurn /\ Len(out) \in Nat
      BY <1>0, <1>a, <1>d, LenProperties DEF TurnInv
    <3>2. \A t \in Threads : pc'[t] \notin ProcSteps
      BY <1>d, <2>5, <3>1 DEF InTurn, Procs
    <3>3. Len(out) = proc
      BY <2>1, <3>1 DEF InTurn
    <3> QED BY <1>0, <1>b, <2>1, <2>2, <3>1, <3>2, <3>3 DEF InTurn
  <2> QED BY <1>e, <2>3, <2>8, <2>9 DEF Once
<1>3. CASE Dispatch(c)
  <2> DEFINE s == slot[At(old[c])]
  <2>1. /\ pc[c] = "dispatch" /\ pc'[c] = "rload" /\ UNCHANGED <<proc, read>>
        /\ out' = Append(out, s) /\ mark' = [mark EXCEPT ![At(old[c])] = "INVALID"]
    BY <1>0, <1>3 DEF Dispatch, Goto, ring
  <2>2. /\ read <= old[c] /\ mark[At(old[c])] = "READY" /\ NotOut(old[c]) /\ old[c] < proc
        /\ \A q \in Procs : q # c /\ pc[q] = "dispatch" => old[q] # old[c]
    BY <1>f, <2>1 DEF Taken, Loaded
  <2>3. old[c] \in read .. hold - 1 /\ old[c] < read + BUFFER_LEN /\ old[c] + 1 \in 1 .. hold
    BY <1>0, <1>f, <2>2 DEF Order
  <2>4. s.log = held[old[c] + 1]
    BY <1>a, <2>2, <2>3 DEF ReadyInv
  <2>5. At(old[c]) \in Slots /\ s \in Content
    BY <1>0, <1>f, AtSlot
  <2> HIDE DEF s
  <2>6. /\ DOMAIN out = 1 .. Len(out) /\ Len(out) \in Nat /\ DOMAIN out' = 1 .. Len(out) + 1
        /\ out'[Len(out) + 1] = s /\ \A i \in 1 .. Len(out) : out'[i] = out[i]
        /\ Len(out') = Len(out) + 1
    BY <1>0, <2>1, <2>5, AppendProperties, LenProperties
  <2>7. \A b \in Nat : read <= b /\ b < read + BUFFER_LEN /\ b # old[c] => mark'[At(b)] = mark[At(b)]
    <3> TAKE b \in Nat
    <3> HAVE read <= b /\ b < read + BUFFER_LEN /\ b # old[c]
    <3>1. At(old[c]) # At(b) /\ At(b) \in Slots
      BY <1>0, <1>f, <2>2, <2>3, OtherSlot
    <3> QED BY <1>0, <2>1, <2>5, <3>1
  <2>8. ReadyInv'
    <3>1. \A a \in Nat : mark'[At(a)] = "READY" => mark[At(a)] = "READY"
      BY <1>0, <2>1, <2>5, AtSlot
    <3>2. \A a \in read .. hold - 1 : mark'[At(a)] = "READY" => slot[At(a)].log = held[a + 1]
      BY <1>0, <1>a, <3>1 DEF ReadyInv
    <3>3. ASSUME NEW a \in proc .. write - 1 PROVE mark'[At(a)] = "READY"
      <4>1. a \in Nat /\ read <= a /\ a < read + BUFFER_LEN /\ a # old[c]
        BY <1>0, <1>f, <2>2 DEF Order
      <4> QED BY <1>a, <2>7, <4>1 DEF ReadyInv
    <3>4. ASSUME NEW q \in Procs, pc'[q] = "wcas", old'[q] = write PROVE mark'[At(write)] = "READY"
      <4>1. pc[q] = "wcas" /\ old[q] = write
        BY <1>b, <2>1, <3>4 DEF OthersKeep
      <4>2. read <= write /\ write < read + BUFFER_LEN /\ write # old[c]
        BY <1>0, <1>f, <2>2 DEF Order
      <4> QED BY <1>0, <1>a, <2>7, <4>1, <4>2 DEF ReadyInv
    <3> QED BY <1>b, <2>1, <3>2, <3>3, <3>4 DEF ReadyInv
  <2>9. \A a \in 0 .. hold - 1 : a # old[c] /\ NotOut(a) =>
            \A i \in DOMAIN out' : out'[i].log # held[a + 1]
    <3> TAKE a \in 0 .. hold - 1
    <3> HAVE a # old[c] /\ NotOut(a)
    <3>1. held[a + 1] # s.log
      BY <1>0, <1>a, <1>f, <2>3, <2>4 DEF HeldInv
    <3> QED BY <2>6, <3>1 DEF NotOut
  <2>10. ASSUME NEW q \in Procs PROVE Taken(q)'
    <3>1. CASE q = c
      BY <2>1, <3>1 DEF Taken
    <3>2. CASE q # c
      <4> SUFFICES ASSUME pc[q] = "dispatch"
                   PROVE  Taken(q)'
        BY <1>b, <3>2 DEF Taken, OthersKeep
      <4>1. /\ pc'[q] = pc[q] /\ old'[q] = old[q] /\ old[q] < proc /\ old[q] # old[c]
            /\ read <= old[q] /\ mark[At(old[q])] = "READY" /\ NotOut(old[q])
        BY <1>b, <1>f, <2>2, <3>2 DEF OthersKeep, Taken, Loaded
      <4>2. old[q] \in 0 .. hold - 1 /\ old[q] < read + BUFFER_LEN /\ old[q] \in Nat
        BY <1>0, <1>f, <4>1 DEF Order
      <4>3. mark'[At(old[q])] = "READY"
        BY <2>7, <4>1, <4>2
      <4>4. \A i \in DOMAIN out' : out'[i].log # held[old[q] + 1]
        BY <2>9, <4>1, <4>2
      <4>5. \A r \in Procs : r # q /\ pc'[r] = "dispatch" => old'[r] # old[q]
        BY <1>b, <1>f, <2>1 DEF OthersKeep, Taken
      <4> QED BY <1>b, <2>1, <4>1, <4>3, <4>4, <4>5 DEF Taken, NotOut
    <3> QED BY <3>1, <3>2
  <2>11. \A a \in proc .. hold - 1 : \A i \in DOMAIN out' : out'[i].log # held[a + 1]
    <3> TAKE a \in proc .. hold - 1
    <3>1. a \in 0 .. hold - 1 /\ a # old[c] /\ NotOut(a)
      BY <1>0, <1>a, <1>f, <2>2 DEF OutInv
    <3> QED BY <2>9, <3>1
  <2>12. \A i \in DOMAIN out' : \E j \in 1 .. hold : out'[i].log = held[j]
    BY <1>a, <2>3, <2>4, <2>6 DEF OutInv
  <2>13. \A i, j \in DOMAIN out' : i # j => out'[i].log # out'[j].log
    <3>1. \A i \in 1 .. Len(out) : out'[i].log # s.log
      BY <2>2, <2>4, <2>6 DEF NotOut
    <3>2. \A i \in DOMAIN out' : i = Len(out) + 1 \/ i \in 1 .. Len(out)
      BY <2>6
    <3> QED BY <1>a, <2>6, <3>1, <3>2 DEF OutInv
  <2>14. OutInv'
    BY <1>b, <2>1, <2>10, <2>11, <2>12, <2>13 DEF OutInv, NotOut
  <2>15. TurnInv'
    <3> SUFFICES ASSUME type = "async" PROVE InTurn'
      BY <1>b DEF TurnInv
    <3>1. c = Writer /\ InTurn
      BY <1>a, <1>d DEF TurnInv
    <3>2. \A t \in Threads : pc'[t] \notin ProcSteps
      BY <1>b, <1>d, <3>1 DEF InTurn, Procs, OthersKeep
    <3>3. Len(out) = proc - 1 /\ old[c] = proc - 1
      BY <2>1, <3>1 DEF InTurn
    <3>4. Len(out') = proc'
      BY <1>0, <2>1, <2>6, <3>3
    <3>5. \A i \in DOMAIN out' : out'[i].log = held'[i]
      <4>1. \A i \in DOMAIN out' : i = Len(out) + 1 \/ i \in 1 .. Len(out)
        BY <2>6
      <4> QED BY <1>0, <1>b, <2>4, <2>6, <3>1, <3>3, <4>1 DEF InTurn
    <3> QED BY <2>1, <3>1, <3>2, <3>4, <3>5 DEF InTurn
  <2> QED BY <1>e, <2>8, <2>14, <2>15 DEF Once
<1> QED BY <1>1, <1>2, <1>3 DEF EnterProcChannel

\* A queue that nothing but its state changes.
LEMMA SameOnce ==
    ASSUME Once, UNCHANGED <<ring, slots, old, my, seq, held, out, type>>,
           \A t \in Threads : pc'[t] = pc[t],
           \/ pc'[Writer] = pc[Writer]
           \/ pc[Writer] \notin {"dispatch", "wcas"} /\ pc'[Writer] \notin {"dispatch", "wcas"},
           logger' = "UNINIT" => hold = 0
    PROVE  Once'
<1>1. \A p \in Procs : p \in Threads \/ p = Writer
  BY DEF Procs
<1>2. \A p \in Procs : /\ pc'[p] = "dispatch" <=> pc[p] = "dispatch"
                       /\ pc'[p] = "wcas" <=> pc[p] = "wcas"
  BY <1>1
<1>3. HeldInv'
  <2>1. HeldInv /\ hold' = hold
    BY DEF Once, ring
  <2>2. ASSUME NEW t \in Threads PROVE Fresh(t)' /\ (Owns(t)' => held'[my'[t] + 1] = Log(t)')
    BY <2>1 DEF HeldInv, Fresh, Owns, Log
  <2> QED BY <2>1, <2>2 DEF HeldInv
<1>4. ReadyInv'
  BY <1>2 DEF Once, ReadyInv, ring, slots
<1>5. OutInv'
  <2>1. OutInv
    BY DEF Once
  <2>2. ASSUME NEW p \in Procs PROVE Taken(p)'
    <3>1. Taken(p)
      BY <2>1 DEF OutInv
    <3> QED BY <1>2, <3>1 DEF Taken, NotOut, ring, slots
  <2> QED BY <2>1, <2>2 DEF OutInv, NotOut, ring
<1>6. TurnInv'
  <2> SUFFICES ASSUME type = "async" PROVE InTurn'
    BY DEF TurnInv
  <2>1. InTurn
    BY DEF Once, TurnInv
  <2> QED BY <1>2, <2>1 DEF InTurn, ring, Procs
<1> QED BY <1>3, <1>4, <1>5, <1>6 DEF Once

LEMMA ControlOnce ==
    ASSUME TypeOK, OrderInv, OnceInv, Open', crashes' = 0,
           \/ StartLogger \/ StartChannels \/ StartTimeout
           \/ StopLogger \/ StopChannels \/ Crash
    PROVE  Once'
<1>0. /\ Writer \in Procs /\ Writer \notin Threads /\ pc \in [Procs -> Steps] /\ stops \in Nat
      /\ crashes \in Nat /\ hold \in Nat /\ write \in Nat /\ proc \in Nat /\ read \in Nat
      /\ slot \in [Slots -> Content] /\ mark \in [Slots -> Marks]
  BY RingAssumption DEF Procs, TypeOK
<1>1. CASE StartLogger
  <2>1. RingInv /\ Once /\ \A p \in Procs : pc[p] \in {"idle", "off"}
    BY <1>1 DEF StartLogger, Open, OrderInv, RingInv, OnceInv, Quiet
  <2>2. hold = 0 /\ write = 0 /\ proc = 0 /\ read = 0
    BY <1>0, <1>1, <2>1 DEF StartLogger, Once, HeldInv, RingInv, Order
  <2>3. UNCHANGED ring /\ UNCHANGED slots
    <3>1. CASE attached
      BY <1>1, <3>1 DEF StartLogger
    <3>2. CASE ~attached
      <4>1. \A i \in Slots : ~Torn(i)
        BY <2>2 DEF Torn
      <4>2. mark' = mark /\ slot' = slot
        BY <1>0, <1>1, <3>2, <4>1 DEF StartLogger, LoadSharedMemory
      <4>3. hold' = hold /\ write' = write /\ proc' = proc /\ read' = read
        BY <1>1, <2>2, <3>2 DEF StartLogger, LoadSharedMemory, RecoverTo
      <4> QED BY <4>2, <4>3 DEF ring, slots
    <3> QED BY <3>1, <3>2
  <2>4. UNCHANGED <<old, my, seq, held, out, type>> /\ logger' # "UNINIT"
    BY <1>1 DEF StartLogger, history
  <2>5. \A t \in Threads : pc'[t] = pc[t]
    BY <1>0, <1>1 DEF StartLogger, Goto, Procs
  <2>6. pc'[Writer] = pc[Writer] \/ pc'[Writer] = "pload"
    BY <1>0, <1>1 DEF StartLogger, Goto
  <2>7. pc[Writer] # "dispatch" /\ pc'[Writer] # "dispatch" /\ pc[Writer] # "wcas"
        /\ pc'[Writer] # "wcas"
    BY <1>0, <2>1, <2>6
  <2> QED BY <2>1, <2>3, <2>4, <2>5, <2>7, SameOnce
<1>2. CASE StartChannels \/ StartTimeout \/ StopLogger
  <2>1. Once
    BY <1>0, <1>2 DEF StartChannels, StartTimeout, StopLogger, Open, OnceInv
  <2>2. UNCHANGED <<ring, slots, local, history, type>> /\ logger' # "UNINIT"
    BY <1>2 DEF StartChannels, StartTimeout, StopLogger
  <2> QED BY <2>1, <2>2, SameOnce DEF local, history
<1>3. CASE StopChannels
  BY <1>0, <1>3 DEF StopChannels, Open, OrderInv, Stopping
<1>4. CASE Crash
  BY <1>0, <1>4 DEF Crash
<1> QED BY <1>1, <1>2, <1>3, <1>4

LEMMA InitOnce == Init => OnceInv
<1> SUFFICES ASSUME Init PROVE Once
  BY DEF OnceInv
<1>0. /\ hold = 0 /\ write = 0 /\ proc = 0 /\ read = 0 /\ held = <<>> /\ out = <<>>
      /\ Len(held) = 0 /\ Len(out) = 0 /\ DOMAIN out = {}
  BY DEF Init
<1>1. \A p \in Procs : pc[p] \in {"idle", "off"}
  BY DEF Init
<1>2. HeldInv
  BY <1>0, <1>1 DEF HeldInv, Fresh, Owns, PreReady, Procs
<1>3. ReadyInv
  BY <1>0, <1>1 DEF ReadyInv
<1>4. OutInv
  BY <1>0, <1>1 DEF OutInv, Taken
<1>5. TurnInv
  <2>1. Writer \in Procs /\ \A t \in Threads : t \in Procs
    BY DEF Procs
  <2> QED BY <1>0, <1>1, <2>1 DEF TurnInv, InTurn, ProcSteps
<1> QED BY <1>2, <1>3, <1>4, <1>5 DEF Once

LEMMA NextOnce ==
    ASSUME LapFree, TypeOK, Numbered, OrderInv, KeptInv, OnceInv, [Next]_vars
    PROVE  OnceInv'
<1> SUFFICES ASSUME Open', crashes' = 0 PROVE Once'
  BY DEF OnceInv
<1>1. CASE \E t \in Threads : LogBegin(t) \/ Produce(t)
  <2>1. RingInv /\ SlotInv /\ Once
    BY <1>1, ThreadOpen DEF Open, OrderInv, KeptInv, OnceInv
  <2> QED BY <1>1, <2>1, ProduceOnce
<1>2. CASE \E c \in Procs : EnterProcChannel(c)
  <2>1. RingInv /\ SlotInv /\ Once
    BY <1>2, ThreadOpen DEF Open, OrderInv, KeptInv, OnceInv
  <2> QED BY <1>2, <2>1, ProcOnce
<1>3. CASE UNCHANGED vars
  <2>1. Once /\ UNCHANGED <<ring, slots, local, history, type, logger>>
    BY <1>3 DEF OnceInv, Open, vars, ctl
  <2>2. logger' = "UNINIT" => hold = 0
    BY <2>1 DEF Once, HeldInv
  <2> QED BY <2>1, <2>2, SameOnce DEF local, history
<1> QED BY <1>1, <1>2, <1>3, ControlOnce DEF Next

\* WrittenOnce for every instance: what DispatchLog writes was filled, no log is
\* written twice without a crash, and the thread of an async channel writes the
\* logs in the order in which HoldChannel gave their slots away.
THEOREM WrittenIsOnce == ASSUME LapFree PROVE Spec => []WrittenOnce
<1>1. GoodInv /\ OnceInv => WrittenOnce
  <2> SUFFICES ASSUME GoodInv, OnceInv, Open PROVE WrittenOnce
    BY DEF WrittenOnce
  <2>1. \A i \in DOMAIN out : out[i].log = NoLog => out[i].core
    BY DEF GoodInv, Whole, Good
  <2>2. crashes = 0 =>
            /\ \A i, j \in DOMAIN out : i # j => out[i].log # out[j].log
            /\ type = "async" => \A i \in DOMAIN out : out[i].log = held[i]
    BY DEF OnceInv, Once, OutInv, TurnInv, InTurn
  <2> QED BY <2>1, <2>2 DEF WrittenOnce
<1>2. TypeOK /\ Numbered /\ OrderInv /\ [Next]_vars => OrderInv'
  BY NextOrder
<1>3. TypeOK /\ Numbered /\ OrderInv /\ KeptInv /\ [Next]_vars => KeptInv'
  BY NextKept
<1>4. TypeOK /\ Numbered /\ OrderInv /\ KeptInv /\ GoodInv /\ [Next]_vars => GoodInv'
  BY NextWhole
<1>5. TypeOK /\ Numbered /\ OrderInv /\ KeptInv /\ OnceInv /\ [Next]_vars => OnceInv'
  BY NextOnce
<1> QED
  BY <1>1, <1>2, <1>3, <1>4, <1>5, InitOrder, InitKept, InitWhole, InitOnce, TypeCorrect,
     PTL DEF Spec

=============================================================================
