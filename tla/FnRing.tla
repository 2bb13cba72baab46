------------------------------- MODULE FnRing -------------------------------
(***************************************************************************)
(* The log queue of one fn-log channel (fn_log.h): RingBuffer with its     *)
(* four indices and the mark of every slot, the logging threads            *)
(* (BlockInput, HoldChannel, the LogStream that fills the slot,            *)
(* PushChannel), the thread that writes the logs out (EnterProcChannel:    *)
(* the channel's own thread when it is async, every logging thread when it *)
(* is sync), StartLogger and StopLogger, and a crash of the process whose  *)
(* queue lives in shared memory and is taken over by LoadSharedMemory.     *)
(*                                                                         *)
(* The indices are kept without their "% BUFFER_LEN": an index of the code *)
(* is At(i), every comparison of the code compares At of two indices, and  *)
(* At(i + 1) is what a compare_exchange stores.  That makes a full turn of *)
(* the ring between the load and the compare_exchange of a thread visible. *)
(***************************************************************************)
EXTENDS Integers, Sequences, FiniteSets

CONSTANTS Threads,      \* the logging threads
          Writer,       \* async_threads[channel_id]
          BUFFER_LEN,
          Types,        \* the channel types a configuration may ask for
          MaxLogs,      \* bound: logs held between two resets of the indices
          MaxStops,     \* bound: the logger is not started again after so many stops
          MaxCrashes,   \* bound: crashes of the process
          LapFree       \* no thread sleeps a turn of the ring before its CAS

ASSUME RingAssumption ==
    /\ Writer \notin Threads
    /\ BUFFER_LEN \in Nat \ {0, 1}
    /\ Types \subseteq {"async", "sync"}
    /\ {MaxLogs, MaxStops, MaxCrashes} \subseteq Nat
    /\ LapFree \in BOOLEAN

Slots == 0 .. BUFFER_LEN - 1
At(i) == i % BUFFER_LEN
Logs == Threads \X (1 .. MaxLogs)
NoLog == <<>>                       \* what a slot holds before its first log
Procs == Threads \cup {Writer}

VARIABLES
    type,                           \* channel_type_
    logger, chan,                   \* logger_state_, channel_state_
    hold, write, proc, read,        \* hold_idx_, write_idx_, proc_idx_, read_idx_
    mark, slot,                     \* data_mark_, content_ of every buffer_[i]
    pc, old, my, seq,               \* per thread: step, old_idx, hold_idx, log number
    attached,                       \* logger.shm_ # NULL
    held,                           \* history: the logs in the order of their slots
    out,                            \* history: what DispatchLog wrote
    accepted,                       \* history: logs PushChannel returned 0 for
    joining,                        \* StartLogger gave up and joins the thread
    stops, crashes

ring == <<hold, write, proc, read>>
slots == <<mark, slot>>
ctl == <<type, logger, chan, attached, joining, stops, crashes>>
local == <<pc, old, my, seq>>
history == <<held, out, accepted>>
vars == <<ctl, ring, slots, local, history>>

-----------------------------------------------------------------------------
(* The states of the parts *)

LoggerStates == {"UNINIT", "INITING", "RUNNING", "CLOSING"}
ChannelStates == {"NULL", "RUNNING", "WAITING_FINISH", "FINISH"}
Marks == {"INVALID", "HOLD", "READY"}
HoldSteps == {"hold", "cas", "mark", "fill"}
PushSteps == {"push", "ready", "wload", "wcheck", "wcas"}
ProcSteps == {"pload", "pcas", "dispatch", "rload", "rcas", "tail"}
Steps == {"idle", "off", "done"} \cup HoldSteps \cup PushSteps \cup ProcSteps

Content == [log : Logs \cup {NoLog}, core : BOOLEAN]

Init ==
    /\ type \in Types
    /\ logger = "UNINIT" /\ chan = "NULL"
    /\ hold = 0 /\ write = 0 /\ proc = 0 /\ read = 0
    /\ mark = [i \in Slots |-> "INVALID"]
    /\ slot = [i \in Slots |-> [log |-> NoLog, core |-> FALSE]]
    /\ pc = [t \in Procs |-> IF t = Writer THEN "off" ELSE "idle"]
    /\ old = [t \in Procs |-> 0]
    /\ my = [t \in Threads |-> 0]
    /\ seq = [t \in Threads |-> 1]
    /\ attached = FALSE
    /\ held = <<>> /\ out = <<>> /\ accepted = {}
    /\ joining = FALSE /\ stops = 0 /\ crashes = 0

Log(t) == <<t, seq[t]>>
Goto(t, step) == pc' = [pc EXCEPT ![t] = step]

(* The index i may take its next value: under LapFree no thread is still   *)
(* between its load of i and its CAS while i makes a whole turn.           *)
Turn(i, window) ==
    LapFree => \A t \in Procs : pc[t] \in window => i + 1 - old[t] < BUFFER_LEN

-----------------------------------------------------------------------------
(* A logging thread: LogStream, HoldChannel, PushChannel *)

(* LogStream(): BlockInput lets the log in.  A log that is not let in      *)
(* leaves everything alone.                                                *)
BlockInput == logger # "RUNNING" \/ chan # "RUNNING"

LogBegin(t) ==
    /\ pc[t] = "idle" /\ ~BlockInput
    /\ seq[t] <= MaxLogs /\ Len(held) < MaxLogs
    /\ Goto(t, "hold")
    /\ UNCHANGED <<ctl, ring, slots, old, my, seq, history>>

LogEnd(t) == Goto(t, "idle") /\ seq' = [seq EXCEPT ![t] = @ + 1]
Leave(i, t) == [i EXCEPT ![t] = 0]      \* a local variable goes out of scope

\* Mutant: the test for a full ring is missing.
NeverFull == FALSE

Full == At(hold + 1) = At(read)

(* One turn of HoldChannel's loop up to its loads of hold_idx_ and         *)
(* read_idx_; a full ring makes the thread sleep and try again.            *)
HoldLoad(t) ==
    /\ pc[t] = "hold"
    /\ \/ /\ chan # "RUNNING"
          /\ LogEnd(t)
          /\ UNCHANGED old
       \/ /\ chan = "RUNNING"
          /\ ~Full
          /\ old' = [old EXCEPT ![t] = hold]
          /\ Goto(t, "cas")
          /\ UNCHANGED seq
    /\ UNCHANGED <<ctl, ring, slots, my, history>>

HoldCas(t) ==
    /\ pc[t] = "cas"
    /\ \/ /\ At(hold) = At(old[t])
          /\ Turn(hold, {"cas"})
          /\ Len(held) < MaxLogs
          /\ hold' = hold + 1
          /\ my' = [my EXCEPT ![t] = hold]
          /\ held' = Append(held, Log(t))
          /\ Goto(t, "mark")
       \/ /\ At(hold) # At(old[t])
          /\ Goto(t, "hold")
          /\ UNCHANGED <<hold, my, held>>
    /\ old' = Leave(old, t)
    /\ UNCHANGED <<ctl, write, proc, read, slots, seq, out, accepted>>

HoldMark(t) ==
    /\ pc[t] = "mark"
    /\ mark' = [mark EXCEPT ![At(my[t])] = "HOLD"]
    /\ Goto(t, "fill")
    /\ UNCHANGED <<ctl, ring, slot, old, my, seq, history>>

(* InitLogData and every << of the LogStream *)
Fill(t) ==
    /\ pc[t] = "fill"
    /\ slot' = [slot EXCEPT ![At(my[t])] = [log |-> Log(t), core |-> FALSE]]
    /\ Goto(t, "push")
    /\ UNCHANGED <<ctl, ring, mark, old, my, seq, history>>

(* PushChannel gives the slot up, as it is, unless the channel runs *)
PushEnter(t) ==
    /\ pc[t] = "push"
    /\ \/ chan # "RUNNING" /\ LogEnd(t) /\ my' = Leave(my, t)
       \/ chan = "RUNNING" /\ Goto(t, "ready") /\ UNCHANGED <<seq, my>>
    /\ UNCHANGED <<ctl, ring, slots, old, history>>

PushReady(t) ==
    /\ pc[t] = "ready"
    /\ mark' = [mark EXCEPT ![At(my[t])] = "READY"]
    /\ Goto(t, "wload")
    /\ my' = Leave(my, t)
    /\ UNCHANGED <<ctl, ring, slot, old, seq, history>>

\* Mutant: write_idx_ also moves over slots that are only held.
EmptyAt(i) == At(i) = At(hold)

(* PushChannel's loop ends at slot i *)
UnreadyAt(i) == At(i) = At(hold) \/ mark[At(i)] # "READY"

\* Mutant: a thread moves write_idx_ over one slot only.
PushOnce == FALSE

PushAgain == chan = "RUNNING"

(* The end of PushChannel: in a sync channel the thread writes itself *)
PushDone(t) ==
    /\ accepted' = accepted \cup {Log(t)}
    /\ IF type = "sync" /\ chan = "RUNNING"
       THEN Goto(t, "pload") /\ UNCHANGED seq
       ELSE LogEnd(t)

WriteLoad(t) ==
    /\ pc[t] = "wload"
    /\ old' = [old EXCEPT ![t] = write]
    /\ Goto(t, "wcheck")
    /\ UNCHANGED <<ctl, ring, slots, my, seq, history>>

WriteCheck(t) ==
    /\ pc[t] = "wcheck"
    /\ IF UnreadyAt(old[t])
       THEN PushDone(t) /\ old' = Leave(old, t)
       ELSE Goto(t, "wcas") /\ UNCHANGED <<seq, accepted, old>>
    /\ UNCHANGED <<ctl, ring, slots, my, held, out>>

WriteCas(t) ==
    /\ pc[t] = "wcas"
    /\ \/ At(write) = At(old[t]) /\ Turn(write, {"wcheck", "wcas"}) /\ write' = write + 1
       \/ At(write) # At(old[t]) /\ UNCHANGED write
    /\ IF PushAgain
       THEN Goto(t, "wload") /\ UNCHANGED <<seq, accepted>>
       ELSE PushDone(t)
    /\ old' = Leave(old, t)
    /\ UNCHANGED <<ctl, hold, proc, read, slots, my, held, out>>

-----------------------------------------------------------------------------
(* EnterProcChannel, run by the channel's thread or by a logging thread *)

ProcLoad(c) ==
    /\ pc[c] = "pload"
    /\ IF At(proc) = At(write)
       THEN Goto(c, "tail") /\ UNCHANGED old
       ELSE Goto(c, "pcas") /\ old' = [old EXCEPT ![c] = proc]
    /\ UNCHANGED <<ctl, ring, slots, my, seq, history>>

ProcCas(c) ==
    /\ pc[c] = "pcas"
    /\ \/ /\ At(proc) = At(old[c])
          /\ Turn(proc, {"pcas"})
          /\ proc' = proc + 1
          /\ Goto(c, "dispatch")
          /\ UNCHANGED old
       \/ /\ At(proc) # At(old[c])
          /\ Goto(c, "tail")
          /\ old' = Leave(old, c)
          /\ UNCHANGED proc
    /\ UNCHANGED <<ctl, hold, write, read, slots, my, seq, history>>

(* DispatchLog and the release of the slot *)
Dispatch(c) ==
    /\ pc[c] = "dispatch"
    /\ out' = Append(out, slot[At(old[c])])
    /\ mark' = [mark EXCEPT ![At(old[c])] = "INVALID"]
    /\ Goto(c, "rload")
    /\ old' = Leave(old, c)
    /\ UNCHANGED <<ctl, ring, slot, my, seq, held, accepted>>

ReadLoad(c) ==
    /\ pc[c] = "rload"
    /\ IF At(read) = At(proc) \/ mark[At(read)] # "INVALID"
       THEN Goto(c, "pload") /\ UNCHANGED old
       ELSE Goto(c, "rcas") /\ old' = [old EXCEPT ![c] = read]
    /\ UNCHANGED <<ctl, ring, slots, my, seq, history>>

ReadCas(c) ==
    /\ pc[c] = "rcas"
    /\ \/ At(read) = At(old[c]) /\ Turn(read, {"rcas"}) /\ read' = read + 1
       \/ At(read) # At(old[c]) /\ UNCHANGED read
    /\ Goto(c, "rload")
    /\ old' = Leave(old, c)
    /\ UNCHANGED <<ctl, hold, write, proc, slots, my, seq, history>>

\* Mutant: the thread waits for a state nobody sets.
KeepRunning(state) == state # "FINISH"

Continue(state) == state = "RUNNING" \/ At(write) # At(read)

(* The rest of the outer loop: the first round of the channel's thread     *)
(* reports that it runs, the last one that it is finished.                 *)
ProcTail(c) ==
    LET state == IF chan = "NULL" THEN "RUNNING" ELSE chan IN
    /\ pc[c] = "tail"
    /\ IF type = "async"
       THEN /\ UNCHANGED seq
            /\ IF Continue(state)
               THEN chan' = state /\ Goto(c, "pload")
               ELSE chan' = "FINISH" /\ Goto(c, "done")
       ELSE chan' = state /\ LogEnd(c)
    /\ UNCHANGED <<type, logger, attached, joining, stops, crashes, ring, slots, old, my, history>>

-----------------------------------------------------------------------------
(* StartLogger and StopLogger, serialised by state_lock_ *)

(* LoadSharedMemory: the slots from write_idx_ to hold_idx_ were being     *)
(* filled when the process died; they are closed with a mark of their own. *)
Torn(i) == \E a \in write .. hold - 1 : At(a) = i

\* Mutant: what was being filled is dropped, with the ready slots behind it.
RecoverNone == write

RecoverTo == hold

LoadSharedMemory ==
    /\ mark' = [i \in Slots |-> IF Torn(i) THEN "READY" ELSE mark[i]]
    /\ slot' = [i \in Slots |-> IF Torn(i) THEN [slot[i] EXCEPT !.core = TRUE] ELSE slot[i]]
    /\ write' = RecoverTo /\ hold' = RecoverTo
    /\ proc' = read
    /\ UNCHANGED read

(* InitFromYMAL (the channels are copied over: channel_state_ is 0 again)  *)
(* and StartLogger, up to the wait for the channel's thread                *)
StartLogger ==
    /\ logger = "UNINIT" /\ stops < MaxStops
    /\ logger' = "INITING"
    /\ attached' = TRUE
    /\ IF attached THEN UNCHANGED <<ring, slots>> ELSE LoadSharedMemory
    /\ IF type = "async"
       THEN chan' = "NULL" /\ Goto(Writer, "pload")
       ELSE chan' = "RUNNING" /\ UNCHANGED pc
    /\ UNCHANGED <<type, joining, stops, crashes, old, my, seq, history>>

StartChannels ==
    /\ logger = "INITING" /\ chan = "RUNNING" /\ ~joining
    /\ logger' = "RUNNING"
    /\ UNCHANGED <<type, chan, attached, joining, stops, crashes, ring, slots, local, history>>

(* The thread has not reported within the second StartChannels waits:      *)
(* StartLogger calls StopChannels, which joins the thread without telling  *)
(* it to finish, for the channel is not RUNNING.                           *)
StartTimeout ==
    /\ logger = "INITING" /\ chan = "NULL" /\ ~joining
    /\ joining' = TRUE
    /\ UNCHANGED <<type, logger, chan, attached, stops, crashes, ring, slots, local, history>>

StopState == IF type = "sync" THEN "NULL"
             ELSE IF chan = "RUNNING" THEN "WAITING_FINISH" ELSE chan

StopLogger ==
    /\ logger = "RUNNING"
    /\ logger' = "CLOSING"
    /\ stops' = stops + 1
    /\ chan' = StopState
    /\ UNCHANGED <<type, attached, joining, crashes, ring, slots, local, history>>

(* the join, and CleanChannels *)
StopChannels ==
    /\ logger = "CLOSING"
    /\ type = "async" => pc[Writer] = "done"
    /\ logger' = "UNINIT"
    /\ chan' = IF type = "async" THEN "NULL" ELSE chan
    /\ mark' = [i \in Slots |-> IF \E a \in read .. write - 1 : At(a) = i
                                THEN "INVALID" ELSE mark[i]]
    /\ hold' = 0 /\ write' = 0 /\ proc' = 0 /\ read' = 0
    /\ held' = <<>> /\ out' = <<>> /\ accepted' = {}
    /\ pc' = [pc EXCEPT ![Writer] = "off"]
    /\ UNCHANGED <<type, attached, joining, stops, crashes, slot, old, my, seq>>

(* The process dies; the shared memory stays. *)
Crash ==
    /\ attached /\ crashes < MaxCrashes
    /\ crashes' = crashes + 1
    /\ attached' = FALSE
    /\ joining' = FALSE
    /\ logger' = "UNINIT"
    /\ old' = [t \in Procs |-> 0] /\ my' = [t \in Threads |-> 0]
    /\ pc' = [t \in Procs |-> IF t = Writer THEN "off" ELSE "idle"]
    /\ seq' = [t \in Threads |-> IF pc[t] = "idle" THEN seq[t] ELSE seq[t] + 1]
    /\ UNCHANGED <<type, chan, stops, ring, slots, history>>

-----------------------------------------------------------------------------
Produce(t) ==
    \/ HoldLoad(t) \/ HoldCas(t) \/ HoldMark(t) \/ Fill(t)
    \/ PushEnter(t) \/ PushReady(t) \/ WriteLoad(t) \/ WriteCheck(t) \/ WriteCas(t)

EnterProcChannel(c) ==
    \/ ProcLoad(c) \/ ProcCas(c) \/ Dispatch(c)
    \/ ReadLoad(c) \/ ReadCas(c) \/ ProcTail(c)

Next ==
    \/ \E t \in Threads : LogBegin(t) \/ Produce(t)
    \/ \E c \in Procs : EnterProcChannel(c)
    \/ StartLogger \/ StartChannels \/ StartTimeout
    \/ StopLogger \/ StopChannels \/ Crash

(* Every running thread is scheduled again; whether a thread logs, and     *)
(* whether anyone starts, stops or kills the logger, is left open.         *)
Fairness ==
    /\ \A t \in Threads : WF_vars(Produce(t))
    /\ \A c \in Procs : WF_vars(EnterProcChannel(c))
    /\ WF_vars(StartChannels) /\ WF_vars(StopChannels)

Spec == Init /\ [][Next]_vars /\ Fairness

-----------------------------------------------------------------------------
TypeOK ==
    /\ type \in Types /\ logger \in LoggerStates /\ chan \in ChannelStates
    /\ {hold, write, proc, read} \subseteq Nat
    /\ mark \in [Slots -> Marks] /\ slot \in [Slots -> Content]
    /\ pc \in [Procs -> Steps]
    /\ old \in [Procs -> Nat] /\ my \in [Threads -> Nat] /\ seq \in [Threads -> Nat]
    /\ attached \in BOOLEAN /\ joining \in BOOLEAN
    /\ held \in Seq(Logs) /\ out \in Seq(Content) /\ accepted \subseteq Logs
    /\ stops \in Nat /\ crashes \in Nat

(* No CleanChannels of a StopLogger has emptied the queue. *)
Open == stops = 0 \/ (stops = 1 /\ logger = "CLOSING")

Written(l) == \E i \in DOMAIN out : out[i].log = l

(* Each of the four indices stays behind the next one and the ring never   *)
(* holds more than it has room for, whatever the threads interleave:       *)
(* HoldChannel's full test and the empty tests of PushChannel and          *)
(* EnterProcChannel compare indices loaded at different moments.           *)
RingOrder ==
    Open => /\ read <= proc /\ proc <= write /\ write <= hold
            /\ hold - read < BUFFER_LEN

(* The order of the indices, with the types of everything the threads      *)
(* share.                                                                  *)
RingSound == TypeOK /\ RingOrder

(* Logs are written whole, once and, by the thread of an async channel, in *)
(* the order in which HoldChannel gave their slots away; a log is written  *)
(* twice only after a crash between DispatchLog and the move of read_idx_. *)
WrittenOnce ==
    Open => /\ \A i \in DOMAIN out : out[i].log = NoLog => out[i].core
            /\ crashes = 0 =>
                 /\ \A i, j \in DOMAIN out : i # j => out[i].log # out[j].log
                 /\ type = "async" => \A i \in DOMAIN out : out[i].log = held[i]

(* A log that PushChannel returned 0 for is written, or it waits in a slot *)
(* of the ring, marked ready, where EnterProcChannel will find it: also    *)
(* after a crash, if the ring is in shared memory.                         *)
InRing(l) ==
    \E a \in read .. hold - 1 : slot[At(a)].log = l /\ mark[At(a)] = "READY"

AcceptedKept == Open => \A l \in accepted : Written(l) \/ InRing(l)

(* Every log that PushChannel returned 0 for is written in the end, as     *)
(* long as nobody stops the logger or kills the process: a thread that     *)
(* finds an earlier slot unready leaves it to that slot's thread to move   *)
(* write_idx_ over both.  (What a sync channel takes over after a crash    *)
(* waits for the next log: nothing but PushChannel enters its loop.)       *)
Unwritten == \E l \in accepted : ~Written(l)
Abandoned == logger # "RUNNING" \/ (type = "sync" /\ crashes > 0)

AcceptedWritten == Unwritten ~> (~Unwritten \/ Abandoned)

(* StopLogger returns: the writing thread sees WAITING_FINISH and reaches  *)
(* an empty ring although threads are still holding and pushing slots.     *)
StopReturns == logger = "CLOSING" ~> logger # "CLOSING"
=============================================================================
