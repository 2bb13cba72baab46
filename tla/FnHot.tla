------------------------------- MODULE FnHot -------------------------------
(***************************************************************************)
(* Hot update of an fn-log logger (fn_log.h): the thread of every async    *)
(* channel looks at the yaml file (HotUpdateLogger, called in the loop of  *)
(* EnterProcChannel) while somebody writes the file and the application    *)
(* stops and starts the logger.  A file that is saved is empty first.      *)
(*                                                                         *)
(* A thread may wait before it looks: HOTUPDATE_INTERVEL only delays it.   *)
(* st_mtime counts seconds, so two writes may have the same one.           *)
(***************************************************************************)
EXTENDS FnConfig

CONSTANTS Parses,       \* what ParseLogger returns for the texts somebody saves
          FirstParse,   \* and for the one the logger was started with
          MaxSaves,     \* bound on the number of times the file is saved
          MaxStops      \* bound on the number of StopLogger calls

Chans == 1 .. MAX_CHANNEL_SIZE  \* channel_id_ + 1
None == "none"

Empty == ParseLogger(<<>>)      \* the file while it is being saved

(* What every text is parsed to: channels and devices with all their       *)
(* fields, and a priority ParseDevice can read.                            *)
Parsed(chan) ==
    /\ DOMAIN chan = DOMAIN Channel0
    /\ Len(chan.devices) \in Nat /\ DOMAIN chan.devices = 1 .. Len(chan.devices)
    /\ \A d \in DOMAIN chan.devices :
         /\ DOMAIN chan.devices[d] = DOMAIN Device0
         /\ chan.devices[d].priority \in 0 .. PRIORITY_MAX - 1

ASSUME HotAssumption ==
    /\ FirstParse \in Parses /\ FirstParse.channels # <<>> /\ Empty = Start
    /\ \A p \in Parses :
         /\ Len(p.channels) \in Nat /\ DOMAIN p.channels = 1 .. Len(p.channels)
         /\ \A c \in DOMAIN p.channels : Parsed(p.channels[c])
    /\ MaxSaves \in Nat /\ MaxStops \in Nat

VARIABLES yaml,         \* the file: its text, parsed, and st_mtime
          saves,        \* history: how often it was saved
          versions,     \* history: every text the file had
          logger,       \* logger_state_
          hot_update,   \* logger.hot_update_
          lock,         \* state_lock_: None, or "stop" while StopLogger has it
          channels,     \* shm_->channels_: the configured ones
          mtime,        \* yaml_mtime_ of every channel
          at,           \* where the thread of a channel is
          stat,         \* file_stat.st_mtime in HotUpdateLogger
          read,         \* what ParseLogger made of the text it read
          stops         \* history: how often StopLogger was called

hvars == <<yaml, saves, versions, logger, hot_update, lock, channels, mtime, at, stat, read, stops>>

(* After LoadAndStartLogger *)
HotInit ==
    /\ yaml = [conf |-> FirstParse, mtime |-> 1]
    /\ saves = 0 /\ versions = {FirstParse} /\ stops = 0
    /\ logger = "RUNNING" /\ lock = None
    /\ hot_update = FirstParse.hot_update
    /\ channels = FirstParse.channels
    /\ mtime = [c \in Chans |-> 1]
    /\ at = [c \in Chans |-> IF c <= Len(FirstParse.channels) THEN "loop" ELSE "none"]
    /\ stat = [c \in Chans |-> 0]
    /\ read = [c \in Chans |-> Start]

-----------------------------------------------------------------------------
(* External: somebody saves the file, in the same second or in a later one *)

Truncate ==
    /\ saves < MaxSaves /\ yaml.conf # Empty
    /\ \E later \in {0, 1} : yaml' = [conf |-> Empty, mtime |-> yaml.mtime + later]
    /\ versions' = versions \cup {Empty}
    /\ UNCHANGED <<saves, logger, hot_update, lock, channels, mtime, at, stat, read, stops>>

Save(t) ==
    /\ saves < MaxSaves /\ yaml.conf = Empty
    /\ \E later \in {0, 1} : yaml' = [conf |-> t, mtime |-> yaml.mtime + later]
    /\ versions' = versions \cup {t} /\ saves' = saves + 1
    /\ UNCHANGED <<logger, hot_update, lock, channels, mtime, at, stat, read, stops>>

-----------------------------------------------------------------------------
(* HotUpdateLogger *)

Goto(c, where) == at' = [at EXCEPT ![c] = where]

(* The file is opened: its time decides whether it is read.  This is the   *)
(* first look at logger_state_, without the lock.                          *)
HotCheck(c) ==
    /\ at[c] = "loop"
    /\ hot_update /\ yaml.mtime # mtime[c] /\ logger = "RUNNING"
    /\ Goto(c, "read")
    /\ stat' = [stat EXCEPT ![c] = yaml.mtime]
    /\ UNCHANGED <<yaml, saves, versions, logger, hot_update, lock, channels, mtime, read, stops>>

(* The text is read and parsed; an error leaves everything as it was *)
HotRead(c) ==
    LET p == yaml.conf IN
    /\ at[c] = "read"
    /\ Goto(c, IF p.ret = "PEC_NONE" THEN "lock" ELSE "loop")
    /\ read' = [read EXCEPT ![c] = IF p.ret = "PEC_NONE" THEN p ELSE Start]
    /\ UNCHANGED <<yaml, saves, versions, logger, hot_update, lock, channels, mtime, stat, stops>>

\* Mutant: the file's time is taken when it is applied.
SeenLate(c) == yaml.mtime
Seen(c) == stat[c]

\* Mutant: a device the channel does not have yet is not added.
MergeKnown(dst, src) ==
    [i \in DOMAIN dst |-> IF i \in DOMAIN src
                          THEN [src[i] EXCEPT !.in_type = dst[i].in_type,
                                              !.out_type = dst[i].out_type] ELSE dst[i]]

(* The config fields of the devices both have, and the whole of the new    *)
(* ones; a device that left the file stays.                                *)
MergeDevices(dst, src) ==
    [i \in 1 .. (IF Len(dst) > Len(src) THEN Len(dst) ELSE Len(src)) |->
       CASE i \in DOMAIN dst /\ i \in DOMAIN src ->
              [src[i] EXCEPT !.in_type = dst[i].in_type, !.out_type = dst[i].out_type,
                             !.path = dst[i].path, !.file = dst[i].file]
         [] i \in DOMAIN dst /\ i \notin DOMAIN src -> dst[i]
         [] OTHER -> src[i]]

MergeChannel(dst, src) ==
    [f \in DOMAIN dst |-> CASE f = "devices" -> MergeDevices(dst.devices, src.devices)
                            [] f = "sync" -> dst.sync
                            [] OTHER -> src[f]]

(* The channel of this number in a parsed text: past its end there are     *)
(* zeroed channels, whose channel_id_ is 0.                                *)
Source(p, c) == IF c <= Len(p.channels) THEN p.channels[c] ELSE Channel0
Mismatch(p, c) == c > Len(p.channels) /\ c # 1

(* With the lock, logger_state_ and hot_update_ are looked at again; the   *)
(* time is set before the channels are compared.                           *)
HotApply(c) ==
    LET go == logger = "RUNNING" /\ hot_update
        p == read[c]
    IN /\ at[c] = "lock" /\ lock = None
       /\ Goto(c, "loop")
       /\ read' = [read EXCEPT ![c] = Start]
       /\ mtime' = IF go THEN [mtime EXCEPT ![c] = Seen(c)] ELSE mtime
       /\ hot_update' = IF go THEN p.hot_update ELSE hot_update
       /\ channels' = IF go /\ ~Mismatch(p, c)
                      THEN [channels EXCEPT ![c] = MergeChannel(@, Source(p, c))] ELSE channels
       /\ UNCHANGED <<yaml, saves, versions, logger, lock, stat, stops>>

\* Mutant: the loop ends only when the file of now was applied.
FinishApplied(c) ==
    /\ at[c] = "loop" /\ logger = "CLOSING" /\ mtime[c] = yaml.mtime
    /\ \A b \in Chans : b < c => at[b] \in {"finished", "none"}
    /\ Goto(c, "finished")
    /\ UNCHANGED <<yaml, saves, versions, logger, hot_update, lock, channels, mtime, stat, read, stops>>
(* The loop of EnterProcChannel ends when StopChannels comes to the channel *)
Finish(c) ==
    /\ at[c] = "loop" /\ logger = "CLOSING"
    /\ \A b \in Chans : b < c => at[b] \in {"finished", "none"}
    /\ Goto(c, "finished")
    /\ UNCHANGED <<yaml, saves, versions, logger, hot_update, lock, channels, mtime, stat, read, stops>>

-----------------------------------------------------------------------------
(* StopLogger keeps state_lock_ until every thread is joined *)

StopLock ==
    /\ logger = "RUNNING" /\ lock = None /\ stops < MaxStops
    /\ lock' = "stop" /\ logger' = "CLOSING" /\ stops' = stops + 1
    /\ UNCHANGED <<yaml, saves, versions, hot_update, channels, mtime, at, stat, read>>

StopJoin ==
    /\ lock = "stop" /\ \A c \in Chans : at[c] \in {"finished", "none"}
    /\ lock' = None /\ logger' = "UNINIT"
    /\ at' = [c \in Chans |-> "none"]
    /\ UNCHANGED <<yaml, saves, versions, hot_update, channels, mtime, stat, read, stops>>

(* LoadAndStartLogger.  A text with an error leaves everything alone; one  *)
(* without a channel is copied before it is refused.                       *)
LoadAndStart ==
    LET p == yaml.conf IN
    /\ logger = "UNINIT" /\ lock = None
    /\ p.ret = "PEC_NONE"
    /\ logger' = IF p.channels # <<>> THEN "RUNNING" ELSE logger
    /\ hot_update' = p.hot_update /\ channels' = p.channels
    /\ mtime' = [c \in Chans |-> IF c <= Len(p.channels) THEN yaml.mtime ELSE 0]
    /\ at' = [c \in Chans |-> IF c <= Len(p.channels) THEN "loop" ELSE "none"]
    /\ UNCHANGED <<yaml, saves, versions, lock, stat, read, stops>>

HotThread(c) == HotCheck(c) \/ HotRead(c) \/ HotApply(c) \/ Finish(c)
HotNext ==
    \/ Truncate \/ \E t \in Parses : Save(t)
    \/ \E c \in Chans : HotThread(c)
    \/ StopLock \/ StopJoin \/ LoadAndStart

HotSpec == HotInit /\ [][HotNext]_hvars

-----------------------------------------------------------------------------
(* Properties *)

Same(chan, src) ==
    /\ \A f \in DOMAIN Filter0 : chan[f] = src[f]
    /\ Len(src.devices) <= Len(chan.devices)
    /\ \A d \in DOMAIN src.devices : \A f \in DOMAIN Filter0 \cup {"able"} :
         chan.devices[d][f] = src.devices[d][f]

(* A channel is configured by one text the file had, whole: its own fields *)
(* and those of all devices of that text; devices of earlier texts may be  *)
(* left behind it.  The empty text of a file being saved counts (README).  *)
ConfigWhole ==
    \A c \in DOMAIN channels :
      \E t \in versions : Same(channels[c], Source(t, c))

(* With the configuration as it is, the look before a log is made and the  *)
(* one when it is written agree: a log that is let in has a device, and a  *)
(* log that its channel passes and some device would write is let in.      *)
LetInReaches ==
    \A c \in DOMAIN channels :
      \A p \in {0, 1, 6, 7}, g \in {0, 1, 2}, i \in {0, 1} :
        LET log == [priority |-> p, category |-> g, identify |-> i] IN
        ~BlockInput(channels[c], log) <=>
          PassFilter(channels[c], log) /\ DispatchLog(channels[c], log) # {}

(* The file was saved for the last time, with a time no channel has seen,  *)
(* and is accepted and has every channel.                                  *)
Settled ==
    /\ saves = MaxSaves /\ logger = "RUNNING" /\ hot_update
    /\ yaml.conf.ret = "PEC_NONE"
    /\ Len(yaml.conf.channels) >= Len(channels)
    /\ \A c \in Chans : mtime[c] # yaml.mtime /\ (at[c] \in {"read", "lock"} => stat[c] # yaml.mtime)

(* Then every channel gets its configuration, whatever older texts are     *)
(* still being read, unless one of these turns hot_update_ off or the      *)
(* logger is stopped.                                                      *)
FileFollowed ==
    Settled ~> \/ ~hot_update \/ logger # "RUNNING"
               \/ \A c \in DOMAIN channels :
                    Same(channels[c], Source(yaml.conf, c))

(* A thread that found the file changed updates its channel or learns that *)
(* the logger is not running any more.                                     *)
UpdateReturns == \A c \in Chans : at[c] = "lock" ~> at[c] # "lock"

(* StopLogger can wait for ever only for a thread that waits for its lock. *)
StopWaits == lock = "stop" ~> lock # "stop" \/ \E c \in Chans : at[c] = "lock"

=============================================================================
