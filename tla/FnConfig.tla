------------------------------ MODULE FnConfig ------------------------------
(***************************************************************************)
(* The configuration of an fn-log logger (fn_log.h): what ParseLogger,     *)
(* ParseChannel and ParseDevice make of a yaml text, and which logs the    *)
(* filters of a channel and its devices let through.                       *)
(*                                                                         *)
(* A text is a sequence of lines as Lex returns them: the indentation, the *)
(* reserved key ("" for a blank or comment line) and the value.  A bit     *)
(* mask is the set of its bits.  define and variable, which rewrite the    *)
(* text that follows, are not modelled.                                    *)
(***************************************************************************)
EXTENDS Integers, Sequences, FiniteSets, SequencesExt

CONSTANTS MAX_CHANNEL_SIZE, MAX_DEVICE_SIZE,
          Bits                  \* 0 .. 63

ASSUME ConfigAssumption ==
    MAX_CHANNEL_SIZE \in Nat \ {0} /\ MAX_DEVICE_SIZE \in Nat \ {0} /\ Bits \subseteq Nat

PRIORITY_MAX == 7

-----------------------------------------------------------------------------
(* Keys and fields *)

FilterKeys ==
    {"priority", "category", "category_extend", "category_wlist", "category_blist",
     "category_wmask", "category_bmask", "identify", "identify_extend",
     "identify_wlist", "identify_blist", "identify_wmask", "identify_bmask"}
LoggerKeys == {"hot_update", "logger_name", "logger_desc", "shm_key", "channel"}
ChannelKeys == FilterKeys \cup {"sync", "device"}
DeviceKeys == FilterKeys \cup
    {"in_type", "out_type", "disable", "limit_size", "rollback", "rolldaily",
     "rollhourly", "stuff_up", "path", "file", "udp_addr"}

(* The field a key is stored in and what is stored; a black list is the    *)
(* complement of its bits.                                                 *)
FieldOf(key) ==
    CASE key \in {"category_wlist", "category_blist", "category_wmask", "category_bmask"}
           -> "category_mask"
      [] key \in {"identify_wlist", "identify_blist", "identify_wmask", "identify_bmask"}
           -> "identify_mask"
      [] key = "disable" -> "able"
      [] OTHER -> key
Stored(key, val) ==
    CASE key \in {"category_blist", "category_bmask", "identify_blist", "identify_bmask"}
           -> Bits \ val
      [] key = "disable" -> ~val
      [] key = "limit_size" -> val * 1000 * 1000
      [] OTHER -> val

(* memset(0) *)
Filter0 == [priority |-> 0, category |-> 0, category_extend |-> 0, category_mask |-> {},
            identify |-> 0, identify_extend |-> 0, identify_mask |-> {}]
FilterAnd(rest) == [f \in DOMAIN Filter0 \cup DOMAIN rest |->
                      IF f \in DOMAIN rest THEN rest[f] ELSE Filter0[f]]
Channel0 == FilterAnd([sync |-> FALSE, devices |-> <<>>])
Device0 == FilterAnd([able |-> FALSE, in_type |-> "null", out_type |-> "null",
                      limit_size |-> 0, rollback |-> 0, rolldaily |-> FALSE,
                      rollhourly |-> FALSE, stuff_up |-> FALSE, path |-> "", file |-> "",
                      udp_addr |-> [ip |-> 0, port |-> 0]])

-----------------------------------------------------------------------------
(* The parser: ParseLogger calls ParseChannel and ParseDevice, which       *)
(* return at the first line that is not indented deeper than the line they *)
(* were called for.  in is the stack of these calls with their indent.     *)

Start == [ret |-> "PEC_NONE", hot_update |-> FALSE, channels |-> <<>>, in |-> <<>>]
Fail(s, e) == [s EXCEPT !.ret = e]

\* Mutant: a line of the same indent still belongs to the device or channel.
CloseDeeper(in, blank) ==
    SelectSeq(in, LAMBDA call : blank >= call.indent)
CloseCalls(in, blank) ==
    LET open == {n \in 0 .. Len(in) : \A k \in 1 .. n : blank > in[k].indent}
    IN SubSeq(in, 1, CHOOSE n \in open : \A k \in open : k <= n)

LastChannel(s) == s.channels[Len(s.channels)]

(* A line of ParseDevice.  A device with an address must be able to use it. *)
DeviceLine(s, line) ==
    LET c == Len(s.channels)
        d == Len(LastChannel(s).devices)
        t == [s EXCEPT !.channels[c].devices[d][FieldOf(line.key)] = Stored(line.key, line.val)]
        dev == s.channels[c].devices[d]
    IN CASE line.key \notin DeviceKeys -> Fail(s, "PEC_UNDEFINED_DEVICE_KEY")
         [] line.key = "out_type" /\ line.val = "null" -> Fail(t, "PEC_UNDEFINED_DEVICE_TYPE")
         [] line.key = "udp_addr" /\ dev.able /\ dev.in_type = "null" /\ line.val.ip = 0
              -> Fail(t, "PEC_ILLEGAL_ADDR_IP")
         [] line.key = "udp_addr" /\ dev.able /\ line.val.port = 0
              -> Fail(t, "PEC_ILLEGAL_ADDR_PORT")
         [] OTHER -> t

ChannelLine(s, line) ==
    LET c == Len(s.channels)
        devices == LastChannel(s).devices
    IN CASE line.key \notin ChannelKeys -> Fail(s, "PEC_UNDEFINED_CHANNEL_KEY")
         [] line.key = "device" /\ Len(devices) >= MAX_DEVICE_SIZE
              -> Fail(s, "E_OUT_OF_DEVICE_SIZE")
         [] line.key = "device" /\ line.val # Len(devices) -> Fail(s, "E_DEVICE_NOT_SEQUENCE")
         [] line.key = "device" /\ line.val = Len(devices) /\ Len(devices) < MAX_DEVICE_SIZE
              -> [s EXCEPT !.channels[c].devices = Append(@, Device0),
                           !.in = Append(@, [indent |-> line.blank])]
         [] OTHER -> [s EXCEPT !.channels[c][FieldOf(line.key)] = Stored(line.key, line.val)]

LoggerLine(s, line) ==
    LET size == Len(s.channels) IN
    CASE line.key \notin LoggerKeys -> Fail(s, "PEC_UNDEFINED_GLOBAL_KEY")
      [] line.key = "channel" /\ size >= MAX_CHANNEL_SIZE -> Fail(s, "E_INVALID_CHANNEL_SIZE")
      [] line.key = "channel" /\ line.val # size -> Fail(s, "E_CHANNEL_NOT_SEQUENCE")
      [] line.key = "channel" /\ line.val = size /\ size < MAX_CHANNEL_SIZE
           -> [s EXCEPT !.channels = Append(@, Channel0),
                        !.in = <<[indent |-> line.blank]>>]
      [] line.key = "hot_update" -> [s EXCEPT !.hot_update = line.val]
      [] OTHER -> s

ParseLine(s, line) ==
    LET t == [s EXCEPT !.in = CloseCalls(@, line.blank)] IN
    IF s.ret # "PEC_NONE" \/ line.key = "" THEN s
    ELSE CASE Len(t.in) = 0 -> LoggerLine(t, line)
           [] Len(t.in) = 1 -> ChannelLine(t, line)
           [] OTHER -> DeviceLine(t, line)

(* A text without a channel is an error only if it does not end in a blank *)
(* line: ParseLogger returns there before it looks.                        *)
ParseLogger(text) ==
    LET step(r, line) == CHOOSE t \in {ParseLine(s, line) : s \in {r}} : TRUE
        s == FoldLeft(step, Start, text)
        blank_end == text = <<>> \/ text[Len(text)].key = ""
    IN IF s.ret = "PEC_NONE" /\ s.channels = <<>> /\ ~blank_end
       THEN Fail(s, "E_INVALID_CHANNEL_SIZE") ELSE s

-----------------------------------------------------------------------------
(* Filters: a log is [priority, category, identify] *)

InRange(begin, count, x) == count > 0 => begin <= x /\ x < begin + count
InMask(mask, x) == mask # {} => x \in mask

PassFilter(f, log) ==
    /\ log.priority >= f.priority
    /\ InRange(f.category, f.category_extend, log.category)
    /\ InRange(f.identify, f.identify_extend, log.identify)
    /\ InMask(f.category_mask, log.category)
    /\ InMask(f.identify_mask, log.identify)

(* DispatchLog: the devices a log is given to, numbered from 1 *)
DispatchLog(chan, log) ==
    {d \in DOMAIN chan.devices :
       /\ chan.devices[d].able /\ chan.devices[d].in_type = "null"
       /\ PassFilter(chan.devices[d], log)}

\* Mutant: a device for input counts as one that writes.
BlockAnyDevice(chan, log) ==
    \/ ~PassFilter(chan, log)
    \/ ~\E d \in DOMAIN chan.devices : chan.devices[d].able /\ PassFilter(chan.devices[d], log)

(* BlockInput of a running channel: a priority out of range is FATAL here, *)
(* and stays what it is in the log.                                        *)
BlockInput(chan, log) ==
    LET safe == [log EXCEPT !.priority = IF @ >= PRIORITY_MAX THEN PRIORITY_MAX - 1 ELSE @] IN
    \/ ~PassFilter(chan, log)
    \/ ~\E d \in DOMAIN chan.devices :
          /\ chan.devices[d].able /\ chan.devices[d].in_type = "null"
          /\ PassFilter(chan.devices[d], safe)

-----------------------------------------------------------------------------
(* A text that is written line by line *)

CONSTANTS LineSet, MaxLines     \* the lines and the bound on their number

ASSUME LinesAssumption == \A line \in LineSet : line.blank \in Nat

VARIABLE text

ConfigInit == text = <<>>
WriteLine(line) ==
    /\ Len(text) < MaxLines /\ ParseLogger(text).ret \in {"PEC_NONE", "E_INVALID_CHANNEL_SIZE"}
    /\ text' = Append(text, line)
ConfigNext == \E line \in LineSet : WriteLine(line)
ConfigSpec == ConfigInit /\ [][ConfigNext]_text

(* What the indentation means: a line belongs to the last channel or       *)
(* device before it that is indented less, if no line between is indented  *)
(* as little.  0 is the logger itself.                                     *)
Owner(i) ==
    LET open == {j \in 1 .. i - 1 :
                   /\ text[j].key \in {"channel", "device"}
                   /\ \A k \in j + 1 .. i : text[k].key = "" \/ text[k].blank > text[j].blank}
    IN IF open = {} THEN 0 ELSE CHOOSE j \in open : \A k \in open : k <= j
Lines(key, owner) == {i \in DOMAIN text : text[i].key = key /\ Owner(i) = owner}
Rank(S, i) == Cardinality({j \in S : j <= i})
LastVal(S) == text[CHOOSE i \in S : \A j \in S : j <= i].val

(* A text that is accepted has exactly the channels and devices its        *)
(* indentation says, and the priority of each is that of its own last      *)
(* priority line.                                                          *)
ParsedAsIndented ==
    LET p == ParseLogger(text)
        chans == Lines("channel", 0)
        prio(f, S) == f.priority = IF S = {} THEN 0 ELSE LastVal(S)
    IN p.ret = "PEC_NONE" =>
         /\ chans = {i \in DOMAIN text : text[i].key = "channel"}
         /\ Len(p.channels) = Cardinality(chans)
         /\ \A i \in chans :
              LET c == p.channels[Rank(chans, i)]
                  devs == Lines("device", i)
              IN /\ text[i].val = Rank(chans, i) - 1
                 /\ prio(c, Lines("priority", i))
                 /\ Len(c.devices) = Cardinality(devs)
                 /\ \A j \in devs : prio(c.devices[Rank(devs, j)], Lines("priority", j))

=============================================================================
