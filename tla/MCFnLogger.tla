----------------------------- MODULE MCFnLogger -----------------------------
(***************************************************************************)
(* The parser, the hot update and the file device of fn-log side by side:  *)
(* a run is about the one that kind names.                                 *)
(***************************************************************************)
EXTENDS FnHot, FnFile

VARIABLE kind

vars == <<kind, text, hvars, dvars>>

Line(blank, key, val) == [blank |-> blank, key |-> key, val |-> val]

LineSetDef ==
    {Line(b, "channel", i) : b \in {0, 1}, i \in {0, 1}}
    \cup {Line(b, "device", i) : b \in {1, 2}, i \in {0, 1}}
    \cup {Line(b, "priority", b) : b \in {1, 2, 3}}
    \cup {Line(0, "", 0), Line(0, "hot_update", TRUE)}

(* Two channels; then another device, filters and a device for input; then *)
(* one channel and no hot update; then a text with an error.               *)
TwoChannels ==
    << Line(0, "hot_update", TRUE),
       Line(0, "channel", 0), Line(1, "device", 0), Line(2, "disable", FALSE),
       Line(2, "out_type", "file"),
       Line(0, "channel", 1), Line(1, "device", 0), Line(2, "disable", FALSE),
       Line(2, "priority", 1) >>
Filtered ==
    << Line(0, "hot_update", TRUE),
       Line(0, "channel", 0), Line(1, "priority", 1), Line(1, "category", 1),
       Line(1, "category_extend", 1), Line(1, "device", 0), Line(2, "disable", TRUE),
       Line(1, "device", 1), Line(2, "disable", FALSE), Line(2, "category_blist", {1}),
       Line(0, "channel", 1), Line(1, "identify_wlist", {1}), Line(1, "device", 0),
       Line(2, "disable", TRUE), Line(1, "device", 1), Line(2, "in_type", "udp"),
       Line(2, "disable", FALSE), Line(2, "udp_addr", [ip |-> 0, port |-> 1]) >>
OneChannel ==
    << Line(0, "channel", 0), Line(1, "priority", 6), Line(1, "device", 0),
       Line(2, "limit_size", 1), Line(2, "disable", FALSE) >>
Broken == << Line(0, "hot_update", TRUE), Line(0, "channel", 1) >>
FirstParseDef == ParseLogger(TwoChannels)
ParsesDef == {ParseLogger(t) : t \in {TwoChannels, Filtered, OneChannel, Broken}}

Cfg(limit, rollback, daily, hourly, stuff_up, dated, too_long) ==
    [limit |-> limit, rollback |-> rollback, daily |-> daily, hourly |-> hourly,
     stuff_up |-> stuff_up, dated |-> dated, too_long |-> too_long]
FileConfigsDef ==
    { Cfg(2, 2, FALSE, FALSE, FALSE, FALSE, FALSE),
      Cfg(3, 2, FALSE, FALSE, FALSE, FALSE, FALSE), Cfg(3, 1, TRUE, FALSE, FALSE, TRUE, FALSE),
      Cfg(3, 0, FALSE, FALSE, FALSE, FALSE, FALSE), Cfg(3, 1, FALSE, TRUE, TRUE, FALSE, FALSE),
      Cfg(0, 0, TRUE, TRUE, FALSE, TRUE, FALSE), Cfg(3, 1, FALSE, FALSE, FALSE, FALSE, TRUE) }

Init ==
    /\ ConfigInit /\ HotInit /\ FileInit
    /\ kind \in {"config", "hot", "file"}
    /\ kind # "file" => fcfg = Cfg(3, 0, FALSE, FALSE, FALSE, FALSE, FALSE)

Next ==
    /\ UNCHANGED kind
    /\ \/ kind = "config" /\ ConfigNext /\ UNCHANGED <<hvars, dvars>>
       \/ kind = "hot" /\ HotNext /\ UNCHANGED <<text, dvars>>
       \/ kind = "file" /\ FileNext /\ UNCHANGED <<text, hvars>>

(* The threads of the channels run, and StopLogger goes on when it can *)
Fairness ==
    /\ \A c \in Chans : WF_vars(kind = "hot" /\ HotThread(c) /\ UNCHANGED <<kind, text, dvars>>)
    /\ WF_vars(kind = "hot" /\ StopJoin /\ UNCHANGED <<kind, text, dvars>>)

Spec == Init /\ [][Next]_vars /\ Fairness

=============================================================================
