------------------------------ MODULE LogLine ------------------------------
(***************************************************************************)
(* From a line of a log to an entry: the formats of the syslog file        *)
(* (parse_line in src/src/sources/syslog.rs), entries of the journal       *)
(* (entry_to_log in journald.rs), and the removal of ANSI escape sequences *)
(* from their bodies (strip_ansi in mod.rs).  A program logs a message, a  *)
(* writer puts it into a line, and the reader must find that message, its  *)
(* severity and its origin again.                                          *)
(*                                                                         *)
(* Text is a sequence of tokens: "sp" is white space, "esc" the byte 0x1b, *)
(* "hi" and "lo" are the two bytes of a character outside ASCII, "m" and   *)
(* "T" are letters, "ts" is a time stamp of RFC 3339; a token that is none *)
(* of these nor of Words is one byte without a meaning of its own.         *)
(***************************************************************************)
EXTENDS Integers, Sequences, FiniteSets, FiniteSetsExt, Functions

CONSTANTS
    Messages   (* what programs log, other than through tracing            *)

Levels == {"ERROR", "WARN", "INFO", "DEBUG", "TRACE"}

(* The tokens of several bytes.                                            *)
Words == Levels \cup {"ts", "time", "bom"}

(* The tokens with a T and those with a colon in them.                     *)
WithT     == {"T", "ts", "TRACE"}
WithColon == {":", "ts", "time"}

(* PRI and the number it stands for; what is no number counts as 13.       *)
Priorities  == {"0", "11", "12", "14", "15", "x"}
Number(pri) == CASE pri = "0" -> 0 [] pri = "11" -> 11 [] pri = "12" -> 12
                 [] pri = "14" -> 14 [] pri = "15" -> 15 [] OTHER -> 13
Absent      == <<>>

(* What tracing writes, also with colours.                                 *)
Traced ==
    UNION {{<<"ts", "sp", level, "sp", "m">>, <<"ts", "sp", "sp", level, "sp", "m">>,
            <<"ts", "esc", "[", "2", "m", "sp", "esc", "[", "3", "m", "sp", level, "sp", "m">>} :
           level \in Levels}

VARIABLES
    sent,   (* what was logged: format, pri, host, app, pid, text          *)
    line,   (* the line, or the value of MESSAGE                           *)
    phase,  (* parse_line: 5424, 3164, rsyslog, whole, strip, infer, done; *)
            (* entry_to_log: journal, done                                 *)
    entry   (* the LogEntry so far                                         *)

vars == <<sent, line, phase, entry>>

-----------------------------------------------------------------------------
(* Escape sequences.                                                       *)

Letters == {"m", "T"}

(* One byte of the loop of strip_ansi and of skip_after_esc.               *)
StripStep(s, a, i) ==
    CASE a.mode = "text" /\ s[i] = "esc" -> [a EXCEPT !.mode = "escape"]
      [] a.mode = "text" /\ s[i] = "#" /\ i < Len(s) /\ s[i + 1] = "033" -> [a EXCEPT !.mode = "octal"]
      [] a.mode = "octal" -> [a EXCEPT !.mode = "escape"]
      [] a.mode = "escape" /\ s[i] = "[" -> [a EXCEPT !.mode = "csi"]
      [] a.mode = "escape" /\ s[i] # "[" -> [a EXCEPT !.mode = "text"]
      [] a.mode = "csi" -> [a EXCEPT !.mode = IF s[i] \in Letters THEN "text" ELSE "csi"]
      [] OTHER -> [a EXCEPT !.out = Append(@, s[i])]

(* The loop over the first i bytes.                                        *)
Scan(s) ==
    LET scan[i \in 0 .. Len(s)] ==
          IF i = 0 THEN [mode |-> "text", out |-> <<>>] ELSE StripStep(s, scan[i - 1], i)
    IN  scan

(* A fault: a sequence ends with the byte after ESC in any case.           *)
ScanTwo(s) ==
    LET scan[i \in 0 .. Len(s)] ==
          IF i = 0 THEN [mode |-> "text", out |-> <<>>]
          ELSE StripStep(s, [scan[i - 1] EXCEPT !.mode = IF @ = "csi" THEN "text" ELSE @], i)
    IN  scan

SkippedTwo(s) == ScanTwo(s)[Len(s)].out

Skipped(s) == Scan(s)[Len(s)].out

(* What programs log: "033" are the digits behind a "#", and an escape     *)
(* sequence takes single bytes, never a word.                              *)
ASSUME LogLineAssumption ==
    \A m \in Messages :
       /\ m \in Seq(STRING) /\ m # <<>>
       /\ \A i \in DOMAIN m : /\ m[i] = "033" => i > 1 /\ m[i - 1] = "#"
                              /\ m[i] \in Words => Scan(m)[i - 1].mode = "text"

(* The bytes are a text: every character is complete.                      *)
ValidUtf8(s) == \A i \in DOMAIN s : /\ s[i] = "hi" => i < Len(s) /\ s[i + 1] = "lo"
                                    /\ s[i] = "lo" => i > 1 /\ s[i - 1] = "hi"

(* from_utf8(out).unwrap_or_default().                                     *)
StripAnsi(s) == IF ValidUtf8(Skipped(s)) THEN Skipped(s) ELSE <<>>

-----------------------------------------------------------------------------
(* Places in a text.                                                       *)

(* The k-th of a set of places, and what a text has at these places.       *)
Nth(S, k)  == CHOOSE i \in S : Cardinality({j \in S : j <= i}) = k
Pick(s, S) == [k \in 1 .. Cardinality(S) |-> s[Nth(S, k)]]

(* The first of a set of places, or else the end.                          *)
FirstOf(s, S) == Min(S \cup {Len(s) + 1})

(* Fields between single spaces: the k-th space, or the end.               *)
Spaces(s)   == {i \in DOMAIN s : s[i] = "sp"}
Space(s, k) == IF k = 0 THEN 0
               ELSE IF k > Cardinality(Spaces(s)) THEN Len(s) + 1
               ELSE Nth(Spaces(s), k)

Field(s, k) == SubSeq(s, Space(s, k - 1) + 1, Space(s, k) - 1)
After(s, k) == SubSeq(s, Space(s, k) + 1, Len(s))

TrimStart(s, t) == SubSeq(s, FirstOf(s, {i \in DOMAIN s : s[i] # t}), Len(s))
TrimEnd(s, t)   == SubSeq(s, 1, Max({i \in DOMAIN s : s[i] # t} \cup {0}))

(* The k-th word between any number of spaces.                             *)
WordStarts(s) == {i \in DOMAIN s : s[i] # "sp" /\ (i = 1 \/ s[i - 1] = "sp")}

Word(s, k) ==
    IF k > Cardinality(WordStarts(s)) THEN Absent
    ELSE LET start == Nth(WordStarts(s), k)
         IN  SubSeq(s, start, FirstOf(s, {i \in Spaces(s) : i > start}) - 1)

(* The tag without its colon: the name of the process and its number.      *)
Bracket(tag) == FirstOf(tag, {i \in DOMAIN tag : tag[i] = "["})
TagName(tag) == SubSeq(TrimEnd(tag, ":"), 1, Bracket(TrimEnd(tag, ":")) - 1)
TagPid(tag)  == LET t == TrimEnd(tag, ":") IN TrimEnd(SubSeq(t, Bracket(t) + 1, Len(t)), "]")

(* from_syslog_priority.                                                   *)
FromSyslogPriority(n) ==
    CASE n % 8 \in 0 .. 2 -> "critical" [] n % 8 = 3 -> "error" [] n % 8 = 4 -> "warning"
      [] n % 8 \in 5 .. 6 -> "info"     [] OTHER -> "debug"

(* parse_priority.                                                         *)
Severity(pri) == FromSyslogPriority(Number(pri))

LevelSeverity(word) ==
    CASE word = <<"ERROR">> -> "error" [] word = <<"WARN">> -> "warning" [] word = <<"INFO">> -> "info"
      [] word \in {<<"DEBUG">>, <<"TRACE">>} -> "debug"
      [] OTHER -> "none"

(* A word with a T and a colon passes for a time stamp.                    *)
LooksLikeTime(word) ==
    Range(word) \cap WithT # {} /\ Range(word) \cap WithColon # {}

(* infer_tracing_severity.                                                 *)
InferSeverity(body) ==
    IF LooksLikeTime(Word(body, 1)) THEN LevelSeverity(Word(body, 2)) ELSE "none"

Entry(body, severity, host, app, pid) ==
    [body |-> body, severity |-> severity, host |-> host, app |-> app, pid |-> pid]

Unparsed == Entry(<<>>, "none", Absent, Absent, Absent)

-----------------------------------------------------------------------------
(* The formats.  A line of another format is left to the next.             *)

HasPri  == line[1] = "<" /\ ">" \in Range(line)
PriEnd  == Min({i \in DOMAIN line : line[i] = ">"})
Pri     == IF PriEnd = 3 THEN line[2] ELSE "x"
AfterPri == SubSeq(line, PriEnd + 1, Len(line))

Named(field) == IF field = <<"-">> THEN Absent ELSE field

TryRfc5424 ==
    /\ phase = "5424"
    /\ LET rest == TrimStart(Tail(AfterPri), "sp")
       IN  IF HasPri /\ AfterPri # <<>> /\ AfterPri[1] = "1" /\ Cardinality(Spaces(rest)) >= 6
           THEN /\ entry' = Entry(TrimStart(After(rest, 6), "bom"), Severity(Pri),
                                  Named(Field(rest, 2)), Named(Field(rest, 3)),
                                  IF Field(rest, 4) = <<"7">> THEN <<"7">> ELSE Absent)
                /\ phase' = "strip"
           ELSE phase' = "3164" /\ UNCHANGED entry
    /\ UNCHANGED <<sent, line>>

(* What follows the first colon with a space.                              *)
AfterTag(s) ==
    LET tags == {i \in Spaces(s) : i > 1 /\ s[i - 1] = ":"}
    IN  IF tags = {} THEN s ELSE SubSeq(s, Min(tags) + 1, Len(s))

TryRfc3164 ==
    /\ phase = "3164"
    /\ LET body == AfterTag(IF Cardinality(Spaces(AfterPri)) < 4 THEN AfterPri ELSE After(AfterPri, 4))
       IN  IF HasPri /\ body # <<>>
           THEN /\ entry' = Entry(body, Severity(Pri), Word(AfterPri, 4),
                                  TagName(Word(AfterPri, 5)), TagPid(Word(AfterPri, 5)))
                /\ phase' = "strip"
           ELSE phase' = "rsyslog" /\ UNCHANGED entry
    /\ UNCHANGED <<sent, line>>

TryRsyslogDefault ==
    /\ phase = "rsyslog"
    /\ LET message == TrimStart(After(line, 3), "sp")
       IN  IF line[1] # "<" /\ Field(line, 1) = <<"ts">> /\ message # <<>>
           THEN /\ entry' = Entry(message, "none", Field(line, 2),
                                  TagName(Field(line, 3)), TagPid(Field(line, 3)))
                /\ phase' = "strip"
           ELSE phase' = "whole" /\ UNCHANGED entry
    /\ UNCHANGED <<sent, line>>

WholeLine ==
    /\ phase = "whole"
    /\ entry' = [Unparsed EXCEPT !.body = line] /\ phase' = "strip"
    /\ UNCHANGED <<sent, line>>

StripBody ==
    /\ phase = "strip"
    /\ entry' = [entry EXCEPT !.body = StripAnsi(@)] /\ phase' = "infer"
    /\ UNCHANGED <<sent, line>>

InferBody ==
    /\ phase = "infer"
    /\ entry' = [entry EXCEPT !.severity = IF @ = "none" THEN InferSeverity(entry.body) ELSE @]
    /\ phase' = "done"
    /\ UNCHANGED <<sent, line>>

(* A PRIORITY that is absent, or no number, gives no severity.             *)
JournalSeverity(pri) == IF pri \in {"none", "x"} THEN "none" ELSE Severity(pri)

(* SYSLOG_IDENTIFIER, or else _COMM; "-" stands for a field that is absent.*)
Process(x) == Named(<<IF x.app # "-" THEN x.app ELSE x.comm>>)

(* entry_to_log: an entry without a message is dropped.                    *)
EntryToLog ==
    /\ phase = "journal"
    /\ LET body == StripAnsi(line)
       IN  entry' = IF body = <<>> THEN Unparsed
                    ELSE Entry(body, JournalSeverity(sent.pri), Named(<<sent.host>>), Process(sent),
                               IF sent.pid THEN <<"7">> ELSE Absent)
    /\ phase' = "done"
    /\ UNCHANGED <<sent, line>>

-----------------------------------------------------------------------------
(* What programs log and the writers of the formats.  A writer of RFC 5424 *)
(* has no structured data; RFC 3164 pads a day with a space.  An entry of  *)
(* the journal may lack every field but the message.                       *)
TagOf(x) == IF x.pid THEN <<x.app, "[", "7", "]", ":">> ELSE <<x.app, ":">>

Written(x) ==
    CASE x.format = "5424" ->
           <<"<", x.pri, ">", "1", "sp", "ts", "sp", x.host, "sp", x.app, "sp",
             IF x.pid THEN "7" ELSE "-", "sp", "-", "sp", "-", "sp">>
           \o (IF x.mark THEN <<"bom">> ELSE <<>>) \o x.text
      [] x.format = "3164" ->
           <<"<", x.pri, ">", "Jun", "sp">> \o (IF x.mark THEN <<"sp">> ELSE <<>>)
           \o <<"2", "sp", "time", "sp", x.host, "sp">> \o TagOf(x) \o <<"sp">> \o x.text
      [] x.format = "rsyslog" -> <<"ts", "sp", x.host, "sp">> \o TagOf(x) \o <<"sp">> \o x.text
      [] OTHER -> x.text

(* A message does not begin with a space; a line of no format does not     *)
(* look like one of the others.                                            *)
Loggable(x) ==
    /\ x.text[1] # "sp"
    /\ x.format \in {"5424", "3164"} => x.text[1] # "bom"
    /\ x.format = "plain" => x.text[1] \notin {"<", "ts"}

Sent ==
    {x \in [format : {"5424", "3164"}, pri : {"11", "x"}, host : {"h"}, app : {"a"}, comm : {"-"},
            pid : BOOLEAN, mark : BOOLEAN, text : Messages]
       \cup [format : {"5424"}, pri : Priorities, host : {"h", "-"}, app : {"a", "-"}, comm : {"-"},
             pid : BOOLEAN, mark : BOOLEAN, text : {<<"m">>} \cup Traced]
       \cup [format : {"3164"}, pri : Priorities, host : {"h"}, app : {"a"}, comm : {"-"},
             pid : BOOLEAN, mark : BOOLEAN, text : {<<"m">>} \cup Traced]
       \cup [format : {"rsyslog"}, pri : {"none"}, host : {"h"}, app : {"a"}, comm : {"-"},
             pid : BOOLEAN, mark : {FALSE}, text : Messages \cup Traced]
       \cup [format : {"plain"}, pri : {"none"}, host : {"none"}, app : {"none"}, comm : {"-"},
             pid : {FALSE}, mark : {FALSE}, text : Messages]
       \cup [format : {"journal"}, pri : {"14", "none"}, host : {"h"}, app : {"a"}, comm : {"-"},
             pid : {TRUE}, mark : {FALSE}, text : Messages]
       \cup [format : {"journal"}, pri : Priorities \cup {"none"}, host : {"h", "-"},
             app : {"a", "-"}, comm : {"c", "-"}, pid : BOOLEAN, mark : {FALSE},
             text : {<<"m">>} \cup Traced] : Loggable(x)}

Init ==
    /\ sent \in Sent
    /\ line = Written(sent)
    /\ phase = IF sent.format = "journal" THEN "journal" ELSE "5424"
    /\ entry = Unparsed

Next == TryRfc5424 \/ TryRfc3164 \/ TryRsyslogDefault \/ WholeLine \/ StripBody \/ InferBody \/ EntryToLog

Spec == Init /\ [][Next]_vars

-----------------------------------------------------------------------------
(* The reference for escape sequences: where one is introduced, how far it *)
(* reaches, and which introductions count, those not inside another.       *)
Introduced(s, i) == s[i] = "esc" \/ (s[i] = "#" /\ i < Len(s) /\ s[i + 1] = "033")

Reach(s, i) ==
    LET first == IF s[i] = "esc" THEN i + 1 ELSE i + 2
        final == {j \in first + 1 .. Len(s) : s[j] \in Letters}
    IN  IF first > Len(s) \/ s[first] # "[" THEN first
        ELSE IF final = {} THEN Len(s) ELSE Min(final)

Starts(s) ==
    CHOOSE S \in SUBSET {i \in DOMAIN s : Introduced(s, i)} :
       \A i \in DOMAIN s : i \in S <=>
          /\ Introduced(s, i)
          /\ \A j \in S : ~(j < i /\ i <= Reach(s, j))

PlainText(s) ==
    Pick(s, {i \in DOMAIN s : \A j \in Starts(s) : ~(j <= i /\ i <= Reach(s, j))})

(* The body of an entry is the message without its escape sequences, as    *)
(* long as what remains is text: nothing more is cut, also when sequences  *)
(* are unfinished, follow or contain each other.                           *)
StripsSequences ==
    (phase \in {"infer", "done"} /\ ValidUtf8(PlainText(sent.text)))
       => entry.body = PlainText(sent.text)

(* The severity a line or an entry of the journal states.                  *)
Stated(x) ==
    CASE x.format = "journal" -> JournalSeverity(x.pri)
      [] x.format \in {"5424", "3164"} -> Severity(x.pri)
      [] OTHER -> "none"

(* Place i of a text is a level, a word of its own, behind one other word, *)
(* and that one has a T and a colon in it.                                 *)
LevelBehindTime(s, i) ==
    LET word == {j \in 1 .. i - 1 : s[j] # "sp"}
    IN  /\ s[i] \in Levels
        /\ i > 1 /\ s[i - 1] = "sp"
        /\ i < Len(s) => s[i + 1] = "sp"
        /\ \A j, k \in word : \A x \in j .. k : x \in word
        /\ \E j \in word : s[j] \in WithT
        /\ \E j \in word : s[j] \in WithColon

(* Whatever a message holds, colons, brackets or spaces, the entry has the *)
(* severity and the origin its line states: host, program and process.     *)
(* Where a line of the syslog file states no severity it is that of the    *)
(* level that tracing wrote, and never one that the text does not name     *)
(* behind what may be a time.                                              *)
OriginKept ==
    phase = "done" /\ entry.body # <<>> =>
       /\ Stated(sent) # "none" \/ sent.format = "journal" => entry.severity = Stated(sent)
       /\ Stated(sent) = "none" /\ sent.format # "journal" =>
            /\ sent.text \in Traced =>
                 \E i \in DOMAIN sent.text :
                    sent.text[i] \in Levels /\ entry.severity = LevelSeverity(<<sent.text[i]>>)
            /\ entry.severity # "none" =>
                 \E i \in DOMAIN entry.body :
                    /\ LevelBehindTime(entry.body, i)
                    /\ entry.severity = LevelSeverity(<<entry.body[i]>>)
       /\ sent.format # "plain" =>
            /\ entry.host = Named(<<sent.host>>) /\ entry.app = Process(sent)
            /\ entry.pid = IF sent.pid THEN <<"7">> ELSE Absent

(* mod.rs:43: "we only skip ASCII bytes from valid UTF-8, so output is     *)
(* valid UTF-8".                                                           *)
OnlyAsciiSkipped == phase = "strip" => ValidUtf8(Skipped(entry.body))
=============================================================================
