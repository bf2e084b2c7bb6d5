------------------------------ MODULE DbusRequest --------------------------------
(***************************************************************************)
(* A request made over D-Bus: the options of gpiocli request and           *)
(* reconfigure (dbus/client/common.c) or the variant another client sends, *)
(* its reading by gpio-manager (dbus/manager/helpers.c), and the           *)
(* properties of the line objects, up to what gpiocli shows of them.       *)
(***************************************************************************)
EXTENDS LineInfo

CONSTANTS
  OptionSets,  \* options a user may give
  Periods,     \* debounce periods a user may give, 0 for none
  LineLists,   \* lines a user may name
  Variants     \* line configurations other clients may send

VARIABLES
  stage,       \* how far the request is: "build", "sent", "config", "granted", ...
  sent,        \* the variant that is sent
  asked,       \* the options of gpiocli
  wanted,      \* history: the value the user wants for a line
  shown,       \* what gpiocli shows of the lines
  group,       \* how many groups of lines the manager has read
  last,        \* the settings object it reads them into
  named        \* history: the lines of these groups

reading == <<group, last, named>>
dbusVars == <<sent, asked, shown, reading>>

NoVariant == [none |-> TRUE]
NotAsked == [none |-> TRUE]

DbusInit ==
  /\ sent = NoVariant /\ asked = NotAsked /\ shown = <<>>
  /\ group = 0 /\ last = Defaults /\ named = <<>>

\* Lines are the chip's, values are 0 or 1, and what a dictionary holds under a name is of
\* the type that io.gpiod1.xml gives it, a period no negative number.
WellTyped(dict) ==
  /\ "active-low" \in DOMAIN dict => dict["active-low"] \in BOOLEAN
  /\ "debounce-period" \in DOMAIN dict => dict["debounce-period"] \in Nat
IsVariant(v) ==
  /\ DOMAIN v = {"configs", "values"} /\ v.values \in Seq(Values)
  /\ Len(v.configs) \in Nat /\ DOMAIN v.configs = 1..Len(v.configs)
  /\ \A k \in DOMAIN v.configs :
       v.configs[k].offsets \in Seq(Offsets) /\ WellTyped(v.configs[k].settings)
ASSUME DbusAssumption ==
  /\ Periods \subseteq Nat /\ LineLists \subseteq Seq(Offsets)
  /\ \A v \in Variants : IsVariant(v)

-----------------------------------------------------------------------------
(* gpiocli *)

Edges  == {"rising-edge", "falling-edge"}
Drives == {"push-pull", "open-drain", "open-source"}
Biases == {"pull-up", "pull-down", "bias-disabled"}
Clocks == {"clock-monotonic", "clock-realtime", "clock-hte"}

\* both edges are each of the two
Spelt(o) == IF "both-edges" \in o THEN o \cup Edges ELSE o

\* validate_line_config_opts
ValidOptions(o, debounce) ==
  /\ ~({"input", "output"} \subseteq o)
  /\ o \cap Edges # {} => "input" \in o
  /\ Cardinality(o \cap Drives) <= 1
  /\ o \cap Drives # {} => "output" \in o
  /\ Cardinality(o \cap Biases) <= 1
  /\ Cardinality(o \cap Clocks) <= 1
  /\ o \cap Clocks # {} \/ debounce # 0 => o \cap Edges # {}

\* the option of the group that was given, under the name it has in the variant
Spelling(x) ==
  CASE x = "bias-disabled" -> "disabled" [] x = "clock-monotonic" -> "monotonic"
    [] x = "clock-realtime" -> "realtime" [] x = "clock-hte" -> "hte" [] OTHER -> x
Given(o, options) == Spelling(CHOOSE x \in o \cap options : TRUE)

\* Mutant: each edge on its own is looked at before both.
EdgeGivenOneFirst(o) == IF "falling-edge" \in o THEN "falling" ELSE "rising"
EdgeGiven(o) ==
  IF Edges \subseteq o THEN "both"
  ELSE IF "falling-edge" \in o THEN "falling" ELSE "rising"

\* make_line_config: a setting is sent if its option was given
Mentioned(o, debounce) ==
  {"direction"} \cup (IF o \cap Edges # {} THEN {"edge"} ELSE {})
    \cup (IF o \cap Biases # {} THEN {"bias"} ELSE {})
    \cup (IF o \cap Drives # {} THEN {"drive"} ELSE {})
    \cup (o \cap {"active-low"})
    \cup (IF debounce # 0 THEN {"debounce-period"} ELSE {})
    \cup (IF o \cap Clocks # {} THEN {"event-clock"} ELSE {})
SettingsDict(o, debounce) ==
  [key \in Mentioned(o, debounce) |->
     CASE key = "direction" -> IF "input" \in o THEN "input"
                               ELSE IF "output" \in o THEN "output" ELSE "as-is"
       [] key = "edge" -> EdgeGiven(o)
       [] key = "bias" -> Given(o, Biases)
       [] key = "drive" -> Given(o, Drives)
       [] key = "active-low" -> TRUE
       [] key = "debounce-period" -> debounce
       [] key = "event-clock" -> Given(o, Clocks)]

MakeLineConfig(offs, o, debounce, vals) ==
  [configs |-> <<[offsets |-> offs, settings |-> SettingsDict(o, debounce)]>>,
   values |-> vals]

\* values are given for all lines or for none
ValuesFit(vals, offs) == vals = <<>> \/ Len(vals) = Len(offs)
\* ... and in a request only with the output option
ValuesOfOutputs(vals, o) == vals = <<>> \/ "output" \in o

Distinct(offs) == IsInjective(offs)
ByLine(offs, vals) ==
  IF ~Distinct(offs) THEN <<>>
  ELSE [x \in {offs[k] : k \in DOMAIN vals \cap DOMAIN offs} |->
          vals[CHOOSE k \in DOMAIN offs : offs[k] = x]]

Call(offs, o, debounce, vals, fit) ==
  IF ValidOptions(Spelt(o), debounce) /\ ValuesFit(vals, offs) /\ fit
    THEN /\ stage' = "sent"
         /\ sent' = MakeLineConfig(offs, Spelt(o), debounce, vals)
         /\ asked' = [opts |-> o, debounce |-> debounce]
         /\ wanted' = ByLine(offs, vals)
    ELSE stage' = "refused" /\ UNCHANGED <<sent, asked, wanted>>

CliRequest(offs, o, debounce, vals) ==
  /\ stage = "build" /\ order = <<>> /\ outs = <<>>
  /\ Call(offs, o, debounce, vals, ValuesOfOutputs(vals, o))
  /\ UNCHANGED <<vars, shown, reading>>

\* the lines of the request, in the order the request has them; values may come with any
\* direction, and only outputs take them
CliReconfigure(o, debounce, vals) ==
  /\ stage = "shown"
  /\ Call(requested, o, debounce, vals, TRUE)
  /\ UNCHANGED <<vars, shown, reading>>

-----------------------------------------------------------------------------
(* another client *)

Send(v) ==
  /\ stage = "build" /\ order = <<>> /\ outs = <<>>
  /\ stage' = "sent" /\ sent' = v
  /\ UNCHANGED <<vars, wanted, asked, shown, reading>>

-----------------------------------------------------------------------------
(* gpio-manager *)

\* set_settings_from_variant: the name each setting goes by, what it may be, and the
\* library's names for that
KeyOf ==
  [direction |-> "direction", edge |-> "edge", bias |-> "bias", drive |-> "drive",
   active_low |-> "active-low", debounce |-> "debounce-period", clock |-> "event-clock"]
Takes ==
  [direction |-> {"input", "output", "as-is"}, edge |-> {"falling", "rising", "both"},
   bias |-> {"as-is", "pull-up", "pull-down", "disabled"},
   drive |-> {"push-pull", "open-drain", "open-source"},
   clock |-> {"monotonic", "realtime", "hte"}]
LibraryName(x) ==
  CASE x = "as-is" -> "as_is" [] x = "pull-up" -> "pull_up" [] x = "pull-down" -> "pull_down"
    [] x = "push-pull" -> "push_pull" [] x = "open-drain" -> "open_drain"
    [] x = "open-source" -> "open_source" [] OTHER -> x

Taken(key, v) ==
  \E f \in DOMAIN KeyOf : KeyOf[f] = key /\ (f \in DOMAIN Takes => v \in Takes[f])

SetFromVariant(f, v, was) ==
  IF f \in DOMAIN Takes THEN Stored(f, LibraryName(v))
  ELSE IF f = "active_low" /\ ~v THEN was ELSE Stored(f, v)

SettingsFrom(base, dict) ==
  [f \in DOMAIN Defaults |->
     IF f \in DOMAIN KeyOf /\ KeyOf[f] \in DOMAIN dict
     THEN SetFromVariant(f, dict[KeyOf[f]], base[f]) ELSE base[f]]

\* Mutant: the settings of one group of lines are the next group's start.
FreshKept(before) == before
\* gpiodglib_line_settings_reset
Fresh(before) == Defaults

\* gpiodbus_line_config_from_variant: a new configuration, one group of lines after the
\* other, then the values.  What cannot be read ends the call.
Receive ==
  /\ stage = "sent"
  /\ Clear /\ stage' = "reading" /\ group' = 0 /\ last' = Defaults /\ named' = <<>>
  /\ UNCHANGED <<requested, fd, line, wanted, sent, asked, shown>>

NextGroup == sent.configs[group + 1]
KeysTaken == \A key \in DOMAIN NextGroup.settings : Taken(key, NextGroup.settings[key])
ReadGroup ==
  /\ stage = "reading" /\ group < Len(sent.configs) /\ KeysTaken
  /\ last' = SettingsFrom(Fresh(last), NextGroup.settings)
  /\ Add(NextGroup.offsets, last')
  /\ group' = group + 1 /\ named' = named \o NextGroup.offsets
  /\ UNCHANGED <<requested, fd, line, stage, wanted, sent, asked, shown>>

ReadValues ==
  /\ stage = "reading" /\ group = Len(sent.configs)
  /\ SetValues(sent.values)
  /\ stage' = "config"
  /\ wanted' = IF asked = NotAsked THEN ByLine(named, sent.values) ELSE wanted
  /\ UNCHANGED <<requested, fd, line, dbusVars>>

Unreadable ==
  /\ stage = "reading"
  /\ IF group = Len(sent.configs) THEN Len(sent.values) > LinesMax
     ELSE ~KeysTaken \/ NextGroup.offsets = <<>> \/ ~Room(NextGroup.offsets)
  /\ stage' = "refused"
  /\ UNCHANGED <<vars, wanted, dbusVars>>

\* the handlers of RequestLines and ReconfigureLines, and their errors
DbusCall ==
  /\ stage = "config" /\ sent # NoVariant
  /\ \/ RequestLines /\ stage' = "granted"
     \/ ReconfigureLines /\ stage' = "granted"
     \/ (RequestTooBig \/ RequestRejected) /\ stage' = "refused"
     \/ (ReconfigureTooBig \/ ReconfigureRejected) /\ stage' = "refused"
  /\ UNCHANGED <<wanted, dbusVars>>

\* gpiodbus_line_set_props
MapBias(b) ==
  CASE b = "pull_up" -> "pull-up" [] b = "pull_down" -> "pull-down" [] OTHER -> b
MapDrive(d) ==
  CASE d = "push_pull" -> "push-pull" [] d = "open_drain" -> "open-drain"
    [] d = "open_source" -> "open-source"
LineProps(info) == [info EXCEPT !.bias = MapBias(@), !.drive = MapDrive(@)]

\* get_line_properties: what is not there is shown as nothing
LineProperties(props) ==
  [props EXCEPT !.bias = IF @ = "unknown" THEN "" ELSE @,
                !.edge = IF @ = "none" THEN "" ELSE @]

\* do_print_line_info: what goes with the direction or with edges only is left out
\* without them
PrintLineInfo(p) ==
  LET edges == p.edge # ""
  IN  [p EXCEPT !.drive = IF p.direction = "output" THEN @ ELSE "",
                !.clock = IF edges THEN @ ELSE "",
                !.debounced = @ /\ edges,
                !.debounce = IF edges THEN @ ELSE 0]

Show ==
  /\ stage = "granted" /\ sent # NoVariant /\ asked # NotAsked
  /\ shown' = [o \in ToSet(requested) |->
                PrintLineInfo(LineProperties(LineProps(GetLineInfo(o))))]
  /\ stage' = "shown"
  /\ UNCHANGED <<vars, sent, asked, wanted, reading>>

DbusNext ==
  \/ \E offs \in LineLists, o \in OptionSets, d \in Periods,
        vals \in SeqOf(Values, MaxArg) : CliRequest(offs, o, d, vals)
  \/ \E o \in OptionSets, d \in Periods, vals \in SeqOf(Values, MaxArg) :
       CliReconfigure(o, d, vals)
  \/ \E v \in Variants : Send(v)
  \/ Receive \/ ReadGroup \/ ReadValues \/ Unreadable \/ DbusCall \/ Show
=================================================================================
