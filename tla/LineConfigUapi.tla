---------------------------- MODULE LineConfigUapi ----------------------------
(***************************************************************************)
(* The encoding of a line-config object for the kernel                     *)
(* (gpiod_line_config_to_uapi, lib/line-config.c): a request holds the     *)
(* flags most lines have, and up to NumAttrsMax attributes, each for the   *)
(* lines in its mask.  Lines with equal settings share an attribute, or    *)
(* the encoding would not fit.  The object itself is the ordered map of    *)
(* LineConfigSpec, with settings as records; a line's index is its place   *)
(* in that order.                                                          *)
(***************************************************************************)
EXTENDS LineConfigSpec

CONSTANTS
  NumAttrsMax, \* GPIO_V2_LINE_NUM_ATTRS_MAX, 10 in the code
  PeriodMod    \* debounce_period_us is modulo this, 2^32 in the code

\* The settings a user can store (lib/line-settings.c).
AllSettings ==
  [direction : {"as_is", "input", "output"},
   edge : {"none", "rising", "falling", "both"},
   bias : {"as_is", "disabled", "pull_up", "pull_down"},
   drive : {"push_pull", "open_drain", "open_source"},
   active_low : BOOLEAN,
   clock : {"monotonic", "realtime", "hte"},
   debounce : Nat,
   value : {0, 1}]

ASSUME UapiAssumption ==
  /\ NumAttrsMax \in Nat \ {0} /\ PeriodMod \in Nat \ {0}
  /\ Settings \subseteq AllSettings /\ Values \subseteq {0, 1}

\* The settings of each line, by index.
PerLine == [i \in DOMAIN order |-> conf[order[i]]]

-------------------------------------------------------------------------------
(***************************************************************************)
(* The encoder.                                                            *)
(***************************************************************************)
\* enum gpio_v2_line_flag, but USED
LineFlags ==
  {"INPUT", "OUTPUT", "EDGE_RISING", "EDGE_FALLING", "OPEN_DRAIN", "OPEN_SOURCE",
   "BIAS_DISABLED", "BIAS_PULL_UP", "BIAS_PULL_DOWN", "ACTIVE_LOW",
   "CLOCK_REALTIME", "CLOCK_HTE"}

\* make_kernel_flags, as a set of the flags' names
DirectionFlags(s) ==
  CASE s.direction = "input" -> {"INPUT"} [] s.direction = "output" -> {"OUTPUT"}
    [] OTHER -> {}
EdgeFlags(s) ==
  CASE s.edge = "falling" -> {"EDGE_FALLING", "INPUT"}
    [] s.edge = "rising" -> {"EDGE_RISING", "INPUT"}
    [] s.edge = "both" -> {"EDGE_FALLING", "EDGE_RISING", "INPUT"}
    [] OTHER -> {}
DriveFlags(s) ==
  CASE s.drive = "open_drain" -> {"OPEN_DRAIN"} [] s.drive = "open_source" -> {"OPEN_SOURCE"}
    [] OTHER -> {}
BiasFlags(s) ==
  CASE s.bias = "disabled" -> {"BIAS_DISABLED"} [] s.bias = "pull_up" -> {"BIAS_PULL_UP"}
    [] s.bias = "pull_down" -> {"BIAS_PULL_DOWN"} [] OTHER -> {}
ClockFlags(s) ==
  CASE s.clock = "realtime" -> {"CLOCK_REALTIME"} [] s.clock = "hte" -> {"CLOCK_HTE"}
    [] OTHER -> {}
MakeKernelFlags(s) ==
  DirectionFlags(s) \cup EdgeFlags(s) \cup DriveFlags(s) \cup BiasFlags(s)
    \cup (IF s.active_low THEN {"ACTIVE_LOW"} ELSE {}) \cup ClockFlags(s)

\* settings_equal: what the flags depend on.  The debounce period and the
\* output value have attributes of their own.
FlagFields == {"direction", "edge", "bias", "drive", "active_low", "clock"}
FlagPart(s) == [f \in FlagFields |-> s[f]]
SettingsEqual(s, t) == FlagPart(s) = FlagPart(t)

\* set_output_values, set_kernel_output_values: one attribute, if any line is
\* an output.  Values set by position override those of the settings.
Overridden(vals) == DOMAIN vals
ActiveLinesNoOverride(cfg, vals) ==
  {i \in DOMAIN cfg : cfg[i].direction = "output" /\ cfg[i].value = 1}
ActiveLines(cfg, vals) ==
  {i \in DOMAIN cfg \ Overridden(vals) : cfg[i].direction = "output" /\ cfg[i].value = 1}
    \cup {i \in Overridden(vals) : vals[i] = 1}
ValuesAttr(cfg, vals) ==
  LET outputs == {i \in DOMAIN cfg : cfg[i].direction = "output"}
  IN IF outputs = {} THEN <<>>
     ELSE <<[id |-> "VALUES", mask |-> outputs \cup Overridden(vals),
             values |-> ActiveLines(cfg, vals)]>>

\* The loop both set_debounce_periods and set_flags are: a line that is not
\* done yet takes the next attribute, for itself and the later lines whose key
\* is the same, and these are done.
Takers(key, done) ==
  {i \in DOMAIN key \ done : \A j \in 1..(i - 1) : j \in done \/ key[j] # key[i]}
Sharing(key, i) == {j \in i..Len(key) : key[j] = key[i]}

\* set_debounce_periods.  Periods are compared in full, and stored as u32.
PeriodKeys(cfg) == [i \in DOMAIN cfg |-> cfg[i].debounce]
NotDebounced(cfg) == {i \in DOMAIN cfg : cfg[i].debounce = 0}
DebounceAttr(cfg, i) ==
  [id |-> "DEBOUNCE", mask |-> Sharing(PeriodKeys(cfg), i),
   period |-> cfg[i].debounce % PeriodMod]
SetDebouncePeriods(cfg) ==
  LET takers == Ascending(Takers(PeriodKeys(cfg), NotDebounced(cfg)))
  IN [k \in DOMAIN takers |-> DebounceAttr(cfg, takers[k])]

\* set_flags: the first line's flags are the request's, the others get
\* attributes.
FlagKeys(cfg) == [i \in DOMAIN cfg |-> FlagPart(cfg[i])]
TakenByDefaultFirst(cfg) == {j \in DOMAIN cfg : j = 1}
TakenByDefault(cfg) == {j \in DOMAIN cfg : SettingsEqual(cfg[1], cfg[j])}
FlagsAttr(cfg, i) ==
  [id |-> "FLAGS", mask |-> Sharing(FlagKeys(cfg), i), flags |-> MakeKernelFlags(cfg[i])]
SetFlags(cfg) ==
  LET takers == Ascending(Takers(FlagKeys(cfg), TakenByDefault(cfg)))
  IN [k \in DOMAIN takers |-> FlagsAttr(cfg, takers[k])]

\* gpiod_line_config_to_uapi: E2BIG if an attribute does not fit.
Fits(attrs) == Len(attrs) <= NumAttrsMax
TooBig == [ok |-> FALSE]
ToUapi(cfg, vals) ==
  LET attrs == ValuesAttr(cfg, vals) \o SetDebouncePeriods(cfg) \o SetFlags(cfg)
  IN IF ~Fits(attrs) THEN TooBig
     ELSE [ok |-> TRUE, attrs |-> attrs,
           flags |-> IF cfg = <<>> THEN {} ELSE MakeKernelFlags(cfg[1])]

(***************************************************************************)
(* gpiod_line_config_get_line_settings: the settings read back, with the   *)
(* value set by position in place of their own.                            *)
(***************************************************************************)
GetLineSettings(i) ==
  IF i <= Len(outs) THEN [conf[order[i]] EXCEPT !.value = outs[i]] ELSE conf[order[i]]

-------------------------------------------------------------------------------
(***************************************************************************)
(* The kernel's reading of a request (lib/uapi/gpio.h): for each line, the *)
(* first attribute of the kind whose mask has it, else the default.        *)
(***************************************************************************)
AttrsFor(u, id, i) == {k \in DOMAIN u.attrs : u.attrs[k].id = id /\ i \in u.attrs[k].mask}
KernelFlags(u, i) ==
  LET a == AttrsFor(u, "FLAGS", i) IN IF a = {} THEN u.flags ELSE u.attrs[Min(a)].flags
KernelDebounce(u, i) ==
  LET a == AttrsFor(u, "DEBOUNCE", i) IN IF a = {} THEN 0 ELSE u.attrs[Min(a)].period
KernelValue(u, i) ==
  LET a == AttrsFor(u, "VALUES", i)
  IN IF a # {} /\ i \in u.attrs[Min(a)].values THEN 1 ELSE 0

-------------------------------------------------------------------------------
\* A configuration the user builds, call by call.
UapiTypeOK ==
  /\ order \in Seq(Offsets) /\ conf \in [ToSet(order) -> Settings]
  /\ outs \in Seq(Values)
  /\ LET u == ToUapi(PerLine, outs) IN u.ok => Len(u.attrs) \in 0..NumAttrsMax

\* The kernel drives each output to the value that reading the line's settings
\* back from the configuration shows, whether it was set by index or by position
\* (set_kernel_output_values, gpiod_line_config_get_line_settings).
ValuesReachLines ==
  LET u == ToUapi(PerLine, outs) IN
  u.ok => \A i \in DOMAIN order :
            conf[order[i]].direction = "output" =>
              KernelValue(u, i) = GetLineSettings(i).value

\* A configuration is refused exactly when the distinct things it asks for
\* are more than the attributes: sharing is never missed, nor is the array
\* overrun.
Needed ==
  LET used == {conf[order[i]] : i \in DOMAIN order}
  IN (IF \E s \in used : s.direction = "output" THEN 1 ELSE 0)
     + Cardinality({s.debounce : s \in used} \ {0})
     + Cardinality({FlagPart(s) : s \in used}) - 1
RefusedWhenFull ==
  order # <<>> => (ToUapi(PerLine, outs).ok <=> Needed <= NumAttrsMax)
===============================================================================
