-------------------------------- MODULE LineInfo --------------------------------
(***************************************************************************)
(* Settings as a program stores them (lib/line-settings.c) and line        *)
(* information as it reads it back from the kernel (lib/line-info.c), at   *)
(* the two ends of a request.                                              *)
(***************************************************************************)
EXTENDS LineRequest

\* gpiod_line_settings_reset
Defaults ==
  [direction |-> "as_is", edge |-> "none", bias |-> "as_is", drive |-> "push_pull",
   active_low |-> FALSE, clock |-> "monotonic", debounce |-> 0, value |-> 0]

Allowed ==
  [direction |-> {"as_is", "input", "output"},
   edge |-> {"none", "rising", "falling", "both"},
   bias |-> {"as_is", "disabled", "pull_up", "pull_down"},
   drive |-> {"push_pull", "open_drain", "open_source"},
   clock |-> {"monotonic", "realtime", "hte"}]

\* a setter: what is not a choice resets the field
Stored(field, v) ==
  IF field \in DOMAIN Allowed /\ v \notin Allowed[field] THEN Defaults[field] ELSE v

\* the kernel's gpio_v2_line_info of a line
KernelInfo(o) ==
  (line[o].flags \ {"INPUT", "OUTPUT"})
    \cup {IF line[o].output THEN "OUTPUT" ELSE "INPUT"}
    \cup (IF line[o].user = "nobody" THEN {} ELSE {"USED"})

InfoBias(f) ==
  CASE "BIAS_PULL_UP" \in f -> "pull_up"
    [] "BIAS_PULL_DOWN" \in f -> "pull_down"
    [] "BIAS_DISABLED" \in f -> "disabled"
    [] OTHER -> "unknown"

InfoDrive(f) ==
  CASE "OPEN_DRAIN" \in f -> "open_drain"
    [] "OPEN_SOURCE" \in f -> "open_source"
    [] OTHER -> "push_pull"

\* Mutant: each edge on its own is looked at before both.
InfoEdgeOneFirst(f) ==
  IF "EDGE_RISING" \in f THEN "rising"
  ELSE IF "EDGE_FALLING" \in f THEN "falling" ELSE "none"
InfoEdge(f) ==
  IF {"EDGE_RISING", "EDGE_FALLING"} \subseteq f THEN "both"
  ELSE IF "EDGE_RISING" \in f THEN "rising"
  ELSE IF "EDGE_FALLING" \in f THEN "falling" ELSE "none"

InfoClock(f) ==
  IF "CLOCK_REALTIME" \in f THEN "realtime"
  ELSE IF "CLOCK_HTE" \in f THEN "hte" ELSE "monotonic"

\* gpiod_line_info_from_uapi
InfoFromUapi(f, period) ==
  [used |-> "USED" \in f,
   direction |-> IF "OUTPUT" \in f THEN "output" ELSE "input",
   active_low |-> "ACTIVE_LOW" \in f,
   bias |-> InfoBias(f), drive |-> InfoDrive(f), edge |-> InfoEdge(f),
   clock |-> InfoClock(f),
   debounced |-> period # 0, debounce |-> period]

GetLineInfo(o) == InfoFromUapi(KernelInfo(o), line[o].debounce)

-----------------------------------------------------------------------------

\* What the information of a requested line says when all its settings took effect.
Tells(info, s) ==
  /\ info.used
  /\ info.direction = s.direction /\ info.active_low = s.active_low
  /\ info.bias = IF s.bias = "as_is" THEN "unknown" ELSE s.bias
  /\ info.drive = s.drive /\ info.edge = s.edge /\ info.clock = s.clock
  /\ info.debounce = s.debounce % PeriodMod
=================================================================================
