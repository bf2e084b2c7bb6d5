------------------------------ MODULE RequestPaths -------------------------------
(***************************************************************************)
(* The ways to a request: a C program that builds a line-config object     *)
(* call by call, gpiocli and other D-Bus clients through gpio-manager, and *)
(* a Python program.  All end in the same object, whose encoding the       *)
(* kernel reads.                                                           *)
(***************************************************************************)
EXTENDS DbusRequest, PyRequest

allVars == <<vars, stage, wanted, dbusVars, pyVars>>

PathsInit == Init /\ stage = "build" /\ wanted = <<>> /\ DbusInit /\ PyInit

\* a C program
Build == stage = "build" /\ Configure /\ UNCHANGED <<stage, wanted, dbusVars, pyVars>>

Request ==
  /\ \/ RequestLines /\ stage' = "granted"
     \/ (RequestTooBig \/ RequestRejected) /\ stage' = "refused"
  /\ UNCHANGED <<wanted, dbusVars, pyVars>>
CRequest == stage = "build" /\ order # <<>> /\ Request

\* a Python program
PyStart(cfg, vals) ==
  /\ stage = "build" /\ order = <<>> /\ outs = <<>>
  /\ PyConfigure(cfg, vals)
  /\ stage' = "py" /\ wanted' = MappedValues(vals)
  /\ UNCHANGED dbusVars
PyStartFails(cfg, vals) ==
  /\ stage = "build" /\ order = <<>> /\ outs = <<>>
  /\ PyRefuses(cfg, vals)
  /\ stage' = "refused"
  /\ UNCHANGED <<vars, wanted, dbusVars, pyVars>>
PyRequests == stage = "py" /\ requested = <<>> /\ Request

\* a dictionary of values, while the lines are as they were requested
PySets(vals) ==
  /\ stage = "granted" /\ nameMap # <<>>
  /\ \/ /\ PySetValues(vals)
        /\ wanted' = [o \in DOMAIN Mapped(vals) \cup DOMAIN wanted |->
                       IF o \in DOMAIN Mapped(vals) THEN Mapped(vals)[o] ELSE wanted[o]]
     \/ PySetRefused(vals) /\ UNCHANGED wanted
  /\ UNCHANGED <<stage, dbusVars, pyVars>>

PyReconfigures(cfg) ==
  /\ stage = "granted" /\ sent = NoVariant /\ nameMap # <<>>
  /\ PyReconfig(cfg)
  /\ stage' = "repy" /\ wanted' = <<>>
  /\ UNCHANGED dbusVars
\* whether the kernel left alone the lines no direction is asked for, or reset them
PyReconfigured ==
  /\ stage = "repy"
  /\ \/ /\ ReconfigureLines
        /\ stage' = IF line' = Reconfigured(TRUE) THEN "changed" ELSE "reset"
     \/ /\ ReconfigureTooBig \/ ReconfigureOtherLines \/ ReconfigureRejected
        /\ stage' = IF OffsetsEqual THEN "refused" ELSE "misplaced"
  /\ UNCHANGED <<wanted, dbusVars, pyVars>>

PathsNext ==
  \/ Build \/ CRequest
  \/ DbusNext /\ UNCHANGED pyVars
  \/ \E cfg \in PyConfigs, vals \in PyValues : PyStart(cfg, vals) \/ PyStartFails(cfg, vals)
  \/ PyRequests
  \/ \E vals \in PyValues : PySets(vals)
  \/ \E cfg \in PyConfigs : PyReconfigures(cfg)
  \/ PyReconfigured

PathsSpec == PathsInit /\ [][PathsNext]_allVars

-----------------------------------------------------------------------------

\* The information of a line that was requested with a direction says what its settings
\* were, for any way they were given and however the lines were grouped for the kernel
\* (gpiod_line_config_to_uapi, gpiod_line_info_from_uapi).
InfoTellsSettings ==
  stage = "granted" =>
    \A o \in ToSet(requested) :
      conf[o].direction # "as_is" => Tells(GetLineInfo(o), conf[o])

\* what is shown if an option was given, and if it was not
Option(o, opt, v, default) == IF opt \in o THEN v ELSE default

\* What gpiocli shows of a line that it requested or reconfigured with a direction is
\* what its options said, and nothing where they said nothing; of a debounce period, what
\* 32 bits of microseconds hold (make_line_config, gpiodbus_line_config_from_variant,
\* gpiodbus_line_set_props, get_line_properties).
ShownAsAsked ==
  stage = "shown" /\ asked.opts \cap {"input", "output"} # {} =>
    LET o == Spelt(asked.opts)
    IN  \A x \in ToSet(requested) :
          LET p == shown[x]
          IN  /\ p.used /\ p.direction \in o
              /\ p.active_low = ("active-low" \in o)
              /\ p.edge \in {"rising", "both"} <=> "rising-edge" \in o
              /\ p.edge \in {"falling", "both"} <=> "falling-edge" \in o
              /\ p.bias = Option(o, "pull-up", "pull-up", Option(o, "pull-down", "pull-down",
                            Option(o, "bias-disabled", "disabled", "")))
              /\ \A d \in {"open-drain", "open-source"} : p.drive = d <=> d \in o
              /\ p.clock = "realtime" <=> "clock-realtime" \in o
              /\ p.clock = "hte" <=> "clock-hte" \in o
              /\ p.debounce = asked.debounce % PeriodMod /\ p.debounced = (p.debounce # 0)

\* Lines that are configured by one variant in several groups get the settings of their
\* own group: what the group does not mention is the default (helpers.c).
KeptApart ==
  stage = "config" =>
    \A o \in ToSet(order) : \A f \in DOMAIN Defaults :
      LET own == sent.configs[Max({k \in DOMAIN sent.configs :
                                     o \in ToSet(sent.configs[k].offsets)})].settings
      IN  (f \in DOMAIN KeyOf => KeyOf[f] \notin DOMAIN own) => conf[o][f] = Defaults[f]

\* A value that was given for a line, with its name to gpiocli, by its place in a variant
\* or in Python's dictionaries, is what the line drives once it is requested as an output,
\* unless a variant or gpiocli named the line twice; and Python reads the lines it names
\* back in that order (set_values, get_values).
ValuesAsAsked ==
  stage = "granted" =>
    /\ \A o \in DOMAIN wanted \cap ToSet(requested) :
         conf[o].direction = "output" => line[o].value = wanted[o]
    /\ \A i, j \in {id \in Ids : KnownHere(id) /\ LineToOffset(id) \in ToSet(requested)} :
         PyGetValues(<<i, j>>) = <<line[LineToOffset(i)].value, line[LineToOffset(j)].value>>

\* Python reconfigures the lines that are given settings, by name or offset and in any
\* order, and the order of the call never makes it fail.  "If no entry exists, or a None
\* is passed as the settings, then the configuration for that line is not changed"
\* (line_request.py:168): flags, debounce period, direction and value stay where the
\* kernel leaves alone the lines no direction is asked for; where it does not, direction
\* and value stay and the rest is reset (reconfigure_lines).
GivenSettings == {o \in DOMAIN changed : changed[o] # NoSettings}
NamedLinesChange ==
  /\ stage # "misplaced"
  /\ stage \in {"changed", "reset"} =>
       \A o \in GivenSettings \cap ToSet(requested) :
         changed[o].direction # "as_is" => Tells(GetLineInfo(o), changed[o])
  /\ stage = "changed" =>
       \A o \in ToSet(requested) \ GivenSettings : line[o] = before[o]
  /\ stage = "reset" =>
       \A o \in ToSet(requested) \ GivenSettings :
         line[o].output = before[o].output /\ line[o].value = before[o].value

=================================================================================
