------------------------------- MODULE PyRequest ---------------------------------
(***************************************************************************)
(* Requests made with the Python bindings (bindings/python/gpiod/chip.py,  *)
(* line_request.py): lines go by name or by offset, settings and values    *)
(* come in dictionaries, and the library wants lists.                      *)
(***************************************************************************)
EXTENDS LineInfo

CONSTANTS
  Ids,         \* what a program calls a line
  NameAt,      \* the names of the chip's lines, by offset
  Number,      \* the offset an id stands for as a number, or -1
  Integer,     \* the ids that are integers and no strings
  PyConfigs,   \* dictionaries from ids to settings, as sequences of entries; a key of
               \* several ids is as many entries
  PyValues     \* dictionaries from ids to values, as sequences of entries

VARIABLES
  nameMap,     \* LineRequest._name_map
  changed,     \* history: settings given to reconfigure_lines, by offset
  before       \* history: the lines before they were reconfigured

pyVars == <<nameMap, changed, before>>
PyInit == nameMap = <<>> /\ changed = <<>> /\ before = <<>>

Unknown == -1
NoSettings == [none |-> TRUE] \* None

ASSUME PyAssumption ==
  /\ Offsets \subseteq Nat
  /\ PyConfigs \subseteq Seq([id : Ids, settings : AllSettings \cup {NoSettings}])
  /\ PyValues \subseteq Seq([id : Ids, value : Values])

\* gpiod_chip_get_line_offset_from_name: the first line of that name
OffsetFromName(id) ==
  LET bearing == {o \in Offsets : NameAt[o] = id}
  IN  IF bearing = {} THEN Unknown ELSE Min(bearing)

\* Chip.line_offset_from_id: a name first, then a number
LineOffsetFromId(id) ==
  IF id \notin Integer /\ OffsetFromName(id) # Unknown THEN OffsetFromName(id)
  ELSE IF Number[id] \in Offsets THEN Number[id] ELSE Unknown

\* the entries' lines
OffsetsOf(entries) == [k \in DOMAIN entries |-> LineOffsetFromId(entries[k].id)]

\* no line that is not there, and none twice
Sane(cfg) == IsInjective(OffsetsOf(cfg)) /\ Unknown \notin Range(OffsetsOf(cfg))

\* a dictionary keeps the last of the entries for a key
LastFor(offs, o) == Max({k \in DOMAIN offs : offs[k] = o})
ByOffset(offs, vals) == [o \in Range(offs) |-> vals[LastFor(offs, o)].value]
MappedValues(vals) == ByOffset(OffsetsOf(vals), vals)

\* Mutant: the values in the order of their own dictionary.
GlobalValuesAsGiven(offs, vals) == [k \in DOMAIN vals |-> vals[k].value]
\* a value for each line, in the order of the lines
GlobalValues(offs, vals) ==
  IF vals = <<>> THEN <<>>
  ELSE [k \in DOMAIN offs |-> IF offs[k] \in DOMAIN MappedValues(vals)
                                THEN MappedValues(vals)[offs[k]] ELSE 0]

\* _line_settings_to_ext: None is the default settings
ToExt(s) == IF s = NoSettings THEN Defaults ELSE s

\* Chip.request_lines, up to the request itself
PyConfigure(cfg, vals) ==
  LET offs == OffsetsOf(cfg)
  IN  /\ Sane(cfg) /\ Unknown \notin Range(OffsetsOf(vals))
      /\ Len(offs) <= LinesMax
      /\ order' = offs
      /\ conf' = [o \in Range(offs) |-> ToExt(cfg[IndexIn(offs, o)].settings)]
      /\ outs' = GlobalValues(offs, vals)
      /\ nameMap' = [id \in {cfg[k].id : k \in DOMAIN cfg} \ Integer |-> LineOffsetFromId(id)]
      /\ UNCHANGED <<requested, fd, line, changed, before>>

PyRefuses(cfg, vals) ==
  ~Sane(cfg) \/ Len(cfg) > LinesMax \/ Unknown \in Range(OffsetsOf(vals))

\* LineRequest._line_to_offset: an integer is not looked at, a string must be a name
\* that was requested
KnownHere(id) == id \in Integer \/ id \in DOMAIN nameMap
LineToOffset(id) == IF id \in Integer THEN Number[id] ELSE nameMap[id]

OffsetsNamed(entries) == [k \in DOMAIN entries |-> LineToOffset(entries[k].id)]
AllKnown(entries) == \A k \in DOMAIN entries : KnownHere(entries[k].id)

\* LineRequest.get_values
PyGetValues(ids) == ValuesAt([k \in DOMAIN ids |-> LineToOffset(ids[k])])

\* LineRequest.set_values: a dictionary has each offset once, with the last of its values
Mapped(vals) == ByOffset(OffsetsNamed(vals), vals)
Keys(vals) == FirstOccurrences(OffsetsNamed(vals))

PySetValues(vals) ==
  LET offs == Keys(vals)
      new  == [k \in DOMAIN offs |-> Mapped(vals)[offs[k]]]
  IN  /\ AllKnown(vals)
      /\ SetValuesSubset(offs, new)

PySetRefused(vals) ==
  /\ AllKnown(vals)
  /\ ValuesBadOffsets(Keys(vals)) \/ SetValuesNotOutput(Keys(vals))

\* the settings of each offset, the last that are given
SettingsByOffset(cfg) ==
  LET offs == OffsetsNamed(cfg)
  IN  [o \in Range(offs) |-> cfg[LastFor(offs, o)].settings]

\* Mutant: the new configuration has the lines that are named, in that order.
PyOffsetsNamed(cfg) == FirstOccurrences(OffsetsNamed(cfg))
\* the new configuration has all lines of the request, in its order
PyOffsets(cfg) == requested

\* LineRequest.reconfigure_lines, up to the call of the library
PyReconfig(cfg) ==
  /\ requested # <<>> /\ AllKnown(cfg)
  /\ order' = PyOffsets(cfg)
  /\ conf' = [o \in Range(PyOffsets(cfg)) |->
                IF o \in DOMAIN SettingsByOffset(cfg) THEN ToExt(SettingsByOffset(cfg)[o])
                ELSE Defaults]
  /\ outs' = <<>>
  /\ changed' = SettingsByOffset(cfg) /\ before' = line
  /\ UNCHANGED <<requested, fd, line, nameMap>>
=================================================================================
