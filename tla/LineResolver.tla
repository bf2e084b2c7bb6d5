----------------------------- MODULE LineResolver -------------------------------
(***************************************************************************)
(* How the command-line tools find the lines the user names                *)
(* (tools/tools-common.c): the chips are opened in turn and the info of    *)
(* each line is read, until every line is found or, when names must be     *)
(* unique, until the end.  With a chip given, an id that is a number is an *)
(* offset first and a name second.                                         *)
(*                                                                         *)
(* Chips come and go meanwhile.  A chip is opened, read line by line and   *)
(* closed in separate steps, and opened again by its path when its lines   *)
(* are requested.                                                          *)
(***************************************************************************)
EXTENDS OffsetLists

CONSTANTS
  Names,       \* line names, and the ids a user gives
  NoName,      \* of a line without a name
  AsOffset,    \* parse_uint of each id: an offset, or -1
  NumPaths,    \* chip devices there may be, numbered in the order of /dev
  Layouts,     \* what a chip can look like: the names of its lines, by offset
  Replacements, \* ... and one that takes the place of another
  IdLists,     \* the ids of a command line
  MaxMoves     \* bound: times a chip is taken away or replaced

ASSUME ResolverAssumption ==
  /\ NoName \notin Names
  /\ AsOffset \in [Names -> Nat \cup {-1}]
  /\ NumPaths \in Nat \ {0}
  /\ Layouts \subseteq Seq(Names \cup {NoName}) \ {<<>>}
  /\ Replacements \subseteq Layouts
  /\ IdLists \subseteq Seq(Names) \ {<<>>}
  /\ MaxMoves \in Nat

VARIABLES
  dev,         \* the names of the lines of the chip at each path
  moves,
  args,        \* the ids and options of the command line
  pc, why,     \* where the program is, and why it ended
  paths,       \* the paths found by scanning /dev, or the one given
  i, at,       \* loop indices: path and offset
  fd,          \* the chip being read: none, live, or dead (its device is gone)
  lines,       \* resolver->lines
  chips,       \* resolver->chips: the paths of the chips that are used
  found,       \* resolver->num_found
  used,        \* chip_used
  seen         \* history: what was read of each chip, when it was opened

rvars == <<dev, moves, args, pc, why, paths, i, at, fd, lines, chips, found,
           used, seen>>
LookupState == <<args, paths, i, at, fd, lines, chips, found, used, seen>>
StayedOn == <<dev, moves, why, LookupState>>

Paths   == 0 .. NumPaths - 1
NoChip  == -1              \* no chip option
Gone    == <<>>            \* no chip at this path
Reasons == {"running", "ok", "nochip", "io", "notunique", "invalid", "request",
            "blank", "failed", "values"}

Unresolved == [resolved |-> FALSE, chip |-> -1, offset |-> 0]

ResolverInit ==
  /\ dev \in [Paths -> Layouts \cup {Gone}]
  /\ moves = 0
  /\ args = [ids |-> <<>>, chip |-> NoChip, strict |-> FALSE, byName |-> TRUE]
  /\ pc = "start" /\ why = "running"
  /\ paths = <<>> /\ i = 0 /\ at = 0 /\ fd = "none"
  /\ lines = <<>> /\ chips = <<>> /\ found = 0 /\ used = FALSE
  /\ seen = [p \in Paths |-> Gone]

\* die(): the process ends, its files are closed
Die(reason) == pc' = "exit" /\ why' = reason

\* resolve_done
Done == ~args.strict /\ found >= Len(lines)

\* gpiod_is_gpiochip_device: what the path leads to, links followed, is a chip
IsGpiochip(p) == dev[p] # Gone

\* chip_paths and resolver_init: with a chip given it is the only path, else the
\* paths of the chips in /dev; without a chip there are no offsets
Scanned(chip) ==
  IF chip = NoChip
    THEN Ascending({p \in Paths : IsGpiochip(p)})
    ELSE <<chip>>

Start(ids, chip, strict, byName) ==
  /\ pc = "start"
  /\ chip # NoChip => IsGpiochip(chip)
  /\ args' = [ids |-> ids, chip |-> chip, strict |-> strict,
              byName |-> byName \/ chip = NoChip]
  /\ paths' = Scanned(chip)
  /\ lines' = [k \in DOMAIN ids |-> Unresolved]
  /\ pc' = "chip"
  /\ UNCHANGED <<dev, moves, why, i, at, fd, chips, found, used, seen>>

StartNoChip(chip) ==
  /\ pc = "start"
  /\ ~IsGpiochip(chip)
  /\ Die("nochip")
  /\ UNCHANGED <<dev, moves, LookupState>>

-----------------------------------------------------------------------------
(* One chip *)

Path     == paths[i + 1]
NumLines == Len(seen[Path])

\* resolve_lines_by_offset
IsOffset(id, n) == AsOffset[id] # -1 /\ AsOffset[id] < n
ByOffset(n) ==
  [k \in DOMAIN lines |->
     IF IsOffset(args.ids[k], n)
       THEN [resolved |-> TRUE, chip |-> 0, offset |-> AsOffset[args.ids[k]]]
       ELSE lines[k]]

OpenChip ==
  /\ pc = "chip" /\ i < Len(paths) /\ ~Done
  /\ IsGpiochip(Path)
  /\ seen' = [seen EXCEPT ![Path] = dev[Path]]
  /\ lines' = IF args.byName THEN lines ELSE ByOffset(Len(dev[Path]))
  /\ used' = (~args.byName /\ \E id \in Range(args.ids) :
                                IsOffset(id, Len(dev[Path])))
  /\ at' = 0 /\ fd' = "live" /\ pc' = "line"
  /\ UNCHANGED <<dev, moves, args, why, paths, i, chips, found>>

\* no permission: the chip is passed over, unless it is the one asked for
OpenDenied ==
  /\ pc = "chip" /\ i < Len(paths) /\ ~Done
  /\ IsGpiochip(Path)
  /\ IF args.chip = NoChip
       THEN i' = i + 1 /\ UNCHANGED <<pc, why>>
       ELSE Die("io") /\ UNCHANGED i
  /\ UNCHANGED <<dev, moves, args, paths, at, fd, lines, chips, found, used, seen>>

OpenGone ==
  /\ pc = "chip" /\ i < Len(paths) /\ ~Done
  /\ ~IsGpiochip(Path)
  /\ Die("io")
  /\ UNCHANGED <<dev, moves, LookupState>>

\* resolve_line.  The first test compares with the index of the path, the number
\* stored is that of the used chip.
FoundByOffset(k) ==
  lines[k].resolved /\ lines[k].offset = at /\ lines[k].chip = i
HasName(k) == seen[Path][at + 1] = args.ids[k]
FoundByName(k) == HasName(k) /\ ~lines[k].resolved
NotUnique(k) == HasName(k) /\ lines[k].resolved /\ args.strict

\* Mutant: the index of the path is stored.
PathNumber == i
ChipNumber == Len(chips)

ResolveLine ==
  /\ lines' = [k \in DOMAIN lines |->
                 IF FoundByName(k)
                   THEN [resolved |-> TRUE, chip |-> ChipNumber, offset |-> at]
                   ELSE lines[k]]
  /\ LET ByOff == {k \in DOMAIN lines : FoundByOffset(k)}
         ByNam == {k \in DOMAIN lines : FoundByName(k)}
     IN  /\ found' = found + Cardinality(ByOff) + Cardinality(ByNam)
         /\ used' = (used \/ ByOff \cup ByNam # {})

ReadLine ==
  /\ pc = "line" /\ at < NumLines /\ ~Done
  /\ fd = "live"
  /\ ~ \E k \in DOMAIN lines : NotUnique(k)
  /\ ResolveLine
  /\ at' = at + 1
  /\ UNCHANGED <<dev, moves, args, pc, why, paths, i, fd, chips, seen>>

ReadLineNotUnique ==
  /\ pc = "line" /\ at < NumLines /\ ~Done
  /\ fd = "live"
  /\ \E k \in DOMAIN lines : NotUnique(k)
  /\ Die("notunique")
  /\ UNCHANGED <<dev, moves, LookupState>>

ReadLineFails ==
  /\ pc = "line" /\ at < NumLines /\ ~Done
  /\ fd = "dead"
  /\ Die("io")
  /\ UNCHANGED <<dev, moves, LookupState>>

CloseChip ==
  /\ pc = "line" /\ (at = NumLines \/ Done)
  /\ chips' = IF used THEN Append(chips, Path) ELSE chips
  /\ i' = i + 1 /\ fd' = "none" /\ pc' = "chip"
  /\ UNCHANGED <<dev, moves, args, why, paths, at, lines, found, used, seen>>

-----------------------------------------------------------------------------
(* validate_resolution *)

SameLine(k, l) == /\ lines[k].resolved /\ lines[l].resolved
                  /\ lines[k].chip = lines[l].chip
                  /\ lines[k].offset = lines[l].offset

ValidLines ==
  \A k \in DOMAIN lines :
    /\ lines[k].resolved
    /\ \A l \in 1 .. k - 1 : ~SameLine(l, k)

LookedUp == pc = "chip" /\ (i = Len(paths) \/ Done)

Validate ==
  /\ LookedUp /\ ValidLines
  /\ pc' = "values"
  /\ UNCHANGED <<dev, moves, why, LookupState>>

Invalid ==
  /\ LookedUp /\ ~ValidLines
  /\ Die("invalid")
  /\ UNCHANGED <<dev, moves, LookupState>>

\* get_line_offsets_and_values: the lines of a chip, in the order of the ids
LinesOf(c) == Ascending({k \in DOMAIN lines : lines[k].chip = c})

-----------------------------------------------------------------------------
(* A chip is removed, or another one takes its place, while the program runs *)

Move(p, layout) ==
  /\ moves < MaxMoves /\ pc \notin {"start", "exit"}
  /\ dev[p] # Gone /\ layout # dev[p]
  /\ dev' = [dev EXCEPT ![p] = layout]
  /\ moves' = moves + 1
  /\ fd' = IF fd = "live" /\ Path = p THEN "dead" ELSE fd
  /\ UNCHANGED <<args, pc, why, paths, i, at, lines, chips, found, used, seen>>

=================================================================================
