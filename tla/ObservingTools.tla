----------------------------- MODULE ObservingTools -----------------------------
(***************************************************************************)
(* The tools that only look: gpiomon, gpionotify, gpioget, gpioinfo and    *)
(* gpiodetect, each run by itself over chips that come and go.  All but    *)
(* the last two find their lines with LineResolver first.                  *)
(***************************************************************************)
EXTENDS EventTools, ReadingTools

CONSTANT Searches  \* the options of the search: strict, by name

ASSUME SearchesAssumption == Searches \subseteq BOOLEAN \X BOOLEAN

vars == <<rvars, evars, gvars>>

Init == ResolverInit /\ EventInit /\ ReadingInit

Lookup ==
  /\ \/ \E ids \in IdLists, c \in Paths \cup {NoChip}, search \in Searches :
          Start(ids, c, search[1], search[2])
     \/ \E c \in Paths : StartNoChip(c)
     \/ OpenChip \/ OpenDenied \/ OpenGone
     \/ ReadLine \/ ReadLineNotUnique \/ ReadLineFails \/ CloseChip
     \/ Validate \/ Invalid
  /\ UNCHANGED <<evars, gvars>>

DeviceChanges(p, layout) ==
  /\ Move(p, layout)
  /\ FilesDie(p) /\ RequestDies(p)
  /\ UNCHANGED <<tool, opts, watched, queue, made, flagged, turn, batch, told, passed,
                 lost, reading, done, value, level, listed, failed>>

Next ==
  \/ Lookup
  \/ EventNext /\ UNCHANGED gvars
  \/ ReadingNext /\ UNCHANGED evars
  \/ \E p \in Paths, layout \in Replacements \cup {Gone} : DeviceChanges(p, layout)

\* the programs wait for nothing but poll, and run on when it returns
Fairness == WF_vars(EventStep /\ UNCHANGED gvars)

Spec == Init /\ [][Next]_vars /\ Fairness
=================================================================================
