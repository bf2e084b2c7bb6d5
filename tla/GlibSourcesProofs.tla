--------------------------- MODULE GlibSourcesProofs ----------------------------
(***************************************************************************)
(* Proofs about the objects of the GLib bindings, for any chips, requests, *)
(* descriptors, events and sizes of the buffer: descriptors are open as    *)
(* long as they are owned, and a program that drops what it gives up in    *)
(* time never makes the bindings use it again.                             *)
(***************************************************************************)
EXTENDS GlibSources, FiniteSetTheorems, WellFoundedInduction, TLAPS

USE GlibAssumption DEF GlibAssumption

Shape ==
  /\ life \in [Objects -> {"absent", "alive", "gone"}]
  /\ handle \in [Objects -> {"none", "valid", "null", "freed"}]
  /\ fd \in [Objects -> Fds] /\ file \in [Fds -> Objects \cup {Free}]
  /\ ref \subseteq Objects /\ source \subseteq Objects /\ ready \subseteq source
  /\ pc = "handler" => running \in Objects
  /\ pc # "handler" => running = None

\* What is referenced or runs a handler is alive, and an object has had a handle since it is;
\* the sources are those of objects that are referenced or run a handler, and none is left
\* of one that is finalized.
Alive ==
  /\ \A o \in ref : life[o] = "alive"
  /\ \A o \in source : o \in ref \/ o = running
  /\ running # None => life[running] = "alive"
  /\ \A o \in Objects : life[o] = "absent" => handle[o] = "none"
  /\ \A o \in Objects : life[o] = "alive" => handle[o] # "none"

\* The inductive invariant.
GInv == Shape /\ Alive /\ FilesOwned /\ SafeIfDropped

LEMMA GlibInit == Init => GInv
<1> SUFFICES ASSUME Init PROVE GInv
  OBVIOUS
<1>1. 0 \in Fds
  BY DEF Fds
<1>2. Shape
  BY <1>1 DEF Init, Shape
<1>3. Alive /\ SafeIfDropped
  BY DEF Init, Alive, SafeIfDropped, None
<1>4. FilesOwned
  <2>1. \A o \in Objects : handle[o] = "none" /\ o # Free
    BY DEF Init, Objects, Free
  <2>2. \A f \in Fds : file[f] = Free
    BY DEF Init
  <2> QED BY <2>1, <2>2 DEF FilesOwned
<1> QED BY <1>2, <1>3, <1>4 DEF GInv

-----------------------------------------------------------------------------
(* Descriptors *)

\* A non-empty set of naturals has a least element.
LEMMA LeastIs ==
  ASSUME NEW T \in SUBSET Nat, T # {}
  PROVE  Min(T) \in T
<1> DEFINE R == OpToRel(<, Nat)
<1>1. IsWellFoundedOn(R, Nat)
  BY NatLessThanWellFounded
<1>2. \E x \in T : \A y \in T : ~(<<y, x>> \in R)
  <2> HIDE DEF R
  <2> QED BY <1>1, WFMin
<1>3. PICK x \in T : \A y \in T : ~(<<y, x>> \in R)
  BY <1>2
<1>4. \A y \in T : ~(y < x)
  BY <1>3 DEF OpToRel
<1>5. \E z \in T : \A y \in T : z =< y
  BY <1>4
<1> QED BY <1>5 DEF Min

\* There is a descriptor for an object that has none: each of the others has one at most.
LEMMA FdLeft ==
  ASSUME GInv, NEW o \in Objects, life[o] = "absent"
  PROVE  LowestFree \in Fds /\ file[LowestFree] = Free
<1>1. \E f \in Fds : file[f] = Free
  <2> SUFFICES ASSUME \A f \in Fds : file[f] # Free
               PROVE  FALSE
    OBVIOUS
  <2> DEFINE T == Objects \ {o}
  <2>1. file \in [Fds -> T]
    <3>1. handle[o] = "none"
      BY DEF GInv, Alive
    <3>2. {f \in Fds : file[f] = o} = {}
      BY <3>1 DEF GInv, FilesOwned
    <3> QED BY <3>2 DEF GInv, Shape
  <2>2. IsFiniteSet(Objects) /\ Cardinality(Objects) \in Nat
    BY FS_Union, FS_CardinalityType DEF Objects
  <2>3. IsFiniteSet(T) /\ Cardinality(T) = Cardinality(Objects) - 1
    BY <2>2, FS_RemoveElement
  <2>4. IsFiniteSet(Fds) /\ Cardinality(Fds) = NumFds
    <3>1. PICK m \in Nat : NumFds = m + 1 /\ m = NumFds - 1
      OBVIOUS
    <3>2. IsFiniteSet(0 .. m) /\ Cardinality(0 .. m) = m + 1
      <4>1. 0 \in Int /\ m \in Int /\ ~(0 > m) /\ m - 0 + 1 = m + 1
        OBVIOUS
      <4>2. IsFiniteSet(0 .. m)
            /\ Cardinality(0 .. m) = IF 0 > m THEN 0 ELSE m - 0 + 1
        BY <4>1, FS_Interval, Zenon
      <4> QED BY <4>1, <4>2, Zenon
    <3> QED BY <3>1, <3>2 DEF Fds
  <2>5. Cardinality(T) < Cardinality(Fds)
    BY <2>2, <2>3, <2>4 DEF Objects
  <2>6. PICK x \in Fds, y \in Fds : x # y /\ file[x] = file[y]
    <3> HIDE DEF T
    <3> QED BY <2>1, <2>3, <2>4, <2>5, FS_PigeonHole
  <2>7. file[x] \in Objects
    BY <2>1
  <2>8. PICK p \in Objects : p = file[x]
    BY <2>7
  <2>9. \A f \in Fds : file[f] = p => f \in IF handle[p] = "valid" THEN {fd[p]} ELSE {}
    BY DEF GInv, FilesOwned
  <2>10. x = fd[p] /\ y = fd[p]
    BY <2>6, <2>8, <2>9
  <2> QED BY <2>6, <2>10
<1> DEFINE F == {f \in Fds : file[f] = Free}
<1>2. F \subseteq Nat /\ F # {}
  BY <1>1 DEF Fds
<1>3. LowestFree \in F
  <2>1. LowestFree = Min(F)
    BY DEF LowestFree
  <2> HIDE DEF F
  <2> QED BY <1>2, <2>1, LeastIs
<1> QED BY <1>3

\* A new object owns its descriptor, and the others theirs.
LEMMA ConstructedInv ==
  ASSUME GInv, NEW o \in Objects, User, Constructed(o)
  PROVE  GInv'
<1> DEFINE n == LowestFree
<1>1. /\ life[o] = "absent" /\ life' = [life EXCEPT ![o] = "alive"]
      /\ ref' = ref \cup {o} /\ source' = source \cup {o}
      /\ handle' = [handle EXCEPT ![o] = "valid"]
      /\ fd' = [fd EXCEPT ![o] = n] /\ file' = [file EXCEPT ![n] = o]
      /\ UNCHANGED <<fault, pc, ready, running>>
  BY DEF Constructed, loop
<1>0. running # o
  BY <1>1 DEF GInv, Shape, Alive, Objects, None
<1>2. n \in Fds /\ file[n] = Free
  BY <1>1, FdLeft
<1> HIDE DEF n
<1>3. Shape'
  BY <1>1, <1>2 DEF GInv, Shape
<1>4. Alive'
  BY <1>0, <1>1 DEF GInv, Shape, Alive
<1>5. SafeIfDropped'
  BY <1>1 DEF User, SafeIfDropped
<1>6. FilesOwned'
  <2> SUFFICES ASSUME NEW p \in Objects
               PROVE  {f \in Fds : file'[f] = p}
                        = IF handle'[p] = "valid" THEN {fd'[p]} ELSE {}
    BY DEF FilesOwned
  <2>1. {f \in Fds : file[f] = p} = IF handle[p] = "valid" THEN {fd[p]} ELSE {}
    BY DEF GInv, FilesOwned
  <2>2. \A f \in Fds : file'[f] = IF f = n THEN o ELSE file[f]
    BY <1>1, <1>2 DEF GInv, Shape
  <2>3. CASE p = o
    <3>1. handle[o] = "none"
      BY <1>1 DEF GInv, Alive
    <3>2. \A f \in Fds : file[f] # o
      BY <2>1, <2>3, <3>1
    <3>3. handle'[o] = "valid" /\ fd'[o] = n
      BY <1>1 DEF GInv, Shape
    <3> QED BY <1>2, <2>2, <2>3, <3>2, <3>3
  <2>4. CASE p # o
    <3>1. p # Free
      BY DEF Objects, Free
    <3>2. \A f \in Fds : file'[f] = p <=> file[f] = p
      BY <1>2, <2>2, <2>4, <3>1
    <3>3. handle'[p] = handle[p] /\ fd'[p] = fd[p]
      BY <1>1, <2>4 DEF GInv, Shape
    <3> QED BY <2>1, <3>2, <3>3
  <2> QED BY <2>3, <2>4
<1> QED BY <1>3, <1>4, <1>5, <1>6 DEF GInv

\* The file of one object is closed, and no other.
LEMMA ClosedFiles ==
  ASSUME GInv, NEW o \in Objects, CloseFile(o),
         handle' \in [Objects -> {"none", "valid", "null", "freed"}], handle'[o] # "valid",
         \A p \in Objects \ {o} : handle'[p] = handle[p], UNCHANGED fd
  PROVE  FilesOwned' /\ file' \in [Fds -> Objects \cup {Free}]
<1>1. file' = [f \in Fds |-> IF file[f] = o THEN Free ELSE file[f]]
  BY DEF CloseFile
<1>2. file' \in [Fds -> Objects \cup {Free}]
  BY <1>1 DEF GInv, Shape
<1>3. ASSUME NEW p \in Objects
      PROVE  {f \in Fds : file'[f] = p} = IF handle'[p] = "valid" THEN {fd'[p]} ELSE {}
  <2>1. {f \in Fds : file[f] = p} = IF handle[p] = "valid" THEN {fd[p]} ELSE {}
    BY DEF GInv, FilesOwned
  <2>2. p # Free
    BY DEF Objects, Free
  <2>3. CASE p = o
    BY <1>1, <2>2, <2>3
  <2>4. CASE p # o
    <3>1. \A f \in Fds : file'[f] = p <=> file[f] = p
      BY <1>1, <2>2, <2>4
    <3> QED BY <2>1, <2>4, <3>1
  <2> QED BY <2>3, <2>4
<1> QED BY <1>2, <1>3 DEF FilesOwned

\* A chip is closed or a request released while its object and source stay.
LEMMA ClosedInv ==
  ASSUME GInv, NEW o \in Objects, NEW h \in {"null", "freed"}, o \in ref, CloseFile(o),
         handle' = [handle EXCEPT ![o] = h], fault = "none",
         UNCHANGED <<life, ref, source, fd, fault, pc, ready, running>>
  PROVE  GInv'
<1>1. handle' = [handle EXCEPT ![o] = h]
  OBVIOUS
<1>2. UNCHANGED <<life, ref, source, fd, fault, pc, ready, running>>
  OBVIOUS
<1>3. /\ handle' \in [Objects -> {"none", "valid", "null", "freed"}] /\ handle'[o] = h
      /\ \A p \in Objects \ {o} : handle'[p] = handle[p]
  BY <1>1 DEF GInv, Shape
<1>4. FilesOwned' /\ file' \in [Fds -> Objects \cup {Free}]
  BY <1>1, <1>2, <1>3, ClosedFiles
<1>5. Shape'
  BY <1>2, <1>3, <1>4 DEF GInv, Shape
<1>6. Alive'
  BY <1>2, <1>3 DEF GInv, Alive
<1>7. SafeIfDropped'
  BY <1>2 DEF SafeIfDropped
<1> QED BY <1>4, <1>5, <1>6, <1>7 DEF GInv

\* An object goes with its source and with the handle it still has.
LEMMA FinalizedInv ==
  ASSUME GInv, NEW o \in Objects, Finalized(o), o \notin ref', ref' \subseteq ref,
         ref \ {o} \subseteq ref', life[o] = "alive", UNCHANGED fd, fault' = "none",
         \/ running # o /\ UNCHANGED <<running, pc>>
         \/ running = o /\ running' = None /\ pc' = "dispatch"
  PROVE  GInv'
<1>1. /\ life' = [life EXCEPT ![o] = "gone"]
      /\ source' = source \ {o} /\ ready' = ready \cap source'
      /\ handle' = [handle EXCEPT ![o] = IF @ = "valid" THEN "freed" ELSE @]
      /\ IF handle[o] = "valid" THEN CloseFile(o) ELSE UNCHANGED file
  BY DEF Finalized, SourceAfterDispose
<1>2. /\ handle' \in [Objects -> {"none", "valid", "null", "freed"}]
      /\ handle'[o] # "valid" /\ handle'[o] # "none"
      /\ \A p \in Objects \ {o} : handle'[p] = handle[p]
  BY <1>1 DEF GInv, Shape, Alive
<1>3. FilesOwned' /\ file' \in [Fds -> Objects \cup {Free}]
  <2>1. CASE handle[o] = "valid"
    BY <1>1, <1>2, <2>1, ClosedFiles
  <2>2. CASE handle[o] # "valid"
    <3>1. UNCHANGED <<file, fd>> /\ handle' = handle
      BY <1>1, <2>2 DEF GInv, Shape
    <3> QED BY <3>1 DEF GInv, Shape, FilesOwned
  <2> QED BY <2>1, <2>2
<1>4. life' \in [Objects -> {"absent", "alive", "gone"}] /\ life'[o] = "gone"
      /\ \A p \in Objects \ {o} : life'[p] = life[p]
  BY <1>1 DEF GInv, Shape
<1>5. Shape'
  BY <1>1, <1>2, <1>3, <1>4 DEF GInv, Shape
<1>6. Alive'
  <2>1. \A p \in ref' : p # o /\ p \in ref /\ p \in Objects
    BY DEF GInv, Shape
  <2>2. running' # None => running' # o /\ running' = running /\ running \in Objects
    BY DEF GInv, Shape
  <2>3. \A p \in source' : p # o /\ (p \in ref' \/ p = running')
    <3>1. \A p \in source' : p # o /\ (p \in ref \/ p = running)
      BY <1>1 DEF GInv, Alive
    <3>2. CASE UNCHANGED <<running, pc>>
      BY <3>1, <3>2
    <3>3. CASE running = o
      BY <3>1, <3>3
    <3> QED BY <3>2, <3>3
  <2> QED BY <1>2, <1>4, <2>1, <2>2, <2>3 DEF GInv, Alive
<1> QED BY <1>3, <1>5, <1>6 DEF GInv, SafeIfDropped

-----------------------------------------------------------------------------
(* Steps *)

\* Objects, files and descriptors stay as they are.
LEMMA QuietInv ==
  ASSUME GInv, UNCHANGED <<life, ref, handle, fd, file>>,
         source' = source, ready' \subseteq source, SafeIfDropped',
         \/ UNCHANGED <<running, pc>>
         \/ running' \in ref /\ running' \in Objects /\ pc' = "handler" /\ running = None
         \/ running \in ref \cup {None} /\ running' = None /\ pc' # "handler"
  PROVE  GInv'
<1>1. Shape'
  BY DEF GInv, Shape
<1>2. Alive'
  <2>1. \A o \in source : o \in Objects /\ o # None /\ (o \in ref \/ o = running)
    BY DEF GInv, Alive, Shape, Objects, None
  <2>2. \A o \in source : o \in ref \/ o = running'
    BY <2>1
  <2> QED BY <2>2 DEF GInv, Alive, Shape
<1> QED BY <1>1, <1>2 DEF GInv, FilesOwned

LEMMA GlibStep ==
  ASSUME GInv, [Next]_vars
  PROVE  GInv'
<1>0. (fault' = "none" => SafeIfDropped') /\ ready \subseteq source
  BY DEF SafeIfDropped, GInv, Shape
<1>1. CASE UNCHANGED vars
  <2>1. SafeIfDropped'
    BY <1>1 DEF GInv, SafeIfDropped, Dropped, vars, objects, loop
  <2>2. ready \subseteq source
    BY DEF GInv, Shape
  <2> QED BY <1>1, <2>1, <2>2, QuietInv DEF vars, objects, kernel, loop
<1>2. ASSUME NEW c \in Chips, ChipNew(c) PROVE GInv'
  BY <1>2, ConstructedInv DEF ChipNew, Objects
<1>3. ASSUME NEW c \in Chips, NEW r \in Requests, ChipRequestLines(c, r) PROVE GInv'
  BY <1>3, ConstructedInv DEF ChipRequestLines, RequestNew, Objects
<1>4. ASSUME NEW c \in Chips, ChipNewFails(c) PROVE GInv'
  <2>1. /\ life[c] = "absent" /\ life' = [life EXCEPT ![c] = "gone"] /\ c \in Objects
        /\ UNCHANGED <<ref, handle, source, fd, fault, file, ready, running, pc>>
        /\ fault = "none"
    BY <1>4 DEF ChipNewFails, User, kernel, loop, Objects
  <2>2. life' \in [Objects -> {"absent", "alive", "gone"}] /\ life'[c] = "gone"
        /\ \A p \in Objects \ {c} : life'[p] = life[p]
    BY <2>1 DEF GInv, Shape
  <2>3. Shape'
    BY <2>1, <2>2 DEF GInv, Shape
  <2>4. Alive'
    <3>1. c \notin ref /\ (running # None => running # c)
      BY <2>1 DEF GInv, Alive
    <3> QED BY <2>1, <2>2, <3>1 DEF GInv, Alive, Shape
  <2> QED BY <2>1, <2>3, <2>4 DEF GInv, FilesOwned, SafeIfDropped
<1>5. ASSUME NEW c \in Chips, ChipClose(c) PROVE GInv'
  BY <1>5, ClosedInv DEF ChipClose, User, Objects, loop
<1>6. ASSUME NEW r \in Requests, RequestRelease(r) PROVE GInv'
  <2>1. CASE handle[r] = "valid" /\ UNCHANGED fault
    BY <1>6, <2>1, ClosedInv DEF RequestRelease, User, Objects, loop
  <2>2. CASE fault' = "released twice" /\ UNCHANGED <<handle, file>>
    <3>1. SafeIfDropped' /\ ready \subseteq source
      BY <2>2 DEF SafeIfDropped, GInv, Shape
    <3> QED BY <1>6, <2>2, <3>1, QuietInv DEF RequestRelease, loop
  <2> QED BY <1>6, <2>1, <2>2 DEF RequestRelease
<1>7. ASSUME NEW o \in Objects, Listen(o) \/ Unlisten(o) PROVE GInv'
  <2>1. /\ o \in ref /\ ~IsClosed(o) /\ Uses(o)
        /\ UNCHANGED <<life, ref, handle, source, fd, file, ready, running, pc>>
        /\ fault = "none"
    BY <1>7 DEF Listen, Unlisten, User, loop
  <2>2. handle[o] = "valid"
    BY <2>1 DEF IsClosed, GInv, Shape, Alive
  <2>3. fault' = fault
    BY <2>1, <2>2 DEF Uses
  <2>4. SafeIfDropped' /\ ready \subseteq source
    BY <2>1, <2>3 DEF SafeIfDropped, GInv, Shape
  <2> QED BY <2>1, <2>4, QuietInv
<1>8. ASSUME NEW o \in Objects, Unref(o) PROVE GInv'
  <2>1. o \in ref /\ ref' = ref \ {o} /\ UNCHANGED <<fd, fault, pc, running>> /\ fault = "none"
    BY <1>8 DEF Unref, User
  <2>2. CASE running = o
    <3>1. UNCHANGED <<life, handle, source, file, ready>>
      BY <1>8, <2>2 DEF Unref
    <3> QED BY <2>1, <2>2, <3>1 DEF GInv, Shape, Alive, FilesOwned, SafeIfDropped
  <2>3. CASE running # o
    <3>1. Finalized(o)
      BY <1>8, <2>3 DEF Unref
    <3>2. life[o] = "alive"
      BY <2>1 DEF GInv, Alive
    <3> QED BY <2>1, <2>3, <3>1, <3>2, FinalizedInv
  <2> QED BY <2>2, <2>3
<1>9. ASSUME NEW o \in Objects, Happens(o) PROVE GInv'
  BY <1>0, <1>9, QuietInv DEF Happens, objects, loop
<1>10. CASE Iterate
  <2>1. /\ ready' \subseteq source /\ pc' = "dispatch" /\ fault' = "none" /\ running = None
        /\ UNCHANGED <<life, ref, handle, source, fd, file, running>>
    BY <1>10 DEF Iterate, objects, kernel, GInv, Shape
  <2> QED BY <1>0, <2>1, QuietInv
<1>11. CASE EndIteration
  <2>1. running = None
    BY <1>11 DEF EndIteration, GInv, Shape
  <2> QED BY <1>0, <1>11, <2>1, QuietInv DEF EndIteration, objects, kernel
<1>12. CASE HandlerReturns
  BY <1>0, <1>12, QuietInv DEF HandlerReturns, objects, kernel
<1>13. CASE HandlerDropped
  <2>1. /\ running \in Objects /\ running \notin ref /\ Finalized(running)
        /\ ref' = ref /\ fd' = fd /\ pc' = "dispatch" /\ running' = None
        /\ fault' = "none"
    BY <1>13 DEF HandlerDropped, GInv, Shape
  <2>2. life[running] = "alive"
    <3>1. running # None
      BY <2>1 DEF Objects, None
    <3> QED BY <3>1 DEF GInv, Alive
  <2> QED BY <2>1, <2>2, FinalizedInv
<1>14. ASSUME NEW o \in Objects, Dispatch(o) PROVE GInv'
  <2>1. /\ o \in ready /\ ready' = ready \ {o} /\ source' = source
        /\ pc = "dispatch" /\ fault' = "none"
        /\ \/ running' = o /\ pc' = "handler"
           \/ UNCHANGED <<running, pc>>
        /\ UNCHANGED <<life, ref, handle, fd, file>>
    BY <1>14 DEF Dispatch, AfterFailedRead
  <2>2. running = None /\ o \in ref
    BY <2>1 DEF GInv, Shape, Alive, Objects, None
  <2> QED BY <1>0, <2>1, <2>2, QuietInv
<1>15. ASSUME NEW o \in Objects, DispatchClosed(o) PROVE GInv'
  <2>1. /\ o \in ready /\ ready' = ready \ {o} /\ handle[o] # "valid" /\ pc = "dispatch"
        /\ UNCHANGED <<life, ref, handle, source, fd, file, pc, running>>
    BY <1>15 DEF DispatchClosed, kernel
  <2>2. o \in ref
    BY <2>1 DEF GInv, Shape, Alive, Objects, None
  <2>3. SafeIfDropped'
    BY <2>1, <2>2 DEF SafeIfDropped, Dropped
  <2> QED BY <1>0, <2>1, <2>3, QuietInv
<1>16. CASE HandlerDroppedEarly
  <2>1. /\ pc = "handler" /\ running \notin ref /\ batch > 1
        /\ UNCHANGED <<life, ref, handle, source, fd, file, pc, ready, running, batch>>
    BY <1>16 DEF HandlerDroppedEarly, kernel, loop
  <2>2. SafeIfDropped'
    BY <2>1 DEF SafeIfDropped, Dropped
  <2> QED BY <1>0, <2>1, <2>2, QuietInv
<1> QED BY <1>1, <1>2, <1>3, <1>4, <1>5, <1>6, <1>7, <1>8, <1>9, <1>10, <1>11, <1>12, <1>13,
           <1>14, <1>15, <1>16
        DEF Next, LoopStep

-----------------------------------------------------------------------------
(* Theorems *)

\* Objects, handles, sources and descriptors agree in every reachable state.
THEOREM Invariance == Spec => []GInv
<1>1. Init => GInv
  BY GlibInit
<1>2. GInv /\ [Next]_vars => GInv'
  BY GlibStep
<1> QED BY <1>1, <1>2, PTL DEF Spec

\* If a program drops in time what it closes and releases, the bindings never use what was
\* given up: a source goes with its object, an object that runs a handler lives on until
\* the handler returns, and methods look before they use a handle (_dispose, _finalize,
\* is_closed, is_released).
THEOREM SafeUse == Spec => []SafeIfDropped
<1>1. GInv => SafeIfDropped
  BY DEF GInv
<1> QED BY <1>1, Invariance, PTL

\* A descriptor is open exactly as long as its object has its handle: nothing leaks, and no
\* other object's file is closed (gpiod_chip_close, gpiod_line_request_release, _finalize).
THEOREM FilesKept == Spec => []FilesOwned
<1>1. GInv => FilesOwned
  BY DEF GInv
<1> QED BY <1>1, Invariance, PTL
=================================================================================
