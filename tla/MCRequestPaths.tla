----------------------------- MODULE MCRequestPaths ------------------------------
(***************************************************************************)
(* A chip of three lines, two of them named, the name of line 2 a number.  *)
(* A C program builds every configuration there is out of six settings:    *)
(* inputs that differ in clock, edges and debounce period, two periods     *)
(* equal modulo PeriodMod, and outputs of either value.  With room for     *)
(* three attributes some need more.  gpiocli is given options that fit     *)
(* together and some that do not, other D-Bus clients send groups of lines *)
(* that overlap, and a Python program names lines in every way.            *)
(***************************************************************************)
EXTENDS RequestPaths

MCOffsets == 0..2
MCValues == {0, 1}

Plain == [direction |-> "input", edge |-> "none", bias |-> "as_is",
          drive |-> "push_pull", active_low |-> FALSE, clock |-> "monotonic",
          debounce |-> 0, value |-> 0]
Output == [Plain EXCEPT !.direction = "output"]
MCSettings ==
  {[Plain EXCEPT !.debounce = 5],
   [Plain EXCEPT !.debounce = 13],
   [Plain EXCEPT !.debounce = 13, !.clock = "realtime"],
   [Plain EXCEPT !.debounce = 6, !.clock = "realtime", !.edge = "both"],
   [Output EXCEPT !.drive = "open_drain", !.active_low = TRUE],
   [Output EXCEPT !.value = 1]}

MCOptionSets ==
  {{}, {"active-low"}, {"pull-up"}, {"rising-edge"}, {"input", "output"},
   {"output", "push-pull", "open-drain"}, {"input", "pull-up", "pull-down"},
   {"input", "clock-hte"}, {"input", "open-source"}}
    \cup {{"input"} \cup b : b \in {{}, {"pull-up"}, {"pull-down"}, {"bias-disabled"}}}
    \cup {{"input"} \cup e :
            e \in {{"rising-edge"}, {"falling-edge", "clock-monotonic"}, {"both-edges"},
                   {"rising-edge", "falling-edge", "clock-realtime"},
                   {"both-edges", "clock-hte", "active-low"}}}
    \cup {{"output"} \cup d :
            d \in {{}, {"push-pull"}, {"open-drain", "active-low"}, {"open-source"}}}
MCPeriods == {0, 5, 8}
MCLineLists == {<<1>>, <<2, 0>>, <<1, 1>>}

Group(offs, dict) == [offsets |-> offs, settings |-> dict]
MCVariants ==
  {[configs |-> <<Group(g, d), Group(h, e)>>, values |-> v] :
     g \in {<<0>>, <<1, 0>>}, h \in {<<2>>, <<0, 2>>},
     d \in {"direction" :> "output" @@ "active-low" :> TRUE,
            "direction" :> "input" @@ "edge" :> "both" @@ "debounce-period" :> 5},
     e \in {"direction" :> "output" @@ "active-low" :> FALSE, "bias" :> "as-is",
            "edge" :> "none", "value" :> 1},
     v \in {<<>>, <<1>>, <<0, 1, 1>>}}
    \cup {[configs |-> <<Group(<<>>, "direction" :> "input")>>, values |-> <<>>],
          [configs |-> <<>>, values |-> <<1>>]}

MCIds == {"led", "0", "2", "one", "n0", "n1", "n7"}
MCNames == [o \in MCOffsets |-> IF o = 1 THEN "led" ELSE IF o = 2 THEN "0" ELSE "?"]
MCNumber == [led |-> -1, one |-> -1, n0 |-> 0, n1 |-> 1, n7 |-> 7] @@ ("0" :> 0) @@ ("2" :> 2)
MCInteger == {"n0", "n1", "n7"}
Entries(ids, s) == [k \in DOMAIN ids |-> [id |-> ids[k], settings |-> s]]
Floating == [Plain EXCEPT !.direction = "as_is", !.bias = "pull_up"] \* rejected
MCPyConfigs ==
  {Entries(a, s) \o Entries(b, t) :
     a \in {<<"led">>, <<"2", "n1">>, <<"n7">>}, b \in {<<"n0", "0">>, <<"n0">>, <<"one">>},
     s \in {NoSettings, Output, Floating},
     t \in {[Plain EXCEPT !.edge = "rising"], [Output EXCEPT !.value = 1]}}
MCPyValues ==
  {<<>>} \cup {<<[id |-> i, value |-> 1]>> : i \in {"led", "2", "one"}}
    \cup {<<[id |-> i, value |-> 0], [id |-> j, value |-> 1]>> :
            i \in {"led", "2", "0"}, j \in {"n0", "n1"}}
==================================================================================
