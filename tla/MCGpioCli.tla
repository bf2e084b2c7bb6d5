------------------------------ MODULE MCGpioCli ---------------------------------
(* Two chips of two lines; the second line of the first chip is named like the    *)
(* offset of the other's second line and both chips have a line A; two requests. *)
EXTENDS GpioCli

MCNameOf == (<<0, 0>> :> "1") @@ (<<0, 1>> :> "A") @@ (<<1, 0>> :> "A") @@ (<<1, 1>> :> "B")
MCAsOffset == ("1" :> 1) @@ ("A" :> -1) @@ ("B" :> -1)
MCNameLists == {<<"A">>, <<"A", "1">>, <<"B", "A">>}
=================================================================================
