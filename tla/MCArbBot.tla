------------------------------ MODULE MCArbBot ------------------------------
(***************************************************************************)
(* Two hubs, a third token on a triangle and a fourth token on a dead end. *)
(***************************************************************************)
EXTENDS ArbBot

MCLines == << [tokens |-> <<1, 2>>], [tokens |-> <<1, 2>>], [tokens |-> <<2, 3>>],
              [tokens |-> <<1, 3>>], [tokens |-> <<3, 4>>] >>
Pair(r0, r1) == newV2PoolWithSlot(r0, r1, tenK - 3)
MCPools0 == <<Pair(600, 700), Pair(600, 500), Pair(500, 500), Pair(400, 500), Pair(300, 300)>>
MCBalance0 == <<70, 40, 0, 0>>
MCSizes == << <<20, 5>>, <<10>> >>
MCScales == << <<1, 10>>, <<1, 2>>, <<5, 1>> >>
MCHubs == <<1, 2>>
MCOrders == {<<1, 2, 3, 4>>}
MCTrades == { [pool |-> 1, in |-> 2, out |-> 1, amount |-> 150],
              [pool |-> 2, in |-> 1, out |-> 2, amount |-> 60] }
=============================================================================
