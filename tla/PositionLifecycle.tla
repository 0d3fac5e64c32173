------------------------- MODULE PositionLifecycle -------------------------
(***************************************************************************)
(* What the ticket store promises about a symbol, whatever the             *)
(* interleaving: it has at most one position at a time, which opens in     *)
(* INITIAL, may reach TP1_HIT and then TP2_HIT, and closes from any of     *)
(* them, after which a new one may open.  This is the Ticket.state diagram *)
(* of section 6 of the PRD, lifted to the symbol.                          *)
(*                                                                         *)
(* position[s] is the set of the states of the symbol's positions: empty   *)
(* or a singleton.                                                         *)
(***************************************************************************)
CONSTANT Symbols
VARIABLE position

Init == position = [s \in Symbols |-> {}]

Become(s, from, to) ==
  /\ position[s] = from
  /\ position' = [position EXCEPT ![s] = to]

Open(s)    == Become(s, {}, {"INITIAL"})
HitTp1(s)  == Become(s, {"INITIAL"}, {"TP1_HIT"})
HitTp2(s)  == Become(s, {"TP1_HIT"}, {"TP2_HIT"})
Close(s)   == position[s] # {} /\ Become(s, position[s], {})

Next == \E s \in Symbols : Open(s) \/ HitTp1(s) \/ HitTp2(s) \/ Close(s)

Spec == Init /\ [][Next]_position
=============================================================================
