----------------------------- MODULE MCSlcSizing -----------------------------
(***************************************************************************)
(* Model values for SlcSizing: prices around one dollar (200), where the    *)
(* tick changes; a short between two longs; a foreign order that takes      *)
(* most of the cash; a fill that slips past the quote either way.           *)
(***************************************************************************)
EXTENDS SlcSizing

MCConfirmation ==
  [A |-> [direction |-> "long", stop |-> 201, rank |-> 1],
   B |-> [direction |-> "short", stop |-> 205, rank |-> 2],
   C |-> [direction |-> "long", stop |-> 197, rank |-> 3]]
MCStakes == [A |-> 6800]
MCSlips == {-3, 0, 1}
=============================================================================
