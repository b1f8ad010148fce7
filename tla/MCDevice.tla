------------------------------ MODULE MCDevice ------------------------------
(* A small device: a chime of three blocks, and one parameter of each kind. *)
EXTENDS Device

ChimeBlocks == <<1, 2, 0>>

\* dtsensitive snaps out of (2, 6), dac_atten is ack-only, led_brightness has
\* a namespace of its own; ranges in half units.
SmallTunes ==
  [dtsensitive |-> [target |-> "hole", low |-> 0, high |-> 8, bake |-> 8],
   dac_atten |-> [target |-> "codec", low |-> 0, high |-> 8, bake |-> 2],
   led_brightness |-> [target |-> "led", low |-> 0, high |-> 8, bake |-> 4]]
SmallOrder == <<"dtsensitive", "dac_atten">>

\* An address behind an alias, the two records in either order, and no name.
RR(owner, type, target) == [owner |-> owner, type |-> type, target |-> target]
ToAlias == RR("hub", "cname", "alias")
SmallZones ==
  {[rcode |-> "ok", answers |-> <<ToAlias, RR("alias", "a", "")>>],
   [rcode |-> "ok", answers |-> <<RR("alias", "a", ""), ToAlias>>],
   [rcode |-> "nxdomain", answers |-> <<>>]}
=============================================================================
