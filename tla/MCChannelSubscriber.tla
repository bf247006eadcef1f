------------------------ MODULE MCChannelSubscriber ------------------------
(***************************************************************************)
(* ChannelSubscriber for TLC.                                              *)
(***************************************************************************)
EXTENDS ChannelSubscriber

CONSTANTS m1, m2, m3

TwoMessages   == {m1, m2}
ThreeMessages == {m1, m2, m3}
=============================================================================
