-------------------------- MODULE MCAudioChannels --------------------------
(* Small instances of AudioChannels for TLC.                                *)
EXTENDS AudioChannels

CONSTANTS main, w1, a, b

OwnerMain == [x \in Clip |-> main]
OwnerEach == [x \in Clip |-> IF x = b THEN w1 ELSE main]
ChannelNumbers == 0..Cap  \* the last one is out of range
Lengths   == [x \in Clip |-> IF x = a THEN 1 ELSE 0]
=============================================================================
