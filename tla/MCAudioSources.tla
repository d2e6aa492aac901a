---------------------------- MODULE MCAudioSources ----------------------------
(* AudioSources with model values for TLC.                                 *)
EXTENDS AudioSources, TLC

CONSTANTS usb, upnp, roon

MCOwn == {usb, upnp}
MCExternal == {roon}
Sym == Permutations(MCOwn)
=============================================================================
