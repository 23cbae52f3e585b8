---------------------------- MODULE MCAddresses ----------------------------
(***************************************************************************)
(* A server by default, one on this machine and one with a spelling of its *)
(* own, a text that is no origin, and an identifier of two letters. Two    *)
(* edits are enough for one to make up for the other's change of length.   *)
(***************************************************************************)
EXTENDS Addresses

MCServers ==
  {Text("http", "loopback", "caps", "/"), Text("https", "wide", "plain", ""),
   Text("https", "public", "plain", "other")}

MCIds == {<<"1", "A">>}

MCTyped == {"0", "1", "l", "a", "-", "U"}
=============================================================================
