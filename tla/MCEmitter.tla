------------------------------- MODULE MCEmitter -------------------------------
(* A small instance of Emitter for TLC: one message of each kind and origin.      *)
EXTENDS Emitter

CONSTANTS self, o1, o2, f, g,
          blk, lead, info, ours, own, int, ext

MCKind == [m \in Msg |->
    CASE m = blk -> "block" [] m = lead -> "leadership" [] m = info -> "stateinfo"
      [] m = ours -> "org" [] OTHER -> "alive"]
MCOrigin == [m \in Msg |->
    CASE m = int -> o1 [] m \in {ext, info} -> f [] m = blk -> o2 [] OTHER -> self]
MCFrom == [m \in Msg |->
    CASE m = int -> o2 [] m = ext -> f [] m = info -> o1 [] m = blk -> o2 [] OTHER -> self]
MCOrg == [p \in Peer |-> CASE p = f -> "F" [] p = g -> "G" [] OTHER -> "home"]
===============================================================================
