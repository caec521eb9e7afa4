----------------------------- MODULE MCBlockCodec -----------------------------
(* Small instances of BlockCodec for TLC: contents that compression makes    *)
(* shorter, leaves as long as they are, or makes much longer, and noise of   *)
(* the same length and of another one.                                       *)
EXTENDS BlockCodec

TheData == {"text", "random", "short"}
TheNoise == {"noise3", "noise2", "noise4"}
Sizes == [d \in TheData \cup TheNoise |->
            CASE d = "text" -> 3 [] d = "random" -> 3 [] d = "short" -> 1
              [] d = "noise3" -> 3 [] d = "noise2" -> 2 [] OTHER -> 4]
PackedSizes == [d \in TheData \cup TheNoise |->
            CASE d = "text" -> 2 [] d = "random" -> 3 [] d = "short" -> 6 [] OTHER -> 2]
=============================================================================
