-------------------------------- MODULE Loader --------------------------------
(* How list, verify, append and decompress open an archive: the header, the  *)
(* limits, the footer, the password, the index.  Nothing of the file can be  *)
(* relied on, so each size is compared with its limit before memory is taken.*)
EXTENDS Integers, FiniteSets, Word32

CONSTANTS
    Default,       \* the limit on each kind of size when no option is given
    Sizes,         \* sizes that header and footer may claim
    BlockSizes,    \* sizes that the entry of a block may claim
    Options,       \* values that may be given to an option --max-...
    Kib,           \* bytes to the unit of Argon2's memory cost (1024)
    StoredExtra    \* STORED_BLOCK_OVERHEAD

Kind == {"header", "block", "m_cost", "index"}
ASSUME DefaultAssumption == Default \in [Kind -> Nat]
ASSUME SizesAssumption ==
    Sizes \subseteq Nat /\ BlockSizes \subseteq Nat /\ Options \subseteq Nat
ASSUME UnitAssumption == Kib \in Nat \ {0} /\ StoredExtra \in Nat

NotGiven == -1
Command == {"list", "verify", "append", "decompress"}

(* A file: the sizes it claims (two for the index, as stored and as it was), *)
(* whether it is encrypted and its index compressed, and what may be wrong   *)
(* with it.  A missing footer is not on the list: the last 29 bytes are      *)
(* taken for one, whatever they are, and only a file that has no 29 fails.   *)
(* The parameters are Argon2's, other than the memory cost being too high.   *)
File ==
    [header : Sizes, block : Sizes, m_cost : Sizes, stored : Sizes, plain : Sizes,
     encrypted : BOOLEAN, compressed : BOOLEAN,
     defect : {"none", "no size", "bad header", "other format", "too short",
               "bad parameters", "short index", "damaged index"}]

VARIABLES
    file,
    command,
    options,    \* the --max-... options given
    typed,      \* what the user types: the first time, and when asked again
    stage,
    taken,      \* memory taken: pairs of a kind and a size
    asked,      \* how often the user has been asked
    outcome     \* "none", "loaded", or why not

loadVars == <<file, command, options, typed, stage, taken, asked, outcome>>

Stage == {"size", "header", "metadata", "limits", "footer", "index size", "password",
          "again", "key", "index", "decrypt", "unpack", "done", "block"}

LoadInit ==
    /\ file \in File /\ command \in Command
    /\ options \in [Kind -> Options \cup {NotGiven}]
    /\ command # "decompress" => options = [k \in Kind |-> NotGiven]
    /\ typed \in {"right", "wrong"} \X {"same", "different"}
    /\ ~file.encrypted => typed = <<"right", "same">>   \* nobody is asked
    /\ stage = "size" /\ taken = {} /\ asked = 0 /\ outcome = "none"

-----------------------------------------------------------------------------
(* The option, or the default.  --max-m-cost is in bytes and the cost in KiB *)
(* and a u32: (max_m / 1024) as u32.  A block may be a little longer on disk. *)
EffLimit(kind) ==
    CASE options[kind] = NotGiven -> Default[kind]
      [] options[kind] # NotGiven /\ kind = "m_cost" -> AsU32(options[kind] \div Kib)
      [] OTHER -> options[kind]
MostTaken(kind) ==
    IF kind = "stored block" THEN EffLimit("block") + StoredExtra ELSE EffLimit(kind)

At(here) == stage = here
Goto(there) == stage' = there /\ UNCHANGED outcome
EndWith(why) == stage' = "done" /\ outcome' = why
Take(kind, size) == taken' = taken \cup {<<kind, size>>}
Constant == UNCHANGED <<file, command, options, typed>>

(* Mutant: the memory is taken first. *)
TakesFirst ==
    /\ At("size") /\ Take("header", file.header)
    /\ \/ file.defect = "no size" /\ EndWith(file.defect)
       \/ file.header > EffLimit("header") /\ EndWith("header")
       \/ file.header <= EffLimit("header") /\ Goto("header")
    /\ UNCHANGED asked /\ Constant

HeaderSize ==
    /\ At("size")
    /\ \/ /\ file.defect = "no size" /\ EndWith(file.defect) /\ UNCHANGED taken
       \/ /\ file.defect # "no size" /\ file.header > EffLimit("header")
          /\ EndWith("header") /\ UNCHANGED taken
       \/ /\ file.defect # "no size" /\ file.header <= EffLimit("header")
          /\ Goto("header") /\ Take("header", file.header)
    /\ UNCHANGED asked /\ Constant

(* Too few bytes, or none that deserialize. *)
ReadHeader ==
    /\ At("header")
    /\ \/ file.defect = "bad header" /\ EndWith(file.defect)
       \/ file.defect # "bad header" /\ Goto("metadata")
    /\ UNCHANGED <<taken, asked>> /\ Constant

(* The version and the magic number. *)
VerifyMetadata ==
    /\ At("metadata")
    /\ \/ file.defect = "other format" /\ EndWith(file.defect)
       \/ file.defect # "other format" /\ Goto("limits")
    /\ UNCHANGED <<taken, asked>> /\ Constant

HeaderLimits ==
    /\ At("limits")
    /\ \/ file.block > EffLimit("block") /\ EndWith("block")
       \/ /\ file.block <= EffLimit("block") /\ file.m_cost > EffLimit("m_cost")
          /\ EndWith("m_cost")
       \/ /\ file.block <= EffLimit("block") /\ file.m_cost <= EffLimit("m_cost")
          /\ Goto("footer")
    /\ UNCHANGED <<taken, asked>> /\ Constant

ReadFooter ==
    /\ At("footer")
    /\ \/ file.defect = "too short" /\ EndWith(file.defect)
       \/ file.defect # "too short" /\ Goto("index size")
    /\ UNCHANGED <<taken, asked>> /\ Constant

(* Mutant: the size before compression is not looked at. *)
PlainIgnored ==
    /\ At("index size")
    /\ \/ file.stored > EffLimit("index") /\ EndWith("index")
       \/ /\ file.stored <= EffLimit("index")
          /\ Goto(IF file.encrypted THEN "password" ELSE "index")
    /\ UNCHANGED <<taken, asked>> /\ Constant

IndexLimits ==
    /\ At("index size")
    /\ \/ /\ file.stored > EffLimit("index") \/ file.plain > EffLimit("index")
          /\ EndWith("index")
       \/ /\ file.stored <= EffLimit("index") /\ file.plain <= EffLimit("index")
          /\ Goto(IF file.encrypted THEN "password" ELSE "index")
    /\ UNCHANGED <<taken, asked>> /\ Constant

(* Cipher::new.  Argon2 is given its parameters, and may refuse them, before *)
(* anyone is asked; a question may fail.  Every command but verify passes    *)
(* confirm, which is always on.                                              *)
Confirms == command # "verify"

(* Mutant: the parameters are looked at behind the question.                 *)
AsksFirst ==
    /\ At("password") /\ asked' = asked + 1
    /\ \/ EndWith("no password")
       \/ file.defect = "bad parameters" /\ EndWith(file.defect)
       \/ /\ file.defect # "bad parameters"
          /\ Goto(IF Confirms THEN "again" ELSE "key")
    /\ UNCHANGED taken /\ Constant

AskPassword ==
    /\ At("password")
    /\ \/ file.defect = "bad parameters" /\ EndWith(file.defect) /\ UNCHANGED asked
       \/ /\ file.defect # "bad parameters" /\ asked' = asked + 1
          /\ EndWith("no password") \/ Goto(IF Confirms THEN "again" ELSE "key")
    /\ UNCHANGED taken /\ Constant
AskAgain ==
    /\ At("again") /\ asked' = asked + 1
    /\ \/ EndWith("no password")
       \/ typed[2] = "different" /\ EndWith("passwords differ")
       \/ typed[2] = "same" /\ Goto("key")
    /\ UNCHANGED taken /\ Constant

(* In as much memory as the header says. *)
DeriveKey ==
    /\ At("key") /\ Take("m_cost", file.m_cost)
    /\ EndWith("no key") \/ Goto("index")
    /\ UNCHANGED asked /\ Constant

(* The index is read whole, opened with the key, and unpacked into no more   *)
(* memory than the footer says.                                              *)
ReadIndex ==
    /\ At("index") /\ Take("index", file.stored)
    /\ \/ file.defect = "short index" /\ EndWith(file.defect)
       \/ /\ file.defect # "short index"
          /\ Goto(IF file.encrypted THEN "decrypt" ELSE "unpack")
    /\ UNCHANGED asked /\ Constant
DecryptIndex ==
    /\ At("decrypt")
    /\ \/ /\ typed[1] = "wrong" \/ file.defect = "damaged index"
          /\ EndWith("not decrypted")
       \/ /\ typed[1] = "right" /\ file.defect # "damaged index"
          /\ Goto("unpack")
    /\ UNCHANGED <<taken, asked>> /\ Constant

(* No cipher has looked at a damaged index that gets here, and nothing else  *)
(* does: it may still unpack and deserialize, to other entries.              *)
UnpackIndex ==
    /\ At("unpack")
    /\ IF file.compressed THEN Take("index", file.plain) ELSE UNCHANGED taken
    /\ \/ EndWith("loaded")
       \/ file.compressed /\ EndWith("no engine")
       \/ file.defect = "damaged index" /\ EndWith(file.defect)
    /\ UNCHANGED asked /\ Constant

(* verify and decompress then read blocks, each with the sizes of its entry; *)
(* one block stands for all.  Sizes that are refused end the command.        *)
LoadBlock ==
    /\ At("done") /\ outcome = "loaded" /\ command \in {"verify", "decompress"}
    /\ \E size_plain, size_stored \in BlockSizes, is_compressed \in BOOLEAN :
         /\ size_plain <= file.block /\ size_stored <= file.block + StoredExtra
         /\ taken' = taken \cup {<<"stored block", size_stored>>} \cup
                      (IF is_compressed THEN {<<"block", size_plain>>} ELSE {})
    /\ stage' = "block" /\ UNCHANGED <<asked, outcome>> /\ Constant

Step ==
    \/ HeaderSize \/ ReadHeader \/ VerifyMetadata \/ HeaderLimits \/ ReadFooter
    \/ IndexLimits \/ AskPassword \/ AskAgain \/ DeriveKey \/ ReadIndex
    \/ DecryptIndex \/ UnpackIndex \/ LoadBlock
Ended == stage \in {"done", "block"}
Done == Ended /\ UNCHANGED loadVars
LoadNext == Step \/ Done
LoadSpec == LoadInit /\ [][LoadNext]_loadVars

-----------------------------------------------------------------------------
LoadTypeOK ==
    /\ stage \in Stage /\ asked \in 0..2
    /\ taken \subseteq (Kind \cup {"stored block"}) \X (Sizes \cup BlockSizes)
    /\ outcome \in STRING /\ (Ended <=> outcome # "none")

(* README, Size limits: "these exist to protect against malformed archives   *)
(* that claim enormous sizes before any data is read".  Whatever the file    *)
(* claims, and in whatever combination, no memory beyond a limit is taken:   *)
(* not for the header, for the index as stored or unpacked, for the          *)
(* derivation of the key, nor for a block as stored or unpacked, also by the *)
(* entries of an index that is damaged.                                      *)
WithinLimits == \A t \in taken : t[2] <= MostTaken(t[1])

SizesAccepted ==
    /\ file.header <= EffLimit("header") /\ file.block <= EffLimit("block")
    /\ file.m_cost <= EffLimit("m_cost")
    /\ file.stored <= EffLimit("index") /\ file.plain <= EffLimit("index")

(* Nobody types a password before everything that can be known without it    *)
(* has been found good: the header, the version, all sizes, the length that  *)
(* a footer needs, and the parameters of Argon2.  What is left is the index  *)
(* itself, which is read when the key has been derived, and may be missing.  *)
AskedLast ==
    asked > 0 =>
        /\ file.encrypted /\ SizesAccepted
        /\ file.defect \in {"none", "short index", "damaged index"}

(* The parameters are in every header, and used with a cipher only.          *)
Intact == file.defect = "none" \/ (file.defect = "bad parameters" /\ ~file.encrypted)
RightPassword ==
    file.encrypted => typed[1] = "right" /\ (Confirms => typed[2] = "same")
(* Failures that say nothing of the file. *)
Mishap == {"no password", "no key", "no engine"}

(* What opens, without regard to the order of the checks.  A file with       *)
(* nothing wrong, within the limits, is opened by the right password unless  *)
(* the terminal, Argon2 or the decompressor fails.  And nothing else is      *)
(* opened, but for one case: a damaged index, when there is no cipher to     *)
(* notice the damage.  This is the same for all commands.                    *)
OpensTheSound ==
    /\ outcome = "loaded" =>
         /\ SizesAccepted /\ RightPassword
         /\ Intact \/ (file.defect = "damaged index" /\ ~file.encrypted)
    /\ Ended /\ SizesAccepted /\ RightPassword /\ Intact =>
         outcome \in {"loaded"} \cup Mishap

=============================================================================
