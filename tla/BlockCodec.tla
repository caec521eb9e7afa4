------------------------------ MODULE BlockCodec ------------------------------
(* What becomes of a block's bytes: checksum, compression if it helps, the   *)
(* seal of the cipher, the disk, and the way back with its checks.  Sealing  *)
(* is perfect, a checksum is the data itself; nonces are never drawn twice.  *)
EXTENDS Integers, Sequences, Word32

CONSTANTS
    Data,         \* contents of blocks
    Noise,        \* contents that damage leaves
    Size,         \* the length of each
    PackedSize,   \* its length once compressed
    BlockSize,    \* no block is longer
    TagSize,      \* what a seal adds
    Overhead,     \* STORED_BLOCK_OVERHEAD
    Passwords,
    MaxBlocks,    \* bound: blocks in the archive
    MaxDamage     \* bound: stored blocks that are damaged

Content == Data \cup Noise
ASSUME DataAssumption == Data \cap Noise = {}
ASSUME SizeAssumption ==
    /\ Size \in [Content -> Nat] /\ PackedSize \in [Content -> Nat]
    /\ BlockSize \in Nat /\ \A d \in Data : Size[d] <= BlockSize
ASSUME TagAssumption == TagSize \in Nat /\ Overhead \in Nat /\ TagSize <= Overhead
(* Entries have lengths as u32.  --bs takes any block size: from 4 GiB on a  *)
(* block's length may be cut, and then read_block refuses it.                *)
ASSUME LengthsFit == BlockSize + TagSize < U32

NoCipher == "no cipher"
Keys == Passwords \cup {NoCipher}

VARIABLES
    indexKey,   \* the key that the index is sealed with
    key,        \* the key of the command that writes now
    writing,
    entries,    \* index.block
    stored,     \* what lies at each entry's place on the disk
    put,        \* the data of each block, by the one who put it in (history)
    damaged     \* numbers of stored blocks that were damaged

codecVars == <<indexKey, key, writing, entries, stored, put, damaged>>

CodecInit ==
    /\ key \in Keys /\ indexKey = key /\ writing = TRUE
    /\ entries = <<>> /\ stored = <<>> /\ put = <<>> /\ damaged = {}

-----------------------------------------------------------------------------
(* process_block and encrypt_block                                           *)

(* Mutant: what the compressor returns is kept, even when it is longer. *)
PacksAlways(d) == TRUE
Packs(d) == PackedSize[d] < Size[d]

SealedSize(d, k) ==
    (IF Packs(d) THEN PackedSize[d] ELSE Size[d]) + (IF k = NoCipher THEN 0 ELSE TagSize)

(* The seal binds the bytes to the key, the nonce, the archive and the       *)
(* number; without a cipher the bytes are stored as they are.                *)
Seal(d, packed, k, nonce, number) ==
    [data |-> d, packed |-> packed, key |-> k, archive |-> "this", nonce |-> nonce,
     number |-> number, tag |-> "right"]

(* compress counts from 0, append goes on from index.block.len(). *)
NextNumber == Len(entries)

PutBlock ==
    /\ writing /\ Len(entries) < MaxBlocks
    /\ \E d \in Data :
         LET nonce == Len(entries)
         IN /\ entries' = Append(entries,
                  [size_stored |-> AsU32(SealedSize(d, key)),
                   size_plain |-> AsU32(Size[d]), is_compressed |-> Packs(d),
                   nonce |-> nonce, checksum |-> d])
            /\ stored' = Append(stored, Seal(d, Packs(d), key, nonce, NextNumber))
            /\ put' = Append(put, d)
    /\ UNCHANGED <<indexKey, key, writing, damaged>>

(* The index is sealed with the same key, under a number no block has. *)
Finish ==
    /\ writing /\ writing' = FALSE /\ indexKey' = key
    /\ UNCHANGED <<key, entries, stored, put, damaged>>

(* The cipher is the one that the header names, its key comes from a         *)
(* password typed anew; the loader opens the index with it before anything   *)
(* is written.                                                               *)
AppendBegins ==
    /\ ~writing /\ damaged = {} /\ Len(entries) < MaxBlocks
    /\ \E k \in Keys : k = indexKey /\ key' = k
    /\ writing' = TRUE
    /\ UNCHANGED <<indexKey, entries, stored, put, damaged>>

-----------------------------------------------------------------------------
(* Damage to what is stored: other bytes of the same length, a block missing *)
(* at the end of a file cut short, two blocks that have changed places, a    *)
(* block of another archive with the same password.                          *)

DamagedBlock(b) ==
    {[b EXCEPT !.data = n, !.tag = "wrong"] : n \in Noise} \cup
    {[b EXCEPT !.archive = "another", !.nonce = -1, !.data = d] : d \in Data}
    \cup {[b EXCEPT !.tag = "missing"]}

Damage ==
    /\ ~writing /\ damaged = {} /\ MaxDamage > 0
    /\ \E i \in DOMAIN stored : \E b \in DamagedBlock(stored[i]) :
         stored' = [stored EXCEPT ![i] = b] /\ damaged' = {i}
    /\ UNCHANGED <<indexKey, key, writing, entries, put>>
Swap ==
    /\ ~writing /\ damaged = {} /\ MaxDamage > 1
    /\ \E i, j \in DOMAIN stored :
         /\ i # j /\ entries[i].size_stored = entries[j].size_stored
         /\ stored' = [stored EXCEPT ![i] = stored[j], ![j] = stored[i]]
         /\ damaged' = {i, j}
    /\ UNCHANGED <<indexKey, key, writing, entries, put>>

Stopped == ~writing /\ (damaged # {} \/ Len(entries) = MaxBlocks) /\ UNCHANGED codecVars

CodecNext == PutBlock \/ Finish \/ AppendBegins \/ Damage \/ Swap \/ Stopped
CodecSpec == CodecInit /\ [][CodecNext]_codecVars

-----------------------------------------------------------------------------
(* The way back.                                                             *)
Error == "error"

(* decrypt_block: nothing but what was sealed so comes out. *)
Opens(i, k) ==
    LET b == stored[i]
    IN k # NoCipher =>
         /\ b.tag = "right" /\ b.key = k /\ b.archive = "this"
         /\ b.nonce = entries[i].nonce /\ b.number = i - 1

(* Decompress::decompress: bytes that are no frame of the compressor, or     *)
(* that would grow beyond the size in the index, are an error.               *)
Unpacked(i) ==
    LET b == stored[i]
    IN IF ~entries[i].is_compressed THEN b.data
       ELSE IF b.packed /\ Size[b.data] <= entries[i].size_plain THEN b.data
       ELSE Error

SizesAllowed(i) ==
    /\ entries[i].size_plain <= BlockSize
    /\ entries[i].size_stored <= BlockSize + Overhead

(* Mutant: the checksum is left to verify. *)
ChecksumTrusted(i, d) == Size[d] = entries[i].size_plain
ChecksumRight(i, d) == d = entries[i].checksum /\ Size[d] = entries[i].size_plain

(* read_block and the comparison after it (extract_file). *)
ReadBlock(i, k) ==
    IF ~SizesAllowed(i) \/ stored[i].tag = "missing" \/ ~Opens(i, k) THEN Error
    ELSE IF Unpacked(i) = Error THEN Error
    ELSE IF ~ChecksumRight(i, Unpacked(i)) THEN Error
    ELSE Unpacked(i)

(* Mutant: verify compares what it has unpacked with nothing. *)
VerifyUnpacksOnly(i, k) ==
    /\ SizesAllowed(i) /\ stored[i].tag # "missing" /\ Opens(i, k)
    /\ Unpacked(i) # Error

(* ArchiveReader::verify has its own copy of these steps, without the        *)
(* comparison of lengths.                                                    *)
VerifyBlock(i, k) ==
    /\ SizesAllowed(i) /\ stored[i].tag # "missing" /\ Opens(i, k)
    /\ Unpacked(i) # Error /\ Unpacked(i) = entries[i].checksum

-----------------------------------------------------------------------------
CodecTypeOK ==
    /\ key \in Keys /\ indexKey \in Keys /\ writing \in BOOLEAN
    /\ DOMAIN stored = DOMAIN entries /\ DOMAIN put = DOMAIN entries
    /\ put \in Seq(Data) /\ damaged \subseteq DOMAIN stored

(* Whoever can open the index can read every block, each as it was put in:   *)
(* also the blocks of the appends, and those that did not get shorter.       *)
ReadBackExact ==
    damaged = {} /\ ~writing =>
        \A i \in DOMAIN entries : ReadBlock(i, indexKey) = put[i]

(* README: "blocks cannot be reordered between archives or swapped within    *)
(* one", and the checksum covers the plaintext.  Extraction writes the       *)
(* block's own bytes or stops with an error, whatever has happened to what   *)
(* is stored; with a cipher every damage is noticed, the exchange of two     *)
(* blocks of equal content, too.                                             *)
NoWrongBytes ==
    \A i \in DOMAIN entries, k \in Keys :
        /\ ReadBlock(i, k) \in {put[i], Error}
        /\ i \in damaged /\ k # NoCipher => ReadBlock(i, k) = Error

(* verify and extraction agree on every block of every archive, damaged or   *)
(* not, although each has its own copy of the checks.                        *)
VerifyAgrees ==
    \A i \in DOMAIN entries, k \in Keys : VerifyBlock(i, k) <=> ReadBlock(i, k) # Error

=============================================================================
