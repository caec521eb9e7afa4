----------------------------- MODULE ReaderProofs -----------------------------
(* What reads an archive can rely on nothing in it.  A block comes back as   *)
(* it was put in or not at all, for every number of blocks, every content    *)
(* and every damage that BlockCodec knows of; opening an archive takes no    *)
(* memory beyond a limit, and opens what is sound and acceptable, whatever   *)
(* sizes a file claims and whatever limits are given.                        *)
EXTENDS BlockCodec, Loader, SequenceTheorems, TLAPS

-----------------------------------------------------------------------------
(* Blocks.                                                                   *)

Positions == 1..Len(put)

(* What the entry of a block and the block on the disk look like.            *)
EntryOf(i) ==
    [size_stored |-> SealedSize(put[i], key), size_plain |-> Size[put[i]],
     is_compressed |-> Packs(put[i]), nonce |-> i - 1, checksum |-> put[i]]
Sealed(i) == Seal(put[i], Packs(put[i]), key, i - 1, i - 1)

(* Damage that the cipher can tell.                                          *)
Noticeable(i) ==
    stored[i].tag # "right" \/ stored[i].archive # "this" \/ stored[i].number # i - 1

(* What the operations leave; what is stored is a sequence, too.             *)
Shape ==
    /\ key \in Keys /\ indexKey = key /\ writing \in BOOLEAN
    /\ put \in Seq(Data) /\ damaged \subseteq Positions
    /\ entries = [i \in Positions |-> EntryOf(i)]
    /\ DOMAIN stored = Positions /\ stored \in Seq({stored[i] : i \in Positions})
    /\ writing => damaged = {}

CodecInv ==
    /\ Shape
    /\ \A i \in Positions : i \notin damaged => stored[i] = Sealed(i)
    /\ \A i \in Positions : i \in damaged => Noticeable(i)

(* A sequence is a function, with one element more as well.                  *)
LEMMA AppendIsFunction ==
    ASSUME NEW S, NEW s \in Seq(S), NEW e
    PROVE  Append(s, e) = [i \in 1..(Len(s) + 1) |-> Append(s, e)[i]]
<1>1. s \in Seq(S \cup {e}) /\ e \in S \cup {e}
  OBVIOUS
<1>2. Append(s, e) \in Seq(S \cup {e}) /\ Len(Append(s, e)) = Len(s) + 1
  BY <1>1, AppendProperties
<1>3. \A q \in Seq(S \cup {e}) : q = [i \in 1..Len(q) |-> q[i]]
  OBVIOUS
<1> QED BY <1>2, <1>3

LEMMA InitCodec == CodecInit => CodecInv
<1> SUFFICES ASSUME CodecInit PROVE CodecInv
  OBVIOUS
<1>1. put = <<>> /\ entries = <<>> /\ stored = <<>> /\ damaged = {} /\ Positions = {}
  BY DEF CodecInit, Positions
<1>2. entries = [i \in Positions |-> EntryOf(i)]
  BY <1>1
<1>3. DOMAIN stored = Positions /\ stored \in Seq({stored[i] : i \in Positions})
  BY <1>1
<1> QED BY <1>1, <1>2, <1>3 DEF CodecInit, CodecInv, Shape

(* The cast keeps the lengths.                                               *)
LEMMA LengthsKept ==
    ASSUME NEW d \in Data, NEW k
    PROVE  AsU32(Size[d]) = Size[d] /\ AsU32(SealedSize(d, k)) = SealedSize(d, k)
<1>1. /\ Size[d] \in Nat /\ PackedSize[d] \in Nat /\ TagSize \in Nat /\ U32 \in Nat
      /\ BlockSize \in Nat /\ Size[d] <= BlockSize /\ BlockSize + TagSize < U32
  BY SizeAssumption, TagAssumption, LengthsFit, U32Assumption DEF Content
<1>2. SealedSize(d, k) \in Nat /\ SealedSize(d, k) < U32 /\ Size[d] < U32
  BY <1>1 DEF SealedSize, Packs
<1>3. \A n \in Nat : n < U32 => AsU32(n) = n
  BY <1>1 DEF AsU32
<1> QED BY <1>1, <1>2, <1>3

(* A block more: the entry and what is stored are about the new number, and  *)
(* the others stay.                                                          *)
LEMMA PutBlockInv == ASSUME CodecInv, PutBlock PROVE CodecInv'
<1>0. PICK n \in Nat : n = Len(put)
  BY DEF CodecInv, Shape
<1>1. PICK d \in Data :
        /\ entries' = Append(entries,
             [size_stored |-> SealedSize(d, key), size_plain |-> Size[d],
              is_compressed |-> Packs(d), nonce |-> Len(entries), checksum |-> d])
        /\ stored' = Append(stored, Seal(d, Packs(d), key, Len(entries), Len(entries)))
        /\ put' = Append(put, d)
  BY LengthsKept DEF PutBlock, NextNumber
<1>2. n \in Nat /\ put \in Seq(Data) /\ DOMAIN put = 1..n /\ Len(put) = n
  BY <1>0 DEF CodecInv, Shape
<1>3. Len(put') = n + 1 /\ put' \in Seq(Data)
      /\ \A i \in 1..n : put'[i] = put[i]
  BY <1>1, <1>2
<1>4. put'[n + 1] = d
  BY <1>1, <1>2
<1>5. Positions' = 1..(n + 1) /\ Positions = 1..n
  BY <1>2, <1>3 DEF Positions
<1>6. key' = key /\ indexKey' = indexKey /\ writing' = writing /\ damaged' = damaged
      /\ damaged = {}
  BY DEF PutBlock, CodecInv, Shape
<1>7. \A i \in 1..(n + 1) : i = n + 1 \/ i \in 1..n
  BY <1>2
<1>8. Len(entries) = n
  BY <1>2, <1>5 DEF CodecInv, Shape
<1>9. /\ stored \in Seq({stored[i] : i \in Positions}) /\ DOMAIN stored = 1..n
      /\ Len(stored) = n
  BY <1>2, <1>5 DEF CodecInv, Shape
<1>10. /\ DOMAIN stored' = 1..(n + 1)
       /\ \A i \in 1..n : stored'[i] = stored[i]
       /\ stored'[n + 1] = Seal(d, Packs(d), key, n, n)
  BY <1>1, <1>2, <1>8, <1>9
<1>11. stored' = [i \in 1..(n + 1) |-> stored'[i]]
  BY <1>1, <1>9, AppendIsFunction
<1>12. stored' \in Seq({stored'[i] : i \in Positions'})
  BY <1>2, <1>5, <1>11
<1>13. entries' = [i \in Positions' |-> EntryOf(i)']
  <2> DEFINE e == [size_stored |-> SealedSize(d, key), size_plain |-> Size[d],
                   is_compressed |-> Packs(d), nonce |-> n, checksum |-> d]
  <2>1. entries = [i \in 1..n |-> EntryOf(i)] /\ entries' = Append(entries, e)
    BY <1>1, <1>5, <1>8 DEF CodecInv, Shape
  <2>2. \A i \in 1..n : EntryOf(i)' = EntryOf(i)
    BY <1>3, <1>6 DEF EntryOf
  <2>3. EntryOf(n + 1)' = e
    <3>1. (n + 1) - 1 = n
      BY <1>2
    <3>2. EntryOf(n + 1)' =
            [size_stored |-> SealedSize(put'[n + 1], key'), size_plain |-> Size[put'[n + 1]],
             is_compressed |-> Packs(put'[n + 1]), nonce |-> (n + 1) - 1,
             checksum |-> put'[n + 1]]
      BY DEF EntryOf
    <3> QED BY <3>1, <3>2, <1>4, <1>6
  <2> HIDE DEF e
  <2>4. entries' = [i \in 1..(n + 1) |-> IF i = n + 1 THEN e ELSE EntryOf(i)]
    BY <2>1, <1>2, <1>8
  <2>5. \A i \in 1..(n + 1) : (IF i = n + 1 THEN e ELSE EntryOf(i)) = EntryOf(i)'
    BY <2>2, <2>3, <1>7
  <2> QED BY <2>4, <2>5, <1>5
<1>14. \A i \in 1..n : stored'[i] = Sealed(i)'
  <2> TAKE i \in 1..n
  <2>1. stored[i] = Sealed(i)
    BY <1>5, <1>6 DEF CodecInv
  <2>2. Sealed(i)' = Sealed(i)
    BY <1>3, <1>6 DEF Sealed
  <2> QED BY <2>1, <2>2, <1>10
<1>15. stored'[n + 1] = Sealed(n + 1)'
  BY <1>2, <1>4, <1>6, <1>10 DEF Sealed
<1>16. \A i \in Positions' : stored'[i] = Sealed(i)'
  BY <1>5, <1>7, <1>14, <1>15
<1>17. Shape'
  <2>1. /\ key' \in Keys /\ indexKey' = key' /\ writing' \in BOOLEAN
        /\ damaged' \subseteq Positions' /\ (writing' => damaged' = {})
    BY <1>6 DEF CodecInv, Shape, Keys
  <2> QED BY <2>1, <1>3, <1>5, <1>10, <1>12, <1>13 DEF Shape
<1> QED BY <1>6, <1>16, <1>17 DEF CodecInv

(* Only the keys and the turn change.                                        *)
LEMMA SameBlocks ==
    ASSUME CodecInv, key' = key, indexKey' = key, writing' \in BOOLEAN,
           writing' => damaged = {}, UNCHANGED <<entries, stored, put, damaged>>
    PROVE  CodecInv'
<1>1. Positions' = Positions /\ \A i : /\ EntryOf(i)' = EntryOf(i)
                                       /\ Sealed(i)' = Sealed(i)
                                       /\ Noticeable(i)' = Noticeable(i)
  BY DEF Positions, EntryOf, Sealed, Noticeable
<1> QED BY <1>1 DEF CodecInv, Shape, Keys

(* The entries do not tell that blocks on the disk have changed.             *)
LEMMA SameEntries ==
    ASSUME CodecInv, ~writing, UNCHANGED <<indexKey, key, writing, entries, put>>,
           damaged' \subseteq Positions, damaged = {},
           stored' \in Seq({stored'[i] : i \in Positions}), DOMAIN stored' = Positions,
           \A i \in Positions : i \notin damaged' => stored'[i] = stored[i],
           \A i \in Positions : i \in damaged' => Noticeable(i)'
    PROVE  CodecInv'
<1>1. Positions' = Positions /\ \A i : EntryOf(i)' = EntryOf(i) /\ Sealed(i)' = Sealed(i)
  BY DEF Positions, EntryOf, Sealed
<1>2. Shape'
  BY <1>1 DEF CodecInv, Shape, Keys
<1> QED BY <1>1, <1>2 DEF CodecInv

LEMMA DamageInv == ASSUME CodecInv, Damage PROVE CodecInv'
<1>1. PICK i \in DOMAIN stored : \E b \in DamagedBlock(stored[i]) :
        stored' = [stored EXCEPT ![i] = b] /\ damaged' = {i}
  BY DEF Damage
<1>2. PICK b \in DamagedBlock(stored[i]) :
        stored' = [stored EXCEPT ![i] = b] /\ damaged' = {i}
  BY <1>1
<1>3. /\ damaged = {} /\ ~writing /\ DOMAIN stored = Positions /\ i \in Positions
      /\ UNCHANGED <<indexKey, key, writing, entries, put>>
  BY DEF Damage, CodecInv, Shape
<1>4. stored[i] = Sealed(i)
  BY <1>3 DEF CodecInv
<1>5. b.tag # "right" \/ b.archive # "this"
  BY <1>4 DEF DamagedBlock, Sealed, Seal
<1>6. Len(put) \in Nat
  BY DEF CodecInv, Shape
<1>7. stored' = [j \in Positions |-> IF j = i THEN b ELSE stored[j]]
  BY <1>2, <1>3
<1>8. stored'[i] = b /\ \A j \in Positions : j # i => stored'[j] = stored[j]
  BY <1>3, <1>7
<1>9. stored' \in Seq({stored'[j] : j \in Positions}) /\ DOMAIN stored' = Positions
  <2>1. stored' = [j \in 1..Len(put) |-> stored'[j]]
    BY <1>7 DEF Positions
  <2> QED BY <2>1, <1>6 DEF Positions
<1>10. Noticeable(i)'
  BY <1>5, <1>8 DEF Noticeable
<1> QED BY <1>2, <1>3, <1>8, <1>9, <1>10, SameEntries

LEMMA SwapInv == ASSUME CodecInv, Swap PROVE CodecInv'
<1>1. PICK i \in DOMAIN stored, j \in DOMAIN stored :
        /\ i # j /\ damaged' = {i, j}
        /\ stored' = [stored EXCEPT ![i] = stored[j], ![j] = stored[i]]
  BY DEF Swap
<1>2. /\ damaged = {} /\ ~writing /\ DOMAIN stored = Positions
      /\ i \in Positions /\ j \in Positions
      /\ UNCHANGED <<indexKey, key, writing, entries, put>>
  BY DEF Swap, CodecInv, Shape
<1>3. stored[i] = Sealed(i) /\ stored[j] = Sealed(j)
  BY <1>2 DEF CodecInv
<1>4. Len(put) \in Nat /\ i \in Int /\ j \in Int
  BY <1>2 DEF CodecInv, Shape, Positions
<1>5. stored[i].number = i - 1 /\ stored[j].number = j - 1
  BY <1>3 DEF Sealed, Seal
<1>6. stored' = [k \in Positions |->
                   IF k = i THEN stored[j] ELSE IF k = j THEN stored[i] ELSE stored[k]]
  BY <1>1, <1>2
<1>7. /\ stored'[i] = stored[j] /\ stored'[j] = stored[i]
      /\ \A k \in Positions : k \notin {i, j} => stored'[k] = stored[k]
  BY <1>1, <1>2, <1>6
<1>8. stored' \in Seq({stored'[k] : k \in Positions}) /\ DOMAIN stored' = Positions
  <2>1. stored' = [k \in 1..Len(put) |-> stored'[k]]
    BY <1>6 DEF Positions
  <2> QED BY <2>1, <1>4 DEF Positions
<1>9. Noticeable(i)' /\ Noticeable(j)'
  BY <1>1, <1>4, <1>5, <1>7 DEF Noticeable
<1> QED BY <1>1, <1>2, <1>7, <1>8, <1>9, SameEntries

LEMMA NextCodec == CodecInv /\ [CodecNext]_codecVars => CodecInv'
<1> SUFFICES ASSUME CodecInv, [CodecNext]_codecVars PROVE CodecInv'
  OBVIOUS
<1>1. CASE Finish
  <2>1. damaged = {}
    BY <1>1 DEF Finish, CodecInv, Shape
  <2> QED BY <1>1, <2>1, SameBlocks DEF Finish
<1>2. CASE AppendBegins
  <2>1. key' = key /\ indexKey' = key /\ writing' /\ writing' \in BOOLEAN
    BY <1>2 DEF AppendBegins, CodecInv, Shape
  <2> QED BY <1>2, <2>1, SameBlocks DEF AppendBegins
<1>3. CASE Stopped \/ UNCHANGED codecVars
  BY <1>3, SameBlocks DEF Stopped, codecVars, CodecInv, Shape
<1> QED BY <1>1, <1>2, <1>3, PutBlockInv, DamageInv, SwapInv DEF CodecNext

THEOREM CodecInvariant == CodecSpec => []CodecInv
BY InitCodec, NextCodec, PTL DEF CodecSpec

-----------------------------------------------------------------------------
LEMMA EntryIs ==
    ASSUME CodecInv
    PROVE  /\ DOMAIN entries = Positions
           /\ \A i \in Positions :
                /\ entries[i].size_stored = SealedSize(put[i], key)
                /\ entries[i].size_plain = Size[put[i]]
                /\ entries[i].is_compressed = Packs(put[i])
                /\ entries[i].nonce = i - 1 /\ entries[i].checksum = put[i]
                /\ put[i] \in Data
BY DEF CodecInv, Shape, EntryOf, Positions

(* An untouched block is within the limits and opens.                        *)
LEMMA UntouchedOpens ==
    ASSUME CodecInv, NEW i \in Positions, i \notin damaged
    PROVE  /\ SizesAllowed(i) /\ stored[i].tag # "missing" /\ Opens(i, key)
           /\ Unpacked(i) = put[i]
<1>1. stored[i] = Sealed(i)
  BY DEF CodecInv
<1>2. /\ entries[i].size_stored = SealedSize(put[i], key)
      /\ entries[i].size_plain = Size[put[i]]
      /\ entries[i].is_compressed = Packs(put[i])
      /\ entries[i].nonce = i - 1 /\ put[i] \in Data
  BY EntryIs
<1>3. /\ Size[put[i]] \in Nat /\ PackedSize[put[i]] \in Nat /\ BlockSize \in Nat
      /\ Size[put[i]] <= BlockSize
  BY <1>2, SizeAssumption DEF Content
<1>4. SizesAllowed(i)
  <2>1. TagSize \in Nat /\ Overhead \in Nat /\ TagSize <= Overhead
    BY TagAssumption
  <2>2. SealedSize(put[i], key) <= BlockSize + Overhead
    BY <1>3, <2>1 DEF SealedSize, Packs
  <2> QED BY <1>2, <1>3, <2>2 DEF SizesAllowed
<1>5. stored[i].tag # "missing" /\ Opens(i, key)
  BY <1>1, <1>2 DEF Opens, Sealed, Seal
<1>6. Unpacked(i) = put[i]
  BY <1>1, <1>2, <1>3 DEF Unpacked, Sealed, Seal
<1> QED BY <1>4, <1>5, <1>6

(* Whoever opens the index reads every block as it was put in, the blocks of *)
(* appends too (compress.rs:450-482, reader.rs:230-283).  *)
THEOREM BlocksComeBack == CodecSpec => []ReadBackExact
<1>1. CodecInv => ReadBackExact
  <2> SUFFICES ASSUME CodecInv, damaged = {}, NEW i \in DOMAIN entries
               PROVE  ReadBlock(i, indexKey) = put[i]
    BY DEF ReadBackExact
  <2>1. i \in Positions /\ indexKey = key /\ entries[i].checksum = put[i]
        /\ entries[i].size_plain = Size[put[i]]
    BY EntryIs DEF CodecInv, Shape
  <2>2. /\ SizesAllowed(i) /\ stored[i].tag # "missing" /\ Opens(i, key)
        /\ Unpacked(i) = put[i]
    BY <2>1, UntouchedOpens
  <2> QED BY <2>1, <2>2 DEF ReadBlock, ChecksumRight
<1> QED BY <1>1, CodecInvariant, PTL

(* A damaged block is an error or gives the bytes that were put in, and with *)
(* a cipher every damage is an error (reader.rs:230-283, codec.rs:114-180).     *)
THEOREM DamageIsNoticed == CodecSpec => []NoWrongBytes
<1>1. CodecInv => NoWrongBytes
  <2> SUFFICES ASSUME CodecInv, NEW i \in DOMAIN entries, NEW k \in Keys
               PROVE  /\ ReadBlock(i, k) \in {put[i], Error}
                      /\ i \in damaged /\ k # NoCipher => ReadBlock(i, k) = Error
    BY DEF NoWrongBytes
  <2>1. i \in Positions /\ entries[i].checksum = put[i]
    BY EntryIs
  <2>2. ReadBlock(i, k) \in {put[i], Error}
    BY <2>1 DEF ReadBlock, ChecksumRight
  <2>3. ASSUME i \in damaged, k # NoCipher PROVE ReadBlock(i, k) = Error
    <3>1. ~Opens(i, k)
      BY <2>1, <2>3 DEF CodecInv, Noticeable, Opens
    <3> QED BY <3>1 DEF ReadBlock
  <2> QED BY <2>2, <2>3
<1> QED BY <1>1, CodecInvariant, PTL

(* Two copies of the same checks, one verdict (reader.rs:230-283 and      *)
(* reader.rs:285-340).                                                       *)
THEOREM VerifyIsExtraction == CodecSpec => []VerifyAgrees
<1>1. CodecInv => VerifyAgrees
  <2> SUFFICES ASSUME CodecInv, NEW i \in DOMAIN entries, NEW k \in Keys
               PROVE  VerifyBlock(i, k) <=> ReadBlock(i, k) # Error
    BY DEF VerifyAgrees
  <2>1. entries[i].checksum = put[i] /\ entries[i].size_plain = Size[put[i]]
    BY EntryIs
  <2>2. Unpacked(i) = put[i] <=> ChecksumRight(i, Unpacked(i))
    BY <2>1 DEF ChecksumRight
  <2> QED BY <2>1, <2>2 DEF VerifyBlock, ReadBlock
<1> QED BY <1>1, CodecInvariant, PTL

-----------------------------------------------------------------------------
(* Opening an archive.                                                       *)

LoaderInputs ==
    /\ file \in File /\ command \in Command
    /\ options \in [Kind -> Options \cup {NotGiven}]
    /\ typed \in {"right", "wrong"} \X {"same", "different"}

(* The stages behind all limits. *)
Cleared == {"password", "again", "key", "index", "decrypt", "unpack"}

(* What has been found out about the file at each stage. *)
SizesSeen ==
    /\ stage \in {"header", "metadata", "limits", "footer", "index size"} \cup Cleared =>
         file.header <= EffLimit("header")
    /\ stage \in {"footer", "index size"} \cup Cleared =>
         file.block <= EffLimit("block") /\ file.m_cost <= EffLimit("m_cost")
    /\ stage \in Cleared =>
         file.stored <= EffLimit("index") /\ file.plain <= EffLimit("index")

DefectsSeen ==
    /\ stage \in {"header", "metadata", "limits", "footer", "index size"} \cup Cleared =>
         file.defect # "no size"
    /\ stage \in {"metadata", "limits", "footer", "index size"} \cup Cleared =>
         file.defect # "bad header"
    /\ stage \in {"limits", "footer", "index size"} \cup Cleared =>
         file.defect # "other format"
    /\ stage \in {"index size"} \cup Cleared => file.defect # "too short"
    /\ stage \in Cleared \ {"password"} /\ file.encrypted => file.defect # "bad parameters"
    /\ stage \in {"decrypt", "unpack"} => file.defect # "short index"
    /\ stage = "unpack" /\ file.encrypted => file.defect # "damaged index"

PasswordsSeen ==
    /\ stage \in {"password", "again", "key", "decrypt"} => file.encrypted
    /\ stage = "again" => Confirms
    /\ stage \in {"key", "index", "decrypt", "unpack"} /\ file.encrypted /\ Confirms =>
         typed[2] = "same"
    /\ stage = "unpack" /\ file.encrypted => typed[1] = "right"

LoaderInv ==
    /\ LoaderInputs /\ stage \in Stage /\ (~Ended => outcome = "none")
    /\ SizesSeen /\ DefectsSeen /\ PasswordsSeen
    /\ WithinLimits /\ AskedLast /\ OpensTheSound

(* A limit is a number, given or not. *)
LEMMA LimitIsNumber ==
    ASSUME LoaderInputs, NEW k \in Kind
    PROVE  EffLimit(k) \in Nat
<1>1. options[k] \in Options \cup {NotGiven} /\ Default[k] \in Nat
  BY DefaultAssumption DEF LoaderInputs
<1>2. options[k] # NotGiven => options[k] \in Nat
  BY <1>1, SizesAssumption
<1>3. Kib \in Nat \ {0} /\ U32 \in Nat \ {0}
  BY UnitAssumption, U32Assumption
<1>4. \A n \in Nat : AsU32(n \div Kib) \in Nat
  BY <1>3 DEF AsU32
<1> QED BY <1>1, <1>2, <1>4 DEF EffLimit

LEMMA SizeIsNumber ==
    ASSUME LoaderInputs
    PROVE  /\ file.header \in Nat /\ file.block \in Nat /\ file.m_cost \in Nat
           /\ file.stored \in Nat /\ file.plain \in Nat
BY SizesAssumption DEF LoaderInputs, File

(* Options and file stay as they are, and with them what is asked of them.   *)
LEMMA ConstantLimits ==
    ASSUME Constant
    PROVE  /\ \A k : EffLimit(k)' = EffLimit(k) /\ MostTaken(k)' = MostTaken(k)
           /\ SizesAccepted' <=> SizesAccepted
           /\ RightPassword' <=> RightPassword
           /\ Intact' <=> Intact
           /\ Confirms' <=> Confirms
           /\ LoaderInputs' <=> LoaderInputs
BY DEF Constant, EffLimit, MostTaken, SizesAccepted, RightPassword, Intact, Confirms,
       LoaderInputs

LEMMA InitLoader == LoadInit => LoaderInv
<1> SUFFICES ASSUME LoadInit PROVE LoaderInv
  OBVIOUS
<1>1. LoaderInputs /\ stage = "size" /\ taken = {} /\ asked = 0 /\ outcome = "none"
  BY DEF LoadInit, LoaderInputs
<1>2. SizesSeen /\ DefectsSeen /\ PasswordsSeen
  BY <1>1 DEF SizesSeen, DefectsSeen, PasswordsSeen, Cleared
<1>3. WithinLimits /\ AskedLast /\ OpensTheSound
  BY <1>1 DEF WithinLimits, AskedLast, OpensTheSound, Ended
<1> QED BY <1>1, <1>2, <1>3 DEF LoaderInv, Stage, Ended

LEMMA StepConstant == Step => Constant
BY DEF Step, HeaderSize, ReadHeader, VerifyMetadata, HeaderLimits, ReadFooter, IndexLimits,
       AskPassword, AskAgain, DeriveKey, ReadIndex, DecryptIndex, UnpackIndex, LoadBlock

(* What a step takes is within the limits, for the size has been seen.       *)
LEMMA StepTakes == ASSUME LoaderInv, Step PROVE WithinLimits'
<1>1. \A k : MostTaken(k)' = MostTaken(k)
  BY StepConstant, ConstantLimits
<1>2. /\ MostTaken("header") = EffLimit("header") /\ MostTaken("block") = EffLimit("block")
      /\ MostTaken("m_cost") = EffLimit("m_cost") /\ MostTaken("index") = EffLimit("index")
      /\ MostTaken("stored block") = EffLimit("block") + StoredExtra
  BY DEF MostTaken
<1>3. SUFFICES ASSUME NEW t \in taken', t \notin taken
               PROVE  t[2] <= MostTaken(t[1])
  BY <1>1 DEF LoaderInv, WithinLimits
<1> HIDE DEF EffLimit, MostTaken
<1>4. CASE HeaderSize
  <2>1. t = <<"header", file.header>> /\ file.header <= EffLimit("header")
    BY <1>3, <1>4 DEF HeaderSize, Take
  <2> QED BY <2>1, <1>2
<1>5. CASE DeriveKey
  <2>1. t = <<"m_cost", file.m_cost>>
    BY <1>3, <1>5 DEF DeriveKey, Take
  <2>2. file.m_cost <= EffLimit("m_cost")
    BY <1>5 DEF DeriveKey, LoaderInv, SizesSeen, Cleared, At
  <2> QED BY <2>1, <2>2, <1>2
<1>6. CASE ReadIndex
  <2>1. t = <<"index", file.stored>>
    BY <1>3, <1>6 DEF ReadIndex, Take
  <2>2. file.stored <= EffLimit("index")
    BY <1>6 DEF ReadIndex, LoaderInv, SizesSeen, Cleared, At
  <2> QED BY <2>1, <2>2, <1>2
<1>7. CASE UnpackIndex
  <2>1. t = <<"index", file.plain>>
    BY <1>3, <1>7 DEF UnpackIndex, Take
  <2>2. file.plain <= EffLimit("index")
    BY <1>7 DEF UnpackIndex, LoaderInv, SizesSeen, Cleared, At
  <2> QED BY <2>1, <2>2, <1>2
<1>8. CASE LoadBlock
  <2>1. PICK size_plain \in BlockSizes, size_stored \in BlockSizes :
          /\ size_plain <= file.block /\ size_stored <= file.block + StoredExtra
          /\ t \in {<<"stored block", size_stored>>, <<"block", size_plain>>}
    BY <1>3, <1>8 DEF LoadBlock
  <2>2. file.block <= EffLimit("block")
    BY <1>8 DEF LoadBlock, LoaderInv, OpensTheSound, SizesAccepted
  <2>3. /\ size_plain \in Nat /\ size_stored \in Nat /\ file.block \in Nat
        /\ StoredExtra \in Nat /\ EffLimit("block") \in Nat
    BY <2>1, SizesAssumption, UnitAssumption, SizeIsNumber, LimitIsNumber
    DEF LoaderInv, Kind
  <2>4. PICK b \in Nat, l \in Nat : b = file.block /\ l = EffLimit("block")
    BY <2>3
  <2>5. size_plain <= l /\ size_stored <= l + StoredExtra
    <3>1. size_plain <= b /\ size_stored <= b + StoredExtra /\ b <= l
      BY <2>1, <2>2, <2>4
    <3> QED BY <3>1, <2>3
  <2>6. CASE t = <<"stored block", size_stored>>
    BY <2>4, <2>5, <2>6, <1>2
  <2>7. CASE t = <<"block", size_plain>>
    BY <2>4, <2>5, <2>7, <1>2
  <2> QED BY <2>1, <2>6, <2>7
<1>9. CASE ~(HeaderSize \/ DeriveKey \/ ReadIndex \/ UnpackIndex \/ LoadBlock)
  <2>1. taken' = taken
    BY <1>9 DEF Step, ReadHeader, VerifyMetadata, HeaderLimits, ReadFooter, IndexLimits,
                AskPassword, AskAgain, DecryptIndex
  <2> QED BY <2>1, <1>3
<1> QED BY <1>4, <1>5, <1>6, <1>7, <1>8, <1>9

(* Who is asked has a file whose sizes and defects have been seen.           *)
LEMMA StepAsks == ASSUME LoaderInv, Step PROVE AskedLast'
<1>1. file' = file /\ (SizesAccepted' <=> SizesAccepted)
  BY StepConstant, ConstantLimits DEF Constant
<1>2. CASE AskPassword \/ AskAgain
  <2>1. stage \in {"password", "again"}
    BY <1>2 DEF AskPassword, AskAgain, At
  <2>2. file.encrypted /\ SizesAccepted
    BY <2>1 DEF LoaderInv, PasswordsSeen, SizesSeen, SizesAccepted, Cleared
  <2>3. file.defect \in {"none", "bad parameters", "short index", "damaged index"}
    BY <2>1 DEF LoaderInv, DefectsSeen, LoaderInputs, File, Cleared
  <2>4. stage = "again" => file.defect # "bad parameters"
    BY <2>2 DEF LoaderInv, DefectsSeen, Cleared
  <2>5. file.defect = "bad parameters" => asked' = asked
    BY <2>4, <1>2 DEF AskPassword, AskAgain, At
  <2> QED BY <2>2, <2>3, <2>5, <1>1 DEF LoaderInv, AskedLast
<1>3. CASE ~(AskPassword \/ AskAgain)
  <2>1. asked' = asked
    BY <1>3 DEF Step, HeaderSize, ReadHeader, VerifyMetadata, HeaderLimits, ReadFooter,
                IndexLimits, DeriveKey, ReadIndex, DecryptIndex, UnpackIndex, LoadBlock
  <2> QED BY <2>1, <1>1 DEF LoaderInv, AskedLast
<1> QED BY <1>2, <1>3

(* A step that ends in a refusal has a reason that keeps the file, or the    *)
(* password, from being a good one; a step that goes on has seen one thing   *)
(* more.                                                                     *)
Seen == SizesSeen /\ DefectsSeen /\ PasswordsSeen
Refuses ==
    /\ stage' = "done" /\ outcome' # "loaded"
    /\ outcome' \in Mishap \/ ~SizesAccepted \/ ~RightPassword \/ ~Intact
GoesOn == stage' \in Stage /\ ~Ended' /\ outcome' = "none" /\ Seen'

LEMMA StepSees ==
    ASSUME LoaderInv, Step
    PROVE  \/ GoesOn \/ Refuses
           \/ UnpackIndex /\ stage' = "done" /\ outcome' = "loaded"
           \/ LoadBlock
<1>a. /\ \A k : EffLimit(k)' = EffLimit(k)
      /\ UNCHANGED <<file, command, typed>> /\ (Confirms' <=> Confirms)
  BY StepConstant, ConstantLimits DEF Constant
<1>b. /\ EffLimit("header") \in Nat /\ EffLimit("block") \in Nat
      /\ EffLimit("m_cost") \in Nat /\ EffLimit("index") \in Nat
  BY LimitIsNumber DEF LoaderInv, Kind
<1>c. /\ file.header \in Nat /\ file.block \in Nat /\ file.m_cost \in Nat
      /\ file.stored \in Nat /\ file.plain \in Nat
  BY SizeIsNumber DEF LoaderInv
<1>d. /\ typed[1] = "right" \/ typed[1] = "wrong"
      /\ typed[2] = "same" \/ typed[2] = "different"
      /\ file.encrypted \in BOOLEAN
  BY DEF LoaderInv, LoaderInputs, File
<1>e. Seen /\ (~Ended => outcome = "none")
  BY DEF LoaderInv, Seen
<1> HIDE DEF EffLimit
<1>f. /\ file.header > EffLimit("header") => ~SizesAccepted
      /\ file.block > EffLimit("block") => ~SizesAccepted
      /\ file.m_cost > EffLimit("m_cost") => ~SizesAccepted
      /\ file.stored > EffLimit("index") => ~SizesAccepted
      /\ file.plain > EffLimit("index") => ~SizesAccepted
  <2>1. \A m, n \in Nat : m > n => ~(m <= n)
    OBVIOUS
  <2> QED BY <2>1, <1>b, <1>c DEF SizesAccepted
<1>1. CASE HeaderSize
  <2>1. \/ stage' = "header" /\ outcome' = outcome
        \/ stage' = "done" /\ outcome' # "loaded" /\ file.defect = "no size"
        \/ stage' = "done" /\ outcome' # "loaded" /\ file.header > EffLimit("header")
    BY <1>1, <1>c DEF HeaderSize, Goto, EndWith
  <2>2. ASSUME stage' = "header" PROVE Seen' /\ ~Ended /\ ~Ended' /\ stage' \in Stage
    BY <1>1, <2>2, <1>a, <1>b, <1>c, <1>d, <1>e
    DEF HeaderSize, Goto, EndWith, At, Seen, SizesSeen, DefectsSeen, PasswordsSeen, Cleared,
        Ended, Stage
  <2>3. file.defect = "no size" \/ file.header > EffLimit("header") =>
          ~SizesAccepted \/ ~RightPassword \/ ~Intact
    BY <1>f DEF Intact
  <2> QED BY <2>1, <2>2, <2>3, <1>e, <1>1 DEF GoesOn, Refuses, Mishap
<1>2. CASE ReadHeader
  <2>1. \/ stage' = "metadata" /\ outcome' = outcome
        \/ stage' = "done" /\ outcome' # "loaded" /\ file.defect = "bad header"
    BY <1>2, <1>c DEF ReadHeader, Goto, EndWith
  <2>2. ASSUME stage' = "metadata" PROVE Seen' /\ ~Ended /\ ~Ended' /\ stage' \in Stage
    BY <1>2, <2>2, <1>a, <1>b, <1>c, <1>d, <1>e
    DEF ReadHeader, Goto, EndWith, At, Seen, SizesSeen, DefectsSeen, PasswordsSeen, Cleared,
        Ended, Stage
  <2>3. file.defect = "bad header" =>
          ~SizesAccepted \/ ~RightPassword \/ ~Intact
    BY <1>2, <1>e DEF ReadHeader, At, Seen, DefectsSeen, PasswordsSeen, Cleared, Intact
  <2> QED BY <2>1, <2>2, <2>3, <1>e, <1>2 DEF GoesOn, Refuses, Mishap
<1>3. CASE VerifyMetadata
  <2>1. \/ stage' = "limits" /\ outcome' = outcome
        \/ stage' = "done" /\ outcome' # "loaded" /\ file.defect = "other format"
    BY <1>3, <1>c DEF VerifyMetadata, Goto, EndWith
  <2>2. ASSUME stage' = "limits" PROVE Seen' /\ ~Ended /\ ~Ended' /\ stage' \in Stage
    BY <1>3, <2>2, <1>a, <1>b, <1>c, <1>d, <1>e
    DEF VerifyMetadata, Goto, EndWith, At, Seen, SizesSeen, DefectsSeen, PasswordsSeen, Cleared,
        Ended, Stage
  <2>3. file.defect = "other format" =>
          ~SizesAccepted \/ ~RightPassword \/ ~Intact
    BY <1>3, <1>e DEF VerifyMetadata, At, Seen, DefectsSeen, PasswordsSeen, Cleared, Intact
  <2> QED BY <2>1, <2>2, <2>3, <1>e, <1>3 DEF GoesOn, Refuses, Mishap
<1>4. CASE HeaderLimits
  <2>1. \/ stage' = "footer" /\ outcome' = outcome
        \/ stage' = "done" /\ outcome' # "loaded" /\ file.block > EffLimit("block")
        \/ stage' = "done" /\ outcome' # "loaded" /\ file.m_cost > EffLimit("m_cost")
    BY <1>4, <1>c DEF HeaderLimits, Goto, EndWith
  <2>2. ASSUME stage' = "footer" PROVE Seen' /\ ~Ended /\ ~Ended' /\ stage' \in Stage
    BY <1>4, <2>2, <1>a, <1>b, <1>c, <1>d, <1>e
    DEF HeaderLimits, Goto, EndWith, At, Seen, SizesSeen, DefectsSeen, PasswordsSeen, Cleared,
        Ended, Stage
  <2>3. file.block > EffLimit("block") \/ file.m_cost > EffLimit("m_cost") =>
          ~SizesAccepted \/ ~RightPassword \/ ~Intact
    BY <1>f DEF Intact
  <2> QED BY <2>1, <2>2, <2>3, <1>e, <1>4 DEF GoesOn, Refuses, Mishap
<1>5. CASE ReadFooter
  <2>1. \/ stage' = "index size" /\ outcome' = outcome
        \/ stage' = "done" /\ outcome' # "loaded" /\ file.defect = "too short"
    BY <1>5, <1>c DEF ReadFooter, Goto, EndWith
  <2>2. ASSUME stage' = "index size" PROVE Seen' /\ ~Ended /\ ~Ended' /\ stage' \in Stage
    BY <1>5, <2>2, <1>a, <1>b, <1>c, <1>d, <1>e
    DEF ReadFooter, Goto, EndWith, At, Seen, SizesSeen, DefectsSeen, PasswordsSeen, Cleared,
        Ended, Stage
  <2>3. file.defect = "too short" =>
          ~SizesAccepted \/ ~RightPassword \/ ~Intact
    BY <1>5, <1>e DEF ReadFooter, At, Seen, DefectsSeen, PasswordsSeen, Cleared, Intact
  <2> QED BY <2>1, <2>2, <2>3, <1>e, <1>5 DEF GoesOn, Refuses, Mishap
<1>6. CASE IndexLimits
  <2>1. \/ stage' \in {"password", "index"} /\ outcome' = outcome
        \/ stage' = "done" /\ outcome' # "loaded" /\ file.stored > EffLimit("index")
        \/ stage' = "done" /\ outcome' # "loaded" /\ file.plain > EffLimit("index")
    BY <1>6, <1>c DEF IndexLimits, Goto, EndWith
  <2>2. ASSUME stage' \in {"password", "index"} PROVE Seen' /\ ~Ended /\ ~Ended' /\ stage' \in Stage
    BY <1>6, <2>2, <1>a, <1>b, <1>c, <1>d, <1>e
    DEF IndexLimits, Goto, EndWith, At, Seen, SizesSeen, DefectsSeen, PasswordsSeen, Cleared,
        Ended, Stage
  <2>3. file.stored > EffLimit("index") \/ file.plain > EffLimit("index") =>
          ~SizesAccepted \/ ~RightPassword \/ ~Intact
    BY <1>f DEF Intact
  <2> QED BY <2>1, <2>2, <2>3, <1>e, <1>6 DEF GoesOn, Refuses, Mishap
<1>7. CASE AskPassword
  <2>1. \/ stage' \in {"again", "key"} /\ outcome' = outcome
        \/ stage' = "done" /\ outcome' = "no password"
        \/ stage' = "done" /\ outcome' # "loaded" /\ file.defect = "bad parameters"
    BY <1>7, <1>c DEF AskPassword, Goto, EndWith
  <2>2. ASSUME stage' \in {"again", "key"} PROVE Seen' /\ ~Ended /\ ~Ended' /\ stage' \in Stage
    BY <1>7, <2>2, <1>a, <1>b, <1>c, <1>d, <1>e
    DEF AskPassword, Goto, EndWith, At, Seen, SizesSeen, DefectsSeen, PasswordsSeen, Cleared,
        Ended, Stage
  <2>3. file.defect = "bad parameters" =>
          ~SizesAccepted \/ ~RightPassword \/ ~Intact
    BY <1>7, <1>e DEF AskPassword, At, Seen, DefectsSeen, PasswordsSeen, Cleared, Intact
  <2> QED BY <2>1, <2>2, <2>3, <1>e, <1>7 DEF GoesOn, Refuses, Mishap
<1>8. CASE AskAgain
  <2>1. \/ stage' = "key" /\ outcome' = outcome
        \/ stage' = "done" /\ outcome' = "no password"
        \/ stage' = "done" /\ outcome' # "loaded" /\ typed[2] = "different"
    BY <1>8, <1>c DEF AskAgain, Goto, EndWith
  <2>2. ASSUME stage' = "key" PROVE Seen' /\ ~Ended /\ ~Ended' /\ stage' \in Stage
    BY <1>8, <2>2, <1>a, <1>b, <1>c, <1>d, <1>e
    DEF AskAgain, Goto, EndWith, At, Seen, SizesSeen, DefectsSeen, PasswordsSeen, Cleared,
        Ended, Stage
  <2>3. typed[2] = "different" =>
          ~SizesAccepted \/ ~RightPassword \/ ~Intact
    BY <1>8, <1>e
    DEF AskAgain, At, Seen, PasswordsSeen, RightPassword, Intact
  <2> QED BY <2>1, <2>2, <2>3, <1>e, <1>8 DEF GoesOn, Refuses, Mishap
<1>9. CASE DeriveKey
  <2>1. \/ stage' = "index" /\ outcome' = outcome
        \/ stage' = "done" /\ outcome' = "no key"
    BY <1>9, <1>c DEF DeriveKey, Goto, EndWith
  <2>2. ASSUME stage' = "index" PROVE Seen' /\ ~Ended /\ ~Ended' /\ stage' \in Stage
    BY <1>9, <2>2, <1>a, <1>b, <1>c, <1>d, <1>e
    DEF DeriveKey, Goto, EndWith, At, Seen, SizesSeen, DefectsSeen, PasswordsSeen, Cleared,
        Ended, Stage
  <2> QED BY <2>1, <2>2, <1>e, <1>9 DEF GoesOn, Refuses, Mishap
<1>10. CASE ReadIndex
  <2>1. \/ stage' \in {"decrypt", "unpack"} /\ outcome' = outcome
        \/ stage' = "done" /\ outcome' # "loaded" /\ file.defect = "short index"
    BY <1>10, <1>c DEF ReadIndex, Goto, EndWith
  <2>2. ASSUME stage' \in {"decrypt", "unpack"} PROVE Seen' /\ ~Ended /\ ~Ended' /\ stage' \in Stage
    BY <1>10, <2>2, <1>a, <1>b, <1>c, <1>d, <1>e
    DEF ReadIndex, Goto, EndWith, At, Seen, SizesSeen, DefectsSeen, PasswordsSeen, Cleared,
        Ended, Stage
  <2>3. file.defect = "short index" =>
          ~SizesAccepted \/ ~RightPassword \/ ~Intact
    BY <1>10, <1>e DEF ReadIndex, At, Seen, DefectsSeen, PasswordsSeen, Cleared, Intact
  <2> QED BY <2>1, <2>2, <2>3, <1>e, <1>10 DEF GoesOn, Refuses, Mishap
<1>11. CASE DecryptIndex
  <2>1. \/ stage' = "unpack" /\ outcome' = outcome
        \/ stage' = "done" /\ outcome' # "loaded" /\ typed[1] = "wrong"
        \/ stage' = "done" /\ outcome' # "loaded" /\ file.defect = "damaged index"
    BY <1>11, <1>c DEF DecryptIndex, Goto, EndWith
  <2>2. ASSUME stage' = "unpack" PROVE Seen' /\ ~Ended /\ ~Ended' /\ stage' \in Stage
    BY <1>11, <2>2, <1>a, <1>b, <1>c, <1>d, <1>e
    DEF DecryptIndex, Goto, EndWith, At, Seen, SizesSeen, DefectsSeen, PasswordsSeen, Cleared,
        Ended, Stage
  <2>3. typed[1] = "wrong" \/ file.defect = "damaged index" =>
          ~SizesAccepted \/ ~RightPassword \/ ~Intact
    BY <1>11, <1>e
    DEF DecryptIndex, At, Seen, PasswordsSeen, RightPassword, Intact
  <2> QED BY <2>1, <2>2, <2>3, <1>e, <1>11 DEF GoesOn, Refuses, Mishap
<1>12. CASE UnpackIndex
  <2>1. \/ stage' = "done" /\ outcome' = "loaded"
        \/ stage' = "done" /\ outcome' = "no engine"
        \/ stage' = "done" /\ outcome' # "loaded" /\ file.defect = "damaged index"
    BY <1>12, <1>c DEF UnpackIndex, Goto, EndWith
  <2>2. file.defect = "damaged index" =>
          ~SizesAccepted \/ ~RightPassword \/ ~Intact
    BY <1>12, <1>e DEF UnpackIndex, At, Seen, DefectsSeen, PasswordsSeen, Cleared, Intact
  <2> QED BY <2>1, <2>2, <1>e, <1>12 DEF GoesOn, Refuses, Mishap
<1> QED BY <1>1, <1>2, <1>3, <1>4, <1>5, <1>6, <1>7, <1>8, <1>9, <1>10, <1>11, <1>12 DEF Step

LEMMA StepOpens == ASSUME LoaderInv, Step PROVE OpensTheSound'
<1>1. /\ file' = file /\ (SizesAccepted' <=> SizesAccepted)
      /\ RightPassword' <=> RightPassword
      /\ Intact' <=> Intact
  BY StepConstant, ConstantLimits DEF Constant
<1>2. CASE GoesOn
  BY <1>2 DEF GoesOn, OpensTheSound
<1>3. CASE Refuses
  BY <1>1, <1>3 DEF Refuses, OpensTheSound
<1>4. CASE UnpackIndex /\ stage' = "done" /\ outcome' = "loaded"
  <2>1. stage = "unpack"
    BY <1>4 DEF UnpackIndex, At
  <2>2. SizesAccepted
    BY <2>1 DEF LoaderInv, SizesSeen, Cleared, SizesAccepted
  <2>3. RightPassword
    BY <2>1 DEF LoaderInv, PasswordsSeen, RightPassword
  <2>4. Intact \/ (file.defect = "damaged index" /\ ~file.encrypted)
    BY <2>1 DEF LoaderInv, LoaderInputs, File, DefectsSeen, Cleared, Intact
  <2> QED BY <1>1, <1>4, <2>2, <2>3, <2>4 DEF OpensTheSound
<1>5. CASE LoadBlock
  <2>1. Ended /\ outcome = "loaded" /\ outcome' = "loaded"
    BY <1>5 DEF LoadBlock, At, Ended
  <2> QED BY <1>1, <2>1 DEF LoaderInv, OpensTheSound
<1> QED BY <1>2, <1>3, <1>4, <1>5, StepSees

LEMMA StepLoader == ASSUME LoaderInv, Step PROVE LoaderInv'
<1>1. LoaderInputs'
  BY StepConstant, ConstantLimits DEF LoaderInv
<1>2. stage' \in Stage /\ (~Ended' => outcome' = "none") /\ Seen'
  <2>1. CASE GoesOn
    BY <2>1 DEF GoesOn
  <2>2. ASSUME stage' \in {"done", "block"}
        PROVE  stage' \in Stage /\ Ended' /\ Seen'
    BY <2>2 DEF Stage, Ended, Seen, SizesSeen, DefectsSeen, PasswordsSeen, Cleared
  <2>3. Refuses \/ LoadBlock => stage' \in {"done", "block"}
    BY DEF Refuses, LoadBlock
  <2> QED BY <2>1, <2>2, <2>3, StepSees
<1> QED BY <1>1, <1>2, StepTakes, StepAsks, StepOpens DEF LoaderInv, Seen

LEMMA NextLoader == LoaderInv /\ [LoadNext]_loadVars => LoaderInv'
<1> SUFFICES ASSUME LoaderInv, [LoadNext]_loadVars PROVE LoaderInv'
  OBVIOUS
<1>1. CASE Done \/ UNCHANGED loadVars
  <2>1. Constant /\ UNCHANGED <<stage, taken, asked, outcome>>
    BY <1>1 DEF Done, Constant, loadVars
  <2>2. /\ \A k : EffLimit(k)' = EffLimit(k) /\ MostTaken(k)' = MostTaken(k)
        /\ SizesAccepted' <=> SizesAccepted
        /\ RightPassword' <=> RightPassword
        /\ Intact' <=> Intact
        /\ Confirms' <=> Confirms
        /\ LoaderInputs' <=> LoaderInputs
        /\ file' = file /\ typed' = typed
    BY <2>1, ConstantLimits DEF Constant
  <2> HIDE DEF EffLimit, MostTaken
  <2>3. (Ended' <=> Ended) /\ Seen'
    BY <2>1, <2>2 DEF LoaderInv, Ended, Seen, SizesSeen, DefectsSeen, PasswordsSeen
  <2>4. WithinLimits' /\ AskedLast' /\ OpensTheSound'
    BY <2>1, <2>2, <2>3 DEF LoaderInv, WithinLimits, AskedLast, OpensTheSound
  <2> QED BY <2>1, <2>2, <2>3, <2>4 DEF LoaderInv, Seen
<1> QED BY <1>1, StepLoader DEF LoadNext

THEOREM LoaderInvariant == LoadSpec => []LoaderInv
BY InitLoader, NextLoader, PTL DEF LoadSpec

(* No memory beyond a limit is taken, whatever the file claims: each size is *)
(* compared before it is used (loader.rs:24-160, reader.rs:230-284).         *)
THEOREM MemoryIsLimited == LoadSpec => []WithinLimits
<1>1. LoaderInv => WithinLimits
  BY DEF LoaderInv
<1> QED BY <1>1, LoaderInvariant, PTL

(* When a password is asked for, all that can be known of the file without   *)
(* it has been found good; only the index, which is read with the key, may   *)
(* still be missing or damaged (loader.rs:24-110, codec.rs:13-44).           *)
THEOREM PasswordComesLast == LoadSpec => []AskedLast
<1>1. LoaderInv => AskedLast
  BY DEF LoaderInv
<1> QED BY <1>1, LoaderInvariant, PTL

(* The order of the checks decides only which error is shown: a sound file   *)
(* within the limits opens unless a mishap stops it, and of the others only  *)
(* one with a damaged index and no cipher can open (loader.rs:24-160,        *)
(* codec.rs:13-44).                                                          *)
THEOREM OpensWhatIsSound == LoadSpec => []OpensTheSound
<1>1. LoaderInv => OpensTheSound
  BY DEF LoaderInv
<1> QED BY <1>1, LoaderInvariant, PTL
=============================================================================
