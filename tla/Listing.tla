------------------------------- MODULE Listing -------------------------------
(* The figures that list shows of an archive: what each file takes of the    *)
(* blocks it shares with its neighbours, and the totals, which the listing   *)
(* for people adds up itself and the plain and JSON listings take from the   *)
(* index.  Over the archives that Layout makes.                              *)
EXTENDS Layout

CONSTANTS
    StoredSizes,   \* sequences: the stored sizes of the blocks, over and over
    Scale          \* fractions of a block are kept in this many parts

ASSUME StoredSizesAssumption == StoredSizes \subseteq Seq(Nat) \ {<<>>}
ASSUME ScaleAssumption ==
    Scale \in Nat \ {0} /\ \A n \in 1..BlockSize : Scale % n = 0

VARIABLES size_stored

listingVars == <<vars, size_stored>>

LInit == Init /\ size_stored \in StoredSizes
LNext == Next /\ UNCHANGED size_stored
LSpec == LInit /\ [][LNext]_listingVars

-----------------------------------------------------------------------------
SizeStored(i) == size_stored[1 + ((i - 1) % Len(size_stored))]

(* Mutant: an overlap counts from the start of the block. *)
OverlapFromStart(f, i) ==
    IF Overlaps(f, i) THEN TakeEnd(f, i) ELSE 0

Overlap(f, i) ==
    IF Overlaps(f, i) THEN TakeEnd(f, i) - TakeStart(f, i) ELSE 0

(* The share of the block that is the file's, in parts. *)
Share(f, i) == Overlap(f, i) * SizeStored(i) * (Scale \div SizePlain(i))

(* Cast to an integer in the end only. *)
file_compressed_size(f) ==
    Total([i \in 1..Len(blocks) |-> IF SizePlain(i) = 0 THEN 0 ELSE Share(f, i)])
        \div Scale

total_compressed_size == Total([i \in 1..Len(blocks) |-> SizeStored(i)])

(* The two columns with sizes; list_human adds up the first. *)
Row(f) ==
    IF f.ftype = "File" THEN [size |-> f.size, compressed |-> file_compressed_size(f)]
    ELSE [size |-> 0, compressed |-> 0]
Column(name) == Total([i \in 1..Len(files) |-> Row(files[i])[name]])

-----------------------------------------------------------------------------
Unchanged == \A i \in DOMAIN files : RegularFile(i) => files[i].size = Len(contents[i])
Listable == pc = "stored" /\ Unchanged

(* The column of sizes adds up to the total in the index, over all appends   *)
(* (list_human prints the one, list_json and list_plain the other); and the  *)
(* column of compressed sizes to the stored size of the archive, less what   *)
(* rounding down takes from each file that has data: no byte of a block that *)
(* several files share is counted twice or left out.                         *)
ColumnsAddUp ==
    Listable =>
        LET sizes == Column("size")
            compressed == Column("compressed")
            withData == {i \in DOMAIN files : RegularFile(i) /\ files[i].size > 0}
        IN /\ sizes = total_stream_size
           /\ compressed <= total_compressed_size
           /\ total_compressed_size <= compressed + Cardinality(withData)
=============================================================================
