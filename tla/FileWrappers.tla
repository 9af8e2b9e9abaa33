---------------------------- MODULE FileWrappers ----------------------------
(***************************************************************************)
(* The file formats of storage (modyn/storage/src/internal/file_wrapper):  *)
(* how the rows of a file are laid out and read back.  Indices of rows are *)
(* zero based, as in the code; a byte or a cell is a number.               *)
(*                                                                         *)
(*   "binary"         fixed-size records, the label's bytes first          *)
(*   "csv"            rows of cells, one of which is the label             *)
(*   "single_sample"  one row: the file is the data, a file next to it the *)
(*                    label                                                *)
(***************************************************************************)
EXTENDS Integers, SequencesExt

CONSTANTS
  FileWrapperType,
  record_size, label_size,   \* binary
  label_index                \* csv, zero based

ASSUME FormatAssumption ==
  /\ FileWrapperType \in {"binary", "csv", "single_sample"}
  /\ label_size \in Nat \ {0} /\ record_size \in Nat /\ record_size > label_size
  /\ label_index \in Nat

sample_size == record_size - label_size
-----------------------------------------------------------------------------
(* What a user's program writes: rows are records [label, data], the label *)
(* a number, the data a sequence of cells.                                 *)
LittleEndian(n) == [i \in 1 .. label_size |-> (n \div 256 ^ (i - 1)) % 256]

Encode(rows) ==
  CASE FileWrapperType = "binary" ->
         FlattenSeq([i \in DOMAIN rows |-> LittleEndian(rows[i].label) \o rows[i].data])
    [] FileWrapperType = "csv" ->
         [i \in DOMAIN rows |-> InsertAt(rows[i].data, label_index + 1, rows[i].label)]
    [] FileWrapperType = "single_sample" -> rows
-----------------------------------------------------------------------------
(* Reading.  Record gives the bytes of record index of a binary file from  *)
(* offset on.                                                              *)
IntFromBytes(bytes) == FoldRight(LAMBDA byte, acc : acc * 256 + byte, bytes, 0)

Record(file, index, offset, size) ==
  SubSeq(file, index * record_size + offset + 1, index * record_size + offset + size)

GetNumberOfSamples(file) ==
  CASE FileWrapperType = "binary" -> Len(file) \div record_size
    [] FileWrapperType = "csv" -> Len(file)
    [] FileWrapperType = "single_sample" -> 1

GetLabel(file, index) ==
  CASE FileWrapperType = "binary" -> IntFromBytes(Record(file, index, 0, label_size))
    [] FileWrapperType = "csv" -> file[index + 1][label_index + 1]
    [] FileWrapperType = "single_sample" -> file[1].label

(* The number of samples is that of the file as it was opened.             *)
GetAllLabels(file, number_of_samples) ==
  [i \in 1 .. number_of_samples |-> GetLabel(file, i - 1)]

GetSampleForgetsLabel(file, index) ==   \* mutant: the label's bytes are not skipped
  Record(file, index, 0, sample_size)
GetSample(file, index) ==
  CASE FileWrapperType = "binary" -> Record(file, index, label_size, sample_size)
    [] FileWrapperType = "csv" -> RemoveAt(file[index + 1], label_index + 1)
    [] FileWrapperType = "single_sample" -> file[1].data

(* The assertions on the indices; where they fail the code throws.         *)
ValidIndices(file, indices) ==
  /\ \A i \in DOMAIN indices : indices[i] < GetNumberOfSamples(file)
  /\ FileWrapperType = "single_sample" => Len(indices) = 1

GetSamplesFromIndices(file, indices) ==
  [i \in DOMAIN indices |-> GetSample(file, indices[i])]

(* set_file_path and the constructors: the size of a binary file has to    *)
(* fit.  A binary file that vanishes before its stream is opened is read   *)
(* as zeros, a single sample as nothing; a csv file is read at once.       *)
Opens(file) == FileWrapperType = "binary" => Len(file) % record_size = 0

Vanished(file) ==
  CASE FileWrapperType = "binary" -> [i \in DOMAIN file |-> 0]
    [] FileWrapperType = "csv" -> file
    [] FileWrapperType = "single_sample" -> <<[file[1] EXCEPT !.data = <<>>]>>

(* delete_samples removes rows of a csv file only, the last ones first.    *)
DeleteSamples(file, indices) ==
  IF FileWrapperType = "csv"
  THEN [i \in 1 .. Len(file) - Cardinality(indices) |->
          file[CHOOSE k \in DOMAIN file :
                 /\ k - 1 \notin indices
                 /\ Cardinality({j \in 1 .. k : j - 1 \notin indices}) = i]]
  ELSE file
=============================================================================
