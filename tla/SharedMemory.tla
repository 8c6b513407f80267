----------------------------- MODULE SharedMemory -----------------------------
(***************************************************************************)
(* The parser of HWiNFO's shared memory (sw_parse.c), over an image of     *)
(* words: a header that says where two tables lie, the sensors and the     *)
(* entries.  Every word is untrusted.  The widths are scaled down: of a    *)
(* sensor two words are read (its original and its user's name), of an     *)
(* entry five (type, sensor index, the two names, value), and sizes wrap   *)
(* above SizeMax as size_t does on a 32-bit build.                         *)
(***************************************************************************)
EXTENDS Integers, Sequences

CONSTANTS
  SizeMax,         \* SIZE_MAX
  Magic,           \* SW_HEADER_MAGIC
  MaxSensorCount,  \* SW_MAX_SENSOR_COUNT
  MaxEntryCount,   \* SW_MAX_ENTRY_COUNT
  MaxTotalSize,    \* SW_MAX_TOTAL_SIZE
  LastType         \* the last type code of the source, 8

\* The header: the magic and the six words below.
HeaderSize    == 7
MinSensorSize == 2
MinEntrySize  == 5

ASSUME MemoryAssumption ==
  /\ SizeMax \in Nat /\ MaxTotalSize \in HeaderSize..SizeMax
  /\ MaxSensorCount \in Nat /\ MaxEntryCount \in Nat

\* sw_read_u32; outside the image lies whatever lies there.
Word(image, at) == IF at \in DOMAIN image THEN image[at] ELSE 0

HeaderOf(image) ==
  [sensorOff |-> Word(image, 1), sensorSize |-> Word(image, 2), sensorCount |-> Word(image, 3),
   entryOff  |-> Word(image, 4), entrySize  |-> Word(image, 5), entryCount  |-> Word(image, 6)]

\* sw_size_mul and sw_size_add: a result that does not fit is refused.
Overflow == -1

\* Seeded fault: the product wraps.
SizeMulWraps(a, b) == (a * b) % (SizeMax + 1)

SizeMul(a, b) == IF a # 0 /\ b * a > SizeMax THEN Overflow ELSE a * b

SizeAdd(a, b) == IF b = Overflow \/ a > SizeMax - b THEN Overflow ELSE a + b

\* The checks of the header, before any of it is used as a bound.
Accepted(h, len) ==
  LET sensorEnd == SizeAdd(h.sensorOff, SizeMul(h.sensorCount, h.sensorSize))
      entryEnd  == SizeAdd(h.entryOff, SizeMul(h.entryCount, h.entrySize))
  IN  /\ h.sensorSize >= MinSensorSize /\ h.entrySize >= MinEntrySize
      /\ h.sensorCount <= MaxSensorCount /\ h.entryCount <= MaxEntryCount
      /\ h.sensorOff >= HeaderSize /\ h.entryOff >= HeaderSize
      /\ sensorEnd # Overflow /\ entryEnd # Overflow
      /\ sensorEnd <= len /\ entryEnd <= len
      /\ ~(h.sensorOff < entryEnd /\ h.entryOff < sensorEnd)

\* Seeded fault: the tables are read as if their elements were minimal.
BasePacked(offset, i, size) == (offset + i * MinEntrySize) % (SizeMax + 1)

\* Where the element i of a table begins, in size_t.
Base(offset, i, size) == (offset + i * size) % (SizeMax + 1)

\* The words the two loops read.
SensorReads(h) ==
  {Base(h.sensorOff, i, h.sensorSize) + k : i \in 0..h.sensorCount-1, k \in 0..MinSensorSize-1}

EntryReads(h) ==
  {Base(h.entryOff, i, h.entrySize) + k : i \in 0..h.entryCount-1, k \in 0..MinEntrySize-1}

\* A name is the user's, or the original where the user gave none (0 is empty).
NameAt(image, at) == IF Word(image, at + 1) # 0 THEN Word(image, at + 1) ELSE Word(image, at)

\* A sensor index out of range makes a name of its own (sensor_<index>).
SensorName(image, h, sidx) ==
  IF sidx < h.sensorCount THEN NameAt(image, Base(h.sensorOff, sidx, h.sensorSize))
  ELSE -(sidx + 1)

\* sw_map_reading_type and ReadingType::from_raw: codes past the last are unknown.
KindOf(code) == IF code <= LastType THEN code ELSE LastType + 1

EntryAt(image, h, i) ==
  LET at == Base(h.entryOff, i, h.entrySize) IN
  [sensor  |-> SensorName(image, h, Word(image, at + 1)),
   reading |-> NameAt(image, at + 2),
   kind    |-> KindOf(Word(image, at)),
   value   |-> Word(image, at + 4)]

Entries(image, h) == [n \in 1..h.entryCount |-> EntryAt(image, h, n - 1)]
=============================================================================
