---------------------------- MODULE LiveLogProofs -----------------------------
(***************************************************************************)
(* Proofs about a poll of the sensors: for every image HWiNFO may leave in *)
(* its memory, every moment at which it writes, every width of size_t and  *)
(* every call that fails.                                                  *)
(***************************************************************************)
EXTENDS LiveLog, FiniteSetTheorems, TLAPS

-----------------------------------------------------------------------------
(* The parser. *)

Headers == [sensorOff : Nat, sensorSize : Nat, sensorCount : Nat,
            entryOff : Nat, entrySize : Nat, entryCount : Nat]

\* Where plain arithmetic puts the element i of a table.
Place(offset, i, size) == offset + i * size

\* What the checks of the header say of one table: neither its end nor the bases
\* of its elements wrapped, and all of its elements lie in the copy ...
LEMMA ElementPlaced ==
  ASSUME NEW offset \in Nat, NEW size \in Nat, NEW count \in Nat,
         NEW len \in Nat, len <= SizeMax,
         SizeAdd(offset, SizeMul(count, size)) # Overflow,
         SizeAdd(offset, SizeMul(count, size)) <= len,
         NEW i \in 0..count-1
  PROVE  /\ Base(offset, i, size) = Place(offset, i, size)
         /\ Place(offset, i, size) \in Nat
         /\ offset <= Place(offset, i, size)
         /\ Place(offset, i, size) + size <= len
<1> USE MemoryAssumption DEF HeaderSize, Overflow
<1> DEFINE all == count * size
           before == i * size
<1>1. all \in Nat /\ before \in Nat
  OBVIOUS
<1>2. before + size <= all
  <2>1. count - 1 - i \in Nat
    OBVIOUS
  <2>2. \A n \in Nat : n * size >= 0
    OBVIOUS
  <2>3. (count - 1 - i) * size >= 0
    BY <2>1, <2>2
  <2>4. all - before - size = (count - 1 - i) * size
    OBVIOUS
  <2> QED BY <1>1, <2>3, <2>4
<1>3. SizeMul(count, size) = all
  <2>1. SizeMul(count, size) # Overflow
    BY DEF SizeAdd
  <2> QED BY <2>1 DEF SizeMul
<1>4. offset + all <= len
  <2> HIDE DEF all
  <2> QED BY <1>1, <1>3 DEF SizeAdd
<1>5. Place(offset, i, size) = offset + before
  BY DEF Place
<1>6. Base(offset, i, size) = (offset + before) % (SizeMax + 1)
  BY DEF Base
<1> HIDE DEF all, before
<1>7. offset + before \in 0..SizeMax
  BY <1>1, <1>2, <1>4
<1>8. \A m \in 0..SizeMax : m % (SizeMax + 1) = m
  OBVIOUS
<1> QED BY <1>1, <1>2, <1>4, <1>5, <1>6, <1>7, <1>8

\* ... and behind the header.
LEMMA ElementInTable ==
  ASSUME NEW offset \in Nat, NEW size \in Nat, NEW count \in Nat, NEW least \in Nat,
         NEW len \in Nat, len <= SizeMax,
         offset >= HeaderSize, size >= least,
         SizeAdd(offset, SizeMul(count, size)) # Overflow,
         SizeAdd(offset, SizeMul(count, size)) <= len,
         NEW i \in 0..count-1, NEW k \in 0..least-1
  PROVE  Base(offset, i, size) + k \in HeaderSize..len-1
BY ElementPlaced DEF HeaderSize

\* The end of a table, where it was not refused, is its end in plain arithmetic.
LEMMA TableEnd ==
  ASSUME NEW offset \in Nat, NEW size \in Nat, NEW count \in Nat,
         SizeAdd(offset, SizeMul(count, size)) # Overflow
  PROVE  SizeAdd(offset, SizeMul(count, size)) = offset + count * size
<1> DEFINE all == count * size
<1>1. all \in Nat
  OBVIOUS
<1>2. SizeMul(count, size) = all
  BY DEF SizeAdd, SizeMul, Overflow
<1> HIDE DEF all
<1>3. SizeAdd(offset, all) = offset + all
  BY <1>1, <1>2 DEF SizeAdd, Overflow
<1> QED BY <1>2, <1>3 DEF all

\* The two loops of sw_parse_buffer read within an accepted copy.
LEMMA AcceptedReads ==
  ASSUME NEW h \in Headers, NEW len \in Nat, len <= SizeMax, Accepted(h, len)
  PROVE  /\ SensorReads(h) \subseteq HeaderSize..len-1
         /\ EntryReads(h) \subseteq HeaderSize..len-1
<1> USE DEF Headers
<1>1. \A i \in 0..h.sensorCount-1, k \in 0..MinSensorSize-1 :
        Base(h.sensorOff, i, h.sensorSize) + k \in HeaderSize..len-1
  <2> TAKE i \in 0..h.sensorCount-1, k \in 0..MinSensorSize-1
  <2> QED BY ElementInTable DEF Accepted, MinSensorSize
<1>2. \A i \in 0..h.entryCount-1, k \in 0..MinEntrySize-1 :
        Base(h.entryOff, i, h.entrySize) + k \in HeaderSize..len-1
  <2> TAKE i \in 0..h.entryCount-1, k \in 0..MinEntrySize-1
  <2> QED BY ElementInTable DEF Accepted, MinEntrySize
<1> QED BY <1>1, <1>2 DEF SensorReads, EntryReads
\* Every element of the tables of an accepted header lies where plain
\* arithmetic puts it.
LEMMA AcceptedPlaces ==
  ASSUME NEW h \in Headers, NEW len \in Nat, len <= SizeMax, Accepted(h, len)
  PROVE  /\ \A i \in 0..h.sensorCount-1, k \in 0..MinSensorSize-1 :
              /\ Base(h.sensorOff, i, h.sensorSize) + k \in HeaderSize..len-1
              /\ Base(h.sensorOff, i, h.sensorSize) = Place(h.sensorOff, i, h.sensorSize)
         /\ \A i \in 0..h.entryCount-1, k \in 0..MinEntrySize-1 :
              /\ Base(h.entryOff, i, h.entrySize) + k \in HeaderSize..len-1
              /\ Base(h.entryOff, i, h.entrySize) = Place(h.entryOff, i, h.entrySize)
<1> USE DEF Headers
<1>1. \A i \in 0..h.sensorCount-1, k \in 0..MinSensorSize-1 :
        /\ Base(h.sensorOff, i, h.sensorSize) + k \in HeaderSize..len-1
        /\ Base(h.sensorOff, i, h.sensorSize) = Place(h.sensorOff, i, h.sensorSize)
  <2> TAKE i \in 0..h.sensorCount-1, k \in 0..MinSensorSize-1
  <2> DEFINE offset == h.sensorOff
             size == h.sensorSize
             count == h.sensorCount
  <2>1. /\ offset \in Nat /\ size \in Nat /\ count \in Nat /\ MinSensorSize \in Nat
        /\ offset >= HeaderSize /\ size >= MinSensorSize
        /\ SizeAdd(offset, SizeMul(count, size)) # Overflow
        /\ SizeAdd(offset, SizeMul(count, size)) <= len
        /\ i \in 0..count-1
    BY DEF Accepted, MinSensorSize
  <2> HIDE DEF offset, size, count
  <2>2. Base(offset, i, size) + k \in HeaderSize..len-1
    BY <2>1, ElementInTable
  <2>3. Base(offset, i, size) = Place(offset, i, size)
    BY <2>1, ElementPlaced
  <2> QED BY <2>2, <2>3 DEF offset, size, count
<1>2. \A i \in 0..h.entryCount-1, k \in 0..MinEntrySize-1 :
        /\ Base(h.entryOff, i, h.entrySize) + k \in HeaderSize..len-1
        /\ Base(h.entryOff, i, h.entrySize) = Place(h.entryOff, i, h.entrySize)
  <2> TAKE i \in 0..h.entryCount-1, k \in 0..MinEntrySize-1
  <2> DEFINE offset == h.entryOff
             size == h.entrySize
             count == h.entryCount
  <2>1. /\ offset \in Nat /\ size \in Nat /\ count \in Nat /\ MinEntrySize \in Nat
        /\ offset >= HeaderSize /\ size >= MinEntrySize
        /\ SizeAdd(offset, SizeMul(count, size)) # Overflow
        /\ SizeAdd(offset, SizeMul(count, size)) <= len
        /\ i \in 0..count-1
    BY DEF Accepted, MinEntrySize
  <2> HIDE DEF offset, size, count
  <2>2. Base(offset, i, size) + k \in HeaderSize..len-1
    BY <2>1, ElementInTable
  <2>3. Base(offset, i, size) = Place(offset, i, size)
    BY <2>1, ElementPlaced
  <2> QED BY <2>2, <2>3 DEF offset, size, count
<1> QED BY <1>1, <1>2

\* The parser is exact: of a copy whose header it accepted it returns what the
\* words say in plain arithmetic, and that header is a valid layout.
LEMMA ParserIsExact ==
  ASSUME NEW W, NEW size \in Nat, size = Cardinality(DOMAIN W), W \in [0..size-1 -> Nat],
         NEW B, B = [at \in 0..Extent(W)-1 |-> W[at]],
         Extent(W) >= HeaderSize, Word(B, 0) = Magic, Accepted(HeaderOf(B), Extent(W))
  PROVE  /\ ValidLayout(W)
         /\ Entries(B, HeaderOf(B)) = [n \in 1..HeaderOf(W).entryCount |-> EntryIn(W, n)]
<1> DEFINE len == Extent(W)
           h == HeaderOf(B)
<1>0. len \in Nat /\ len <= size /\ len <= SizeMax /\ len >= HeaderSize
  BY MemoryAssumption DEF Extent, HeaderSize
<1>b. /\ DOMAIN B = 0..len-1 /\ \A at \in 0..len-1 : B[at] = W[at]
  OBVIOUS
<1> HIDE DEF len
<1>w. DOMAIN W = 0..size-1 /\ \A at \in 0..size-1 : W[at] \in Nat
  OBVIOUS
<1>r. \A at \in 0..len-1 : at \in 0..size-1
  BY <1>0
<1>1. \A at \in 0..len-1 : Word(B, at) = W[at] /\ Word(W, at) = W[at] /\ W[at] \in Nat
  BY <1>b, <1>w, <1>r DEF Word
<1>2. h = HeaderOf(W)
  <2>1. \A at \in 1..6 : at \in 0..len-1
    BY <1>0 DEF HeaderSize
  <2>2. \A at \in 1..6 : Word(B, at) = Word(W, at)
    BY <1>1, <2>1
  <2> QED BY <2>2 DEF HeaderOf
<1>3. h \in Headers
  <2>1. \A at \in DOMAIN B : B[at] \in Nat
    BY <1>b, <1>w, <1>r
  <2>2. \A at : Word(B, at) \in Nat
    BY <2>1 DEF Word
  <2> QED BY <2>2 DEF HeaderOf, Headers
<1>4. Accepted(h, len)
  BY DEF len
<1> HIDE DEF h
<1>5. /\ h.sensorOff \in Nat /\ h.sensorSize \in Nat /\ h.sensorCount \in Nat
      /\ h.entryOff \in Nat /\ h.entrySize \in Nat /\ h.entryCount \in Nat
  BY <1>3 DEF Headers
<1>6. ValidLayout(W)
  <2> DEFINE sensorEnd == h.sensorOff + h.sensorCount * h.sensorSize
             entryEnd == h.entryOff + h.entryCount * h.entrySize
  <2>1. /\ SizeAdd(h.sensorOff, SizeMul(h.sensorCount, h.sensorSize)) = sensorEnd
        /\ SizeAdd(h.entryOff, SizeMul(h.entryCount, h.entrySize)) = entryEnd
    BY <1>4, <1>5, TableEnd DEF Accepted
  <2>2. sensorEnd \in Nat /\ entryEnd \in Nat
    <3>1. \A a, b, c \in Nat : a + b * c \in Nat
      OBVIOUS
    <3> QED BY <1>5, <3>1
  <2> HIDE DEF sensorEnd, entryEnd
  <2>3. /\ h.sensorSize >= MinSensorSize /\ h.entrySize >= MinEntrySize
        /\ h.sensorCount <= MaxSensorCount /\ h.entryCount <= MaxEntryCount
        /\ h.sensorOff >= HeaderSize /\ h.entryOff >= HeaderSize
        /\ sensorEnd <= len /\ entryEnd <= len
        /\ ~(h.sensorOff < entryEnd /\ h.entryOff < sensorEnd)
    BY <1>4, <2>1 DEF Accepted
  <2>4. W[0] = Magic
    BY <1>0, <1>1 DEF HeaderSize
  <2>5. sensorEnd <= h.entryOff \/ entryEnd <= h.sensorOff
    BY <1>5, <2>2, <2>3
  <2>6. /\ MinSensorSize <= h.sensorSize /\ MinEntrySize <= h.entrySize
        /\ HeaderSize <= h.sensorOff /\ HeaderSize <= h.entryOff
    BY <1>5, <2>3 DEF MinSensorSize, MinEntrySize, HeaderSize
  <2> QED BY <1>0, <1>2, <2>3, <2>4, <2>5, <2>6 DEF ValidLayout, sensorEnd, entryEnd, len
<1>7. \A at \in Nat : at + 1 \in 0..len-1 => NameAt(B, at) = NameIn(W, at)
  BY <1>0, <1>1 DEF NameAt, NameIn
<1>8. ASSUME NEW s \in Nat
      PROVE  SensorName(B, h, s) = SensorIn(W, s)
  <2>1. CASE s < h.sensorCount
    <3> DEFINE at == Base(h.sensorOff, s, h.sensorSize)
    <3>0. s \in 0..h.sensorCount-1
      BY <1>5, <2>1
    <3>1. \A k \in 0..MinSensorSize-1 :
            at + k \in HeaderSize..len-1 /\ at = Place(h.sensorOff, s, h.sensorSize)
      BY <1>0, <1>3, <1>4, <3>0, AcceptedPlaces
    <3>2. at = h.sensorOff + s * h.sensorSize /\ at + 0 \in HeaderSize..len-1
          /\ at + 1 \in HeaderSize..len-1 /\ at \in Int
      <4>1. 0 \in 0..MinSensorSize-1 /\ 1 \in 0..MinSensorSize-1
        BY DEF MinSensorSize
      <4>2. h.sensorOff + s * h.sensorSize \in Int
        BY <1>5
      <4> HIDE DEF at
      <4> QED BY <3>1, <4>1, <4>2 DEF Place
    <3> HIDE DEF at
    <3>3. at \in Nat /\ at + 1 \in 0..len-1
      BY <1>0, <3>2 DEF HeaderSize
    <3>4. SensorName(B, h, s) = NameAt(B, at)
      BY <2>1 DEF SensorName, at
    <3>5. SensorIn(W, s) = NameIn(W, at)
      BY <1>2, <1>5, <2>1, <3>2 DEF SensorIn
    <3> QED BY <1>7, <3>3, <3>4, <3>5
  <2>2. CASE ~(s < h.sensorCount)
    BY <1>2, <1>5, <2>2 DEF SensorName, SensorIn
  <2> QED BY <2>1, <2>2
<1>9. ASSUME NEW n \in 1..h.entryCount
      PROVE  EntryAt(B, h, n - 1) = EntryIn(W, n)
  <2> DEFINE at == Base(h.entryOff, n - 1, h.entrySize)
  <2>0. n - 1 \in 0..h.entryCount-1
    BY <1>5
  <2>1. \A k \in 0..MinEntrySize-1 :
          at + k \in HeaderSize..len-1 /\ at = Place(h.entryOff, n - 1, h.entrySize)
    BY <1>0, <1>3, <1>4, <2>0, AcceptedPlaces
  <2>2. at = h.entryOff + (n - 1) * h.entrySize /\ at \in Int
    <3>1. 0 \in 0..MinEntrySize-1
      BY DEF MinEntrySize
    <3>2. h.entryOff + (n - 1) * h.entrySize \in Int
      BY <1>5
    <3> HIDE DEF at
    <3> QED BY <2>1, <3>1, <3>2 DEF Place
  <2> HIDE DEF at
  <2>4. at + 0 \in HeaderSize..len-1 /\ at + 4 \in HeaderSize..len-1
    <3>1. 0 \in 0..MinEntrySize-1 /\ 4 \in 0..MinEntrySize-1
      BY DEF MinEntrySize
    <3> QED BY <2>1, <3>1
  <2>5. at \in 0..len-1 /\ at + 1 \in 0..len-1 /\ at + 2 \in Nat /\ (at + 2) + 1 \in 0..len-1
        /\ at + 4 \in 0..len-1
    BY <1>0, <2>2, <2>4, SMTT(30) DEF HeaderSize
  <2>6. /\ Word(B, at) = W[at] /\ Word(B, at + 1) = W[at + 1] /\ Word(B, at + 4) = W[at + 4]
        /\ W[at + 1] \in Nat
        /\ NameAt(B, at + 2) = NameIn(W, at + 2)
    BY <1>1, <1>7, <2>5
  <2>7. SensorName(B, h, Word(B, at + 1)) = SensorIn(W, W[at + 1])
    BY <1>8, <2>6
  <2>8. EntryAt(B, h, n - 1) = [sensor |-> SensorName(B, h, Word(B, at + 1)), reading |-> NameAt(B, at + 2),
                                kind |-> KindOf(Word(B, at)), value |-> Word(B, at + 4)]
    BY DEF EntryAt, at
  <2>9. EntryIn(W, n) = [sensor |-> SensorIn(W, W[at + 1]), reading |-> NameIn(W, at + 2),
                         kind |-> KindOf(W[at]), value |-> W[at + 4]]
    BY <1>2, <2>2 DEF EntryIn
  <2> QED BY <2>6, <2>7, <2>8, <2>9
<1>10. Entries(B, h) = [n \in 1..h.entryCount |-> EntryIn(W, n)]
  BY <1>9 DEF Entries
<1> QED BY <1>2, <1>6, <1>10 DEF h

-----------------------------------------------------------------------------
(* What is held, step by step. *)

\* The resources a poll holds when it is at a step.
HeldAt(at) ==
  CASE at \in {"idle", "open", "done"} -> {}
    [] at = "map" -> {"mapping"}
    [] at = "check" -> Opened
    [] at = "alloc" -> OfSession
    [] at \in {"copy", "validate", "names"} -> OfSession \cup {"buffer"}
    [] at = "entries" -> OfSession \cup {"buffer", "names"}
    [] at = "adopt" -> OfSession \cup {"snapshot"}

PollSteps == {"idle", "open", "map", "check", "alloc", "copy", "validate", "names", "entries",
              "adopt", "done"}

Ledger ==
  /\ step \in PollSteps
  /\ held = [r \in Resources |-> IF r \in HeldAt(step) THEN 1 ELSE 0]

\* A step that takes and gives back what the tables say keeps the ledger.
LEMMA LedgerKept ==
  ASSUME Ledger, step' \in PollSteps,
         NEW gained, NEW freed, held' = Changed(gained, freed),
         gained \cap HeldAt(step) = {}, freed \subseteq HeldAt(step),
         HeldAt(step') = (HeldAt(step) \cup gained) \ freed,
         gained \cap freed = {}
  PROVE  Ledger'
<1>1. ASSUME NEW r \in Resources
      PROVE  held[r] + (IF r \in gained THEN 1 ELSE 0) - (IF r \in freed THEN 1 ELSE 0)
               = IF r \in HeldAt(step') THEN 1 ELSE 0
  BY DEF Ledger
<1> QED BY <1>1 DEF Ledger, Changed

-----------------------------------------------------------------------------
(* The memory, the copy and its header. *)

\* The words of HWiNFO's mapping are those of one layout, of a fixed size.
Mapped ==
  /\ hwinfo = [alive |-> hwinfo.alive, image |-> hwinfo.image, words |-> hwinfo.words,
               writing |-> hwinfo.writing]
  /\ hwinfo.image \in Images \cup Updates
  /\ hwinfo.words \in [0..MappedSize-1 -> Nat]
  /\ DOMAIN hwinfo.image.words = DOMAIN hwinfo.words
  /\ MappedSize \in Nat

InSession == {"alloc", "copy", "validate", "names", "entries", "adopt"}
Trusting  == {"names", "entries", "adopt"}

\* What the parser relies on: the header is mapped, the copy is of words, and
\* the header in use is one that was accepted for this very copy.
Sound ==
  /\ step \in InSession => MappedSize >= HeaderSize
  /\ \A at \in DOMAIN buffer : buffer[at] \in Nat
  /\ header \in Headers
  /\ step \in Trusting => Accepted(header, CopySize)
  /\ step \in {"entries", "adopt"} => touched \subseteq HeaderSize..CopySize-1

IInv == Ledger /\ Mapped /\ Sound

\* Whoever is in a session holds the view of its mapping.
LEMMA ViewHeld == ASSUME Ledger, step \in InSession PROVE held["view"] = 1
BY DEF Ledger, HeldAt, InSession, OfSession, Resources

LEMMA ImageMapped ==
  ASSUME NEW image \in Images \cup Updates
  PROVE  /\ Cardinality(DOMAIN image.words) \in Nat
         /\ image.words \in [0..Cardinality(DOMAIN image.words)-1 -> Nat]
BY ImagesAssumption, FS_CardinalityType

LEMMA HeaderTyped ==
  ASSUME NEW image, \A at \in DOMAIN image : image[at] \in Nat
  PROVE  HeaderOf(image) \in Headers
<1>1. \A at : Word(image, at) \in Nat
  BY DEF Word
<1> QED BY <1>1 DEF HeaderOf, Headers

LEMMA CopyTyped ==
  ASSUME Mapped PROVE CopySize \in Nat /\ CopySize <= SizeMax /\ CopySize <= MappedSize
BY MemoryAssumption DEF Mapped, CopySize, HeaderSize

\* HWiNFO changes the words at any time and never their number, and it makes a
\* new mapping only while nobody looks at the old one.
LEMMA HwinfoKeeps == ASSUME IInv, Hwinfo PROVE IInv'
<1>1. Ledger'
  BY DEF IInv, Hwinfo, Ledger
<1>2. CASE WriteHeader
  <2>1. PICK image \in Updates :
          /\ DOMAIN image.words = DOMAIN hwinfo.words
          /\ hwinfo' = [hwinfo EXCEPT
               !.image = image, !.writing = TRUE,
               !.words = [at \in DOMAIN @ |-> IF at < HeaderSize THEN image.words[at] ELSE @[at]]]
    BY <1>2 DEF WriteHeader
  <2>2. image.words \in [DOMAIN hwinfo.words -> Nat]
    BY <2>1, ImageMapped
  <2>3. /\ hwinfo'.image = image
        /\ hwinfo'.words = [at \in DOMAIN hwinfo.words |->
                              IF at < HeaderSize THEN image.words[at] ELSE hwinfo.words[at]]
        /\ hwinfo' = [alive |-> hwinfo'.alive, image |-> hwinfo'.image, words |-> hwinfo'.words,
                      writing |-> hwinfo'.writing]
    BY <2>1 DEF IInv, Mapped
  <2>4. hwinfo'.words \in [DOMAIN hwinfo.words -> Nat]
    BY <2>2, <2>3 DEF IInv, Mapped
  <2>5. MappedSize' = MappedSize
    BY <2>4 DEF MappedSize
  <2>6. Mapped'
    BY <2>1, <2>3, <2>4, <2>5 DEF IInv, Mapped
  <2> QED BY <1>1, <2>5, <2>6 DEF IInv, Sound, Hwinfo, CopySize
<1>3. CASE WriteTables
  <2>1. /\ hwinfo'.image = hwinfo.image
        /\ hwinfo'.words = hwinfo.image.words
        /\ hwinfo' = [alive |-> hwinfo'.alive, image |-> hwinfo'.image, words |-> hwinfo'.words,
                      writing |-> hwinfo'.writing]
    BY <1>3 DEF WriteTables, IInv, Mapped
  <2>2. MappedSize' = MappedSize
    BY <2>1 DEF IInv, Mapped, MappedSize
  <2>3. hwinfo.image.words \in [0..MappedSize-1 -> Nat]
    BY ImageMapped DEF IInv, Mapped, MappedSize
  <2>4. Mapped'
    BY <2>1, <2>2, <2>3 DEF IInv, Mapped
  <2> QED BY <1>1, <2>2, <2>4 DEF IInv, Sound, Hwinfo, CopySize
<1>4. CASE HwinfoExits
  <2>1. Mapped' /\ MappedSize' = MappedSize
    BY <1>4 DEF HwinfoExits, IInv, Mapped, MappedSize
  <2> QED BY <1>1, <2>1 DEF IInv, Sound, Hwinfo, CopySize
<1>5. CASE HwinfoStarts
  <2>1. PICK image \in Images :
          hwinfo' = [alive |-> TRUE, image |-> image, words |-> image.words, writing |-> FALSE]
    BY <1>5 DEF HwinfoStarts
  <2>2. Mapped'
    BY <2>1, ImageMapped DEF Mapped, MappedSize
  <2>3. step \notin InSession /\ UNCHANGED <<step, buffer, header>>
    BY <1>5, ViewHeld DEF HwinfoStarts, Hwinfo, IInv
  <2> QED BY <1>1, <2>2, <2>3 DEF IInv, Sound, InSession, Trusting
<1> QED BY <1>2, <1>3, <1>4, <1>5 DEF Hwinfo

\* A step of the poll that leaves HWiNFO alone leaves the mapping as it is.
LEMMA MappingKept ==
  ASSUME Mapped, UNCHANGED hwinfo PROVE Mapped' /\ MappedSize' = MappedSize /\ CopySize' = CopySize
BY DEF Mapped, MappedSize, CopySize

\* The ledger of a step that goes on and of a step that ends the poll.
LEMMA GoesOn ==
  ASSUME Ledger, NEW next \in PollSteps, NEW gained, NEW freed, Continues(next, gained, freed),
         gained \cap HeldAt(step) = {}, freed \subseteq HeldAt(step), gained \cap freed = {},
         HeldAt(next) = (HeldAt(step) \cup gained) \ freed
  PROVE  Ledger'
BY LedgerKept DEF Continues

LEMMA EndsClean ==
  ASSUME Ledger, NEW outcome, Ends(outcome, HeldAt(step))
  PROVE  Ledger' /\ step' = "done"
<1>1. step' = "done" /\ HeldAt("done") = {} /\ "done" \in PollSteps
  BY DEF Ends, HeldAt, PollSteps
<1> QED BY <1>1, LedgerKept DEF Ends

LEMMA OpenKeeps == ASSUME IInv, OpenMapping \/ MapView \/ CheckView PROVE IInv'
<1> USE DEF IInv
<1>0. Mapped' /\ MappedSize' = MappedSize /\ UNCHANGED <<buffer, header>>
  BY MappingKept DEF OpenMapping, MapView, CheckView
<1>1. CASE OpenMapping
  <2>1. HeldAt("open") = {} /\ HeldAt("map") = {"mapping"} /\ "map" \in PollSteps
    BY DEF HeldAt, PollSteps
  <2>2. Ledger' /\ step' \in {"map", "done"}
    <3>1. CASE Continues("map", {"mapping"}, {})
      BY <1>1, <2>1, <3>1, GoesOn DEF OpenMapping, Continues
    <3>2. CASE Ends(Failed("SourceUnavailable"), {})
      BY <1>1, <2>1, <3>2, EndsClean DEF OpenMapping
    <3> QED BY <1>1, <3>1, <3>2 DEF OpenMapping
  <2> QED BY <1>0, <2>2 DEF Sound, InSession, Trusting
<1>2. CASE MapView
  <2>1. HeldAt("map") = {"mapping"} /\ HeldAt("check") = {"view", "mapping"} /\ "check" \in PollSteps
    BY DEF HeldAt, PollSteps, Opened
  <2>2. Ledger' /\ step' \in {"check", "done"}
    <3>1. CASE Continues("check", {"view"}, {})
      BY <1>2, <2>1, <3>1, GoesOn DEF MapView, Continues
    <3>2. CASE Ends(Failed("MapFailed"), {"mapping"})
      BY <1>2, <2>1, <3>2, EndsClean DEF MapView
    <3> QED BY <1>2, <3>1, <3>2 DEF MapView
  <2> QED BY <1>0, <2>2 DEF Sound, InSession, Trusting
<1>3. CASE CheckView
  <2>1. HeldAt("check") = Opened /\ HeldAt("alloc") = Opened \cup {"session"} /\ "alloc" \in PollSteps
    BY DEF HeldAt, PollSteps, Opened, OfSession
  <2>2. Ledger' /\ (step' = "done" \/ (step' = "alloc" /\ MappedSize >= HeaderSize))
    <3>1. CASE Continues("alloc", {"session"}, {}) /\ MappedSize >= HeaderSize
      BY <1>3, <2>1, <3>1, GoesOn DEF CheckView, Continues, Opened
    <3>2. ASSUME NEW error \in Errors, Ends(Failed(error), Opened)
          PROVE  Ledger' /\ step' = "done"
      BY <1>3, <2>1, <3>2, EndsClean DEF CheckView
    <3>3. \/ Continues("alloc", {"session"}, {}) /\ MappedSize >= HeaderSize
          \/ \E error \in Errors : Ends(Failed(error), Opened)
      BY <1>3 DEF CheckView, Errors
    <3> QED BY <3>1, <3>2, <3>3
  <2> QED BY <1>0, <2>2 DEF Sound, InSession, Trusting
<1> QED BY <1>1, <1>2, <1>3

LEMMA CopyKeeps == ASSUME IInv, Allocate \/ CopyFirst \/ CopyRest PROVE IInv'
<1> USE DEF IInv
<1>0. Mapped' /\ MappedSize' = MappedSize /\ UNCHANGED header
  BY MappingKept DEF Allocate, CopyFirst, CopyRest
<1>1. CASE Allocate
  <2>1. /\ HeldAt("alloc") = OfSession /\ HeldAt("copy") = OfSession \cup {"buffer"}
        /\ "copy" \in PollSteps /\ "buffer" \notin OfSession
    BY DEF HeldAt, PollSteps, OfSession
  <2>2. Ledger' /\ step' \in {"copy", "done"}
    <3>1. CASE Continues("copy", {"buffer"}, {})
      BY <1>1, <2>1, <3>1, GoesOn DEF Allocate, Continues
    <3>2. CASE Ends(Failed("OutOfMemory"), OfSession)
      BY <1>1, <2>1, <3>2, EndsClean DEF Allocate
    <3> QED BY <1>1, <3>1, <3>2 DEF Allocate
  <2>3. UNCHANGED buffer
    BY <1>1 DEF Allocate
  <2> QED BY <1>0, <1>1, <2>2, <2>3 DEF Sound, InSession, Trusting, Allocate
<1>2. CASE CopyFirst
  <2>1. PICK cut \in Cuts : buffer' = [at \in 0..cut-1 |-> hwinfo.words[at]]
    BY <1>2 DEF CopyFirst
  <2>2. cut \in Nat /\ cut <= MappedSize
    BY <1>2, CutsAssumption DEF CopyFirst, Sound, InSession, Mapped, HeaderSize
  <2>3. \A at \in DOMAIN buffer' : buffer'[at] \in Nat
    BY <2>1, <2>2 DEF Mapped
  <2>4. Ledger'
    BY <1>2 DEF CopyFirst, Ledger
  <2> QED BY <1>0, <1>2, <2>3, <2>4 DEF CopyFirst, Sound, InSession, Trusting
<1>3. CASE CopyRest
  <2>1. /\ HeldAt("copy") = HeldAt("validate") /\ "validate" \in PollSteps
    BY DEF HeldAt, PollSteps
  <2>2. Ledger' /\ step' = "validate"
    BY <1>3, <2>1, GoesOn DEF CopyRest, Continues
  <2>3. \A at \in 0..CopySize-1 : hwinfo.words[at] \in Nat
    BY CopyTyped DEF Mapped
  <2>4. \A at \in DOMAIN buffer' : buffer'[at] \in Nat
    BY <1>3, <2>3 DEF CopyRest, Sound
  <2> QED BY <1>0, <1>3, <2>2, <2>4 DEF CopyRest, Sound, InSession, Trusting
<1> QED BY <1>1, <1>2, <1>3

LEMMA ParseKeeps == ASSUME IInv, Validate \/ BuildNames \/ BuildEntries PROVE IInv'
<1> USE DEF IInv
<1>0. Mapped' /\ MappedSize' = MappedSize /\ CopySize' = CopySize
  BY MappingKept DEF Validate, BuildNames, BuildEntries
<1>h. /\ HeldAt("validate") = OfSession \cup {"buffer"}
      /\ HeldAt("names") = OfSession \cup {"buffer"}
      /\ HeldAt("entries") = OfSession \cup {"names", "buffer"}
      /\ HeldAt("adopt") = OfSession \cup {"snapshot"}
      /\ {"names", "entries", "adopt"} \subseteq PollSteps
  BY DEF HeldAt, PollSteps
<1>1. CASE Validate
  <2>1. header' \in Headers
    BY <1>1, HeaderTyped DEF Validate, Sound, Parsed
  <2>2. Ledger' /\ (step' = "done" \/ (step' = "names" /\ Accepted(header', CopySize)))
    <3>1. CASE Continues("names", {}, {}) /\ Accepted(header', CopySize)
      BY <1>1, <1>h, <3>1, GoesOn DEF Validate, Continues
    <3>2. ASSUME NEW error \in Errors, Ends(Failed(error), OfSession \cup {"buffer"})
          PROVE  Ledger' /\ step' = "done"
      BY <1>1, <1>h, <3>2, EndsClean DEF Validate
    <3>3. CASE Word(Parsed, 0) # Magic
      BY <1>1, <3>2, <3>3 DEF Validate, Errors
    <3>4. CASE Word(Parsed, 0) = Magic /\ ~Accepted(header', CopySize)
      BY <1>1, <3>2, <3>4 DEF Validate, Errors
    <3>5. CASE Word(Parsed, 0) = Magic /\ Accepted(header', CopySize)
      BY <1>1, <3>1, <3>5 DEF Validate
    <3> QED BY <3>3, <3>4, <3>5
  <2> QED BY <1>0, <1>1, <2>1, <2>2 DEF Validate, Sound, InSession, Trusting
<1>2. CASE BuildNames
  <2>1. Ledger' /\ step' \in {"entries", "done"}
    <3>1. CASE Continues("entries", {"names"}, {})
      BY <1>2, <1>h, <3>1, GoesOn DEF BuildNames, Continues, OfSession
    <3>2. CASE Ends(Failed("OutOfMemory"), OfSession \cup {"buffer"})
      BY <1>2, <1>h, <3>2, EndsClean DEF BuildNames
    <3> QED BY <1>2, <3>1, <3>2 DEF BuildNames
  <2>2. Accepted(header, CopySize) /\ MappedSize >= HeaderSize
    BY <1>2 DEF BuildNames, Sound, Trusting, InSession
  <2>3. touched' \subseteq HeaderSize..CopySize-1
    BY <1>2, <2>2, CopyTyped, AcceptedReads DEF BuildNames, Sound
  <2> QED BY <1>0, <1>2, <2>1, <2>2, <2>3 DEF BuildNames, Sound, InSession, Trusting
<1>3. CASE BuildEntries
  <2>1. Ledger' /\ step' \in {"adopt", "done"}
    <3>1. CASE Continues("adopt", {"snapshot"}, {"names", "buffer"})
      BY <1>3, <1>h, <3>1, GoesOn DEF BuildEntries, Continues, OfSession
    <3>2. CASE Ends(Failed("OutOfMemory"), OfSession \cup {"names", "buffer"})
      BY <1>3, <1>h, <3>2, EndsClean DEF BuildEntries
    <3> QED BY <1>3, <3>1, <3>2 DEF BuildEntries
  <2>2. Accepted(header, CopySize) /\ MappedSize >= HeaderSize
    BY <1>3 DEF BuildEntries, Sound, Trusting, InSession
  <2>3. touched' \subseteq HeaderSize..CopySize-1
    BY <1>3, <2>2, CopyTyped, AcceptedReads DEF BuildEntries, Sound
  <2>4. \A at \in DOMAIN buffer' : buffer'[at] \in Nat
    BY <1>3 DEF BuildEntries, NoBuffer
  <2> QED BY <1>0, <1>3, <2>1, <2>2, <2>3, <2>4 DEF BuildEntries, Sound, InSession, Trusting
<1> QED BY <1>1, <1>2, <1>3

LEMMA FinishKeeps == ASSUME IInv, Materialize \/ Begin \/ Retire PROVE IInv'
<1> USE DEF IInv
<1>0. Mapped' /\ MappedSize' = MappedSize
  BY MappingKept DEF Materialize, Begin, Retire
<1>1. CASE Materialize
  <2>1. HeldAt("adopt") = OfSession \cup {"snapshot"}
    BY DEF HeldAt
  <2>2. Ledger' /\ step' = "done"
    <3>1. PICK outcome \in {[readings |-> snapshot], Failed("CorruptData")} :
            Ends(outcome, HeldAt(step))
      BY <1>1, <2>1 DEF Materialize
    <3> QED BY <3>1, EndsClean
  <2> QED BY <1>0, <1>1, <2>2 DEF Materialize, Sound, InSession, Trusting
<1>2. CASE Begin
  <2>1. Ledger' /\ step' = "open"
    BY <1>2 DEF Begin, Ledger, HeldAt, PollSteps
  <2> QED BY <1>0, <1>2, <2>1 DEF Begin, Sound, InSession, Trusting
<1>3. CASE Retire
  <2>1. Ledger' /\ step' = "idle"
    BY <1>3 DEF Retire, Ledger, HeldAt, PollSteps
  <2>2. HeaderOf(NoBuffer) \in Headers /\ \A at \in DOMAIN NoBuffer : NoBuffer[at] \in Nat
    BY HeaderTyped DEF NoBuffer
  <2> QED BY <1>0, <1>3, <2>1, <2>2 DEF Retire, Sound, InSession, Trusting
<1> QED BY <1>1, <1>2, <1>3

-----------------------------------------------------------------------------

\* The inductive invariant of a poll holds in every reachable state.
THEOREM PollInvariant == Spec => []IInv
<1>1. Init => IInv
  <2> SUFFICES ASSUME Init PROVE IInv
    OBVIOUS
  <2> USE DEF Init, CollectInit
  <2>1. Ledger
    BY DEF Ledger, PollSteps, HeldAt
  <2>2. PICK image \in Images, alive \in BOOLEAN :
          hwinfo = [alive |-> alive, image |-> image, words |-> image.words, writing |-> FALSE]
    OBVIOUS
  <2>3. Mapped
    BY <2>2, ImageMapped DEF Mapped, MappedSize
  <2>4. HeaderOf(NoBuffer) \in Headers /\ \A at \in DOMAIN NoBuffer : NoBuffer[at] \in Nat
    BY HeaderTyped DEF NoBuffer
  <2>5. Sound
    BY <2>4 DEF Sound, InSession, Trusting
  <2> QED BY <2>1, <2>3, <2>5 DEF IInv
<1>2. IInv /\ [Next]_vars => IInv'
  <2> SUFFICES ASSUME IInv, [Next]_vars PROVE IInv'
    OBVIOUS
  <2>1. CASE Hwinfo
    BY <2>1, HwinfoKeeps
  <2>2. CASE UNCHANGED <<hwinfo, pollVars>>
    BY <2>2 DEF pollVars, IInv, Ledger, Mapped, MappedSize, Sound, CopySize
  <2>3. CASE Poll
    BY <2>3, OpenKeeps, CopyKeeps, ParseKeeps, FinishKeeps DEF Poll, CollectStep
  <2>4. CASE Log \/ Snapshot \/ NextTick
    BY <2>4, FinishKeeps DEF Log, Snapshot, NextTick
  <2>5. CASE StopRequested \/ Lock \/ Stop \/ Due \/ Sleep \/ Release \/ Timeout \/ Spurious
    BY <2>2, <2>5 DEF StopRequested, Lock, Stop, Due, Sleep, Release, Timeout, Spurious, Waiting
  <2>6. CASE Signal \/ Raise \/ Notify
    BY <2>2, <2>6 DEF Signal, Raise, Notify
  <2>7. CASE UNCHANGED vars
    BY <2>2, <2>7 DEF vars
  <2> QED BY <2>1, <2>3, <2>4, <2>5, <2>6, <2>7 DEF Next, Main
<1> QED BY <1>1, <1>2, PTL DEF Spec

\* Whatever call fails, a poll gives back all it took, and exactly once.
THEOREM NothingLeaks == Spec => []HandlesBalanced
<1>1. IInv => HandlesBalanced
  BY DEF IInv, Ledger, HeldAt, HandlesBalanced
<1> QED BY <1>1, PollInvariant, PTL

\* Whatever the mapping holds, whenever it changes and however wide size_t is,
\* the parser reads within its copy and behind the header.
THEOREM ParserStaysInside == Spec => []ReadsInBounds
<1>1. IInv => ReadsInBounds
  BY DEF IInv, Sound, ReadsInBounds
<1> QED BY <1>1, PollInvariant, PTL

-----------------------------------------------------------------------------
(* A copy that no update met. *)

\* What is known of a copy on its way: it begins with nothing; while HWiNFO does not write, the mapping
\* is one image; while the copy of an image is taken, the mapping is still that
\* image and so is every word of the copy; and what is then validated and
\* parsed is the image as far as a copy goes.
Untorn ==
  /\ step \in {"idle", "open", "map", "check", "alloc"} => buffer = NoBuffer
  /\ ~hwinfo.writing => hwinfo.words = hwinfo.image.words
  /\ copied # NoImage => copied \in Images \cup Updates
  /\ step = "copy" /\ copied # NoImage =>
       hwinfo.words = copied.words /\ \A at \in DOMAIN buffer : buffer[at] = copied.words[at]
  /\ step \in {"validate", "names", "entries"} /\ copied # NoImage =>
       /\ Extent(copied.words) = CopySize
       /\ buffer = [at \in 0..CopySize-1 |-> copied.words[at]]
  /\ step \in {"names", "entries"} => header = HeaderOf(buffer) /\ Word(buffer, 0) = Magic
  /\ step = "adopt" /\ copied # NoImage => snapshot = copied.means

\* HWiNFO spoils the copy of an image only by writing while the copy is taken.
LEMMA HwinfoUntorn == ASSUME IInv, IInv', Untorn, Hwinfo PROVE Untorn'
<1> USE DEF IInv
<1>1. /\ UNCHANGED <<step, buffer, header, snapshot>>
      /\ copied' = IF step = "copy" /\ hwinfo'.words # hwinfo.words THEN NoImage ELSE copied
  BY DEF Hwinfo
<1>2. ~hwinfo'.writing => hwinfo'.words = hwinfo'.image.words
  <2>1. CASE WriteHeader
    <3>1. hwinfo'.writing
      BY <2>1 DEF WriteHeader, Mapped
    <3> QED BY <3>1
  <2>2. CASE WriteTables
    <3>1. hwinfo'.image = hwinfo.image /\ hwinfo'.words = hwinfo.image.words
      BY <2>2 DEF WriteTables, Mapped
    <3> QED BY <3>1
  <2>3. CASE HwinfoExits
    <3>1. /\ hwinfo'.image = hwinfo.image /\ hwinfo'.words = hwinfo.words
          /\ hwinfo'.writing = hwinfo.writing
      BY <2>3 DEF HwinfoExits, Mapped
    <3> QED BY <3>1 DEF Untorn
  <2>4. CASE HwinfoStarts
    BY <2>4 DEF HwinfoStarts
  <2> QED BY <2>1, <2>2, <2>3, <2>4 DEF Hwinfo
<1>3. step \in InSession => CopySize' = CopySize
  <2> SUFFICES ASSUME step \in InSession PROVE MappedSize' = MappedSize
    BY DEF CopySize
  <2>1. CASE WriteHeader
    <3>1. DOMAIN hwinfo'.words = DOMAIN hwinfo.words
      BY <2>1 DEF WriteHeader, Mapped
    <3> QED BY <3>1 DEF MappedSize
  <2>2. CASE WriteTables
    <3>1. hwinfo'.words = hwinfo.image.words
      BY <2>2 DEF WriteTables, Mapped
    <3> QED BY <3>1 DEF MappedSize, Mapped
  <2>3. CASE HwinfoExits
    <3>1. hwinfo'.words = hwinfo.words
      BY <2>3 DEF HwinfoExits, Mapped
    <3> QED BY <3>1 DEF MappedSize
  <2>4. CASE HwinfoStarts
    BY <2>4, ViewHeld DEF HwinfoStarts
  <2> QED BY <2>1, <2>2, <2>3, <2>4 DEF Hwinfo
<1>4. copied' # NoImage => copied' = copied
  BY <1>1
<1>5. step = "copy" /\ copied' # NoImage => hwinfo'.words = hwinfo.words
  BY <1>1
<1>6. step' = "copy" /\ copied' # NoImage =>
        hwinfo'.words = copied'.words /\ \A at \in DOMAIN buffer' : buffer'[at] = copied'.words[at]
  BY <1>1, <1>4, <1>5 DEF Untorn
<1>7. step' \in {"validate", "names", "entries"} /\ copied' # NoImage =>
        Extent(copied'.words) = CopySize' /\ buffer' = [at \in 0..CopySize'-1 |-> copied'.words[at]]
  BY <1>1, <1>3, <1>4 DEF Untorn, InSession
<1> QED BY <1>1, <1>2, <1>4, <1>6, <1>7 DEF Untorn

\* The steps of the poll: the copy is taken, checked, parsed and let go.
LEMMA PollUntorn == ASSUME IInv, IInv', Untorn, CollectStep \/ Begin \/ Retire PROVE Untorn'
<1> USE DEF IInv
<1>1. UNCHANGED hwinfo
  BY DEF CollectStep, Begin, Retire, OpenMapping, MapView, CheckView, Allocate, CopyFirst, CopyRest,
         Validate, BuildNames, BuildEntries, Materialize
<1>2. CopySize' = CopySize /\ MappedSize' = MappedSize
  BY <1>1 DEF CopySize, MappedSize
<1> USE DEF Continues, Ends
<1>3. CASE OpenMapping \/ MapView \/ CheckView \/ Materialize \/ Begin \/ Retire
  <2>1. /\ step' \in {"map", "check", "alloc", "done", "open", "idle"}
        /\ copied' = copied \/ copied' = NoImage
        /\ step' # "done" => buffer' = NoBuffer
    BY <1>3 DEF OpenMapping, MapView, CheckView, Materialize, Begin, Retire, Untorn
  <2> QED BY <1>1, <2>1 DEF Untorn
<1>4. CASE Allocate
  <2>1. CASE step' = "copy" /\ copied' = IF hwinfo.writing THEN NoImage ELSE hwinfo.image
    <3>1. copied' # NoImage => copied' = hwinfo.image /\ hwinfo.words = hwinfo.image.words
      BY <2>1 DEF Untorn
    <3>2. step = "alloc" /\ buffer' = buffer
      BY <1>4 DEF Allocate
    <3>3. DOMAIN buffer = {}
      BY <3>2 DEF Untorn, NoBuffer
    <3> QED BY <1>1, <2>1, <3>1, <3>2, <3>3 DEF Untorn, Mapped
  <2>2. CASE step' = "done" /\ UNCHANGED copied
    BY <1>1, <2>2 DEF Untorn
  <2> QED BY <1>4, <2>1, <2>2 DEF Allocate
<1>5. CASE CopyFirst
  <2>1. PICK cut \in Cuts : buffer' = [at \in 0..cut-1 |-> hwinfo.words[at]]
    BY <1>5 DEF CopyFirst
  <2> QED BY <1>1, <1>5, <2>1 DEF CopyFirst, Untorn
<1>6. CASE CopyRest
  <2>1. /\ step = "copy" /\ step' = "validate" /\ copied' = copied
        /\ buffer' = [at \in 0..CopySize-1 |->
                        IF at \in DOMAIN buffer THEN buffer[at] ELSE hwinfo.words[at]]
    BY <1>6 DEF CopyRest
  <2>2. ASSUME copied # NoImage
        PROVE  /\ Extent(copied.words) = CopySize
               /\ buffer' = [at \in 0..CopySize-1 |-> copied.words[at]]
    <3>1. hwinfo.words = copied.words /\ \A at \in DOMAIN buffer : buffer[at] = copied.words[at]
      BY <2>1, <2>2 DEF Untorn
    <3>2. Extent(copied.words) = CopySize
      BY <3>1 DEF Extent, CopySize, MappedSize
    <3> QED BY <2>1, <3>1, <3>2
  <2> QED BY <1>1, <1>2, <2>1, <2>2 DEF Untorn
<1>7. CASE Validate
  <2>1. /\ step = "validate" /\ UNCHANGED <<buffer, copied>> /\ header' = HeaderOf(buffer)
        /\ step' = "done" \/ (step' = "names" /\ Word(buffer, 0) = Magic)
    BY <1>7 DEF Validate, Parsed
  <2> QED BY <1>1, <1>2, <2>1 DEF Untorn
<1>8. CASE BuildNames
  <2>1. /\ step = "names" /\ UNCHANGED <<buffer, header, copied>>
        /\ step' \in {"entries", "done"}
    BY <1>8 DEF BuildNames
  <2> QED BY <1>1, <1>2, <2>1 DEF Untorn
<1>9. CASE BuildEntries
  <2>1. /\ step = "entries" /\ UNCHANGED copied
        /\ step' = "done" \/ (step' = "adopt" /\ snapshot' = Entries(buffer, header))
    BY <1>9 DEF BuildEntries, Parsed
  <2>2. ASSUME copied # NoImage
        PROVE  Entries(buffer, header) = copied.means
    <3> DEFINE W == copied.words
    <3>1. copied \in Images \cup Updates
      BY <2>2 DEF Untorn
    <3>2. /\ Extent(W) = CopySize /\ buffer = [at \in 0..Extent(W)-1 |-> W[at]]
          /\ header = HeaderOf(buffer) /\ Word(buffer, 0) = Magic
      BY <2>1, <2>2 DEF Untorn
    <3>3. Accepted(header, CopySize)
      BY <2>1 DEF Sound, Trusting
    <3>4. CopySize >= HeaderSize
      BY <2>1, MemoryAssumption DEF Sound, InSession, CopySize, HeaderSize, Mapped
    <3>5. W \in [0..Cardinality(DOMAIN W)-1 -> Nat] /\ Cardinality(DOMAIN W) \in Nat
      BY <3>1, ImageMapped
    <3> HIDE DEF W
    <3>6. /\ ValidLayout(W)
          /\ Entries(buffer, HeaderOf(buffer)) = [n \in 1..HeaderOf(W).entryCount |-> EntryIn(W, n)]
      BY <3>2, <3>3, <3>4, <3>5, ParserIsExact
    <3>7. copied.means = [n \in 1..HeaderOf(W).entryCount |-> EntryIn(W, n)]
      BY <3>1, <3>6, MeansAssumption DEF W
    <3> QED BY <3>2, <3>6, <3>7
  <2> QED BY <1>1, <2>1, <2>2 DEF Untorn
<1> QED BY <1>3, <1>4, <1>5, <1>6, <1>7, <1>8, <1>9 DEF CollectStep

\* A copy that no update met yields what the image says in plain arithmetic, for
\* every image, every width of size_t and every moment at which HWiNFO writes;
\* and a copy of an invalid image yields nothing.
THEOREM UntornCopyIsExact == Spec => []UntornIsExact
<1>1. Init => Untorn
  BY DEF Init, CollectInit, Untorn
<1>2. IInv /\ IInv' /\ Untorn /\ [Next]_vars => Untorn'
  <2> SUFFICES ASSUME IInv, IInv', Untorn, [Next]_vars PROVE Untorn'
    OBVIOUS
  <2>1. CASE Hwinfo
    BY <2>1, HwinfoUntorn
  <2>2. CASE UNCHANGED <<hwinfo, pollVars>>
    BY <2>2 DEF pollVars, Untorn, CopySize, MappedSize
  <2>3. CASE Poll
    BY <2>3, PollUntorn DEF Poll
  <2>4. CASE Log \/ Snapshot \/ NextTick
    BY <2>4, PollUntorn DEF Log, Snapshot, NextTick
  <2>5. CASE StopRequested \/ Lock \/ Stop \/ Due \/ Sleep \/ Release \/ Timeout \/ Spurious
    BY <2>2, <2>5 DEF StopRequested, Lock, Stop, Due, Sleep, Release, Timeout, Spurious, Waiting
  <2>6. CASE Signal \/ Raise \/ Notify
    BY <2>2, <2>6 DEF Signal, Raise, Notify
  <2>7. CASE UNCHANGED vars
    BY <2>2, <2>7 DEF vars
  <2> QED BY <2>1, <2>3, <2>4, <2>5, <2>6, <2>7 DEF Next, Main
<1>3. Untorn => UntornIsExact
  BY DEF Untorn, UntornIsExact
<1> QED BY <1>1, <1>2, <1>3, PollInvariant, PTL DEF Spec

-----------------------------------------------------------------------------
(* The wait of the logger. *)

\* The handler waits for the lock, and the logger holds it from the test of the
\* flag to the wait itself; so whoever is about to wait knows that the flag is
\* not set, and whoever waits under a set flag is about to be woken.
WakeupPending ==
  /\ mutex \in {"main", "nobody"}
  /\ mutex = "main" <=> pc \in {"test", "sleep"}
  /\ handler \in {"waiting", "lock", "notify", "done"}
  /\ flag <=> handler \in {"notify", "done"}
  /\ pc = "sleep" => ~flag
  /\ pc = "asleep" => handler # "done"

\* No wake-up is lost: the logger never sleeps on under a flag whose
\* notification is already out (wait_for_shutdown against the signal handler,
\* for every interval, also one without a deadline).
NoWakeupLost == ~(pc = "asleep" /\ handler = "done")

\* On this rests that the logger stops when told to, which the run checks.
THEOREM WakeupReachesLogger == Spec => []NoWakeupLost
<1>1. Init => WakeupPending
  BY DEF Init, WakeupPending
<1>2. WakeupPending /\ [Next]_vars => WakeupPending'
  <2> SUFFICES ASSUME WakeupPending, [Next]_vars PROVE WakeupPending'
    OBVIOUS
  <2> USE DEF WakeupPending
  <2>1. CASE StopRequested \/ Log \/ Snapshot \/ NextTick
    BY <2>1 DEF StopRequested, Log, Snapshot, NextTick, Free
  <2>2. CASE Lock \/ Stop \/ Due \/ Sleep \/ Release \/ Timeout \/ Spurious
    BY <2>2 DEF Lock, Stop, Due, Sleep, Release, Timeout, Spurious, Waiting, Free
  <2>3. CASE Signal \/ Raise \/ Notify
    BY <2>3 DEF Signal, Raise, Notify, MayRaise, Free
  <2>4. CASE UNCHANGED loopVars
    BY <2>4 DEF loopVars
  <2> QED BY <2>1, <2>2, <2>3, <2>4 DEF Next, Main, Poll, vars
<1>3. WakeupPending => NoWakeupLost
  BY DEF WakeupPending, NoWakeupLost
<1> QED BY <1>1, <1>2, <1>3, PTL DEF Spec
=============================================================================
