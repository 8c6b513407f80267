------------------------------- MODULE Collect --------------------------------
(***************************************************************************)
(* One poll of the sensors (collect_live): a session is opened on HWiNFO's *)
(* shared memory, the memory is copied, the copy is parsed into a snapshot *)
(* and the snapshot into readings, and everything is released (sw_session.c*)
(* and sw_parse.c under sensorwatch/src/lib.rs).  Any call may fail.       *)
(* HWiNFO, another process, writes while the copy is taken: a copy may mix *)
(* two of its updates.                                                     *)
(***************************************************************************)
EXTENDS SharedMemory, FiniteSets

CONSTANTS
  Images,   \* what the mapping may hold when it is made: [words, means], means the
            \* entries laid out in words, or NoMeaning where they are no valid image
  Updates,  \* bound: those a running HWiNFO writes over one another
  Cuts,     \* bound: where a copy may be interrupted
  NoMeaning, NoImage

\* A mapping is a stretch of words, whatever is in them, and a copy may be
\* interrupted within the header.
ASSUME ImagesAssumption ==
  \A image \in Images \cup Updates :
    /\ IsFiniteSet(DOMAIN image.words)
    /\ image.words \in [0..Cardinality(DOMAIN image.words)-1 -> Nat]

\* What words say, in arithmetic without a width: the tables must lie behind the
\* header, apart from each other and within what is copied.
Extent(words) ==
  IF Cardinality(DOMAIN words) > MaxTotalSize THEN MaxTotalSize ELSE Cardinality(DOMAIN words)

ValidLayout(words) ==
  LET h == HeaderOf(words)
      sensorEnd == h.sensorOff + h.sensorCount * h.sensorSize
      entryEnd  == h.entryOff + h.entryCount * h.entrySize
  IN  /\ Extent(words) >= HeaderSize /\ words[0] = Magic
      /\ MinSensorSize <= h.sensorSize /\ MinEntrySize <= h.entrySize
      /\ h.sensorCount <= MaxSensorCount /\ h.entryCount <= MaxEntryCount
      /\ HeaderSize <= h.sensorOff /\ sensorEnd <= Extent(words)
      /\ HeaderSize <= h.entryOff /\ entryEnd <= Extent(words)
      /\ sensorEnd <= h.entryOff \/ entryEnd <= h.sensorOff

\* A name stands in two words, the second of which goes before the first.
NameIn(words, at) == IF words[at + 1] = 0 THEN words[at] ELSE words[at + 1]

SensorIn(words, s) ==
  IF s >= HeaderOf(words).sensorCount THEN -(s + 1)
  ELSE NameIn(words, HeaderOf(words).sensorOff + s * HeaderOf(words).sensorSize)

EntryIn(words, n) ==
  LET at == HeaderOf(words).entryOff + (n - 1) * HeaderOf(words).entrySize IN
  [sensor |-> SensorIn(words, words[at + 1]), reading |-> NameIn(words, at + 2),
   kind |-> KindOf(words[at]), value |-> words[at + 4]]

ASSUME MeansAssumption ==
  \A image \in Images \cup Updates :
    image.means = IF ValidLayout(image.words)
                    THEN [n \in 1..HeaderOf(image.words).entryCount |-> EntryIn(image.words, n)]
                    ELSE NoMeaning

ASSUME CutsAssumption == Cuts \subseteq 0..HeaderSize

Resources == {"mapping", "view", "session", "buffer", "names", "snapshot"}

Errors == {"SourceUnavailable", "MapFailed", "CorruptData", "BadMagic", "OutOfMemory"}

VARIABLES
  hwinfo,    \* HWiNFO: [alive, image it wrote or writes, words, writing]
  step,      \* where the poll is; "idle" between two polls
  held,      \* how often each resource is held
  buffer,    \* the copy of the memory
  header,    \* its header, once accepted
  snapshot,  \* the entries of the snapshot
  result,    \* what the poll returned: an error or readings
  copied,    \* history: the image the copy is of, or NoImage if an update met it
  touched    \* history: the words of the buffer the parser has read

pollVars == <<step, held, buffer, header, snapshot, result, copied, touched>>

NoBuffer == [at \in {} |-> 0]

CollectInit ==
  /\ \E image \in Images, alive \in BOOLEAN :
       hwinfo = [alive |-> alive, image |-> image, words |-> image.words, writing |-> FALSE]
  /\ step = "idle"
  /\ held = [r \in Resources |-> 0]
  /\ buffer = NoBuffer
  /\ header = HeaderOf(NoBuffer)
  /\ snapshot = <<>>
  /\ result = <<>>
  /\ copied = NoImage
  /\ touched = {}

-----------------------------------------------------------------------------
(* HWiNFO. *)

\* It writes its header and then its tables.  A mapping keeps its size.
WriteHeader ==
  /\ hwinfo.alive /\ ~hwinfo.writing
  /\ \E image \in Updates \ {hwinfo.image} :
       /\ DOMAIN image.words = DOMAIN hwinfo.words
       /\ hwinfo' = [hwinfo EXCEPT
            !.image = image, !.writing = TRUE,
            !.words = [at \in DOMAIN @ |-> IF at < HeaderSize THEN image.words[at] ELSE @[at]]]

WriteTables ==
  /\ hwinfo.alive /\ hwinfo.writing
  /\ hwinfo' = [hwinfo EXCEPT !.writing = FALSE, !.words = hwinfo.image.words]

\* What a view shows outlives the process, an update cut short included.
HwinfoExits ==
  /\ hwinfo.alive
  /\ hwinfo' = [hwinfo EXCEPT !.alive = FALSE]

\* A new process makes a new mapping; a view of the old one would not see it.
HwinfoStarts ==
  /\ ~hwinfo.alive /\ held["view"] = 0
  /\ \E image \in Images :
       hwinfo' = [alive |-> TRUE, image |-> image, words |-> image.words, writing |-> FALSE]

Hwinfo ==
  /\ WriteHeader \/ WriteTables \/ HwinfoExits \/ HwinfoStarts
  /\ copied' = IF step = "copy" /\ hwinfo'.words # hwinfo.words THEN NoImage ELSE copied
  /\ UNCHANGED <<step, held, buffer, header, snapshot, result, touched>>

-----------------------------------------------------------------------------
(* The ledger of what is held. *)

Changed(gained, freed) ==
  [r \in Resources |-> held[r] + (IF r \in gained THEN 1 ELSE 0) - (IF r \in freed THEN 1 ELSE 0)]

\* The poll goes on, or ends with a result.
Continues(next, gained, freed) ==
  /\ step' = next
  /\ held' = Changed(gained, freed)
  /\ UNCHANGED result

Ends(outcome, freed) ==
  /\ step' = "done"
  /\ result' = outcome
  /\ held' = Changed({}, freed)

Failed(error) == [error |-> error]

\* Seeded fault: a failed open unmaps the view and forgets the mapping.
OpenedViewOnly == {"view"}

\* What the cleanup of sw_session_open has to release once the view is there.
Opened == {"view", "mapping"}

\* What dropping the session releases.
OfSession == {"view", "mapping", "session"}

-----------------------------------------------------------------------------
(* Session::new: sw_session_open. *)

OpenMapping ==
  /\ step = "open"
  /\ \/ hwinfo.alive /\ Continues("map", {"mapping"}, {})
     \/ Ends(Failed("SourceUnavailable"), {})
  /\ UNCHANGED <<hwinfo, buffer, header, snapshot, copied, touched>>

MapView ==
  /\ step = "map"
  /\ \/ Continues("check", {"view"}, {})
     \/ Ends(Failed("MapFailed"), {"mapping"})
  /\ UNCHANGED <<hwinfo, buffer, header, snapshot, copied, touched>>

\* The size of the region, by VirtualQuery.
MappedSize == Cardinality(DOMAIN hwinfo.words)

\* The header must be mapped before its magic is read.
CheckView ==
  /\ step = "check"
  /\ \/ Ends(Failed("CorruptData"), Opened)   \* VirtualQuery fails
     \/ MappedSize < HeaderSize /\ Ends(Failed("CorruptData"), Opened)
     \/ MappedSize >= HeaderSize /\ Word(hwinfo.words, 0) # Magic /\ Ends(Failed("BadMagic"), Opened)
     \/ /\ MappedSize >= HeaderSize /\ Word(hwinfo.words, 0) = Magic
        /\ Ends(Failed("OutOfMemory"), Opened) \/ Continues("alloc", {"session"}, {})
  /\ UNCHANGED <<hwinfo, buffer, header, snapshot, copied, touched>>

-----------------------------------------------------------------------------
(* Session::snapshot: sw_snapshot_take and sw_parse_buffer. *)

CopySize == IF MappedSize > MaxTotalSize THEN MaxTotalSize ELSE MappedSize

Allocate ==
  /\ step = "alloc"
  /\ \/ Ends(Failed("OutOfMemory"), OfSession) /\ UNCHANGED copied
     \/ Continues("copy", {"buffer"}, {}) /\ copied' = IF hwinfo.writing THEN NoImage ELSE hwinfo.image
  /\ UNCHANGED <<hwinfo, buffer, header, snapshot, touched>>

\* The copy is not atomic: some words first, the others later.
CopyFirst ==
  /\ step = "copy" /\ buffer = NoBuffer
  /\ \E cut \in Cuts : buffer' = [at \in 0..cut-1 |-> hwinfo.words[at]]
  /\ UNCHANGED <<hwinfo, step, held, header, snapshot, result, copied, touched>>

CopyRest ==
  /\ step = "copy" /\ buffer # NoBuffer
  /\ buffer' = [at \in 0..CopySize-1 |-> IF at \in DOMAIN buffer THEN buffer[at] ELSE hwinfo.words[at]]
  /\ Continues("validate", {}, {})
  /\ UNCHANGED <<hwinfo, header, snapshot, copied, touched>>

\* Seeded fault: the live view is parsed.
ParsedLive == [at \in 0..CopySize-1 |-> hwinfo.words[at]]

\* What is parsed: the copy, never the live view.
Parsed == buffer

Validate ==
  /\ step = "validate"
  /\ header' = HeaderOf(Parsed)
  /\ IF Word(Parsed, 0) # Magic THEN Ends(Failed("BadMagic"), OfSession \cup {"buffer"})
     ELSE IF ~Accepted(header', CopySize) THEN Ends(Failed("CorruptData"), OfSession \cup {"buffer"})
     ELSE Continues("names", {}, {})
  /\ UNCHANGED <<hwinfo, buffer, snapshot, copied, touched>>

\* The table of the names; an allocation that fails frees what there is of it.
BuildNames ==
  /\ step = "names"
  /\ touched' = SensorReads(header)
  /\ \/ Continues("entries", {"names"}, {})
     \/ header.sensorCount > 0 /\ Ends(Failed("OutOfMemory"), OfSession \cup {"buffer"})
  /\ UNCHANGED <<hwinfo, buffer, header, snapshot, copied>>

\* The snapshot and its entries; an allocation that fails destroys it, however
\* much of it there is.  The names and the buffer are freed either way.
BuildEntries ==
  /\ step = "entries"
  /\ touched' = touched \cup EntryReads(header)
  /\ \/ /\ Continues("adopt", {"snapshot"}, {"names", "buffer"})
        /\ snapshot' = Entries(Parsed, header)
     \/ /\ Ends(Failed("OutOfMemory"), OfSession \cup {"names", "buffer"})
        /\ UNCHANGED snapshot
  /\ buffer' = NoBuffer
  /\ UNCHANGED <<hwinfo, header, copied>>

\* Snapshot::from_raw and to_vec: each query is checked, and the first that
\* fails ends the poll; the snapshot is dropped, then the session.
Materialize ==
  /\ step = "adopt"
  /\ \/ Ends([readings |-> snapshot], OfSession \cup {"snapshot"})
     \/ Ends(Failed("CorruptData"), OfSession \cup {"snapshot"})
  /\ UNCHANGED <<hwinfo, buffer, header, snapshot, copied, touched>>

CollectStep ==
  \/ OpenMapping
  \/ MapView
  \/ CheckView
  \/ Allocate
  \/ CopyFirst
  \/ CopyRest
  \/ Validate
  \/ BuildNames
  \/ BuildEntries
  \/ Materialize

\* The caller begins a poll, and takes its result.
Begin ==
  /\ step = "idle" /\ step' = "open"
  /\ UNCHANGED <<hwinfo, held, buffer, header, snapshot, result, copied, touched>>

Retire ==
  /\ step = "done" /\ step' = "idle"
  /\ result' = <<>> /\ snapshot' = <<>> /\ touched' = {} /\ copied' = NoImage
  /\ header' = HeaderOf(NoBuffer) /\ buffer' = NoBuffer
  /\ UNCHANGED <<hwinfo, held>>

-----------------------------------------------------------------------------

\* Nothing is leaked and nothing released twice, whichever call fails: between
\* two polls nothing is held, and no resource is ever held twice or less than
\* not at all (the cleanup paths of sw_session_open and sw_parse_buffer, and
\* the drops of Session and Snapshot).  The logger polls for months.
HandlesBalanced ==
  /\ \A r \in Resources : held[r] \in {0, 1}
  /\ step \in {"idle", "done"} => \A r \in Resources : held[r] = 0

\* Whatever HWiNFO writes and whenever it writes it, the parser reads within
\* the copy and outside its header: a header that was accepted is the header
\* that is used, and no product or sum of its words wraps (sw_parse_buffer).
ReadsInBounds ==
  step \in {"entries", "adopt"} => touched \subseteq HeaderSize..(CopySize - 1)

\* A copy that no update of HWiNFO met yields exactly the entries HWiNFO laid
\* out, and no image that is invalid yields any.
UntornIsExact ==
  step = "adopt" /\ copied # NoImage => snapshot = copied.means
=============================================================================
