------------------------------ MODULE MCLiveLog -------------------------------
(***************************************************************************)
(* An instance of LiveLog for TLC: sizes wrap at 64; two valid layouts     *)
(* that differ in where their tables lie, and one image for each check of  *)
(* the header.                                                             *)
(***************************************************************************)
EXTENDS LiveLog, TLC

MCSizeMax == 63

Image(seq, entries) == [words |-> [at \in 0..Len(seq)-1 |-> seq[at+1]], means |-> entries]
Entry(name, reading, kind, value) ==
  [sensor |-> name, reading |-> reading, kind |-> kind, value |-> value]

\* Headers: magic, then offset, size and count of the sensors and the entries.
Body == <<11, 12, 1, 0, 21, 0, 5, 9, 3, 22, 23, 6>>   \* one sensor, two entries
Narrow == Image(<<42, 7, 2, 1, 9, 5, 2>> \o Body \o <<0, 0>>,
                <<Entry(12, 21, 1, 5), Entry(-4, 23, 9, 6)>>)
Wide   == Image(<<42, 19, 2, 1, 7, 6, 2>> \o <<8, 0, 24, 0, 7, 0, 1, 1, 21, 22, 6, 0>> \o <<13, 0>>,
                <<Entry(13, 24, 8, 7), Entry(-2, 22, 1, 6)>>)
Broken(words) == Image(words \o Body \o <<0, 0>>, NoMeaning)
Dead == Broken(<<0, 7, 2, 1, 9, 5, 2>>)   \* another magic
BrokenImages ==
  { Broken(h) : h \in
     { <<42, 7, 2, 1, 9, 32, 2>>,     \* 2 * 32 wraps to 0
       <<42, 62, 2, 1, 9, 5, 2>>,     \* 62 + 2 wraps to 0
       <<42, 7, 2, 1, 8, 5, 2>>,      \* the tables overlap
       <<42, 5, 2, 1, 9, 5, 2>>,      \* a table in the header
       <<42, 7, 2, 1, 9, 5, 3>>,      \* past the end
       <<42, 7, 1, 1, 9, 5, 2>>,      \* elements too small
       <<42, 7, 2, 9, 9, 5, 2>> } }   \* too many sensors
Long  == Image(<<42, 7, 2, 1, 20, 5, 1>> \o Body \o <<0, 0, 0, 0, 0, 0>>, NoMeaning)  \* past the cap
Short == Image(<<42, 7, 2, 1, 9>>, NoMeaning)
MCImages == {Narrow, Wide, Dead, Long, Short} \cup BrokenImages
MCUpdates == {Narrow, Wide, Dead}
MCCuts == {5}

MCOccurs(name, pattern) == name = pattern
Doc(seconds, include) ==
  [readable |-> TRUE, syntax |-> TRUE,
   general |-> [type |-> "table", keys |-> "interval_seconds" :> [type |-> "integer", int |-> seconds]],
   sensors |-> [type |-> "table", keys |-> "include" :> [type |-> "array", items |-> include]]]
Text(x) == [type |-> "string", str |-> x]
Endless == "config.toml" :> Doc(9, <<Text(12), Text(0), [type |-> "integer", int |-> 3]>>)
Command(name, docs, type, match) ==
  [caller |-> name, docs |-> docs, needle |-> [type |-> type, match |-> match]]
MCCommands ==
  { Command("log", <<>>, Unset, Unset), Command("log", Endless, Unset, Unset),
    Command("snapshot", <<>>, 1, 21), Command("watch", <<>>, Unset, Unset) }
=============================================================================
