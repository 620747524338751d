-------------------------- MODULE SessionArtifact --------------------------
(***************************************************************************)
(* The file of a stored session, as the JSONL backend writes, reads, cuts     *)
(* and restores it (session-persistence-jsonl/src/index.ts, format.ts): one   *)
(* line per event.  Compressed, an append is one frame, and the file is whole *)
(* up to the end of its last complete frame; plain, up to its last complete   *)
(* line.  Sizes and offsets count lines, a torn end being the last of them.   *)
(***************************************************************************)
EXTENDS Naturals, Sequences, FiniteSetsExt, SessionTrace

CONSTANT Framed           \* compressed: an append is one frame

ASSUME FramedIsBoolean == Framed \in BOOLEAN

\* whole: the line is complete, and so is the frame it is in.
Line(e, whole) == [event |-> e, whole |-> whole]

\* Bytes no event is read from: a line cut short, or the rest of a frame cut short.
Fragment == Line(Event("fragment", 0, 0, <<>>), FALSE)
IsFragment(line) == line.event.type = "fragment"

\* encodeEventBatch: an append that arrives in full.
Written(batch) == [i \in 1..Len(batch) |-> Line(batch[i], TRUE)]

\* The first n events of an append that does not.
Partly(batch, n) == [i \in 1..n |-> Line(batch[i], ~Framed)]

\* What may have arrived of an append that a kill or an error ends: all of it, or some
\* of its lines and (always in a frame cut short) bytes after them.
Landed(batch) ==
    {Written(batch)}
        \cup {Append(Partly(batch, n), Fragment) :
                 n \in {k \in 0..Len(batch) : Framed \/ k < Len(batch)}}
        \cup {Partly(batch, n) : n \in {k \in 1..Len(batch) : ~Framed}}

\* readPrefix: the events up to the first thing that is none.
Readable(file) == {n \in 0..Len(file) : \A i \in 1..n : ~IsFragment(file[i])}
Read(file) == [i \in 1..Max(Readable(file)) |-> file[i].event]

Torn(file) == file # <<>> /\ ~file[Len(file)].whole

WholeUpTo(file) == {n \in 0..Len(file) : \A i \in 1..n : file[i].whole}

\* Fault: the offset is that of the last whole line's start.
TornStartOneEarly(file) ==
    LET size == Max(WholeUpTo(file)) IN IF size = 0 THEN 0 ELSE size - 1

\* tornStart and committedBytes: where the file stops being whole.
TornStart(file) == Max(WholeUpTo(file))

Truncated(file, size) == SubSeq(file, 1, size)
=============================================================================
