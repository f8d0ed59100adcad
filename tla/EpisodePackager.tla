-------------------------- MODULE EpisodePackager ---------------------------
(***************************************************************************)
(* EpisodePackager::do_package and the McapWriter it writes with, while    *)
(* producers go on pushing into the rings.  The samples of the window are  *)
(* collected slot by slot, sorted, passed through the privacy filters and  *)
(* written in chunks; the file ends with statistics, the index of the      *)
(* chunks and a footer.                                                    *)
(***************************************************************************)
EXTENDS SampleRings, SequencesExt

CONSTANTS ChunkSize,  \* samples that fill a chunk
          PreRolls    \* lengths of an episode's window, back from its end

ASSUME PackagerConstants == ChunkSize \in Nat \ {0}

VARIABLES
  pk,       \* the packaging under way
  mcap,     \* the file, with the chunk being filled
  result,   \* what package_episode returned
  stable    \* samples of the window that stayed in their slot since it began

packVars == <<ringVars, pk, mcap, result, stable>>

NewFile == [channels |-> {}, chunk |-> << >>, chunks |-> << >>, index |-> << >>,
            count |-> [s \in Streams |-> 0], footer |-> FALSE]

NoPack == [pc |-> "idle", from |-> 0, to |-> 0, todo |-> {}, cur |-> NoSample, i |-> 0, got |-> {}, seq |-> << >>]

PackInit ==
  /\ RingInit
  /\ pk = NoPack /\ mcap = NewFile /\ result = "none" /\ stable = {}

InWindowBad(x) == x.ts >= pk.from /\ x.ts < pk.to

\* get_range takes both ends.
InWindow(x) == x.ts >= pk.from /\ x.ts <= pk.to

\* is_packaging is set and the first stream is looked up.
BeginPackage(back) ==
  /\ pk.pc = "idle" /\ result = "none"  \* one episode in a behaviour
  /\ pk' = [NoPack EXCEPT !.pc = "collect", !.from = IF clock > back THEN clock - back ELSE 0,
                          !.to = clock, !.todo = Streams]
  /\ stable' = UNION {{x \in Held(s) : x.ts >= pk'.from /\ x.ts <= pk'.to} : s \in Streams}
  /\ UNCHANGED <<ringVars, mcap, result>>

\* One slot of the stream being read.
CollectSlot(s) ==
  /\ pk.pc = "collect" /\ s \in pk.todo /\ (pk.i > 0 => s = pk.cur)
  /\ LET x == ring[s].slots[pk.i]
         next == [pk EXCEPT !.got = IF x # NoSample /\ InWindow(x) THEN @ \cup {x} ELSE @]
     IN pk' = IF pk.i < Capacity - 1 THEN [next EXCEPT !.i = @ + 1, !.cur = s]
              ELSE [next EXCEPT !.i = 0, !.cur = NoSample, !.todo = @ \ {s}]
  /\ UNCHANGED <<ringVars, mcap, result, stable>>

InTimeOrder(samples) == \A j, k \in DOMAIN samples : j < k => samples[j].ts <= samples[k].ts

\* sort_by_key over the timestamps: every sample once, in the order of time.
Sorted(got) == CHOOSE samples \in Bijection(1 .. Cardinality(got), got) : InTimeOrder(samples)

\* detect_faces finds nothing: no detector is built in, so no image changes.
FaceBlur(x) == x

\* The privacy filters see every sample of an image stream.
Filtered(samples) == [k \in DOMAIN samples |-> FaceBlur(samples[k])]

\* start, then a schema and a channel for every stream that was read.
StartFile == [NewFile EXCEPT !.channels = Streams]

\* All streams are read: without samples the call ends here; otherwise they are
\* sorted and filtered, and the file is created under its final name.
CreateFile ==
  /\ pk.pc = "collect" /\ pk.todo = {}
  /\ IF pk.got = {} THEN pk' = NoPack /\ result' = "no data" /\ UNCHANGED mcap
     ELSE /\ pk' = [pk EXCEPT !.pc = "write", !.seq = Filtered(Sorted(pk.got))]
          /\ mcap' = StartFile
          /\ UNCHANGED result
  /\ UNCHANGED <<ringVars, stable>>

\* flush_chunk: the bounds are the times of the first and the last message.
FlushChunk(f) ==
  IF f.chunk = << >> THEN f
  ELSE [f EXCEPT !.chunks = Append(@, f.chunk), !.chunk = << >>,
                 !.index = Append(@, [first |-> Head(f.chunk).ts, last |-> f.chunk[Len(f.chunk)].ts])]

\* write_message: the statistics, and the message as a record of the chunk.
Message(f, x) == [f EXCEPT !.chunk = Append(@, x), !.count[x.stream] = @ + 1]

\* write_sample: the message enters the chunk, and a full chunk is written.
WriteSample ==
  /\ pk.pc = "write" /\ pk.seq # << >>
  /\ LET x == Head(pk.seq)
         f == Message(mcap, x)
     IN mcap' = IF Len(f.chunk) >= ChunkSize THEN FlushChunk(f) ELSE f
  /\ pk' = [pk EXCEPT !.seq = Tail(@)]
  /\ UNCHANGED <<ringVars, result, stable>>

\* Data end, statistics, the chunk indices and the footer, if they reach the disk.
Summary(f, written) == [f EXCEPT !.footer = written]

\* finish: the last chunk first.  The writer is dropped without a flush of its
\* own: if that last write fails nobody is told.  Chunking and the message index
\* are on, as McapWriterConfig has them; nothing in the crate turns them off.
FinishFile(written) == Summary(FlushChunk(mcap), written)

FinishPackage ==
  /\ pk.pc = "write" /\ pk.seq = << >>
  /\ \E written \in BOOLEAN : mcap' = FinishFile(written)
  \* the metadata file is written last, and may fail
  /\ pk' = [pk EXCEPT !.pc = "idle"] /\ result' \in {"ok", "error"}
  /\ UNCHANGED <<ringVars, stable>>

\* Any write may fail: the call ends and what was written stays.
WriteFails ==
  /\ pk.pc = "write"
  /\ pk' = [pk EXCEPT !.pc = "idle"] /\ result' = "error"
  /\ UNCHANGED <<ringVars, mcap, stable>>

PackNext ==
  \/ /\ RingNext
     /\ stable' = {x \in stable : x \in {ring'[x.stream].slots[i] : i \in Slots}}
     /\ UNCHANGED <<pk, mcap, result>>
  \/ \E back \in PreRolls : BeginPackage(back)
  \/ \E s \in Streams : CollectSlot(s)
  \/ CreateFile \/ WriteSample \/ FinishPackage \/ WriteFails

PackSpec == PackInit /\ [][PackNext]_packVars

-----------------------------------------------------------------------------
(* Properties *)

\* A file that ends with its footer holds every collected sample once, in the
\* order of time, in chunks whose index bounds their times, and its statistics
\* count them by channel (do_package, write_message, flush_chunk, finish).
FileIsEpisode ==
  mcap.footer =>
    LET msgs == FlattenSeq(mcap.chunks) IN
    /\ {msgs[k] : k \in DOMAIN msgs} = pk.got /\ Len(msgs) = Cardinality(pk.got)
    /\ \A k \in 1 .. Len(msgs) - 1 : msgs[k].ts <= msgs[k + 1].ts
    /\ Len(mcap.index) = Len(mcap.chunks)
    /\ \A n \in DOMAIN mcap.chunks : \A k \in DOMAIN mcap.chunks[n] :
         mcap.chunks[n][k].ts \in mcap.index[n].first .. mcap.index[n].last
    /\ \A s \in Streams : mcap.count[s] = Cardinality({x \in pk.got : x.stream = s})

\* An episode holds every sample of its window that stayed in its ring while
\* the rings were read, whatever producers, evictions and clears did to the
\* others meanwhile (get_range, do_package).
EpisodeHoldsWindow == mcap.footer => stable \subseteq pk.got

\* What is written is the episode: the samples of its window, each under a
\* number of its own and once, although the rings go on (push, get_range,
\* do_package, finish).
EpisodeIsWindow == SequencesUnique /\ FileIsEpisode /\ EpisodeHoldsWindow
=============================================================================
