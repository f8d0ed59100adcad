----------------------------- MODULE SshRecorder -----------------------------
(***************************************************************************)
(* The recording of one SSH session: SessionRecorder with a file writer    *)
(* and a cloud writer behind it, the order in which create_recorder adds   *)
(* them, the file writer inside an IntegrityRecordingWriter, which the     *)
(* library offers and the handler does not use.  The recorder's mutex      *)
(* makes every call atomic; the calls come from three tasks in any order:  *)
(* the task that writes the header, the I/O task (output, finalize) and    *)
(* the handler (input, resize).  A line is its number, the header is line  *)
(* 0; a hash is the data it was computed from.                             *)
(***************************************************************************)
EXTENDS Naturals, Sequences, SequencesExt, FiniteSets

CONSTANTS RecLines,    \* bound on the entries asked to be recorded
          RecChunk,    \* lines per chunk (chunk_size), of both writers
          NoHash       \* prev_hash of the first chunk

ASSUME RecConstants ==
  /\ RecLines \in Nat /\ RecChunk \in Nat \ {0}
  /\ NoHash \notin Seq(Nat)

VARIABLES
  recHeader,   \* header_written
  recAsked,    \* entries asked to be recorded so far
  recLost,     \* entries refused because the header was not written
  sealed,      \* IntegrityRecordingWriter: buffer, chunk_num and prev_hash
  file,        \* the signed chunks in the file
  skipped,     \* history: a chunk was written after one whose write failed
  cloud,       \* CloudRecordingWriter: buffer, chunk_num
  received,    \* the chunks the cloud has, by number
  recFinal     \* finalize has run

recVars == <<recHeader, recAsked, recLost, sealed, file, skipped, cloud, received, recFinal>>

RecInit ==
  /\ recHeader = FALSE /\ recAsked = 0 /\ recLost = {} /\ recFinal = FALSE
  /\ sealed = [buf |-> <<>>, num |-> 0, prev |-> NoHash, failed |-> FALSE, seen |-> {}]
  /\ file = <<>> /\ skipped = FALSE
  /\ cloud = [buf |-> <<>>, num |-> 0, seen |-> {}]
  /\ received = {}

-----------------------------------------------------------------------------
(* The writers *)

SignChunk(s, data) == [num |-> s.num, data |-> data, prev |-> s.prev]

\* verify_chunk over a whole file, each chunk with the hash of the one before
\* as expected_prev_hash.
Verifies(chunks) ==
  \A i \in 1..Len(chunks) :
    chunks[i].prev = IF i = 1 THEN NoHash ELSE chunks[i - 1].data

\* flush_chunk: the chunk is signed, which moves chunk_num and prev_hash on,
\* before the write that may fail; the buffer is emptied only after it.
FlushChunk(s, ok) ==
  IF s.buf = <<>> THEN s
  ELSE [s EXCEPT !.num = @ + 1, !.prev = s.buf, !.failed = @ \/ ~ok,
                 !.buf = IF ok THEN <<>> ELSE @]

\* One line to the file writer; ok says whether a write it makes succeeds.
FileWrite(line, ok) ==
  LET s == [sealed EXCEPT !.buf = Append(@, line), !.seen = @ \cup {line}]
  IN IF Len(s.buf) < RecChunk
     THEN sealed' = s /\ UNCHANGED <<file, skipped>>
     ELSE /\ sealed' = FlushChunk(s, ok)
          /\ file' = IF ok THEN Append(file, SignChunk(s, s.buf)) ELSE file
          /\ skipped' = (skipped \/ (ok /\ s.failed))

\* A line fails to be written only when it fills a chunk.
FileFails(ok) == ~ok /\ Len(sealed.buf) + 1 >= RecChunk

\* The number is used up only by an upload that succeeds.
CloudFlushBad(c, up) ==
  LET n == c.num + 1 IN
  /\ cloud' = [c EXCEPT !.num = IF up /\ c.buf # <<>> THEN n ELSE @, !.buf = <<>>]
  /\ received' = IF up /\ c.buf # <<>>
                 THEN received \cup {[num |-> n, lines |-> ToSet(c.buf)]} ELSE received

\* flush_buffer: the number is used up and the buffer emptied whether or not
\* the upload succeeds.
FlushBuffer(c) == IF c.buf = <<>> THEN c ELSE [c EXCEPT !.num = @ + 1, !.buf = <<>>]

CloudFlush(c, up) ==
  /\ cloud' = FlushBuffer(c)
  /\ received' = IF up /\ c.buf # <<>>
                 THEN received \cup {[num |-> cloud'.num, lines |-> ToSet(c.buf)]}
                 ELSE received

CloudWrite(line, up) ==
  LET c == [cloud EXCEPT !.buf = Append(@, line), !.seen = @ \cup {line}]
  IN IF Len(c.buf) < RecChunk THEN cloud' = c /\ UNCHANGED received
     ELSE CloudFlush(c, up)

\* The line goes to the writers in order; the first that fails ends the call.
WriteAll(line, ok, up) ==
  /\ FileWrite(line, ok)
  /\ IF FileFails(ok) THEN UNCHANGED <<cloud, received>> ELSE CloudWrite(line, up)

-----------------------------------------------------------------------------
(* The recorder *)

WriteHeader(ok, up) ==
  /\ ~recHeader /\ 0 \notin sealed.seen
  /\ WriteAll(0, ok, up)
  /\ recHeader' = ~FileFails(ok)
  /\ UNCHANGED <<recAsked, recLost, recFinal>>

\* record_output, record_input and record_resize differ in the entry only.
Record(ok, up) ==
  /\ recAsked < RecLines
  /\ recAsked' = recAsked + 1
  /\ IF recHeader
     THEN WriteAll(recAsked', ok, up) /\ UNCHANGED recLost
     ELSE recLost' = recLost \cup {recAsked'}
          /\ UNCHANGED <<sealed, file, skipped, cloud, received>>
  /\ UNCHANGED <<recHeader, recFinal>>

\* The file's last chunk, the file's flush and sync_all, then the cloud's last
\* chunk and its final signal, which carries no number; an error of the file
\* keeps the cloud from being finalized.  The I/O task calls it once; the
\* handler may still record input afterwards.
Finalize(ok, synced, up) ==
  LET writes == sealed.buf # <<>> IN
  /\ ~recFinal
  /\ recFinal' = TRUE
  /\ sealed' = FlushChunk(sealed, ok)
  /\ IF writes /\ ok
     THEN /\ file' = Append(file, SignChunk(sealed, sealed.buf))
          /\ skipped' = (skipped \/ sealed.failed)
     ELSE UNCHANGED <<file, skipped>>
  /\ IF (writes /\ ~ok) \/ ~synced THEN UNCHANGED <<cloud, received>>
     ELSE CloudFlush(cloud, up)
  /\ UNCHANGED <<recHeader, recAsked, recLost>>

RecNext ==
  \E ok, up \in BOOLEAN :
    WriteHeader(ok, up) \/ Record(ok, up) \/ \E synced \in BOOLEAN : Finalize(ok, synced, up)

-----------------------------------------------------------------------------
(* Properties *)

\* The chunks in the file verify as a chain exactly when no chunk was written
\* after a failed one: signing moves the chain on before the write, so a write
\* that fails and is tried again later is found by verify_chunk (flush_chunk).
ChainTellsFailure == Verifies(file) <=> ~skipped

\* Every line the file writer was given is in the file or still in its buffer:
\* a failed write keeps its lines for the next chunk (flush_chunk).
FileKeepsAll ==
  sealed.seen = ToSet(sealed.buf) \cup UNION {ToSet(file[i].data) : i \in 1..Len(file)}

\* A server that has all the chunks up to some number has every line recorded
\* before the last line of them: what an upload lost leaves a number out, unless
\* nothing after it arrived.  The loss of the last chunks shows nowhere, as the
\* final signal carries no number (flush_buffer, finalize).
GapTellsLoss ==
  \A r \in received :
    (\A n \in 1..r.num : \E q \in received : q.num = n)
    => \A x \in cloud.seen :
         (\E y \in r.lines : x <= y) => \E q \in received : x \in q.lines

\* What the cloud writer was given the file writer was given before it: a
\* failing file stops the line for all writers behind it (record_output).
CloudFollowsFile == cloud.seen \subseteq sealed.seen

\* Every entry a writer was given comes after the header, although the header
\* is written by a task of its own (create_recorder, header_written).
HeaderComesFirst ==
  /\ \A n \in sealed.seen : n # 0 => 0 \in sealed.seen
  /\ recLost \cap sealed.seen = {}
  /\ file # <<>> => file[1].data[1] = 0 \/ sealed.failed

\* A recording has no holes that do not show: the file misses at most the lines
\* still in the buffer, and its chain breaks when a chunk followed a failed one;
\* the cloud's copy without a missing number is a beginning of what was
\* recorded, whatever uploads and writes failed; no entry comes before the
\* header (flush_chunk, flush_buffer, finalize, record_output, create_recorder).
RecordingHasNoHoles ==
  ChainTellsFailure /\ FileKeepsAll /\ GapTellsLoss /\ CloudFollowsFile /\ HeaderComesFirst
=============================================================================
