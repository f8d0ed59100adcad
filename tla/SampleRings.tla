---------------------------- MODULE SampleRings -----------------------------
(***************************************************************************)
(* The ring buffers of data_collection/buffer.rs.  Producers hold a ring   *)
(* through an Arc and push without a lock over the ring: a push takes a    *)
(* sequence number, then a position, then writes its slot, and clear and   *)
(* evict go over the slots one by one meanwhile.                           *)
(***************************************************************************)
EXTENDS Naturals, FiniteSets, Sequences

CONSTANTS Streams,
          Capacity,    \* slots of a ring
          Producers,
          MaxSamples,  \* samples captured in a behaviour
          MaxSweeps,   \* clears and evictions in a behaviour
          MaxAge,      \* max_age_ns
          NoSample     \* an empty slot, no push, no sweep

Samples == [stream : Streams, ts : Nat, seq : Nat]
Pushes == [smp : Samples, at : 0 .. Capacity]  \* at Capacity: no position yet
Sweeps == [kind : {"clear", "evict"}, s : Streams, i : 0 .. Capacity, todo : SUBSET Streams, now : Nat]

ASSUME RingConstants ==
  /\ Capacity \in Nat \ {0} /\ MaxSamples \in Nat /\ MaxSweeps \in Nat /\ MaxAge \in Nat
  /\ NoSample \notin Samples /\ NoSample \notin Pushes /\ NoSample \notin Sweeps

VARIABLES ring,    \* per stream: storage, total_written and write_pos
          push,    \* per producer: the push under way
          sweep,   \* the clear_all or evict_old_all under way
          sweeps,  \* how many began
          clock    \* the timestamp of the last sample

ringVars == <<ring, push, sweep, sweeps, clock>>

Slots == 0 .. Capacity - 1

RingInit ==
  /\ ring = [s \in Streams |-> [slots |-> [i \in Slots |-> NoSample], written |-> 0, pos |-> 0]]
  /\ push = [p \in Producers |-> NoSample] /\ sweep = NoSample
  /\ sweeps = 0 /\ clock = 0

Held(s) == {ring[s].slots[i] : i \in Slots} \ {NoSample}

-----------------------------------------------------------------------------
(* push *)

\* A sample is captured and numbered.
TakeSeq(p, s) ==
  /\ push[p] = NoSample /\ clock < MaxSamples
  /\ clock' = clock + 1
  /\ push' = [push EXCEPT ![p] = [smp |-> [stream |-> s, ts |-> clock', seq |-> ring[s].written], at |-> Capacity]]
  /\ ring' = [ring EXCEPT ![s].written = @ + 1]
  /\ UNCHANGED <<sweep, sweeps>>

TakeSlot(p) ==
  /\ push[p] # NoSample /\ push[p].at = Capacity
  /\ LET s == push[p].smp.stream IN
     /\ push' = [push EXCEPT ![p].at = ring[s].pos % Capacity]
     /\ ring' = [ring EXCEPT ![s].pos = @ + 1]
  /\ UNCHANGED <<sweep, sweeps, clock>>

WriteSlot(p) ==
  /\ push[p] # NoSample /\ push[p].at # Capacity
  /\ ring' = [ring EXCEPT ![push[p].smp.stream].slots[push[p].at] = push[p].smp]
  /\ push' = [push EXCEPT ![p] = NoSample]
  /\ UNCHANGED <<sweep, sweeps, clock>>

-----------------------------------------------------------------------------
(* clear_all and evict_old_all, slot by slot *)

BeginSweep(kind) ==
  /\ sweep = NoSample /\ sweeps < MaxSweeps /\ sweeps' = sweeps + 1
  /\ \E s \in Streams : sweep' = [kind |-> kind, s |-> s, i |-> 0, todo |-> Streams \ {s}, now |-> clock]
  /\ UNCHANGED <<ring, push, clock>>

Expired(x) == x # NoSample /\ x.ts + MaxAge < sweep.now

SweepSlot ==
  /\ sweep # NoSample /\ sweep.i < Capacity
  /\ ring' = [ring EXCEPT ![sweep.s].slots[sweep.i] =
                IF sweep.kind = "clear" \/ Expired(@) THEN NoSample ELSE @]
  /\ sweep' = [sweep EXCEPT !.i = @ + 1]
  /\ UNCHANGED <<push, sweeps, clock>>

\* clear puts the next write back to slot 0 and goes on counting.
Reset(r) == [r EXCEPT !.pos = 0]

SweepRing ==
  /\ sweep # NoSample /\ sweep.i = Capacity
  /\ ring' = IF sweep.kind = "clear" THEN [ring EXCEPT ![sweep.s] = Reset(@)] ELSE ring
  /\ IF sweep.todo = {} THEN sweep' = NoSample
     ELSE \E s \in sweep.todo : sweep' = [sweep EXCEPT !.s = s, !.i = 0, !.todo = @ \ {s}]
  /\ UNCHANGED <<push, sweeps, clock>>

RingNext ==
  \/ \E p \in Producers : TakeSlot(p) \/ WriteSlot(p) \/ \E s \in Streams : TakeSeq(p, s)
  \/ \E k \in {"clear", "evict"} : BeginSweep(k)
  \/ SweepSlot \/ SweepRing

\* No two samples of a stream carry one sequence number, in the ring or on the
\* way to it, although clear runs into pushes (RingBuffer::push, clear).
SequencesUnique ==
  LET smps == (UNION {Held(s) : s \in Streams}) \cup
              {push[p].smp : p \in {q \in Producers : push[q] # NoSample}}
  IN \A x, y \in smps : x.stream = y.stream /\ x.seq = y.seq => x = y
=============================================================================
