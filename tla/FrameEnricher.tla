--------------------------- MODULE FrameEnricher ----------------------------
(***************************************************************************)
(* FrameEnricher of data_collection/enrichment.rs: joint states, which may *)
(* arrive late and out of order, are kept sorted by time in a bounded      *)
(* buffer, and a camera frame is given the joint positions at its time by  *)
(* interpolation between its neighbours.  Positions are left out: a result *)
(* names the states it is computed from and the gap it reports.            *)
(***************************************************************************)
EXTENDS Naturals, Sequences, FiniteSets

CONSTANTS MaxStates,    \* max_buffer_size
          Duration,     \* max_duration_ns
          MaxGap,       \* max_interpolation_gap_ms
          Horizon,      \* timestamps are 1 .. Horizon
          NoFrame

ASSUME EnricherConstants ==
  MaxStates \in Nat \ {0} /\ Duration \in Nat /\ MaxGap \in Nat /\ Horizon \in Nat

VARIABLES joints,  \* joint_state_buffer: the timestamps
          frame    \* the last frame: [ts, from, to, gap, ok]

enrVars == <<joints, frame>>

EnrInit == joints = << >> /\ frame = NoFrame

\* binary_search_by_key: where t is, or where it belongs; with equal keys any
\* of their places.
Found(t) == {i \in DOMAIN joints : joints[i] = t}

PlaceFor(t) ==
  IF Found(t) # {} THEN Found(t)
  ELSE {i \in 1 .. Len(joints) + 1 : (i > 1 => joints[i - 1] < t) /\ (i <= Len(joints) => joints[i] > t)}

WithState(i, t) == SubSeq(joints, 1, i - 1) \o <<t>> \o SubSeq(joints, i, Len(joints))

\* The oldest goes when the buffer is full, also if it has only just arrived.
Shortened(s) == IF Len(s) > MaxStates THEN Tail(s) ELSE s

\* trim_old_entries: retain, with the cutoff of the state that arrived.
Trimmed(s, t) ==
  LET kept[i \in 0 .. Len(s)] ==
        IF i = 0 THEN << >>
        ELSE IF s[i] + Duration >= t THEN Append(kept[i - 1], s[i]) ELSE kept[i - 1]
  IN  kept[Len(s)]

AddJointState(t) ==
  /\ \E i \in PlaceFor(t) : joints' = Trimmed(Shortened(WithState(i, t)), t)
  /\ UNCHANGED frame

Distance(a, b) == IF a < b THEN b - a ELSE a - b

NeighboursBad(i) == <<joints[i], joints[i]>>

\* Between two states the frame lies between them.
Neighbours(i) == <<joints[i - 1], joints[i]>>

\* interpolate_joint_state
Interpolated(t, i) ==
  IF i \in Found(t) THEN [from |-> t, to |-> t, gap |-> 0]
  ELSE IF i = 1 THEN [from |-> joints[1], to |-> joints[1], gap |-> Distance(joints[1], t)]
  ELSE IF i > Len(joints) THEN [from |-> joints[i - 1], to |-> joints[i - 1], gap |-> Distance(joints[i - 1], t)]
  ELSE LET n == Neighbours(i) IN
       [from |-> n[1], to |-> n[2],
        gap |-> IF Distance(n[1], t) < Distance(n[2], t) THEN Distance(n[1], t) ELSE Distance(n[2], t)]

\* enrich_frame: refused without joint states and above the largest gap.
EnrichFrame(t) ==
  /\ IF joints = << >> THEN frame' = NoFrame
     ELSE \E i \in PlaceFor(t) :
            LET r == Interpolated(t, i) IN
            frame' = [ts |-> t, from |-> r.from, to |-> r.to, gap |-> r.gap, ok |-> r.gap <= MaxGap,
                      kept |-> {joints[k] : k \in DOMAIN joints}]
  /\ UNCHANGED joints

ClearBuffer == joints' = << >> /\ UNCHANGED frame

EnrNext ==
  \/ \E t \in 1 .. Horizon : AddJointState(t) \/ EnrichFrame(t)
  \/ ClearBuffer

EnrSpec == EnrInit /\ [][EnrNext]_enrVars

-----------------------------------------------------------------------------
(* Properties *)

\* A frame is enriched from the two states of the buffer that enclose its time,
\* or from the nearest one at an end, and the gap it reports is the distance to
\* the nearest of all (interpolate_joint_state relies on the buffer being
\* sorted whatever arrived late, and on the search finding the right place).
FromNeighbours ==
  frame # NoFrame =>
    LET before == {u \in frame.kept : u <= frame.ts}
        after == {u \in frame.kept : u >= frame.ts}
    IN /\ IF before = {} THEN frame.from = frame.to
          ELSE frame.from \in before /\ \A u \in before : u <= frame.from
       /\ IF after = {} THEN frame.to = frame.from
          ELSE frame.to \in after /\ \A u \in after : u >= frame.to
       /\ \A u \in frame.kept : frame.gap <= Distance(u, frame.ts)
       /\ \E u \in frame.kept : frame.gap = Distance(u, frame.ts)

\* The newest joint state is never lost to a late one: what is dropped, for
\* room or for age, is older (add_joint_state_map, trim_old_entries).
NewestKept == joints # << >> /\ joints' # << >> => joints'[Len(joints')] >= joints[Len(joints)]

\* Frames are enriched from the nearest states, and the newest stays in the
\* buffer whatever arrives late (interpolate_joint_state, add_joint_state_map).
FramesFromNearest == [][FromNeighbours' /\ NewestKept]_enrVars
=============================================================================
