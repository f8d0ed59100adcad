----------------------------- MODULE PluginHost -----------------------------
(***************************************************************************)
(* What the sandbox gives a plugin: log functions that read a message out  *)
(* of the plugin's memory at a pointer and a length it chooses, both i32,  *)
(* and a key-value store.  An i32 goes from -Half to Half - 1, Half being  *)
(* 2^31 in the code, and a usize is a natural number below 2^64, that is   *)
(* (2 * Half)^2: a negative i32 becomes one beyond every memory.  A        *)
(* release build wraps where a debug build panics.                         *)
(***************************************************************************)
EXTENDS Integers, Sequences

CONSTANTS Half, MemorySize,
          LogLimit,   \* 1000 in the code
          Keys, NoValue

ASSUME HostConstants == Half \in Nat \ {0} /\ MemorySize \in 0 .. Half - 1 /\ LogLimit \in Nat

VARIABLES log,      \* log_buffer: the memory cells of each message
          logged,   \* messages logged, up to a bound
          kv

hostVars == <<log, logged, kv>>

I32 == (-Half) .. (Half - 1)

Wrap(n) == ((n + Half) % (2 * Half)) - Half

\* as usize, sign extended
Usize(n) == IF n < 0 THEN 4 * Half * Half + n ELSE n

HostInit == log = << >> /\ logged = 0 /\ kv = [k \in Keys |-> NoValue]

SliceIsValidBad(from, to) == to <= MemorySize

\* data.get(from..to) gives a slice or nothing.
SliceIsValid(from, to) == from <= to /\ to <= MemorySize

HostLog(ptr, len) ==
  /\ logged < LogLimit + 1
  /\ LET from == Usize(ptr)
         to == Usize(Wrap(ptr + len))
     IN IF SliceIsValid(from, to)
        THEN /\ LET all == Append(log, [from |-> from, to |-> to, ptr |-> ptr, len |-> len])
                IN log' = IF Len(all) > LogLimit THEN Tail(all) ELSE all
             /\ logged' = logged + 1
        ELSE UNCHANGED <<log, logged>>
  /\ UNCHANGED kv

KvSet(k) == kv' = [kv EXCEPT ![k] = "value"] /\ UNCHANGED <<log, logged>>
KvDelete(k) == kv' = [kv EXCEPT ![k] = NoValue] /\ UNCHANGED <<log, logged>>

HostNext ==
  \/ \E ptr, len \in I32 : HostLog(ptr, len)
  \/ \E k \in Keys : KvSet(k) \/ KvDelete(k)

HostSpec == HostInit /\ [][HostNext]_hostVars

\* A message that was logged is the range of memory the plugin named, inside
\* its memory: no pointer and length, negative or beyond the range of an i32,
\* names another one (link_host_functions), and a full buffer keeps the newest.
LogsWhatWasNamed ==
  /\ Len(log) = (IF logged < LogLimit THEN logged ELSE LogLimit)
  /\ \A i \in DOMAIN log : /\ log[i].ptr >= 0 /\ log[i].len >= 0
                           /\ log[i].from = log[i].ptr /\ log[i].to = log[i].ptr + log[i].len
                           /\ log[i].to <= MemorySize
=============================================================================
