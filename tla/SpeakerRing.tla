----------------------------- MODULE SpeakerRing -----------------------------
(***************************************************************************)
(* The lock-free ring of audio/pc_speaker.h between one producer, the clock*)
(* thread in push(), and one consumer, the audio callback in pop().  Each  *)
(* access to a field the other thread uses is a step.  The counters write  *)
(* and read run freely and wrap, as the uint32_t of the code do.           *)
(***************************************************************************)
EXTENDS Naturals, Sequences

CONSTANTS
  Size,       \* SpeakerRing::SIZE, 524288 in the code
  Wrap,       \* the counters' modulus, 2^32 in the code
  Samples     \* what is queued: 0 and 1 in the code

\* A power of two in the code; what the index arithmetic needs is that the
\* buffer's size divides the modulus and is less.
ASSUME RingAssumption ==
  /\ Size \in Nat \ {0}
  /\ Wrap \in Nat /\ Size < Wrap /\ Wrap % Size = 0
  /\ Samples # {}

VARIABLES
  buf,      \* the buffer
  write,    \* samples pushed, modulo Wrap
  read,     \* samples popped, modulo Wrap
  drops,    \* samples dropped, modulo 2: enough to see a drop
  prod,     \* the producer: where it is in push(), val, cached_read
  cons      \* the consumer: where it is in pop(), val; history: heard

vars == <<buf, write, read, drops, prod, cons>>

Init ==
  /\ buf = [i \in 0 .. Size - 1 |-> CHOOSE v \in Samples : TRUE]
  /\ write = 0 /\ read = 0 /\ drops = 0
  /\ prod = [pc |-> "idle", val |-> <<>>, cachedRead |-> 0]
  /\ cons = [pc |-> "idle", val |-> <<>>, heard |-> <<>>]

Succ(n)         == (n + 1) % Wrap
Distance(to, from) == (Wrap + to - from) % Wrap

(***************************************************************************)
(* push()                                                                  *)
(***************************************************************************)
\* Mutant of Full: the test is off by one.
FullTooLate(r) == Distance(write, r) > Size

Full(r) == Distance(write, r) >= Size

\* The call, and the test against the producer's own copy of read.
PushBegin ==
  /\ prod.pc = "idle"
  /\ \E v \in Samples :
       prod' = [prod EXCEPT !.val = <<v>>,
                            !.pc = IF Full(prod.cachedRead) THEN "refresh"
                                                            ELSE "store"]
  /\ UNCHANGED <<buf, write, read, drops, cons>>

\* cached_read = read.load(); a full ring drops the sample.
PushRefresh ==
  /\ prod.pc = "refresh"
  /\ prod' = [prod EXCEPT !.cachedRead = read,
                          !.pc  = IF Full(read) THEN "idle" ELSE "store",
                          !.val = IF Full(read) THEN <<>> ELSE @]
  /\ drops' = IF Full(read) THEN 1 - drops ELSE drops
  /\ UNCHANGED <<buf, write, read, cons>>

PushStore ==
  /\ prod.pc = "store"
  /\ buf' = [buf EXCEPT ![write % Size] = prod.val[1]]
  /\ prod' = [prod EXCEPT !.pc = "publish"]
  /\ UNCHANGED <<write, read, drops, cons>>

PushPublish ==
  /\ prod.pc = "publish"
  /\ write' = Succ(write)
  /\ prod' = [prod EXCEPT !.pc = "idle", !.val = <<>>]
  /\ UNCHANGED <<buf, read, drops, cons>>

(***************************************************************************)
(* pop()                                                                   *)
(***************************************************************************)
\* Mutant of PopBegin: the entry is given back before it is read.
PopBeginReleases ==
  /\ cons.pc = "idle"
  /\ read # write
  /\ read' = Succ(read)
  /\ cons' = [cons EXCEPT !.pc = "load"]
  /\ UNCHANGED <<buf, write, drops, prod>>

\* An empty ring returns false at once.
PopBegin ==
  /\ cons.pc = "idle"
  /\ read # write
  /\ cons' = [cons EXCEPT !.pc = "load"]
  /\ UNCHANGED <<buf, write, read, drops, prod>>

PopLoad ==
  /\ cons.pc = "load"
  /\ cons' = [cons EXCEPT !.pc = "release", !.val = <<buf[read % Size]>>]
  /\ UNCHANGED <<buf, write, read, drops, prod>>

PopRelease ==
  /\ cons.pc = "release"
  /\ read' = Succ(read)
  /\ cons' = [pc |-> "idle", val |-> <<>>, heard |-> cons.val]
  /\ UNCHANGED <<buf, write, drops, prod>>

Producer == PushBegin \/ PushRefresh \/ PushStore \/ PushPublish
Consumer == PopBegin \/ PopLoad \/ PopRelease

Next == Producer \/ Consumer

\* The audio device keeps calling back.
Spec == Init /\ [][Next]_vars /\ WF_vars(Consumer)

(***************************************************************************)
(* Properties.                                                             *)
(***************************************************************************)
\* The queue the ring stands for: the entries from read up to write.
Queued == [i \in 1 .. Distance(write, read) |-> buf[(read + i - 1) % Size]]

Queue == INSTANCE SpeakerQueue
           WITH queue <- Queued, heard <- cons.heard, dropped <- drops = 1

\* push() and pop() are a bounded queue, across the wrap of the counters: no
\* sample is lost but when the ring is full, none is repeated, torn or out of
\* order, and every sample queued is heard.
IsSpeakerQueue == Queue!Spec

\* The producer never stores into the entry the consumer is reading.
NoTornSample ==
  prod.pc = "store" /\ cons.pc = "load" => write % Size # read % Size

=============================================================================
