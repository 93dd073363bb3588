----------------------------- MODULE StateBuffer -----------------------------
(***************************************************************************)
(* The rolling history of network states (streaming/state_buffer.py).  A   *)
(* state is abstracted to its slot: the number of its ten-second interval. *)
(* A buffer is the sequence of the slots it holds, oldest first; the       *)
(* capture day of a buffer is the day of any state in it.                  *)
(***************************************************************************)
EXTENDS Integers, Sequences

CONSTANTS
    SequenceLength,   \* L, the number of states a forecast needs (10 in the code)
    SlotsPerDay,      \* ten-second intervals in one capture day (8640 in the code)
    MaxSlot           \* bound: the last slot in which anything happens

ASSUME BufferAssumption ==
    /\ SequenceLength \in Nat \ {0, 1}
    /\ SlotsPerDay \in Nat \ {0}
    /\ MaxSlot \in Nat

Slots == Nat

DayOf(slot) == slot \div SlotsPerDay

Newest(buf) == buf[Len(buf)]

(***************************************************************************)
(* The four ways the next state can relate to the history, in the order    *)
(* push tests them.  Both of its errors (duplicate and out of order, on    *)
(* the same day or at a day boundary) are a slot that does not advance.    *)
(***************************************************************************)
(* Mutant: a gap is an error, too.                                         *)
IsNotNext(buf, slot) == buf # <<>> /\ slot # Newest(buf) + 1

(* Mutant: only a duplicate of the newest state is an error.               *)
RepeatsNewest(buf, slot) == buf # <<>> /\ slot = Newest(buf)

DoesNotAdvance(buf, slot) == buf # <<>> /\ slot <= Newest(buf)

CrossesDay(buf, slot) ==
    buf # <<>> /\ slot > Newest(buf) /\ DayOf(slot) # DayOf(Newest(buf))

(* Mutant: a missing state is tolerated.                                   *)
LeavesLongGap(buf, slot) ==
    buf # <<>> /\ slot > Newest(buf) + 2 /\ DayOf(slot) = DayOf(Newest(buf))

LeavesGap(buf, slot) ==
    buf # <<>> /\ slot > Newest(buf) + 1 /\ DayOf(slot) = DayOf(Newest(buf))

(* Mutant: the oldest state is not dropped.                                *)
PushedUntrimmed(buf, slot) == Append(buf, slot)

(* The buffer after an accepted state: at most SequenceLength are kept. *)
Pushed(buf, slot) ==
    LET grown == Append(buf, slot)
    IN  IF Len(grown) > SequenceLength THEN Tail(grown) ELSE grown

IsReady(buf) == Len(buf) = SequenceLength

(* What a buffer must be for a sequence formed from it to be usable: whole *)
(* ten-second steps within one capture day.                                *)
Contiguous(buf) ==
    \A i \in 1 .. Len(buf) - 1 :
        buf[i + 1] = buf[i] + 1 /\ DayOf(buf[i + 1]) = DayOf(buf[i])
==============================================================================
