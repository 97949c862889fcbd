--------------------------- MODULE DeviceNumbers ---------------------------
(***************************************************************************)
(* ASCOM device numbers on one port (deviceNumbers, hurd/build.go).  Each   *)
(* server key owns a table of the numbers in use per device type; an entry  *)
(* either pins a number in its file or takes the lowest free one.  Pure     *)
(* operators, used by Herd at start-up and for every enable from the page.  *)
(***************************************************************************)
EXTENDS Integers, FiniteSets

\* A spec whose Device pointer is nil: the number is chosen by assign.
AutoNum == -1

\* Seeded bug: the count of numbers in use serves as the next number.
NextByCount(taken) == Cardinality(taken)

\* The loop "num := 0; for taken[num] { num++ }".
LowestFree(taken) ==
    CHOOSE n \in 0..Cardinality(taken) :
        /\ n \notin taken
        /\ \A m \in 0..(n - 1) : m \in taken

\* Seeded bug: a pin is not looked up.
CanAssignAny(taken, pin) == pin = AutoNum \/ pin >= 0

\* assign succeeds: a pin must be neither negative nor taken.
CanAssign(taken, pin) ==
    \/ pin = AutoNum
    \/ pin >= 0 /\ pin \notin taken

\* Seeded bug: an absent pin is used as a number.
NumberPinned(taken, pin) == pin

\* The number assign claims when it succeeds.
NumberFor(taken, pin) == IF pin = AutoNum THEN LowestFree(taken) ELSE pin
=============================================================================
