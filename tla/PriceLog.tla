------------------------------- MODULE PriceLog -------------------------------
(***************************************************************************)
(* What the oracle of a pool promises. Every second leaves the tick and    *)
(* the liquidity that lasted through it in a log that is never cut. Some   *)
(* instants are marked. Whoever asks for the sums up to an instant gets    *)
(* them exactly, unless the instant is before the earliest mark kept. Only *)
(* the seconds per liquidity may be wrong: between two marks so far apart, *)
(* at so little liquidity, that a product overflows in between.            *)
(***************************************************************************)
EXTENDS Integers, SequencesExt

CONSTANTS
    Weight(_),  \* the seconds per liquidity that a second at some liquidity adds
    Modulus,    \* at which their sum wraps
    MaxMarks,   \* no more than this many marks are kept
    Forgotten,  \* the answer for what is too old
    None

VARIABLES
    log,        \* a [tick, liquidity] per second
    marks,      \* the instants that were marked, as lengths of the log
    kept,       \* how many of the last marks are kept
    answer      \* to the last question, [secondsAgo, value], or None

logVars == <<log, marks, kept, answer>>

Init == log = <<>> /\ marks = <<0>> /\ kept = 1 /\ answer = None

\* The sums up to instant n
SumsAt(n) ==
    LET past == SubSeq(log, 1, n)
    IN  [tick |-> FoldLeft(LAMBDA acc, s : acc + s.tick, 0, past),
         seconds |-> FoldLeft(LAMBDA acc, s : acc + Weight(s.liquidity), 0, past) % Modulus]

EarliestKept == marks[Len(marks) - kept + 1]

\* Time passes
Pass(tick, liquidity, seconds) ==
    /\ log' = log \o [i \in 1 .. seconds |-> [tick |-> tick, liquidity |-> liquidity]]
    /\ answer' = None
    /\ UNCHANGED <<marks, kept>>

\* Marking an instant forgets at most one mark, and an instant is marked once.
Mark ==
    /\ Last(marks) < Len(log)
    /\ marks' = Append(marks, Len(log))
    /\ kept' \in {kept, kept + 1}
    /\ kept' <= MaxMarks
    /\ answer' = None
    /\ UNCHANGED log

Discard == answer' = None /\ UNCHANGED <<log, marks, kept>>

\* The seconds per liquidity between the two marks around an instant, times the seconds
\* since the first of them, reach the modulus.
Overflows(n) ==
    \E i \in 1 .. Len(marks) - 1 :
        /\ marks[i] < n /\ n < marks[i + 1]
        /\ ((SumsAt(marks[i + 1]).seconds - SumsAt(marks[i]).seconds) % Modulus)
               * (n - marks[i]) >= Modulus

\* What may be told of an instant
Told(n) ==
    IF n < EarliestKept THEN {Forgotten}
    ELSE {[SumsAt(n) EXCEPT !.seconds = seconds] :
             seconds \in IF Overflows(n) THEN 0 .. Modulus - 1 ELSE {SumsAt(n).seconds}}

Answer(secondsAgo) ==
    /\ \E value \in Told(Len(log) - secondsAgo) :
           answer' = [secondsAgo |-> secondsAgo, value |-> value]
    /\ UNCHANGED <<log, marks, kept>>

Passes == Len(log') > Len(log) /\ Pass(Last(log').tick, Last(log').liquidity, Len(log') - Len(log))
Answers == answer' # None /\ Answer(answer'.secondsAgo)

Next == Passes \/ Mark \/ Discard \/ Answers

Spec == Init /\ [][Next]_logVars
===============================================================================
