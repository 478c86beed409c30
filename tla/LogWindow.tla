------------------------------ MODULE LogWindow ------------------------------
(***************************************************************************)
(* The aggregation of data logs of one source (internal/logagg/logagg.go): what *)
(* is added within a window becomes one line.  Time counts in half windows;*)
(* a timer that is due starts a goroutine, which gets the mutex later.     *)
(* A definition marked "mutant" is not part of the model.                  *)
(***************************************************************************)
EXTENDS Integers, FiniteSets

CONSTANTS
  Sizes,        \* sizes of what is added
  MaxContent,   \* maxContentBytes: what a line shows at most
  MaxAdds, MaxFlushes  \* bounds: calls of Add and FlushAll

Window == 2
None   == -1

VARIABLES
  count, total, shown, truncated, \* the window
  timer,      \* the window's timer, by its epoch
  epoch,
  armed,      \* timers that run: their epochs and the time they have left
  callbacks,  \* epochs of timers that went off and have yet to get the mutex
  adds, flushes,
  age,        \* history: time since the first Add of the window, up to Window
  pieces, bytes, \* history: what was added
  lines,      \* history: pieces and bytes in the lines so far
  cut         \* history: a timer ended a window that was not its own

windowVars == <<count, total, shown, truncated, timer, epoch>>
timeVars   == <<armed, callbacks, age>>
history    == <<pieces, bytes, lines, cut>>
vars == <<windowVars, timeVars, adds, flushes, history>>

Epochs   == 0 .. MaxAdds
TypeOK ==
  /\ count \in 0 .. MaxAdds /\ total \in Nat
  /\ shown \in 0 .. MaxContent /\ truncated \in BOOLEAN
  /\ timer \in Epochs \cup {None} /\ epoch \in Epochs
  /\ armed \subseteq [epoch : Epochs, left : 0 .. Window]
  /\ callbacks \subseteq Epochs /\ age \in 0 .. Window
  /\ adds \in 0 .. MaxAdds /\ flushes \in 0 .. MaxFlushes
  /\ pieces \in 0 .. MaxAdds /\ bytes \in Nat
  /\ lines \in [pieces : 0 .. MaxAdds, bytes : Nat]
  /\ cut \in BOOLEAN

Init ==
  /\ count = 0 /\ total = 0 /\ shown = 0 /\ truncated = FALSE
  /\ timer = None /\ epoch = 0 /\ armed = {} /\ callbacks = {} /\ age = 0
  /\ adds = 0 /\ flushes = 0 /\ pieces = 0 /\ bytes = 0 /\ cut = FALSE
  /\ lines = [pieces |-> 0, bytes |-> 0]

\* What a line shows of n more bytes when it shows s: up to the limit.
KeptAll(s, n) == s + n                                             \* mutant
Kept(s, n) == IF n <= MaxContent - s THEN s + n ELSE MaxContent

\* The first Add of a window starts its timer.
Add ==
  /\ adds < MaxAdds /\ adds' = adds + 1
  /\ \E n \in Sizes :
       /\ count' = count + 1 /\ total' = total + n
       /\ shown' = Kept(shown, n)
       /\ truncated' = (truncated \/ n > MaxContent - shown)
       /\ pieces' = pieces + 1 /\ bytes' = bytes + n
  /\ IF timer = None
     THEN /\ timer' = epoch /\ age' = 0
          /\ armed' = armed \cup {[epoch |-> epoch, left |-> Window]}
     ELSE UNCHANGED <<timer, age, armed>>
  /\ UNCHANGED <<epoch, callbacks, flushes, lines, cut>>

\* Time passes, and timers go off when theirs has come.
Tick ==
  /\ \A t \in armed : t.left > 0
  /\ armed # {}
  /\ armed' = {[t EXCEPT !.left = @ - 1] : t \in armed}
  /\ age' = IF age < Window THEN age + 1 ELSE age
  /\ UNCHANGED <<windowVars, callbacks, adds, flushes, history>>

GoesOff ==
  /\ \E t \in armed :
       /\ t.left = 0
       /\ armed' = armed \ {t} /\ callbacks' = callbacks \cup {t.epoch}
  /\ UNCHANGED <<windowVars, age, adds, flushes, history>>

\* flushLocked: one line, and a new epoch.
FlushLocked ==
  /\ timer' = None
  /\ IF count = 0 THEN UNCHANGED <<count, total, shown, truncated, epoch, lines>>
     ELSE /\ lines' = [pieces |-> lines.pieces + count,
                       bytes |-> lines.bytes + total]
          /\ count' = 0 /\ total' = 0 /\ shown' = 0 /\ truncated' = FALSE
          /\ epoch' = epoch + 1

\* A timer flushes the window it was started for, and no other.
AnyWindow(e) == TRUE                                               \* mutant
OwnWindow(e) == e = epoch
FlushAt ==
  /\ \E e \in callbacks :
       /\ callbacks' = callbacks \ {e}
       /\ IF OwnWindow(e)
          THEN FlushLocked /\ cut' = (cut \/ (count # 0 /\ age < Window))
          ELSE UNCHANGED <<windowVars, lines, cut>>
  /\ UNCHANGED <<armed, age, adds, flushes, pieces, bytes>>

\* FlushAll, at a shutdown or a take-over: a timer that has not gone off is
\* stopped.
FlushNow ==
  /\ flushes < MaxFlushes /\ flushes' = flushes + 1
  /\ armed' = IF timer = None THEN armed
              ELSE {t \in armed : t.epoch # timer}
  /\ FlushLocked
  /\ UNCHANGED <<callbacks, age, adds, pieces, bytes, cut>>

Next == Add \/ Tick \/ GoesOff \/ FlushAt \/ FlushNow

-----------------------------------------------------------------------------
\* Everything that was added is in exactly one line or in the open window,
\* whose timer is still to come; a line says truncated when it is; and no
\* window ends before its time but by FlushAll, however a timer that went off
\* races with a flush and with the next window (logagg.go:101-118).
LogsComplete ==
  /\ lines.pieces + count = pieces /\ lines.bytes + total = bytes
  /\ count > 0 => \/ epoch \in callbacks
                  \/ \E t \in armed : t.epoch = epoch
  /\ truncated <=> total > MaxContent
  /\ ~cut

=============================================================================
