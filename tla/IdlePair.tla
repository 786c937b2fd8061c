------------------------------ MODULE IdlePair ------------------------------
(***************************************************************************)
(* The idle timeout of a spliced TCP connection: idlePair.copy in          *)
(* internal/engine/streams.go, run once per direction by handleTCP.        *)
(* Direction 0 copies client to backend in a goroutine of its own,         *)
(* direction 1 copies backend to client in the handler; when direction 1   *)
(* returns, the handler closes both connections.                           *)
(*                                                                         *)
(* Time is discrete: an idle period is Idle ticks, and a direction whose   *)
(* read deadline has passed is handled before the next tick, unless it is  *)
(* blocked in a write.                                                     *)
(***************************************************************************)
EXTENDS Integers

CONSTANTS
  Idle        \* tcpIdleTimeout, in ticks

IdleAssumption == Idle \in Nat \ {0}

Dir == {0, 1}
Cap == 3 * Idle + 1      \* bound: the silence that is told apart
NotIdle == -1

VARIABLES
  at,       \* where each direction is: "read", "write", "quiet" (between the
            \* Store and the Load), or "ended"
  left,     \* ticks to the read deadline of each direction
  moved,    \* the direction has copied something in this period (n > 0)
  quiet,    \* idlePair.quiet
  open,     \* the handler runs, and holds both connections
  \* history
  steady,   \* every completed period of the direction carried something
  since,    \* ticks since each direction last carried a byte
  cutAfter  \* silence at which a direction found both quiet, or NotIdle

vars == <<at, left, moved, quiet, open, steady, since, cutAfter>>

Init ==
  /\ at = [d \in Dir |-> "read"]
  /\ left = [d \in Dir |-> Idle]
  /\ moved = [d \in Dir |-> FALSE]
  /\ quiet = [d \in Dir |-> FALSE]
  /\ open = TRUE
  /\ steady = [d \in Dir |-> TRUE]
  /\ since = [d \in Dir |-> 0]
  /\ cutAfter = [d \in Dir |-> NotIdle]

\* Ticks since the connection carried a byte in either direction.
Silence == IF since[0] < since[1] THEN since[0] ELSE since[1]

-----------------------------------------------------------------------------

\* io.Copy reads some bytes, and writes them to the other side.
Read(d) ==
  /\ open
  /\ at[d] = "read"
  /\ left[d] > 0
  /\ at' = [at EXCEPT ![d] = "write"]
  /\ UNCHANGED <<left, moved, quiet, open, steady, since, cutAfter>>

Write(d) ==
  /\ open
  /\ at[d] = "write"
  /\ at' = [at EXCEPT ![d] = "read"]
  /\ moved' = [moved EXCEPT ![d] = TRUE]
  /\ since' = [since EXCEPT ![d] = 0]
  /\ UNCHANGED <<left, quiet, open, steady, cutAfter>>

\* A direction's copy returns.  Direction 0 half-closes the backend; after
\* direction 1 the handler closes everything, which ends direction 0 too.
Return(d) ==
  IF d = 1
    THEN /\ open' = FALSE
         /\ at' = [e \in Dir |-> "ended"]
    ELSE /\ at' = [at EXCEPT ![0] = "ended"]
         /\ UNCHANGED open

\* The source ended, or a copy failed.
SourceEnds(d) ==
  /\ open
  /\ at[d] \in {"read", "write"}
  /\ Return(d)
  /\ UNCHANGED <<left, moved, quiet, steady, since, cutAfter>>

\* The next turn of the loop: a new deadline.
Renew(d) ==
  /\ at' = [at EXCEPT ![d] = "read"]
  /\ left' = [left EXCEPT ![d] = Idle]
  /\ moved' = [moved EXCEPT ![d] = FALSE]

\* The read deadline fires.  A period with bytes clears the direction's flag
\* and starts the next; one without sets it, and goes on to CheckOther.
Deadline(d) ==
  /\ open
  /\ at[d] = "read"
  /\ left[d] = 0
  /\ IF moved[d]
       THEN /\ quiet' = [quiet EXCEPT ![d] = FALSE]
            /\ Renew(d)
       ELSE /\ quiet' = [quiet EXCEPT ![d] = TRUE]
            /\ at' = [at EXCEPT ![d] = "quiet"]
            /\ UNCHANGED <<left, moved>>
  /\ steady' = [steady EXCEPT ![d] = @ /\ moved[d]]
  /\ UNCHANGED <<open, since, cutAfter>>

\* quiet[1-dir].Load(): the pair ends when both are quiet.
CheckOther(d) ==
  /\ open
  /\ at[d] = "quiet"
  /\ IF quiet[1 - d]
       THEN /\ Return(d)
            /\ cutAfter' = [cutAfter EXCEPT ![d] = Silence]
            /\ UNCHANGED <<left, moved>>
       ELSE /\ Renew(d)
            /\ UNCHANGED <<open, cutAfter>>
  /\ UNCHANGED <<quiet, steady, since>>

\* A tick of the clock.  Only a direction blocked in a write is past its
\* deadline; it meets it when it reads again.
Tick ==
  /\ open
  /\ \A d \in Dir : at[d] # "quiet" /\ (at[d] = "read" => left[d] > 0)
  /\ left' = [d \in Dir |-> IF left[d] > 0 THEN left[d] - 1 ELSE 0]
  /\ since' = [d \in Dir |-> IF since[d] < Cap THEN since[d] + 1 ELSE Cap]
  /\ UNCHANGED <<at, moved, quiet, open, steady, cutAfter>>

Next ==
  \/ Tick
  \/ \E d \in Dir : \/ Read(d)
                    \/ Write(d)
                    \/ SourceEnds(d)
                    \/ Deadline(d)
                    \/ CheckOther(d)

Spec == Init /\ [][Next]_vars

-----------------------------------------------------------------------------
(* Properties.                                                             *)

(* Every variable has its type; a read deadline is never further away than *)
(* one idle period.                                                        *)
TypeOK ==
  /\ at \in [Dir -> {"read", "write", "quiet", "ended"}]
  /\ left \in [Dir -> 0..Idle]
  /\ moved \in [Dir -> BOOLEAN]
  /\ quiet \in [Dir -> BOOLEAN]
  /\ open \in BOOLEAN
  /\ steady \in [Dir -> BOOLEAN]
  /\ since \in [Dir -> 0..Cap]
  /\ cutAfter \in [Dir -> {NotIdle} \cup 0..Cap]

(* A direction that ends the pair has itself carried nothing for a whole   *)
(* idle period.                                                            *)
IdleCutJustified ==
  \A d \in Dir : cutAfter[d] # NotIdle => since[d] >= Idle

(* A direction that carries bytes in each of its periods keeps both alive: *)
(* "A download with a silent client therefore runs as long as it likes".   *)
SteadyDirectionKeepsBoth ==
  (\E d \in Dir : steady[d]) => \A d \in Dir : cutAfter[d] = NotIdle

(* A connection neither of whose sides has ended, and that is not blocked  *)
(* in a write, is closed before it has been silent for three idle periods. *)
SilentConnectionEnds ==
  (open /\ \A d \in Dir : at[d] # "write") =>
    \/ at[0] = "ended" /\ cutAfter[0] = NotIdle
    \/ Silence <= 3 * Idle

-----------------------------------------------------------------------------
(* What the comments say.                                                  *)

(* "From here on the connection lives as long as it carries traffic in     *)
(* either direction" (handleTCP): a connection that is cut for idleness    *)
(* has carried nothing in either direction for the idle timeout.           *)
ActiveConnectionLives == cutAfter[1] # NotIdle => cutAfter[1] >= Idle

(* "a connection with nothing in either direction ends between one and two *)
(* idle periods later" (idlePair), for a connection whose sides are both   *)
(* still there and not blocked.                                            *)
EndsWithinTwoPeriods ==
  (open /\ \A d \in Dir : at[d] # "write") =>
    \/ at[0] = "ended" /\ cutAfter[0] = NotIdle
    \/ Silence <= 2 * Idle

(* "tcpIdleTimeout ends a TCP connection that has carried nothing in       *)
(* either direction for this long, so an abandoned connection does not     *)
(* hold its slot and its backend connection forever": no connection that   *)
(* is not blocked in a write is silent for more than three periods.        *)
AbandonedConnectionEnds ==
  (open /\ \A d \in Dir : at[d] # "write") => Silence <= 3 * Idle

=============================================================================
