------------------------------ MODULE Limiter ------------------------------
(***************************************************************************)
(* The limiter of the account service (limit in crates/psky/src/account.rs)*)
(* and what the limits promise.  Attempts of a kind are remembered with    *)
(* the wall clock, which runs, jumps ahead and is set back.                *)
(*                                                                         *)
(* The history counts how far the clock has moved ahead and back since the *)
(* process was started: `ahead' is at least the time that has passed.      *)
(***************************************************************************)
EXTENDS Lists, FiniteSets

CONSTANTS
  Absent,
  Requests,        \* ids of sign-ins
  Kinds,           \* what is counted: "start" and "login"
  Capacity,        \* attempts of each kind in a window (5 and 20)
  WINDOW,          \* seconds (60)
  PollGap,         \* seconds between polls (2)
  MaxNow           \* bound on the clock

VARIABLES
  now,             \* journal::now
  times,           \* start_times and password_times
  \* history of this process
  ahead, back,     \* seconds the clock was moved ahead and back
  admitted,        \* moments of the attempts let in, of each kind
  asked            \* moment each sign-in was last taken to relay or provider

\* Mutated form: the subtraction wraps around.
WrappingSub(a, b) == (a - b) % 2^16

saturating_sub(a, b) == IF a >= b THEN a - b ELSE 0

\* Mutated form: an attempt is counted one second too long.
Lingering(t) == saturating_sub(now, t) <= WINDOW

\* An attempt at t still counts.
Counts(t) == saturating_sub(now, t) < WINDOW

Retained(k) == Kept(times[k], {t \in 0..MaxNow : Counts(t)})
Full(k) == Len(Retained(k)) >= Capacity[k]

\* The attempt is let in and remembered, or refused; old ones are forgotten.
limit(k) ==
  IF Full(k)
  THEN times' = [times EXCEPT ![k] = Retained(k)] /\ UNCHANGED admitted
  ELSE /\ times' = [times EXCEPT ![k] = Append(Retained(k), now)]
       /\ admitted' = [admitted EXCEPT
                         ![k] = Append(@, [ahead |-> ahead, back |-> back])]

-----------------------------------------------------------------------------
(* Properties.                                                             *)

(* limit: however the clock is moved, no more than Capacity attempts of a  *)
(* kind are let in while it moves ahead by less than a window.             *)
RateHolds ==
  \A k \in Kinds :
    Cardinality({i \in DOMAIN admitted[k] :
                   ahead - admitted[k][i].ahead < WINDOW}) <= Capacity[k]

(* limit: nobody is refused for longer than the window and the seconds the *)
(* clock was set back: then Capacity attempts were let in since.           *)
RefusalsAreEarned ==
  \A k \in Kinds :
    Full(k) => Cardinality({i \in DOMAIN admitted[k] :
                  ahead - admitted[k][i].ahead
                    < WINDOW + (back - admitted[k][i].back)}) >= Capacity[k]

(* Action::Poll: relay and provider are asked about a sign-in at most once *)
(* in PollGap seconds, however the clock is moved.                         *)
PollsAreSpaced ==
  [][\A r \in Requests :
       asked[r] # Absent /\ asked'[r] # Absent /\ asked'[r] # asked[r] =>
         asked'[r].ahead - asked[r].ahead >= PollGap]_asked
=============================================================================
