---------------------------- MODULE AttemptLimit ----------------------------
(***************************************************************************)
(* What the account service lets in, and how often (Core::execute in       *)
(* crates/psky/src/account.rs): sign-ins started and passwords tried in a  *)
(* window of seconds, as module Limiter counts them, sign-ins pending at a *)
(* time, and the seconds between two polls of one sign-in.  All of it is   *)
(* kept in memory, so that a restart forgets it.  Module AccountNode has   *)
(* what the admitted requests do.                                          *)
(***************************************************************************)
EXTENDS Limiter

CONSTANTS
  MAX_PENDING,     \* sign-ins pending at a time (8)
  CHALLENGE_TTL,   \* seconds a sign-in lasts (300)
  FirstNow,        \* the clock when the process is started
  MaxBack,         \* bound on how far it is set back in all
  MaxAttempts      \* bound on the attempts of a kind in one process

ASSUME LimitAssumption ==
  /\ {WINDOW, MAX_PENDING, CHALLENGE_TTL, PollGap} \subseteq Nat \ {0}
  /\ {FirstNow, MaxNow, MaxBack, MaxAttempts} \subseteq Nat
  /\ PollGap <= FirstNow /\ FirstNow <= MaxNow
  /\ "start" \in Kinds /\ Capacity \in [Kinds -> Nat \ {0}]

VARIABLE pending   \* the sign-ins under way

vars == <<now, times, pending, ahead, back, admitted, asked>>

Moment == [ahead : Nat, back : Nat]
Pending == [expires_at : Nat, last_poll : Nat, complete : BOOLEAN]

(* Every variable has its type.                                            *)
TypeOK ==
  /\ now \in 0..MaxNow /\ {ahead, back} \subseteq Nat /\ back <= MaxBack
  /\ times \in [Kinds -> Seq(0..MaxNow)]
  /\ \A k \in Kinds : Len(times[k]) <= Capacity[k]
  /\ pending \in [Requests -> Pending \cup {Absent}]
  /\ admitted \in [Kinds -> Seq(Moment)]
  /\ asked \in [Requests -> Moment \cup {Absent}]

Fresh ==
  /\ times' = [k \in Kinds |-> <<>>]
  /\ pending' = [r \in Requests |-> Absent]
  /\ ahead' = 0 /\ back' = 0
  /\ admitted' = [k \in Kinds |-> <<>>]
  /\ asked' = [r \in Requests |-> Absent]

Init ==
  /\ now = FirstNow
  /\ times = [k \in Kinds |-> <<>>]
  /\ pending = [r \in Requests |-> Absent]
  /\ ahead = 0 /\ back = 0
  /\ admitted = [k \in Kinds |-> <<>>]
  /\ asked = [r \in Requests |-> Absent]

-----------------------------------------------------------------------------
(* Core::execute.  Every request drops the sign-ins that have expired.     *)

Live == [r \in Requests |->
           IF pending[r] # Absent /\ pending[r].expires_at <= now
           THEN Absent ELSE pending[r]]

Prune == pending' = Live

\* Action::Login: the password counts whether it is right or wrong.
Try(k) ==
  /\ k # "start" /\ Len(admitted[k]) < MaxAttempts
  /\ limit(k) /\ Prune
  /\ UNCHANGED <<now, ahead, back, asked>>

\* Action::Start: the limit counts the attempt even when no slot is free or
\* the relay fails.
StartRefused ==
  /\ Len(admitted["start"]) < MaxAttempts
  /\ limit("start") /\ Prune
  /\ UNCHANGED <<now, ahead, back, asked>>

Start(r) ==
  /\ Len(admitted["start"]) < MaxAttempts
  /\ ~Full("start") /\ limit("start")
  /\ Cardinality({q \in Requests : Live[q] # Absent}) < MAX_PENDING
  /\ Live[r] = Absent
  /\ pending' = [Live EXCEPT
       ![r] = [expires_at |-> now + CHALLENGE_TTL, last_poll |-> 0,
               complete |-> FALSE]]
  /\ asked' = [asked EXCEPT ![r] = Absent]
  /\ UNCHANGED <<now, ahead, back>>

\* Action::Poll, refused: too soon, unknown or answered before.
PollRefused ==
  /\ Prune
  /\ UNCHANGED <<now, times, ahead, back, admitted, asked>>

\* Mutated form: the poll is noted only when the relay has an answer.
NoteAnswered(r, done) ==
  [Live EXCEPT ![r].complete = done,
               ![r].last_poll = IF done THEN now ELSE @]

\* The poll is noted before anyone is asked.
Noted(r, done) == [Live EXCEPT ![r].complete = done, ![r].last_poll = now]

\* Action::Poll asks the relay, or the provider once the relay has answered;
\* the sign-in stays pending, is completed, or is dropped for the wrong FID.
Poll(r) ==
  /\ Live[r] # Absent /\ ~Live[r].complete
  /\ saturating_sub(now, Live[r].last_poll) >= PollGap
  /\ \/ \E done \in BOOLEAN : pending' = Noted(r, done)
     \/ pending' = [Live EXCEPT ![r] = Absent]
  /\ asked' = [asked EXCEPT ![r] = [ahead |-> ahead, back |-> back]]
  /\ UNCHANGED <<now, times, ahead, back, admitted>>

-----------------------------------------------------------------------------
(* The clock and the process.                                              *)

\* Time passes, or the clock is corrected forwards.
Advance(d) ==
  /\ now + d <= MaxNow
  /\ now' = now + d /\ ahead' = ahead + d
  /\ UNCHANGED <<times, pending, back, admitted, asked>>

SetBack(d) ==
  /\ d <= now /\ back + d <= MaxBack
  /\ now' = now - d /\ back' = back + d
  /\ UNCHANGED <<times, pending, ahead, admitted, asked>>

\* ConfigurationGuard::apply: new settings end the sign-ins, and the attempts
\* still count.
Reconfigure ==
  /\ pending' = [r \in Requests |-> Absent]
  /\ UNCHANGED <<now, times, ahead, back, admitted, asked>>

Restart == Fresh /\ UNCHANGED now

Next ==
  \/ \E k \in Kinds : Try(k)
  \/ StartRefused \/ PollRefused
  \/ \E r \in Requests : Start(r) \/ Poll(r)
  \/ \E d \in 1..MaxNow : Advance(d) \/ SetBack(d)
  \/ Reconfigure \/ Restart

Spec == Init /\ [][Next]_vars

=============================================================================
