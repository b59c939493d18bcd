----------------------------- MODULE NonceCache -----------------------------
(***************************************************************************)
(* Replay protection of one connection (agenthub): an envelope is acted on *)
(* if its timestamp is fresh (Envelope.TimestampIsFresh) and its nonce is  *)
(* not in the cache (nonceCache.checkAndRecord), whose entries live for a  *)
(* TTL.                                                                    *)
(*                                                                         *)
(* The two checks read two clocks at two moments: freshness compares whole *)
(* seconds of the wall clock, which may be adjusted; the cache measures    *)
(* ages on the monotonic clock, a little later.                            *)
(***************************************************************************)
EXTENDS Integers

CONSTANTS
  Envelopes,   \* signed envelopes, each with its own nonce
  Stamp,       \* the timestamp in each, in seconds
  Res,         \* clock ticks per second
  Skew,        \* MaxClockSkewSecs
  TTL,         \* nonceCacheTTL, in ticks
  MaxDrift,    \* how far adjustments move the wall clock, in ticks
  MaxDelay,    \* bound on the ticks between the two checks
  MaxClock,    \* bound on the clock
  Nil

ASSUME NonceAssumption ==
  /\ Stamp \in [Envelopes -> Nat]
  /\ Res \in Nat \ {0} /\ Skew \in Nat /\ TTL \in Nat /\ MaxDrift \in Nat
  /\ MaxDelay \in Nat /\ MaxClock \in Nat
  /\ Nil \notin Envelopes /\ Nil \notin Nat

(* The TTL is wider than the freshness window, the whole second the        *)
(* comparison of seconds adds, the adjustments and the delay together.     *)
ASSUME TTLAssumption == TTL >= (2 * Skew + 1) * Res + MaxDrift + MaxDelay

VARIABLES
  clock,     \* the monotonic clock
  drift,     \* wall clock minus monotonic clock
  open,      \* does the read loop still run?
  reading,   \* the envelope between the two checks, or Nil
  since,     \* the clock when the first check was made
  seen,      \* nonceCache.seen: per nonce the time it was recorded, or Nil
  accepted   \* how often each envelope was acted on

nonceVars == <<clock, drift, open, reading, since, seen, accepted>>

NonceInit ==
  /\ clock = 0
  /\ drift = 0
  /\ open = TRUE
  /\ reading = Nil
  /\ since = 0
  /\ seen = [e \in Envelopes |-> Nil]
  /\ accepted = [e \in Envelopes |-> 0]

Distance(a, b) == IF a < b THEN b - a ELSE a - b

\* Only the past is bounded: a timestamp from the future passes.
FreshOneSided(e) == (clock + drift) \div Res - Stamp[e] <= Skew

Fresh(e) == Distance((clock + drift) \div Res, Stamp[e]) <= Skew

\* Envelope.Verify: a stale envelope ends the connection ...
Verify(e) ==
  /\ open /\ reading = Nil
  /\ IF Fresh(e) THEN reading' = e /\ since' = clock /\ UNCHANGED open
                 ELSE open' = FALSE /\ UNCHANGED <<reading, since>>
  /\ UNCHANGED <<clock, drift, seen, accepted>>

Expired(e) == seen[e] # Nil /\ clock - seen[e] >= TTL

\* ... and so does a nonce the swept cache still holds.
CheckAndRecord ==
  /\ reading # Nil
  /\ LET swept == [e \in Envelopes |-> IF Expired(e) THEN Nil ELSE seen[e]] IN
     IF swept[reading] = Nil
     THEN /\ seen' = [swept EXCEPT ![reading] = clock]
          /\ accepted' = [accepted EXCEPT ![reading] = @ + 1]
          /\ UNCHANGED open
     ELSE /\ seen' = swept
          /\ open' = FALSE
          /\ UNCHANGED accepted
  /\ reading' = Nil
  /\ UNCHANGED <<clock, drift, since>>

ClockTicks ==
  /\ clock < MaxClock
  /\ reading # Nil => clock < since + MaxDelay
  /\ clock' = clock + 1
  /\ UNCHANGED <<drift, open, reading, since, seen, accepted>>

AdjustWallClock ==
  /\ drift' \in 0 .. MaxDrift
  /\ UNCHANGED <<clock, open, reading, since, seen, accepted>>

NonceNext ==
  \/ \E e \in Envelopes : Verify(e)
  \/ CheckAndRecord
  \/ ClockTicks
  \/ AdjustWallClock

NonceSpec == NonceInit /\ [][NonceNext]_nonceVars

-----------------------------------------------------------------------------
(* Every variable keeps its type.                                          *)
NonceTypeOK ==
  /\ clock \in Nat
  /\ drift \in 0 .. MaxDrift
  /\ open \in BOOLEAN
  /\ reading \in Envelopes \cup {Nil}
  /\ since \in Nat
  /\ seen \in [Envelopes -> Nat \cup {Nil}]
  /\ accepted \in [Envelopes -> Nat]

(* The wall-clock interval in which an envelope is fresh.                  *)
Opens(e) == (Stamp[e] - Skew) * Res
Closes(e) == (Stamp[e] + Skew + 1) * Res

(* What was verified was fresh, not long ago; what was accepted was not    *)
(* accepted before its interval opened, and once the cache has forgotten   *)
(* it a TTL has passed since.                                              *)
Verified ==
  reading # Nil =>
    /\ since <= clock /\ clock <= since + MaxDelay
    /\ Opens(reading) - MaxDrift <= since /\ since < Closes(reading)

Remembered ==
  \A e \in Envelopes :
    IF seen[e] # Nil
    THEN Opens(e) - MaxDrift <= seen[e] /\ seen[e] <= clock
    ELSE accepted[e] > 0 => clock >= Opens(e) - MaxDrift + TTL

(* No envelope is acted on twice on one connection, however late it is     *)
(* delivered again and wherever the sweep and clock adjustments fall.      *)
AcceptedOnce == \A e \in Envelopes : accepted[e] <= 1

NonceIInv == NonceTypeOK /\ Verified /\ Remembered /\ AcceptedOnce
=============================================================================
