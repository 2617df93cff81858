--------------------------------- MODULE Salt ---------------------------------
(***************************************************************************)
(* The autopeering salt, bee-autopeering/src/salt/mod.rs.  Salt::new      *)
(* fills SALT_BY_SIZE bytes from the system CSPRNG, which may fail, and   *)
(* stamps the salt with Instant::now() + lifetime; adding a Duration to   *)
(* an Instant panics when the result is not representable.  expired()     *)
(* compares Instant::now() with that stamp.                                *)
(*                                                                         *)
(* Instants are the ticks of a monotonic clock `now`; InstantMax is the   *)
(* last representable one.  The random bytes are left out: nothing here  *)
(* depends on their value.  The holder of the salt replaces it with a     *)
(* new one whenever it likes (the autopeering code that does so is not in *)
(* this source).                                                          *)
(***************************************************************************)
EXTENDS Integers

CONSTANTS
    Lifetimes,      \* the Durations new may be called with
    InstantMax,     \* the last representable Instant
    MaxTime         \* bound on the clock, MaxTime <= InstantMax

None == [expiration_time |-> -1]

VARIABLES
    now,            \* Instant::now()
    salt,           \* the current salt, or None
    outcome,        \* the result of the last Salt::new: "ok", "error", "none"
    panicked        \* the Instant addition in Salt::new panicked

vars == <<now, salt, outcome, panicked>>

Init ==
    /\ now = 0 /\ salt = None
    /\ outcome = "none" /\ panicked = FALSE

\* Time passes.
Tick ==
    /\ now < MaxTime
    /\ now' = now + 1
    /\ UNCHANGED <<salt, outcome, panicked>>

\* Salt::new(l): the fill of the byte array fails with
\* FillingWithRandomBytesFailure, or the salt expires at now + l, which
\* panics past InstantMax.  The caller keeps its old salt unless a new
\* one is returned.
New(l) ==
    /\ ~panicked
    /\ \/ /\ outcome' = "error"
          /\ UNCHANGED <<salt, panicked>>
       \/ /\ now + l > InstantMax
          /\ panicked' = TRUE
          /\ UNCHANGED <<salt, outcome>>
       \/ /\ now + l <= InstantMax
          /\ salt' = [expiration_time |-> now + l]
          /\ outcome' = "ok"
          /\ UNCHANGED panicked
    /\ UNCHANGED now

\* Salt::expired: Instant::now() > self.expiration_time.
Expired(s) == now > s.expiration_time

Next == Tick \/ \E l \in Lifetimes : New(l)

Spec == Init /\ [][Next]_vars

=============================================================================
