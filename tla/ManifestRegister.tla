------------------------- MODULE ManifestRegister --------------------------
(***************************************************************************)
(* What manifest.py promises of _manifest.json: a register that holds one  *)
(* whole manifest.  A write replaces it in one step and is durable by the  *)
(* time it is acknowledged; a power loss can only undo writes that were    *)
(* not; a read returns a manifest that the register held.                  *)
(***************************************************************************)
EXTENDS Naturals

CONSTANT MaxWrites   \* bound: manifests ever written

None      == 0
Manifests == 1..MaxWrites

VARIABLES
  current,   \* the manifest in the register
  survivors, \* the manifests of which a power loss leaves one
  acked,     \* the last acknowledged manifest
  reading,   \* the manifest a reader is about to be given
  seen       \* the manifest it was given last

vars == <<current, survivors, acked, reading, seen>>

Init ==
  /\ current = None
  /\ survivors = {None}
  /\ acked = None
  /\ reading = None
  /\ seen = None

(* Manifests are written in order, some of them never. *)
Publish(m) ==
  /\ m > current
  /\ \A s \in survivors : m > s
  /\ current' = m
  /\ survivors' = survivors \cup {m}
  /\ UNCHANGED <<acked, reading, seen>>

Harden ==
  /\ survivors' = {current}
  /\ UNCHANGED <<current, acked, reading, seen>>

Acknowledge ==
  /\ survivors = {current}
  /\ acked' = current
  /\ UNCHANGED <<current, survivors, reading, seen>>

StartRead ==
  /\ reading = None
  /\ reading' = current
  /\ UNCHANGED <<current, survivors, acked, seen>>

FinishRead ==
  /\ reading # None
  /\ seen' = reading
  /\ reading' = None
  /\ UNCHANGED <<current, survivors, acked>>

LosePower ==
  /\ \E s \in survivors : current' = s /\ survivors' = {s}
  /\ reading' = None
  /\ UNCHANGED <<acked, seen>>

Next == (\E m \in Manifests : Publish(m)) \/ Harden \/ Acknowledge
        \/ StartRead \/ FinishRead \/ LosePower

Spec == Init /\ [][Next]_vars
=============================================================================
