--------------------------- MODULE SessionLifecycle ---------------------------
(***************************************************************************)
(* What the connection supervisor promises about its sessions (spec 4.1),  *)
(* without goroutines, frames or channels.  Sessions are created one after *)
(* the other by the owner of the connect lock; only that owner opens the  *)
(* newest session's connection, and only once; a connection is closed    *)
(* only while nobody owns the lock, and only the newest one.  A           *)
(* connection, once closed, is never opened again.  Client.tla states the *)
(* refinement mapping (c.cmux is the owner, nsess the newest session).    *)
(***************************************************************************)
EXTENDS Naturals

CONSTANTS
  Owners,   \* goroutines that may run the locked part of Connect
  NoOwner,  \* nobody owns the lock
  Slots     \* the session numbers, 0 being the state the client starts with

VARIABLES
  newest,  \* the last session created
  link,    \* link[s]: "none", "open" or "closed"
  owner    \* the owner of the connect lock, or NoOwner

vars == <<newest, link, owner>>

Init ==
  /\ newest = 0
  /\ link = [s \in Slots |-> "none"]
  /\ owner = NoOwner

\* Take the lock and create the next session.
Acquire(a) ==
  /\ owner = NoOwner
  /\ newest + 1 \in Slots
  /\ owner' = a
  /\ newest' = newest + 1
  /\ UNCHANGED link

\* The owner opens the newest session's connection.
Open(a) ==
  /\ owner = a
  /\ link[newest] = "none"
  /\ link' = [link EXCEPT ![newest] = "open"]
  /\ UNCHANGED <<newest, owner>>

\* The owner gives the lock up.
Release(a) ==
  /\ owner = a
  /\ owner' = NoOwner
  /\ UNCHANGED <<newest, link>>

\* Outside any owner's setup, the newest connection is closed.
Close ==
  /\ owner = NoOwner
  /\ link[newest] = "open"
  /\ link' = [link EXCEPT ![newest] = "closed"]
  /\ UNCHANGED <<newest, owner>>

Next ==
  \/ \E a \in Owners : Acquire(a) \/ Open(a) \/ Release(a)
  \/ Close

Spec == Init /\ [][Next]_vars

=============================================================================
