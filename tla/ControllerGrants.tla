--------------------------- MODULE ControllerGrants ---------------------------
(* What Bootstrap promises about who manages a Host: the phones that hold it  *)
(* in the current epoch.  A phone may come to hold it, a holder may be        *)
(* removed as long as another one is left, and a reset removes them all.      *)
(* BootstrapAuthority implements this; LocalApi relies on it.                 *)
EXTENDS Integers

CONSTANTS Controllers, MaxEpoch

VARIABLES epoch, holders

GrantsInit == epoch = 0 /\ holders = {}

\* A claim succeeds; a phone that holds the Host may claim again.
Grant(c) ==
    /\ holders' = holders \cup {c}
    /\ UNCHANGED epoch

\* A peer is removed, never the last one.
Revoke(c) ==
    /\ c \in holders
    /\ holders # {c}
    /\ holders' = holders \ {c}
    /\ UNCHANGED epoch

\* Physical presence starts a new epoch, in which nobody holds the Host.
Reset ==
    /\ epoch < MaxEpoch
    /\ epoch' = epoch + 1
    /\ holders' = {}

GrantsNext ==
    \/ \E c \in Controllers : Grant(c) \/ Revoke(c)
    \/ Reset

GrantsSpec == GrantsInit /\ [][GrantsNext]_<<epoch, holders>>
=============================================================================
