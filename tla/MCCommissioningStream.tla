----------------------- MODULE MCCommissioningStream ------------------------
(* Small instances of CommissioningStream for TLC.                          *)
EXTENDS CommissioningStream

(* bounds: a central starts with the handshake, or with bytes TLS refuses,   *)
(* and what it writes after such bytes is never read; the first to subscribe *)
(* is always the same one, and only the first link has writes pile up        *)
Orderly ==
    /\ \A l \in Links : \A i \in DOMAIN link[l].inbox :
         LET w == link[l].inbox[i]
         IN /\ w = "flight" => i = 1 /\ link[l].flights = 0
            /\ i = 1 /\ link[l].flights = 0 => w \in {"flight", "garbage", "closed"}
            /\ w = "garbage" => \A j \in DOMAIN link[l].inbox : j > i => link[l].inbox[j] = "closed"
    /\ \A l \in Links \ {1} : Len(SelectSeq(link[l].inbox, LAMBDA w : w # "closed")) <= 1
    /\ link[1].phase = "none" /\ subscriber # Nobody =>
         subscriber = CHOOSE c \in Centrals : TRUE
=============================================================================
