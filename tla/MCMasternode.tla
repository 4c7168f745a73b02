---------------------------- MODULE MCMasternode ----------------------------
(***************************************************************************)
(* Instances of Masternode: which pings and announcements are signed.      *)
(***************************************************************************)
EXTENDS Masternode

Ping(t, blk) == [sigTime |-> t, block |-> blk]
Broadcast(t, v, proto, p) ==
    [sigTime |-> t, version |-> v, protocol |-> proto, ping |-> p]

\* An old ping and a recent one.
FewPings == {Ping(8, 1), Ping(10, 1)}

\* A partial announcement with the old ping, and a later, full one with the
\* next protocol and the recent ping.
FewBroadcasts ==
    {Broadcast(8, 1, 1, Ping(8, 1)), Broadcast(10, 2, 2, Ping(10, 1))}
=============================================================================
